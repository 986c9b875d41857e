---------------------------- MODULE PeerTransfer ----------------------------
(***************************************************************************)
(* What the transfer stage of a sync promises for one peer, whatever       *)
(* transport carries the bytes: only planned files are written, only in    *)
(* their planned direction and only on their receiving side, and the stage *)
(* reports success only when nothing it owes is left.                      *)
(*                                                                         *)
(* A file is reduced to the version it holds; 0 is a torn file, the        *)
(* unfinished copy that a broken in-place transfer leaves behind.          *)
(***************************************************************************)
EXTENDS Naturals

CONSTANTS
  Fragile,      \* files written in place, which a broken copy can tear
  Excusable     \* files that some transport may leave out without an error

VARIABLES
  held,         \* held[side][path]: the version a tree holds
  planned,      \* [push, pull]: the plan the stage was given
  owed,         \* [push, pull]: planned files neither delivered nor excused
  dry,          \* a dry run: plan and report only
  verdict       \* "running", "ok" or "failed"

vars == <<held, planned, owed, dry, verdict>>

Directions == {"push", "pull"}
Src(dir) == IF dir = "push" THEN "local" ELSE "remote"
Dst(dir) == IF dir = "push" THEN "remote" ELSE "local"
Torn == 0

Init ==
  /\ planned.push \subseteq DOMAIN held.local /\ planned.pull \subseteq DOMAIN held.remote
  /\ owed = planned
  /\ dry \in BOOLEAN
  /\ verdict = "running"

\* The receiving tree before and after a step with the file r in it.
Kept(old, new, r) == r \in DOMAIN old /\ new[r] = old[r]
Whole(dir, new, r) == r \in DOMAIN new /\ new[r] = held[Src(dir)][r]

(* Planned files arrive, whole or - the fragile ones - torn.  A file stops *)
(* being owed when it arrives whole or when it is excused.                 *)
Progress(dir) ==
  LET old == held[Dst(dir)]
      new == held'[Dst(dir)]
  IN  /\ verdict = "running"
      /\ held'[Src(dir)] = held[Src(dir)]
      /\ DOMAIN old \subseteq DOMAIN new
      /\ \A r \in DOMAIN new :
           \/ Kept(old, new, r)
           \/ /\ r \in planned[dir] /\ ~dry
              /\ \/ Whole(dir, new, r) /\ r \notin owed'[dir]
                 \/ new[r] = Torn /\ r \in Fragile
      /\ \E rest \in SUBSET owed[dir] : owed' = [owed EXCEPT ![dir] = rest]
      /\ \A r \in owed[dir] \ owed'[dir] : Whole(dir, new, r) \/ r \in Excusable
      /\ UNCHANGED <<planned, dry, verdict>>

Finish ==
  /\ verdict = "running"
  /\ verdict' \in {"ok", "failed"}
  /\ verdict' = "ok" /\ ~dry => owed.push \cup owed.pull \subseteq Fragile
  /\ UNCHANGED <<held, planned, owed, dry>>

Next == (\E dir \in Directions : Progress(dir)) \/ Finish

Spec == Init /\ [][Next]_vars
=============================================================================
