----------------------------- MODULE SyncRounds -----------------------------
(***************************************************************************)
(* Repeated syncs of one pair of Macs, with batch limits and with remote   *)
(* walks that may stop early or pass files over, and nothing else going    *)
(* wrong: what the plan of one round (services/sync_plan.py, as sync_home  *)
(* calls it) does to the two trees, and where a series of rounds ends.     *)
(***************************************************************************)
EXTENDS SyncPlan

CONSTANTS Paths, Times, Sizes, FileLimits, ByteLimits

ASSUME RoundsAssumption ==
  /\ Paths \subseteq Nat /\ IsFiniteSet(Paths)
  /\ Times \subseteq Nat /\ Sizes \subseteq Nat
  /\ FileLimits \subseteq (Nat \ {0}) \cup {NoLimit}   \* the command refuses limits below 1
  /\ ByteLimits \subseteq (Nat \ {0}) \cup {NoLimit}

VARIABLES
  local, remote,      \* the two trees, as inventories
  opts,               \* policy and batch limits of every round
  pc,                 \* "walk", "plan" or "move"
  listed,             \* the remote inventory of this round, and its complete flag
  plan                \* [push, pull, truncated] of this round

vars == <<local, remote, opts, pc, listed, plan>>

Metas == [mtime : Times, size : Sizes]
Trees == UNION {[D -> Metas] : D \in SUBSET Paths}
Options == [policy : Policies, max_files : FileLimits, max_bytes : ByteLimits]

EmptyPlan == [push |-> {}, pull |-> {}, truncated |-> FALSE]

TypeOK ==
  /\ local \in Trees /\ remote \in Trees
  /\ opts \in Options
  /\ pc \in {"walk", "plan", "move"}
  /\ listed.inv \in Trees /\ listed.complete \in BOOLEAN
  /\ plan \in [push : SUBSET Paths, pull : SUBSET Paths, truncated : BOOLEAN]

Init ==
  /\ local \in Trees /\ remote \in Trees
  /\ opts \in Options
  /\ pc = "walk"
  /\ listed = [inv |-> remote, complete |-> FALSE]   \* read only after a walk
  /\ plan = EmptyPlan

(* The remote walk lists some of the files.  Its flag says "complete" when *)
(* nothing was noticed missing: a directory or a file it could not read,   *)
(* or the budget running out in the middle of a directory, leaves the flag *)
(* up (sync_inventory_remote.py:19, 99-102).  An empty listing is never    *)
(* complete: the peer's script has always printed "# inventory done", which*)
(* counts as a sign of a hang (103-117).                                   *)
Walk(seen, complete) ==
  /\ pc = "walk"
  /\ seen = {} => ~complete
  /\ listed' = [inv |-> [r \in seen |-> remote[r]], complete |-> complete]
  /\ pc' = "plan"
  /\ UNCHANGED <<local, remote, opts, plan>>

WalkAll == Walk(DOMAIN remote, DOMAIN remote # {})
WalkSome == \E seen \in SUBSET DOMAIN remote, complete \in BOOLEAN : Walk(seen, complete)

PlanRound ==
  /\ pc = "plan"
  /\ LET push  == ToPush(local, listed.inv, opts.policy, listed.complete)
         pull  == ToPull(local, listed.inv, opts.policy)
         cands == Candidates(push, pull, local, listed.inv)
         taken == Admitted(cands, opts.max_files, opts.max_bytes)
     IN  plan' = [push |-> RelsOf(taken, "push"), pull |-> RelsOf(taken, "pull"),
                  truncated |-> taken # cands]
  /\ pc' = "move"
  /\ UNCHANGED <<local, remote, opts, listed>>

\* ditto overlays the planned files on the other tree; nothing is deleted.
Overlay(dst, src, rels) ==
  [r \in DOMAIN dst \cup rels |-> IF r \in rels THEN src[r] ELSE dst[r]]

Move ==
  /\ pc = "move"
  /\ local' = Overlay(local, remote, plan.pull)
  /\ remote' = Overlay(remote, local, plan.push)
  /\ pc' = "walk"
  /\ plan' = EmptyPlan
  /\ UNCHANGED <<opts, listed>>

Next == WalkSome \/ PlanRound \/ Move

(* Rounds are re-run by the schedule, and a walk covers the tree again and *)
(* again once the trees and the budget allow it.                           *)
Fairness == WF_vars(PlanRound) /\ WF_vars(Move) /\ SF_vars(WalkAll)

Spec == Init /\ [][Next]_vars /\ Fairness

-----------------------------------------------------------------------------
(* What a round may do to a file.                                          *)

\* The policies, as the documentation states them: may `new` replace `old`?
Prefers(policy, old, new, newIsLocal) ==
  CASE policy = "newer"         -> new.mtime > old.mtime
    [] policy = "larger"        -> new.size > old.size \/ (new.size = old.size /\ new.mtime > old.mtime)
    [] policy = "prefer-local"  -> newIsLocal
    [] policy = "prefer-remote" -> ~newIsLocal
    [] policy = "skip-conflict" -> FALSE

(* Files a round may push over without having seen them: the walk did not  *)
(* list them and still called itself complete.                             *)
Unseen == IF listed.complete THEN DOMAIN remote \ DOMAIN listed.inv ELSE {}

(* No round deletes a file, and a round replaces a file only by one that   *)
(* the conflict policy prefers to it - also when the remote walk was cut   *)
(* short and the replaced file was never listed (sync_plan.py:28-31).  The *)
(* exception is a file a walk flagged complete passed over.                *)
PolicyHonoured ==
  [][/\ DOMAIN local \subseteq DOMAIN local' /\ DOMAIN remote \subseteq DOMAIN remote'
     /\ \A r \in DOMAIN local : local'[r] # local[r] =>
           Prefers(opts.policy, local[r], local'[r], FALSE)
     /\ \A r \in DOMAIN remote \ Unseen : remote'[r] # remote[r] =>
           Prefers(opts.policy, remote[r], remote'[r], TRUE)]_vars

(* A batch limit admits at least one file of a plan that is not empty, and *)
(* no more than max_files: limits slow a sync down but cannot stop it      *)
(* (sync_plan.py:156-159).                                                 *)
BatchMakesProgress ==
  pc = "move" =>
    /\ plan.truncated => plan.push \cup plan.pull # {}
    /\ opts.max_files # NoLimit => Cardinality(plan.push) + Cardinality(plan.pull) <= opts.max_files

(* No file is carried in both directions in one round, and a remote file   *)
(* that the cut-short walk missed is not pushed over.                      *)
OneDirection ==
  pc = "move" => /\ plan.push \cap plan.pull = {}
                 /\ ~listed.complete => plan.push \subseteq DOMAIN listed.inv

\* What is left to move when every file of both trees is looked at.
Settled ==
  /\ ToPush(local, remote, opts.policy, TRUE) = {}
  /\ ToPull(local, remote, opts.policy) = {}

(* A series of rounds reaches trees with nothing left to move, whatever    *)
(* the policy and the limits, and stays there (CHANGELOG.md:362 "Batch     *)
(* limits / resume next run") - unless the peer holds no file in scope.    *)
(* The listing of such a peer is never complete, the plan takes every path *)
(* for unknown, and nothing is pushed (sync_inventory_remote.py:115).      *)
RoundsSettle == <>[](Settled \/ DOMAIN remote = {})

(* With both trees settled, both sides hold the same paths, and the same   *)
(* metadata unless the policy leaves conflicts or equal mtimes alone.      *)
SettledMeansEqual ==
  Settled =>
    /\ DOMAIN local = DOMAIN remote
    /\ \A r \in DOMAIN local :
         \/ local[r] = remote[r]
         \/ opts.policy = "skip-conflict"
         \/ opts.policy = "newer" /\ local[r].mtime = remote[r].mtime

=============================================================================
