--------------------------- MODULE ExclusiveEnsure ---------------------------
(***************************************************************************)
(* What ensure_local promises to those who run it on one Mac: it refuses,  *)
(* or waits for the mutation lock and gives up, or has the lock until it   *)
(* returns a result or raises.  A process that dies holds no lock.         *)
(* EnsureLocal implements it, the heal loop is built on it.                *)
(***************************************************************************)
CONSTANTS
  Callers,  \* processes that run ensure_local on this Mac
  Nobody    \* no holder of the lock

ASSUME EnsureAssumption == Nobody \notin Callers

VARIABLES
  lock,   \* holder of the mutation lock, or Nobody
  phase,  \* phase[c]: where the caller is
  result  \* result[c]: how its last ensure ended

ensureVars == <<lock, phase, result>>

\* exit codes 0, 3 (no link), 1 and 2; killed before it had one
Outcomes == {"ok", "degraded", "failed", "usage", "killed"}

EnsureTypeOK ==
  /\ lock \in Callers \cup {Nobody}
  /\ phase \in [Callers -> {"idle", "wait", "locked"}]
  /\ result \in [Callers -> Outcomes \cup {"none"}]

EnsureInit ==
  /\ lock = Nobody
  /\ phase = [c \in Callers |-> "idle"]
  /\ result = [c \in Callers |-> "none"]

Begin(c) ==
  /\ phase[c] = "idle"
  /\ phase' = [phase EXCEPT ![c] = "wait"]
  /\ result' = [result EXCEPT ![c] = "none"]
  /\ UNCHANGED lock

Released(c) == IF lock = c THEN Nobody ELSE lock

Ends(c, outcome) ==
  /\ phase' = [phase EXCEPT ![c] = "idle"]
  /\ result' = [result EXCEPT ![c] = outcome]
  /\ lock' = Released(c)

(* Not configured, before the lock; or the lock was busy for ten seconds.  *)
Refused(c) == phase[c] = "wait" /\ Ends(c, "usage")
LockBusy(c) == phase[c] = "wait" /\ lock # Nobody /\ Ends(c, "failed")

\* Seeded fault: an advisory lock that does not exclude.
Free_Always == TRUE

Free == lock = Nobody

Acquire(c) ==
  /\ phase[c] = "wait" /\ Free
  /\ lock' = c
  /\ phase' = [phase EXCEPT ![c] = "locked"]
  /\ UNCHANGED result

Returns(c) == phase[c] = "locked" /\ \E outcome \in Outcomes \ {"killed"} : Ends(c, outcome)

Dies(c) == Ends(c, "killed")

EnsureStep(c) == Refused(c) \/ LockBusy(c) \/ Acquire(c) \/ Returns(c)

EnsureNext == \E c \in Callers : Begin(c) \/ EnsureStep(c) \/ Dies(c)

EnsureSpec == EnsureInit /\ [][EnsureNext]_ensureVars

(* Ensures do not overlap: whoever is past the lock holds it, so none acts *)
(* on what another one is about to change (adapters/lock_file.py:1).       *)
OneMutator == \A c \in Callers : phase[c] = "locked" => lock = c
=============================================================================
