--------------------------- MODULE PackageUpdate ---------------------------
(***************************************************************************)
(* install_wheel (services/package_update.py) and the peer's side of a     *)
(* remote install (services/remote_install_script.py): what is installed   *)
(* on every Mac, what the receipts say of it, and the installers at work.  *)
(*                                                                         *)
(* An installer is a child process (pip, pipx).  If the process that       *)
(* waits for it times out or dies, the child may go on alone.              *)
(***************************************************************************)
EXTENDS Integers, FiniteSets

CONSTANTS
  Runners,    \* processes that maintain Macs, one command each
  Stray,      \* owner of an installer that nobody waits for any more
  Wheels,     \* builds of maccluster, told apart by their digest
  Version,    \* Version[w]: the version the wheel says it has; two builds may say the same
  Broken,     \* nothing that runs is installed
  None        \* no receipt, no retained wheel, nobody

ASSUME PackageAssumption ==
  /\ Stray \notin Runners /\ None \notin Runners /\ Stray # None
  /\ DOMAIN Version = Wheels
  /\ Broken \notin Wheels /\ None \notin Wheels /\ Broken # None

VARIABLES
  live,     \* live[m]: the wheel installed on the Mac, or Broken
  receipt,  \* receipt[m]: the wheel package-update.json names, or None
  store,    \* store[m]: the wheels retained for recovery
  rotten,   \* rotten[m]: those of them whose bytes have changed
  stamp,    \* stamp[m]: the wheel installed-wheel.sha256 names, or None
  jobs,     \* jobs[m]: installers at work: for whom, which wheel, and whether they keep the lock
  writer    \* ghost: writer[m], for whom the installation was last changed

packageVars == <<live, receipt, store, rotten, stamp, jobs, writer>>

Jobs == [id : Runners \cup {Stray}, wheel : Wheels, inherits : BOOLEAN]

PackageTypeOK(macs) ==
  /\ live \in [macs -> Wheels \cup {Broken}]
  /\ receipt \in [macs -> Wheels \cup {None}] /\ stamp \in [macs -> Wheels \cup {None}]
  /\ store \in [macs -> SUBSET Wheels] /\ rotten \in [macs -> SUBSET Wheels]
  /\ jobs \in [macs -> SUBSET Jobs]
  /\ writer \in [macs -> Runners \cup {Stray, None}]

\* The Macs in maintained were updated and installed remotely, the others by hand.
PackageInit(macs, maintained, first) ==
  /\ live = [m \in macs |-> first]
  /\ receipt = [m \in macs |-> IF m \in maintained THEN first ELSE None]
  /\ store = [m \in macs |-> {receipt[m]} \ {None}]
  /\ rotten = [m \in macs |-> {}]
  /\ stamp = receipt
  /\ jobs = [m \in macs |-> {}]
  /\ writer = [m \in macs |-> None]

LiveVersion(m) == IF live[m] = Broken THEN None ELSE Version[live[m]]

-----------------------------------------------------------------------------
(* Installers.                                                             *)

Job(id, wheel, inherits) == [id |-> id, wheel |-> wheel, inherits |-> inherits]

Starts(m, j) == jobs' = [jobs EXCEPT ![m] = @ \cup {j}]

Wrote(m, j, wheel) ==
  /\ live' = [live EXCEPT ![m] = wheel]
  /\ writer' = [writer EXCEPT ![m] = j.id]

(* pip takes the old version away before the new one is there.             *)
Unpacks(m, j) ==
  /\ live[m] # Broken
  /\ Wrote(m, j, Broken)
  /\ UNCHANGED <<receipt, store, rotten, stamp, jobs>>

Gone(m, j) == jobs' = [jobs EXCEPT ![m] = @ \ {j}]

Lands(m, j) == Wrote(m, j, j.wheel) /\ Gone(m, j) /\ UNCHANGED <<receipt, store, rotten, stamp>>

\* It fails with what it had begun, or puts back what was there.
Fails(m, j) == Gone(m, j) /\ UNCHANGED <<live, writer, receipt, store, rotten, stamp>>

\* The process that waits for it gave up or died: pip ended with it, or goes on alone.
Abandoned(m, j) ==
  \/ Gone(m, j)
  \/ jobs' = [jobs EXCEPT ![m] = (@ \ {j}) \cup {[j EXCEPT !.id = Stray]}]

Strays(m) == {j \in jobs[m] : j.id = Stray}

StrayWorks(m) == \E j \in Strays(m) : Unpacks(m, j) \/ Lands(m, j) \/ Fails(m, j)

-----------------------------------------------------------------------------
(* install_wheel, step by step, on the Mac m.                              *)

\* Seeded fault: the receipt alone decides that there is nothing to do.
Current_ByReceipt(m, wheel) == receipt[m] = wheel

\* Receipt, version and digest of what is installed agree with the wheel.
Current(m, wheel) == receipt[m] = wheel /\ live[m] = wheel

(* The wheel is kept in the store, in place of what rotted there.          *)
Retains(m, wheel) ==
  /\ store' = [store EXCEPT ![m] = @ \cup {wheel}]
  /\ rotten' = [rotten EXCEPT ![m] = @ \ {wheel}]

\* The retained predecessor is there but does not verify: no update at all.
Refuses(m) == receipt[m] \in store[m] \cap rotten[m]

\* The wheel to go back to: named by the receipt, retained, and installed now.
WayBack(m) == IF receipt[m] \in store[m] /\ live[m] = receipt[m] THEN receipt[m] ELSE None

Receipted(m, wheel) == receipt' = [receipt EXCEPT ![m] = wheel]

-----------------------------------------------------------------------------
(* The peer's script.                                                      *)

\* Stamp, version and digest agree: the package is unchanged.
Stamped(m, wheel) == stamp[m] = wheel /\ live[m] = wheel

\* The bytes of a retained wheel change.
Rots(m) ==
  /\ \E w \in store[m] \ rotten[m] : rotten' = [rotten EXCEPT ![m] = @ \cup {w}]
  /\ UNCHANGED <<live, receipt, store, stamp, jobs, writer>>
=============================================================================
