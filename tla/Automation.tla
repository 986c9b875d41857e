----------------------------- MODULE Automation -----------------------------
(***************************************************************************)
(* `automation run` and `update` (services/automation_service.py) with the *)
(* remote install they drive (services/remote_install_service.py): build a *)
(* wheel once, install it on the peers one after the other, stop at the    *)
(* first that fails, diagnose, and update this Mac last.  Runs of one Mac, *)
(* and the scripts that others start on it, share automation.lock.         *)
(***************************************************************************)
EXTENDS PackageUpdate

CONSTANTS
  Sites,     \* clusters: macs, home of every runner, commands, Macs maintained before, faults
  First      \* the wheel installed everywhere at first

VARIABLES
  site,      \* the cluster at hand; it never changes
  run,       \* run[r]: the run of this runner, if one is on
  scripts,   \* scripts[m]: remote-install scripts at work on the Mac
  last,      \* last[m]: whose report automation-last.json is, and its exit code
  holder,    \* ghost: holder[m], the runner that had the lock last
  faults     \* failures and interferences so far

vars == <<packageVars, site, run, scripts, last, holder, faults>>

Macs == site.macs          \* numbered in the order of cluster.toml
Home(r) == site.home[r]
Active == DOMAIN site.home \* the runners of this cluster

Command == [kind : {"automation", "update"}, no_update : BOOLEAN, sync : BOOLEAN,
            peers : SUBSET Nat]
ExitCodes == {0, 1, 3}

Idle == [pc |-> "idle", cmd |-> CHOOSE c \in site.commands : TRUE, wheel |-> None,
         todo |-> {}, at |-> 0, blocked |-> FALSE, exit |-> 0, back |-> None]

ASSUME AutomationAssumption ==
  /\ First \in Wheels
  /\ \A s \in Sites :
       /\ s.macs \subseteq Nat \ {0} /\ IsFiniteSet(s.macs) /\ s.faults \in Nat
       /\ DOMAIN s.home \subseteq Runners /\ \A r \in DOMAIN s.home : s.home[r] \in s.macs
       /\ s.commands \subseteq Command /\ s.commands # {} /\ s.maintained \subseteq s.macs

Working == {"heal", "build", "peers", "remote", "sync", "doctor", "check", "install",
            "verify", "undo", "reverify", "report"}

TypeOK ==
  /\ site \in Sites
  /\ PackageTypeOK(Macs)
  /\ DOMAIN run = Active
  /\ \A r \in Active :
       /\ run[r].pc \in Working \cup {"idle", "lock", "done"} /\ run[r].cmd \in site.commands
       /\ {run[r].wheel, run[r].back} \subseteq Wheels \cup {None}
       /\ run[r].todo \subseteq Macs /\ run[r].at \in Macs \cup {0}
       /\ run[r].blocked \in BOOLEAN /\ run[r].exit \in ExitCodes
  /\ \A m \in Macs : \A s \in scripts[m] :
       /\ s.id \in Active /\ s.wheel \in Wheels /\ s.files \in BOOLEAN
       /\ s.pc \in {"start", "verify", "install", "answer", "rest"}
  /\ last \in [Macs -> [by : Runners \cup {None}, exit : ExitCodes]]
  /\ holder \in [Macs -> Runners \cup {None}] /\ faults \in 0..site.faults

Init ==
  /\ site \in Sites
  /\ PackageInit(Macs, site.maintained, First)
  /\ run = [r \in Active |-> Idle]
  /\ scripts = [m \in Macs |-> {}]
  /\ last = [m \in Macs |-> [by |-> None, exit |-> 0]]
  /\ holder = [m \in Macs |-> None]
  /\ faults = 0

Fault == faults < site.faults /\ faults' = faults + 1

-----------------------------------------------------------------------------
(* The lock of a Mac: held by a run, by a script past its start, or by an  *)
(* installer that inherited it from a script.                              *)

\* Seeded fault: the installers of a script do not keep its lock.
KeptByJobs_Never(m) == FALSE

KeptByJobs(m) == \E j \in jobs[m] : j.inherits

Held(m) ==
  \/ \E r \in Active : Home(r) = m /\ run[r].pc \in Working
  \/ \E s \in scripts[m] : s.pc # "start"
  \/ KeptByJobs(m)

At(r, pc) == r \in Active /\ run[r].pc = pc
Go(r, pc) == run' = [run EXCEPT ![r].pc = pc]

\* One failed step fails the run, else one degraded step degrades it.
Worse(code, other) == IF 1 \in {code, other} THEN 1 ELSE IF 3 \in {code, other} THEN 3 ELSE 0

\* A step of the report with this exit code, and on to pc.
Step(r, code, pc) == run' = [run EXCEPT ![r].pc = pc, ![r].exit = Worse(@, code)]

\* Steps that only depend on what the model leaves out: ok, degraded or failed.
AnyStep(r, pc) ==
  \E code \in ExitCodes :
    /\ IF code = 0 THEN UNCHANGED faults ELSE Fault
    /\ Step(r, code, pc)

RunOnly == UNCHANGED <<packageVars, site, scripts, last, holder>>

Begin(r, cmd) ==
  /\ At(r, "idle") /\ cmd \in site.commands /\ cmd.peers \subseteq Macs \ {Home(r)}
  /\ run' = [run EXCEPT ![r].pc = "lock", ![r].cmd = cmd, ![r].todo = cmd.peers]
  /\ UNCHANGED <<packageVars, site, scripts, last, holder, faults>>

Locks(r) ==
  /\ At(r, "lock") /\ ~Held(Home(r))
  /\ Go(r, IF run[r].cmd.kind = "update" THEN "build" ELSE "heal")
  /\ holder' = [holder EXCEPT ![Home(r)] = r]
  /\ UNCHANGED <<packageVars, site, scripts, last, faults>>

\* Seeded fault: a run that did not get the lock leaves its report all the same.
Kept_Always(r) == TRUE

Kept(r) == run[r].pc = "report"

(* _finish: the receipt of the run, if it had the lock.                    *)
Finishes(r, exit) ==
  /\ last' = IF Kept(r) THEN [last EXCEPT ![Home(r)] = [by |-> r, exit |-> exit]] ELSE last
  /\ run' = [run EXCEPT ![r].pc = "done", ![r].exit = exit]

(* The lock stayed busy for a second.                                      *)
LockBusy(r) ==
  /\ At(r, "lock") /\ Held(Home(r))
  /\ Finishes(r, 1)
  /\ UNCHANGED <<packageVars, site, scripts, holder, faults>>

Reports(r) ==
  /\ At(r, "report")
  /\ Finishes(r, run[r].exit)
  /\ UNCHANGED <<packageVars, site, scripts, holder, faults>>

(* The receipt cannot be written.                                          *)
ReportLost(r) ==
  /\ At(r, "report") /\ Fault
  /\ run' = [run EXCEPT ![r].pc = "done", ![r].exit = 1]
  /\ RunOnly

-----------------------------------------------------------------------------
(* The steps of a run.                                                     *)

\* Configuration, the local heal and the heal service.
Heals(r) ==
  /\ At(r, "heal")
  /\ AnyStep(r, IF run[r].cmd.no_update THEN "peers" ELSE "build")
  /\ RunOnly

(* The configuration cannot be loaded: nothing else is done.               *)
Unconfigured(r) ==
  /\ At(r, "heal") /\ Fault
  /\ Step(r, 1, "report")
  /\ RunOnly

Builds(r) ==
  /\ At(r, "build")
  /\ \E w \in Wheels :
       run' = [run EXCEPT ![r].wheel = w,
                          ![r].pc = IF run[r].cmd.kind = "update" THEN "check" ELSE "peers"]
  /\ UNCHANGED faults
  /\ RunOnly

(* Without a wheel every install is skipped.                               *)
BuildFails(r) ==
  /\ At(r, "build") /\ Fault
  /\ Step(r, 1, IF run[r].cmd.kind = "update" THEN "report" ELSE "peers")
  /\ RunOnly

NextPeer(r, p) == p \in run[r].todo /\ \A q \in run[r].todo : p <= q

\* Seeded fault: a peer that failed does not stop the rollout.
Stopped_Never(r) == run[r].wheel = None

\* rollout_blocked, or no wheel: what is left to install is skipped.
Stopped(r) == run[r].blocked \/ run[r].wheel = None

(* --no-update: fleet heal of one peer.                                    *)
HealsPeer(r) ==
  /\ At(r, "peers") /\ run[r].cmd.no_update
  /\ \E p \in Macs : NextPeer(r, p) /\
       \E code \in ExitCodes :
         /\ IF code = 0 THEN UNCHANGED faults ELSE Fault
         /\ run' = [run EXCEPT ![r].todo = @ \ {p}, ![r].exit = Worse(@, code)]
  /\ RunOnly

SkipsPeer(r) ==
  /\ At(r, "peers") /\ ~run[r].cmd.no_update /\ Stopped(r)
  /\ \E p \in Macs : NextPeer(r, p) /\ run' = [run EXCEPT ![r].todo = @ \ {p}]
  /\ UNCHANGED faults
  /\ RunOnly

Script(r) == [id |-> r, wheel |-> run[r].wheel, files |-> TRUE, pc |-> "start"]

\* probe, mktemp, scp; then the script runs on the peer and the run waits for it.
InstallsPeer(r) ==
  /\ At(r, "peers") /\ ~run[r].cmd.no_update /\ ~Stopped(r)
  /\ \E p \in Macs :
       /\ NextPeer(r, p)
       /\ run' = [run EXCEPT ![r].todo = @ \ {p}, ![r].at = p, ![r].pc = "remote"]
       /\ scripts' = [scripts EXCEPT ![p] = @ \cup {Script(r)}]
  /\ UNCHANGED <<packageVars, site, last, holder, faults>>

\* The run's remote install of this peer is over.
PeerOver(r, code) ==
  run' = [run EXCEPT ![r].pc = "peers", ![r].at = 0, ![r].exit = Worse(@, code),
                     ![r].blocked = @ \/ code # 0]

(* The peer cannot be reached or its files not copied: nothing runs there. *)
PeerUnreached(r) ==
  /\ At(r, "peers") /\ ~run[r].cmd.no_update /\ ~Stopped(r) /\ Fault
  /\ \E p \in Macs :
       /\ NextPeer(r, p)
       /\ run' = [run EXCEPT ![r].todo = @ \ {p}, ![r].exit = 1, ![r].blocked = TRUE]
  /\ RunOnly

(* ssh times out or breaks; the script may go on.  Its directory is        *)
(* removed, if the peer can be reached now.                                *)
GivesUp(r) ==
  /\ At(r, "remote") /\ Fault
  /\ PeerOver(r, 1)
  /\ \E files \in BOOLEAN :
       scripts' = [scripts EXCEPT ![run[r].at] =
         {IF s.id = r THEN [s EXCEPT !.files = files] ELSE s : s \in @}]
  /\ UNCHANGED <<packageVars, site, last, holder>>

PeersDone(r) ==
  /\ At(r, "peers") /\ run[r].todo = {}
  /\ Go(r, IF run[r].cmd.sync /\ ~run[r].blocked THEN "sync" ELSE "doctor")
  /\ UNCHANGED faults
  /\ RunOnly

Syncs(r) == At(r, "sync") /\ AnyStep(r, "doctor") /\ RunOnly

Examines(r) ==
  /\ At(r, "doctor")
  /\ AnyStep(r, IF Stopped(r) THEN "report" ELSE "check")
  /\ RunOnly

-----------------------------------------------------------------------------
(* The update of this Mac: install_wheel.                                  *)

Mine(r) == Job(r, run[r].wheel, FALSE)
Undo(r) == Job(r, run[r].back, FALSE)

Unchanged(r) ==
  /\ At(r, "check") /\ Current(Home(r), run[r].wheel)
  /\ Retains(Home(r), run[r].wheel)
  /\ Go(r, "report")
  /\ UNCHANGED <<live, receipt, stamp, jobs, writer, site, scripts, last, holder, faults>>

(* No pipx and no venv to install to, or the wheel cannot be retained.     *)
Uninstallable(r) ==
  /\ At(r, "check") /\ Fault
  /\ Step(r, 1, "report")
  /\ RunOnly

RefusesUpdate(r) ==
  /\ At(r, "check") /\ ~Current(Home(r), run[r].wheel)
  /\ Retains(Home(r), run[r].wheel)
  /\ receipt[Home(r)] # run[r].wheel /\ Refuses(Home(r))
  /\ Step(r, 1, "report")
  /\ UNCHANGED <<live, receipt, stamp, jobs, writer, site, scripts, last, holder, faults>>

StartsUpdate(r) ==
  /\ At(r, "check") /\ ~Current(Home(r), run[r].wheel)
  /\ Retains(Home(r), run[r].wheel)
  /\ receipt[Home(r)] = run[r].wheel \/ ~Refuses(Home(r))
  /\ Starts(Home(r), Mine(r))
  /\ run' = [run EXCEPT ![r].pc = "install", ![r].back = WayBack(Home(r))]
  /\ UNCHANGED <<live, receipt, stamp, writer, site, scripts, last, holder, faults>>

Unpacking(r) ==
  /\ \/ At(r, "install") /\ Unpacks(Home(r), Mine(r))
     \/ At(r, "undo") /\ Unpacks(Home(r), Undo(r))
  /\ UNCHANGED <<site, run, scripts, last, holder, faults>>

Installed(r) ==
  /\ At(r, "install") /\ Lands(Home(r), Mine(r))
  /\ Go(r, "verify")
  /\ UNCHANGED <<site, scripts, last, holder, faults>>

\* The way back, if there is one that still verifies: its installer takes over.
GoesBack(r, others) ==
  IF run[r].back \in {None} \cup rotten[Home(r)]
  THEN Step(r, 1, "report") /\ jobs' = [jobs EXCEPT ![Home(r)] = others]
  ELSE Go(r, "undo") /\ jobs' = [jobs EXCEPT ![Home(r)] = others \cup {Undo(r)}]

InstallFails(r) ==
  /\ At(r, "install") /\ Fault
  /\ GoesBack(r, jobs[Home(r)] \ {Mine(r)})
  /\ UNCHANGED <<live, receipt, store, rotten, stamp, writer, site, scripts, last, holder>>

(* The timeout: no way back, since the installer may still be at work.     *)
TimesOut(r) ==
  /\ Fault
  /\ \/ At(r, "install") /\ Abandoned(Home(r), Mine(r))
     \/ At(r, "undo") /\ Abandoned(Home(r), Undo(r))
  /\ Step(r, 1, "report")
  /\ UNCHANGED <<live, receipt, store, rotten, stamp, writer, site, scripts, last, holder>>

Verified(r) ==
  /\ At(r, "verify") /\ LiveVersion(Home(r)) = Version[run[r].wheel]
  /\ Receipted(Home(r), run[r].wheel)
  /\ Go(r, "report")
  /\ UNCHANGED <<live, store, rotten, stamp, jobs, writer, site, scripts, last, holder, faults>>

(* The CLI does not answer, or has another version.                        *)
Unverified(r) ==
  /\ At(r, "verify")
  /\ \/ LiveVersion(Home(r)) # Version[run[r].wheel] /\ UNCHANGED faults
     \/ Fault
  /\ GoesBack(r, jobs[Home(r)])
  /\ UNCHANGED <<live, receipt, store, rotten, stamp, writer, site, scripts, last, holder>>

(* Verified, but the receipt cannot be written.                            *)
ReceiptLost(r) ==
  /\ At(r, "verify") /\ LiveVersion(Home(r)) = Version[run[r].wheel] /\ Fault
  /\ Step(r, 1, "report")
  /\ RunOnly

Undone(r) ==
  /\ At(r, "undo") /\ Lands(Home(r), Undo(r))
  /\ Go(r, "reverify")
  /\ UNCHANGED <<site, scripts, last, holder, faults>>

UndoFails(r) ==
  /\ At(r, "undo") /\ Fault /\ Fails(Home(r), Undo(r))
  /\ Step(r, 1, "report")
  /\ UNCHANGED <<site, scripts, last, holder>>

\* "previous wheel restored and verified", or "rollback failed": exit 1 both times.
Reverifies(r) ==
  /\ At(r, "reverify")
  /\ Step(r, 1, "report")
  /\ UNCHANGED faults
  /\ RunOnly

-----------------------------------------------------------------------------
(* The script on a peer.                                                   *)

Replaced(m, s, pc) == scripts' = [scripts EXCEPT ![m] = (@ \ {s}) \cup {[s EXCEPT !.pc = pc]}]

(* Its exit code reaches the run that waits for it.                        *)
Exits(m, s, code) ==
  /\ scripts' = [scripts EXCEPT ![m] = @ \ {s}]
  /\ IF At(s.id, "remote") /\ run[s.id].at = m
       THEN PeerOver(s.id, code)
       ELSE UNCHANGED run

ScriptLocks(m, s) ==
  /\ s.pc = "start" /\ ~Held(m)
  /\ Replaced(m, s, "verify")
  /\ holder' = [holder EXCEPT ![m] = None]
  /\ UNCHANGED <<packageVars, site, run, last, faults>>

\* Seeded fault: the script waits for the lock as long as it takes.
Busy_Never(m) == FALSE

\* The lock is still held after a second.
Busy(m) == Held(m)

ScriptRefused(m, s) ==
  /\ s.pc = "start" /\ Busy(m)
  /\ Exits(m, s, 1)
  /\ UNCHANGED <<packageVars, site, last, holder, faults>>

\* The wheel is gone, or its digest is wrong.
ScriptDistrusts(m, s) ==
  /\ s.pc = "verify"
  /\ IF s.files THEN Fault ELSE UNCHANGED faults
  /\ Exits(m, s, 1)
  /\ UNCHANGED <<packageVars, site, last, holder>>

ScriptSkips(m, s) ==
  /\ s.pc = "verify" /\ s.files /\ Stamped(m, s.wheel)
  /\ Replaced(m, s, "rest")
  /\ UNCHANGED <<packageVars, site, run, last, holder, faults>>

ScriptInstalls(m, s) ==
  /\ s.pc = "verify" /\ s.files /\ ~Stamped(m, s.wheel)
  /\ Starts(m, Job(s.id, s.wheel, TRUE))
  /\ Replaced(m, s, "install")
  /\ UNCHANGED <<live, receipt, store, rotten, stamp, writer, site, run, last, holder, faults>>

ScriptUnpacks(m, s) ==
  /\ s.pc = "install" /\ Unpacks(m, Job(s.id, s.wheel, TRUE))
  /\ UNCHANGED <<site, run, scripts, last, holder, faults>>

ScriptLands(m, s) ==
  /\ s.pc = "install" /\ Lands(m, Job(s.id, s.wheel, TRUE))
  /\ Replaced(m, s, "answer")
  /\ UNCHANGED <<site, run, last, holder, faults>>

ScriptFails(m, s) ==
  /\ s.pc = "install" /\ Fault
  /\ Fails(m, Job(s.id, s.wheel, TRUE))
  /\ Exits(m, s, 1)
  /\ UNCHANGED <<site, last, holder>>

(* The new CLI answers with the version it should have: it is stamped.     *)
ScriptStamps(m, s) ==
  /\ s.pc = "answer" /\ LiveVersion(m) = Version[s.wheel]
  /\ stamp' = [stamp EXCEPT ![m] = s.wheel]
  /\ Replaced(m, s, "rest")
  /\ UNCHANGED <<live, receipt, store, rotten, jobs, writer, site, run, last, holder, faults>>

ScriptMismatch(m, s) ==
  /\ s.pc = "answer" /\ LiveVersion(m) # Version[s.wheel]
  /\ Exits(m, s, 1)
  /\ UNCHANGED <<packageVars, site, last, holder, faults>>

(* The script is killed, or its output has nowhere to go.  Its installer   *)
(* may go on, and then keeps the lock.                                     *)
ScriptDies(m, s) ==
  /\ s.pc # "start" /\ Fault
  /\ Exits(m, s, 1)
  /\ IF s.pc = "install" THEN Abandoned(m, Job(s.id, s.wheel, TRUE)) ELSE UNCHANGED jobs
  /\ UNCHANGED <<live, receipt, store, rotten, stamp, writer, site, last, holder>>

(* Key, configuration, heal, service, doctor and status.                   *)
ScriptEnds(m, s) ==
  /\ s.pc = "rest"
  /\ \E code \in {0, 1} :
       /\ IF code = 0 THEN UNCHANGED faults ELSE Fault
       /\ Exits(m, s, code)
  /\ UNCHANGED <<packageVars, site, last, holder>>

-----------------------------------------------------------------------------
(* Installers that nobody waits for, and worse.                            *)

StrayAtWork(m) == StrayWorks(m) /\ UNCHANGED <<site, run, scripts, last, holder, faults>>

(* The process is killed: the kernel releases its lock, its installer may  *)
(* go on, its script on a peer goes on.                                    *)
Dies(r) ==
  /\ run[r].pc \notin {"idle", "done"} /\ Fault
  /\ run' = [run EXCEPT ![r].pc = "done", ![r].exit = 1]
  /\ \/ At(r, "install") /\ Abandoned(Home(r), Mine(r))
     \/ At(r, "undo") /\ Abandoned(Home(r), Undo(r))
     \/ run[r].pc \notin {"install", "undo"} /\ UNCHANGED jobs
  /\ UNCHANGED <<live, receipt, store, rotten, stamp, writer, site, scripts, last, holder>>

(* A Mac restarts: everything on it is gone, what is installed stays as it *)
(* is.                                                                     *)
Restarts(m) ==
  /\ Fault
  /\ jobs' = [jobs EXCEPT ![m] = {}]
  /\ scripts' = [scripts EXCEPT ![m] = {}]
  /\ run' = [r \in Active |->
       IF Home(r) = m /\ run[r].pc # "idle" THEN [run[r] EXCEPT !.pc = "done", !.exit = 1]
       ELSE IF ~At(r, "remote") \/ run[r].at # m THEN run[r]
       ELSE [run[r] EXCEPT !.pc = "peers", !.at = 0, !.exit = 1, !.blocked = TRUE]]
  /\ UNCHANGED <<live, receipt, store, rotten, stamp, writer, site, last, holder>>

WheelRots(m) ==
  /\ Fault /\ Rots(m)
  /\ UNCHANGED <<site, run, scripts, last, holder>>

ScriptStep(m, s) ==
  \/ ScriptLocks(m, s) \/ ScriptRefused(m, s) \/ ScriptDistrusts(m, s) \/ ScriptSkips(m, s)
  \/ ScriptInstalls(m, s) \/ ScriptUnpacks(m, s) \/ ScriptLands(m, s) \/ ScriptFails(m, s)
  \/ ScriptStamps(m, s) \/ ScriptMismatch(m, s) \/ ScriptDies(m, s) \/ ScriptEnds(m, s)

RunStep(r) ==
  \/ Locks(r) \/ LockBusy(r) \/ Reports(r) \/ ReportLost(r) \/ Heals(r) \/ Unconfigured(r)
  \/ Builds(r) \/ BuildFails(r) \/ HealsPeer(r) \/ SkipsPeer(r) \/ InstallsPeer(r)
  \/ PeerUnreached(r) \/ GivesUp(r) \/ PeersDone(r) \/ Syncs(r) \/ Examines(r)
  \/ Unchanged(r) \/ Uninstallable(r) \/ RefusesUpdate(r) \/ StartsUpdate(r) \/ Unpacking(r)
  \/ Installed(r) \/ InstallFails(r) \/ TimesOut(r) \/ Verified(r) \/ Unverified(r)
  \/ ReceiptLost(r) \/ Undone(r) \/ UndoFails(r) \/ Reverifies(r)

Next ==
  \/ \E r \in Active : RunStep(r) \/ Dies(r) \/ \E cmd \in site.commands : Begin(r, cmd)
  \/ \E m \in Macs :
       \/ \E s \in scripts[m] : ScriptStep(m, s)
       \/ StrayAtWork(m) \/ Restarts(m) \/ WheelRots(m)

\* Runs, scripts and installers go on, and nothing else is assumed.
Fairness ==
  /\ \A r \in Runners : WF_vars(RunStep(r))
  /\ WF_vars(\E m \in Macs : \E s \in scripts[m] : ScriptStep(m, s))
  /\ WF_vars(\E m \in Macs : StrayAtWork(m))

Spec == Init /\ [][Next]_vars /\ Fairness

-----------------------------------------------------------------------------
(* Properties.                                                             *)

(* Two installers work on one Mac at a time only if one of them is         *)
(* abandoned and did not inherit the lock (package_update.py:334): a       *)
(* script that dies leaves its lock to its installer.                      *)
OnlyOrphansOverlap ==
  \A m \in Macs : \A i, j \in jobs[m] :
    i # j => \E k \in {i, j} : k.id = Stray /\ ~k.inherits

(* One rollout leaves at most one Mac without a working CLI, whatever      *)
(* fails: the first peer that fails ends it (automation_service.py:248).   *)
BlastRadius ==
  \A r \in Active : Cardinality({m \in Macs : live[m] = Broken /\ writer[m] = r}) <= 1

(* A run about to end with exit 0 has its wheel on this Mac, and a script  *)
(* past its installation has it on its peer: neither the receipt nor the   *)
(* stamp stands for what is installed, whatever other Macs and earlier     *)
(* runs installed.  Only an abandoned installer can spoil it: the update   *)
(* of this Mac checks the version, not the digest (package_update.py:330). *)
OkMeansInstalled ==
  /\ \A r \in Active :
       At(r, "report") /\ run[r].exit = 0 /\ run[r].wheel # None =>
         live[Home(r)] = run[r].wheel \/ writer[Home(r)] = Stray
  /\ \A m \in Macs : \A s \in scripts[m] :
       s.pc = "rest" => live[m] = s.wheel \/ writer[m] = Stray

(* The report of a Mac is written by the run that had its lock last: a run *)
(* that was refused leaves the report of the other alone (:146).           *)
ReportOfHolder ==
  [][\A m \in Macs : last'[m] # last[m] => last'[m].by = holder[m]]_vars

(* Every run ends, also when two Macs maintain each other and wait for     *)
(* each other's lock.                                                      *)
RunsEnd == \A r \in Runners : []((r \in Active /\ ~At(r, "idle")) => <>At(r, "done"))
=============================================================================
