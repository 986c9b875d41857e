-------------------------- MODULE AutomationProofs --------------------------
(* What unattended maintenance and the update of the package promise, for  *)
(* any number of Macs, runs, wheels and faults: who may change a Mac, who  *)
(* writes its report, how much of the cluster one rollout can break, and   *)
(* that exit 0 stands for an installed wheel.                              *)
EXTENDS Automation, FiniteSetTheorems, TLAPS

-----------------------------------------------------------------------------
(* Types, in a form the steps can be proved from.                          *)

PCs == Working \cup {"idle", "lock", "done"}

Runs == [pc : PCs, cmd : site.commands, wheel : Wheels \cup {None}, todo : SUBSET Macs,
         at : Macs \cup {0}, blocked : BOOLEAN, exit : ExitCodes, back : Wheels \cup {None}]

Scripts == [id : Active, wheel : Wheels, files : BOOLEAN,
            pc : {"start", "verify", "install", "answer", "rest"}]

TypeInv ==
  /\ site \in Sites
  /\ PackageTypeOK(Macs)
  /\ run \in [Active -> Runs]
  /\ scripts \in [Macs -> SUBSET Scripts]
  /\ last \in [Macs -> [by : Runners \cup {None}, exit : ExitCodes]]
  /\ holder \in [Macs -> Runners \cup {None}]
  /\ faults \in 0..site.faults

\* Where no peer has failed yet.
Fresh == {"idle", "lock", "heal", "build", "remote", "check", "install", "verify", "undo",
          "reverify"}

-----------------------------------------------------------------------------
(* What a run knows of itself.                                             *)

Sound(x, home) ==
  /\ x.pc \in Fresh => ~x.blocked
  /\ x.blocked => x.exit # 0
  /\ x.pc \in {"check", "install", "verify"} => x.wheel \in Wheels
  /\ x.pc = "undo" => x.back \in Wheels
  /\ home \notin x.todo

RunsSound == \A r \in Active : Sound(run[r], Home(r))

-----------------------------------------------------------------------------
(* The lock of a Mac, and who waits for its installers.                    *)

\* An installer that keeps the lock when its script dies.
Keeper(j) == j.inherits

\* The installer that the run r, now x, waits for; that the script s waits for.
OwnJob(x, r, j) ==
  \/ x.pc = "install" /\ j = Job(r, x.wheel, FALSE)
  \/ x.pc = "undo" /\ j = Job(r, x.back, FALSE)

ScriptJob(s, j) == s.pc = "install" /\ j = Job(s.id, s.wheel, TRUE)

\* A run at work has the lock of its Mac, against scripts and the installers they left;
\* of these at most one is past the lock, with its own installer if it has one.
LockInv ==
  /\ \A r \in Active : run[r].pc \in Working =>
       /\ holder[Home(r)] = r
       /\ \A s \in scripts[Home(r)] : s.pc = "start"
       /\ \A j \in jobs[Home(r)] : ~Keeper(j)
  /\ \A m \in Macs :
       /\ \A s, t \in scripts[m] : s.pc # "start" /\ t.pc # "start" => s = t
       /\ \A i, j \in jobs[m] : Keeper(i) /\ Keeper(j) => i = j
       /\ \A j \in jobs[m] : \A s \in scripts[m] :
            Keeper(j) /\ s.pc # "start" => ScriptJob(s, j)

\* An installer is abandoned, or a run or a script waits for it.
JobInv ==
  \A m \in Macs : \A j \in jobs[m] :
    \/ j.id = Stray
    \/ j.id \in Active /\ Home(j.id) = m /\ OwnJob(run[j.id], j.id, j)
    \/ \E s \in scripts[m] : ScriptJob(s, j)

-----------------------------------------------------------------------------
(* What a rollout may have broken.                                         *)

Local == {"install", "verify", "undo", "reverify", "report", "done"}

\* The run r has a broken CLI on m to answer for, or may still break it.
Touches(r, m) == (live[m] = Broken /\ writer[m] = r) \/ \E s \in scripts[m] : s.id = r

\* The run is at that peer now, or will not go to another.
Parted(x, m) == (x.pc = "remote" /\ x.at = m) \/ x.blocked \/ x.pc = "done"

\* A run touches at most one Mac: its own last of all, a peer only as the last one.
FootInv ==
  /\ \A r \in Active : \A m \in Macs : Touches(r, m) =>
       /\ \A n \in Macs : Touches(r, n) => n = m
       /\ m = Home(r) => run[r].pc \in Local
       /\ m # Home(r) => Parted(run[r], m)
  /\ \A m \in Macs : \A s, t \in scripts[m] : s.id = t.id => s = t

-----------------------------------------------------------------------------
(* What exit 0 stands for.                                                 *)

Proven(x) == x.pc = "verify" \/ (x.pc = "report" /\ x.exit = 0 /\ x.wheel # None)

Has(m, wheel) == live[m] = wheel \/ writer[m] = Stray

DoneInv ==
  /\ \A r \in Active : Proven(run[r]) => Has(Home(r), run[r].wheel)
  /\ \A m \in Macs : \A s \in scripts[m] : s.pc \in {"answer", "rest"} => Has(m, s.wheel)

IInv == TypeInv /\ RunsSound /\ LockInv /\ JobInv /\ FootInv /\ DoneInv

-----------------------------------------------------------------------------
(* Facts about the site, installers and how a run moves.                   *)

LEMMA SiteFacts ==
  ASSUME TypeInv
  PROVE  /\ Macs \subseteq Nat \ {0} /\ IsFiniteSet(Macs)
         /\ Active \subseteq Runners /\ \A r \in Active : Home(r) \in Macs
         /\ site.commands \subseteq Command /\ Idle.cmd \in site.commands
         /\ site.maintained \subseteq Macs /\ First \in Wheels
  BY AutomationAssumption DEF TypeInv, Macs, Active, Home, Idle

LEMMA JobFacts ==
  /\ \A x, r, j : OwnJob(x, r, j) => x.pc \in {"install", "undo"} /\ j.id = r /\ ~Keeper(j)
  /\ \A s, j : ScriptJob(s, j) => s.pc = "install" /\ j.id = s.id /\ Keeper(j)
  /\ \A x, r, k, l : OwnJob(x, r, k) /\ OwnJob(x, r, l) => k = l
<1>1. \A x, r, j : OwnJob(x, r, j) => x.pc \in {"install", "undo"} /\ j.id = r /\ ~Keeper(j)
  BY DEF OwnJob, Job, Keeper
<1>2. \A s, j : ScriptJob(s, j) => s.pc = "install" /\ j.id = s.id /\ Keeper(j)
  BY DEF ScriptJob, Job, Keeper
<1>3. ASSUME NEW x, NEW r, NEW k, NEW l, OwnJob(x, r, k), OwnJob(x, r, l)
      PROVE  k = l
  <2>1. CASE x.pc = "install"
    <3>1. x.pc # "undo"
      BY <2>1
    <3>2. k = Job(r, x.wheel, FALSE) /\ l = Job(r, x.wheel, FALSE)
      BY <1>3, <3>1, Zenon DEF OwnJob
    <3> QED BY <3>2, Zenon
  <2>2. CASE x.pc # "install"
    <3>1. k = Job(r, x.back, FALSE) /\ l = Job(r, x.back, FALSE)
      BY <1>3, <2>2, Zenon DEF OwnJob
    <3> QED BY <3>1, Zenon
  <2> QED BY <2>1, <2>2
<1> QED BY <1>1, <1>2, <1>3

\* Only the run r moves (OnlyRun); of it, only where it is, its code and its block (Others).
OnlyRun(r) == r \in Active /\ run' = [run EXCEPT ![r] = run'[r]] /\ run'[r] \in Runs

Others(r) ==
  /\ run'[r].cmd = run[r].cmd /\ run'[r].wheel = run[r].wheel /\ run'[r].todo = run[r].todo
  /\ run'[r].at = run[r].at /\ run'[r].back = run[r].back

LEMMA Goes ==
  ASSUME TypeInv, NEW r \in Active, NEW pc \in PCs, Go(r, pc)
  PROVE  /\ OnlyRun(r) /\ Others(r) /\ run'[r].pc = pc /\ run'[r].exit = run[r].exit
         /\ run'[r].blocked = run[r].blocked
  BY DEF TypeInv, Go, OnlyRun, Others, Runs

LEMMA Steps ==
  ASSUME TypeInv, NEW r \in Active, NEW code \in ExitCodes, NEW pc \in PCs, Step(r, code, pc)
  PROVE  /\ OnlyRun(r) /\ Others(r) /\ run'[r].pc = pc
         /\ run'[r].exit = Worse(run[r].exit, code) /\ run'[r].blocked = run[r].blocked
         /\ run'[r].exit = 0 => run[r].exit = 0 /\ code = 0
<1>1. Worse(run[r].exit, code) \in ExitCodes
  BY DEF TypeInv, Runs, Worse, ExitCodes
<1>2. Worse(run[r].exit, code) = 0 => run[r].exit = 0 /\ code = 0
  BY DEF TypeInv, Runs, Worse, ExitCodes
<1>3. /\ OnlyRun(r) /\ Others(r) /\ run'[r].pc = pc
      /\ run'[r].exit = Worse(run[r].exit, code) /\ run'[r].blocked = run[r].blocked
  BY <1>1 DEF TypeInv, Step, OnlyRun, Others, Runs
<1> QED BY <1>2, <1>3

(* A run that keeps its Mac as it is.                                      *)
LEMMA RunKeeps ==
  ASSUME TypeInv, RunsSound, FootInv, DoneInv, NEW r \in Active, OnlyRun(r),
         UNCHANGED <<site, scripts, live, writer>>,
         Sound(run'[r], Home(r)), run[r].pc # "done",
         run[r].blocked \/ run[r].pc = "remote" => run'[r].blocked \/ run'[r].pc = "done",
         run[r].pc \in Local => run'[r].pc \in Local,
         Proven(run'[r]) => Has(Home(r), run'[r].wheel)
  PROVE  RunsSound' /\ FootInv' /\ DoneInv'
<1>0. /\ Active' = Active /\ Macs' = Macs /\ \A q \in Active : q # r => run'[q] = run[q]
      /\ \A q : Home(q)' = Home(q)
      /\ \A q, m : Touches(q, m)' = Touches(q, m)
      /\ \A m, w : Has(m, w)' = Has(m, w)
  BY DEF TypeInv, OnlyRun, Active, Macs, Home, Touches, Has
<1>1. RunsSound'
  BY <1>0 DEF RunsSound
<1>2. FootInv'
  BY <1>0 DEF FootInv, Parted
<1>3. DoneInv'
  BY <1>0 DEF DoneInv
<1> QED BY <1>1, <1>2, <1>3

(* A run that takes no lock and has no installer.                          *)
LEMMA RunKeepsLock ==
  ASSUME TypeInv, LockInv, JobInv, NEW r \in Active, OnlyRun(r),
         UNCHANGED <<site, scripts, jobs, holder>>,
         run[r].pc \notin {"install", "undo"},
         run'[r].pc \in Working => run[r].pc \in Working
  PROVE  LockInv' /\ JobInv'
<1>0. /\ Active' = Active /\ Macs' = Macs /\ \A q \in Active : q # r => run'[q] = run[q]
      /\ \A q : Home(q)' = Home(q)
  BY DEF TypeInv, OnlyRun, Active, Macs, Home
<1>1. LockInv'
  BY <1>0 DEF LockInv
<1>2. JobInv'
  <2>1. \A q \in Active : run[q].pc \in {"install", "undo"} => run'[q] = run[q]
    BY <1>0
  <2>2. ASSUME NEW m \in Macs, NEW j \in jobs[m]
        PROVE  \/ j.id = Stray
               \/ j.id \in Active /\ Home(j.id) = m /\ OwnJob(run'[j.id], j.id, j)
               \/ \E s \in scripts[m] : ScriptJob(s, j)
    BY <2>1, JobFacts DEF JobInv
  <2> QED BY <1>0, <2>2 DEF JobInv
<1> QED BY <1>1, <1>2

(* A run at work with its own installer.                                   *)
LEMMA RunInstalls ==
  ASSUME TypeInv, LockInv, JobInv, NEW r \in Active, OnlyRun(r),
         UNCHANGED <<site, scripts, holder>>, run[r].pc \in Working,
         NEW new, jobs' = [jobs EXCEPT ![Home(r)] = new],
         \A j \in new : ~Keeper(j) /\ (j.id = Stray \/ OwnJob(run'[r], r, j))
  PROVE  LockInv' /\ JobInv'
<1>0. /\ Active' = Active /\ Macs' = Macs /\ \A q \in Active : q # r => run'[q] = run[q]
      /\ \A q : Home(q)' = Home(q)
      /\ \A m \in Macs : m # Home(r) => jobs'[m] = jobs[m]
      /\ jobs'[Home(r)] = new /\ Home(r) \in Macs /\ scripts' = scripts /\ holder' = holder
  BY SiteFacts DEF TypeInv, PackageTypeOK, OnlyRun, Active, Macs, Home
<1>1. LockInv'
  <2>1. ASSUME NEW q \in Active, run'[q].pc \in Working
        PROVE  /\ holder[Home(q)] = q
               /\ \A s \in scripts[Home(q)] : s.pc = "start"
               /\ \A j \in jobs'[Home(q)] : ~Keeper(j)
    <3>1. run[q].pc \in Working
      BY <1>0, <2>1
    <3>2. CASE Home(q) = Home(r)
      BY <1>0, <3>1, <3>2 DEF LockInv
    <3>3. CASE Home(q) # Home(r)
      BY <1>0, <3>1, <3>3, SiteFacts DEF LockInv
    <3> QED BY <3>2, <3>3
  <2>2. ASSUME NEW m \in Macs
        PROVE  /\ \A s, t \in scripts[m] : s.pc # "start" /\ t.pc # "start" => s = t
               /\ \A i, j \in jobs'[m] : Keeper(i) /\ Keeper(j) => i = j
               /\ \A j \in jobs'[m] : \A s \in scripts[m] :
                    Keeper(j) /\ s.pc # "start" => ScriptJob(s, j)
    <3>1. CASE m = Home(r)
      BY <1>0, <3>1 DEF LockInv
    <3>2. CASE m # Home(r)
      BY <1>0, <3>2 DEF LockInv
    <3> QED BY <3>1, <3>2
  <2> QED BY <1>0, <2>1, <2>2 DEF LockInv
<1>2. JobInv'
  <2>1. ASSUME NEW m \in Macs, NEW j \in jobs'[m]
        PROVE  \/ j.id = Stray
               \/ j.id \in Active /\ Home(j.id) = m /\ OwnJob(run'[j.id], j.id, j)
               \/ \E s \in scripts[m] : ScriptJob(s, j)
    <3>1. CASE m = Home(r)
      BY <1>0, <3>1, JobFacts
    <3>2. CASE m # Home(r)
      BY <1>0, <3>2 DEF JobInv
    <3> QED BY <3>1, <3>2
  <2> QED BY <1>0, <2>1 DEF JobInv
<1> QED BY <1>1, <1>2

(* A script's installer or the run that uses its own changes this Mac.     *)
LEMMA WriteKeeps ==
  ASSUME TypeInv, FootInv, DoneInv, NEW m \in Macs, NEW j, NEW wheel \in Wheels \cup {Broken},
         UNCHANGED <<site, scripts, run>>, Wrote(m, j, wheel),
         j.id = Stray \/ wheel # Broken \/
           /\ j.id \in Active
           /\ \/ \E s \in scripts[m] : s.id = j.id
              \/ Home(j.id) = m /\ run[j.id].pc \in {"install", "undo"} /\ ~run[j.id].blocked,
         j.id # Stray =>
           /\ \A r \in Active : Proven(run[r]) => Home(r) # m
           /\ \A s \in scripts[m] : s.pc \notin {"answer", "rest"}
  PROVE  FootInv' /\ DoneInv'
<1>0. /\ Active' = Active /\ Macs' = Macs /\ \A q : Home(q)' = Home(q)
      /\ live'[m] = wheel /\ writer'[m] = j.id
      /\ \A n \in Macs : n # m => live'[n] = live[n] /\ writer'[n] = writer[n]
      /\ Broken \notin Wheels /\ Stray \notin Active
  BY SiteFacts, PackageAssumption DEF TypeInv, PackageTypeOK, Wrote, Active, Macs, Home
<1>1. \A r \in Active : \A n \in Macs :
        Touches(r, n)' => Touches(r, n) \/ (n = m /\ j.id = r /\ wheel = Broken)
  BY <1>0 DEF Touches
<1>2. \A r \in Active : Touches(r, m)' /\ ~Touches(r, m) =>
        Home(r) = m /\ run[r].pc \in {"install", "undo"} /\ ~run[r].blocked
  BY <1>0, <1>1 DEF Touches
<1>3. \A r \in Active : Touches(r, m)' /\ ~Touches(r, m) => \A n \in Macs : ~Touches(r, n)
  <2>1. ASSUME NEW r \in Active, Touches(r, m)' /\ ~Touches(r, m), NEW n \in Macs
        PROVE  ~Touches(r, n)
    <3>1. n # Home(r) => ~Parted(run[r], n)
      BY <1>2, <2>1 DEF Parted
    <3> QED BY <1>2, <2>1, <3>1, Zenon DEF FootInv
  <2> QED BY <2>1
<1>4. FootInv'
  <2>1. ASSUME NEW r \in Active, NEW n \in Macs, Touches(r, n)'
        PROVE  /\ \A k \in Macs : Touches(r, k)' => k = n
               /\ n = Home(r) => run[r].pc \in Local
               /\ n # Home(r) => Parted(run[r], n)
    <3>1. CASE Touches(r, m)' /\ ~Touches(r, m)
      BY <1>0, <1>1, <1>2, <1>3, <2>1, <3>1 DEF Local
    <3>2. CASE ~(Touches(r, m)' /\ ~Touches(r, m))
      <4>1. \A k \in Macs : Touches(r, k)' => Touches(r, k)
        BY <1>1, <3>2
      <4> QED BY <2>1, <4>1 DEF FootInv
    <3> QED BY <3>1, <3>2
  <2> QED BY <1>0, <2>1 DEF FootInv
<1>5. DoneInv'
  <2>1. ASSUME NEW n \in Macs, NEW w, Has(n, w), n # m \/ j.id = Stray
        PROVE  live'[n] = w \/ writer'[n] = Stray
    BY <1>0, <2>1 DEF Has
  <2>2. ASSUME NEW r \in Active, Proven(run[r])
        PROVE  live'[Home(r)] = run[r].wheel \/ writer'[Home(r)] = Stray
    <3>1. Home(r) \in Macs /\ Has(Home(r), run[r].wheel) /\ (Home(r) # m \/ j.id = Stray)
      BY <2>2, SiteFacts DEF DoneInv
    <3> QED BY <2>1, <3>1
  <2>3. ASSUME NEW n \in Macs, NEW s \in scripts[n], s.pc \in {"answer", "rest"}
        PROVE  live'[n] = s.wheel \/ writer'[n] = Stray
    <3>1. Has(n, s.wheel) /\ (n # m \/ j.id = Stray)
      BY <2>3 DEF DoneInv
    <3> QED BY <2>1, <3>1
  <2> QED BY <1>0, <2>2, <2>3 DEF DoneInv, Has
<1> QED BY <1>4, <1>5

(* A script exits, with its installer.                                     *)
LEMMA ExitKeeps ==
  ASSUME TypeInv, RunsSound, FootInv, DoneInv, NEW m \in Macs, NEW s \in scripts[m],
         NEW code \in {0, 1}, Exits(m, s, code), UNCHANGED <<site, live, writer>>,
         code = 0 => s.pc = "rest"
  PROVE  RunsSound' /\ FootInv' /\ DoneInv' /\ run' \in [Active -> Runs]
<1> DEFINE waits == run[s.id].pc = "remote" /\ run[s.id].at = m
           ended == run'[s.id]
<1>0. /\ Active' = Active /\ Macs' = Macs /\ \A q : Home(q)' = Home(q)
      /\ s \in Scripts /\ s.id \in Active /\ s.wheel \in Wheels
      /\ scripts'[m] = scripts[m] \ {s}
      /\ \A n \in Macs : n # m => scripts'[n] = scripts[n]
      /\ Broken \notin Wheels /\ Stray \notin Active
      /\ \A n, w : Has(n, w)' = Has(n, w)
  BY SiteFacts, PackageAssumption DEF TypeInv, Exits, Active, Macs, Home, Scripts, Has
<1>1. CASE ~waits
  <2>1. run' = run
    BY <1>1 DEF Exits, At
  <2>2. \A q \in Active : \A n \in Macs : Touches(q, n)' => Touches(q, n)
    BY <1>0 DEF Touches
  <2>3. RunsSound' /\ FootInv'
    BY <1>0, <2>1, <2>2 DEF RunsSound, FootInv
  <2>4. DoneInv'
    BY <1>0, <2>1 DEF DoneInv
  <2> QED BY <2>1, <2>3, <2>4 DEF TypeInv
<1>2. CASE waits
  <2>0. PeerOver(s.id, code)
    BY <1>0, <1>2 DEF Exits, At
  <2> DEFINE failed == run[s.id].blocked \/ code # 0
  <2>1. /\ \A q \in Active : q # s.id => run'[q] = run[q]
        /\ ended.pc = "peers" /\ ended.wheel = run[s.id].wheel
        /\ ended.todo = run[s.id].todo
        /\ ended.exit = Worse(run[s.id].exit, code)
    BY <1>0, <2>0 DEF PeerOver, TypeInv, Runs
  <2>2. ended.blocked = failed
    BY <1>0, <2>0 DEF PeerOver, TypeInv, Runs
  <2>3. run' \in [Active -> Runs]
    <3>1. failed \in BOOLEAN
      BY <1>0 DEF TypeInv, Runs
    <3>2. Worse(run[s.id].exit, code) \in ExitCodes
      BY <1>0 DEF TypeInv, Runs, ExitCodes, Worse
    <3> DEFINE x == run[s.id]
               y == [x EXCEPT !.pc = "peers", !.at = 0, !.exit = Worse(@, code),
                              !.blocked = failed]
    <3>3. run' = [run EXCEPT ![s.id] = y]
      BY <2>0 DEF PeerOver
    <3>4. x \in Runs
      BY <1>0 DEF TypeInv
    <3> HIDE DEF failed
    <3>5. y \in Runs
      BY <3>1, <3>2, <3>4 DEF Runs, PCs, Working
    <3> HIDE DEF y
    <3> QED BY <1>0, <3>3, <3>5 DEF TypeInv
  <2>4. RunsSound'
    <3>1. run[s.id].exit \in ExitCodes /\ (run[s.id].blocked => run[s.id].exit # 0)
      BY <1>0 DEF TypeInv, Runs, RunsSound, Sound
    <3>2. Sound(ended, Home(s.id))
      <4>1. ended.exit # 0 \/ (code = 0 /\ run[s.id].exit = 0)
        BY <2>1, <3>1 DEF Worse, ExitCodes
      <4>2. failed => ended.exit # 0
        BY <3>1, <4>1
      <4>3. ended.blocked => ended.exit # 0
        BY <2>2, <4>2
      <4>4. Home(s.id) \notin ended.todo
        BY <1>0, <2>1 DEF RunsSound, Sound
      <4> QED BY <2>1, <4>3, <4>4 DEF Sound, Fresh
    <3> QED BY <1>0, <2>1, <3>2 DEF RunsSound
  <2>5. FootInv'
    <3>1. \A q \in Active : \A n \in Macs : Touches(q, n)' => Touches(q, n)
      BY <1>0 DEF Touches
    <3>2. Touches(s.id, m)
      BY DEF Touches
    <3>3. m # Home(s.id) /\ \A n \in Macs : Touches(s.id, n) => n = m
      BY <1>0, <1>2, <3>2 DEF FootInv, Local
    <3>4. code = 0 => ~Touches(s.id, m)'
      BY <1>0 DEF FootInv, DoneInv, Has, Touches
    <3>5. \A n \in Macs : Touches(s.id, n)' => n = m /\ ended.blocked
      <4>1. code # 0 => ended.blocked
        BY <2>2
      <4>2. ASSUME NEW n \in Macs, Touches(s.id, n)'
            PROVE  n = m /\ code # 0
        BY <1>0, <3>1, <3>3, <3>4, <4>2
      <4> QED BY <4>1, <4>2
    <3>6. ASSUME NEW q \in Active, NEW n \in Macs, Touches(q, n)'
          PROVE  /\ \A k \in Macs : Touches(q, k)' => k = n
                 /\ n = Home(q) => run'[q].pc \in Local
                 /\ n # Home(q) => Parted(run'[q], n)
      <4>1. CASE q = s.id
        BY <3>3, <3>5, <3>6, <4>1 DEF Parted
      <4>2. CASE q # s.id
        BY <2>1, <3>1, <3>6, <4>2 DEF FootInv
      <4> QED BY <4>1, <4>2
    <3> QED BY <1>0, <3>6 DEF FootInv
  <2>6. DoneInv'
    BY <1>0, <2>1 DEF DoneInv, Proven
  <2> QED BY <2>3, <2>4, <2>5, <2>6
<1> QED BY <1>1, <1>2

LEMMA ExitKeepsLock ==
  ASSUME TypeInv, LockInv, JobInv, NEW m \in Macs, NEW s \in scripts[m],
         NEW code \in {0, 1}, Exits(m, s, code), UNCHANGED <<site, holder>>,
         \/ s.pc # "install" /\ jobs' = jobs
         \/ s.pc = "install" /\ Abandoned(m, Job(s.id, s.wheel, TRUE))
  PROVE  LockInv' /\ JobInv'
<1> DEFINE own == Job(s.id, s.wheel, TRUE)
           left == [own EXCEPT !.id = Stray]
<1>0. /\ Active' = Active /\ Macs' = Macs /\ \A q : Home(q)' = Home(q)
      /\ scripts'[m] = scripts[m] \ {s} /\ holder' = holder
      /\ \A n \in Macs : n # m => scripts'[n] = scripts[n] /\ jobs'[n] = jobs[n]
      /\ \A r \in Active : Home(r) \in Macs
  BY SiteFacts DEF TypeInv, PackageTypeOK, Exits, Active, Macs, Home, Abandoned, Gone
<1>1. \A q \in Active : run'[q] = run[q] \/ (run[q].pc = "remote" /\ run'[q].pc = "peers")
  BY DEF Exits, At, PeerOver, TypeInv, Runs
<1>2. /\ \A q \in Active : run'[q].pc \in Working => run[q].pc \in Working
      /\ \A q \in Active : \A j : OwnJob(run[q], q, j) => OwnJob(run'[q], q, j)
  BY <1>1, JobFacts DEF Working
<1>3. /\ s.pc # "install" => jobs'[m] = jobs[m]
      /\ s.pc = "install" => jobs'[m] \subseteq (jobs[m] \ {own}) \cup {left}
  BY DEF TypeInv, PackageTypeOK, Abandoned, Gone
<1>4. left.id = Stray
  BY DEF Job
<1>5. LockInv'
  <2>1. ASSUME NEW q \in Active, run'[q].pc \in Working
        PROVE  /\ holder[Home(q)] = q
               /\ \A t \in scripts'[Home(q)] : t.pc = "start"
               /\ \A j \in jobs'[Home(q)] : ~Keeper(j)
    <3>1. /\ holder[Home(q)] = q
          /\ \A t \in scripts[Home(q)] : t.pc = "start"
          /\ \A j \in jobs[Home(q)] : ~Keeper(j)
      BY <1>2, <2>1 DEF LockInv
    <3>2. CASE Home(q) = m
      BY <1>0, <1>3, <3>1, <3>2
    <3>3. CASE Home(q) # m
      BY <1>0, <3>1, <3>3
    <3> QED BY <3>2, <3>3
  <2>2. ASSUME NEW n \in Macs
        PROVE  /\ \A t, u \in scripts'[n] : t.pc # "start" /\ u.pc # "start" => t = u
               /\ \A i, j \in jobs'[n] : Keeper(i) /\ Keeper(j) => i = j
               /\ \A j \in jobs'[n] : \A t \in scripts'[n] :
                    Keeper(j) /\ t.pc # "start" => ScriptJob(t, j)
    <3>1. CASE n # m
      BY <1>0, <3>1 DEF LockInv
    <3>2. CASE n = m /\ s.pc # "install"
      BY <1>0, <1>3, <3>2 DEF LockInv
    <3>3. CASE n = m /\ s.pc = "install"
      <4>1. \A t \in scripts'[m] : t.pc = "start"
        BY <1>0, <3>3 DEF LockInv
      <4>2. \A j \in jobs[m] : Keeper(j) => j = own
        <5>1. s.pc # "start"
          BY <3>3
        <5>2. \A j \in jobs[m] : Keeper(j) => ScriptJob(s, j)
          BY <5>1, Zenon DEF LockInv
        <5> QED BY <5>2 DEF ScriptJob
      <4>3. \A j \in jobs'[m] : Keeper(j) => j = left
        BY <1>3, <3>3, <4>2
      <4>4. \A t, u \in scripts'[n] : t.pc # "start" /\ u.pc # "start" => t = u
        BY <3>3, <4>1
      <4>5. \A i, j \in jobs'[n] : Keeper(i) /\ Keeper(j) => i = j
        BY <3>3, <4>3
      <4>6. \A j \in jobs'[n] : \A t \in scripts'[n] :
              Keeper(j) /\ t.pc # "start" => ScriptJob(t, j)
        BY <3>3, <4>1
      <4> QED BY <4>4, <4>5, <4>6
    <3> QED BY <3>1, <3>2, <3>3
  <2> QED BY <1>0, <2>1, <2>2 DEF LockInv
<1>6. JobInv'
  <2>1. ASSUME NEW n \in Macs, NEW j \in jobs'[n]
        PROVE  \/ j.id = Stray
               \/ j.id \in Active /\ Home(j.id) = n /\ OwnJob(run'[j.id], j.id, j)
               \/ \E t \in scripts'[n] : ScriptJob(t, j)
    <3>1. CASE n # m
      BY <1>0, <1>2, <3>1 DEF JobInv
    <3>2. CASE n = m /\ s.pc # "install"
      <4>1. j \in jobs[m]
        BY <1>3, <3>2
      <4>2. \A t \in scripts[m] : ScriptJob(t, j) => t \in scripts'[m]
        BY <1>0, <3>2, JobFacts
      <4> QED BY <1>0, <1>2, <3>2, <4>1, <4>2 DEF JobInv
    <3>3. CASE n = m /\ s.pc = "install" /\ j # left
      <4>1. j \in jobs[m] /\ j # own
        BY <1>3, <3>3
      <4>2. \A t \in scripts[m] : ~ScriptJob(t, j)
        BY <3>3, <4>1, JobFacts DEF LockInv, ScriptJob
      <4> QED BY <1>2, <3>3, <4>1, <4>2 DEF JobInv
    <3> QED BY <1>4, <3>1, <3>2, <3>3
  <2> QED BY <1>0, <2>1 DEF JobInv
<1> QED BY <1>5, <1>6

-----------------------------------------------------------------------------
(* The steps of a run that leave the package alone.                        *)

Inner == RunsSound /\ LockInv /\ JobInv /\ FootInv /\ DoneInv

LEMMA FaultsBounded ==
  ASSUME TypeInv, site' = site, faults' = faults \/ Fault
  PROVE  faults' \in 0..site'.faults
  BY AutomationAssumption DEF TypeInv, Fault

LEMMA RunTyped ==
  ASSUME TypeInv, NEW r, OnlyRun(r), RunOnly, faults' = faults \/ Fault
  PROVE  TypeInv'
  BY FaultsBounded DEF TypeInv, OnlyRun, RunOnly, packageVars, PackageTypeOK, Runs, Scripts,
     Active, Macs

LEMMA QuietMove ==
  ASSUME IInv, NEW r \in Active, OnlyRun(r), Others(r), run'[r].blocked = run[r].blocked,
         run'[r].exit = 0 => run[r].exit = 0,
         UNCHANGED <<site, scripts, live, writer, jobs, holder>>,
         run[r].pc \in Working \ {"install", "undo", "remote"},
         run'[r].pc \in Working \ {"install", "verify", "undo", "remote"},
         run'[r].pc \in Fresh => ~run[r].blocked,
         run'[r].pc = "check" => run[r].wheel \in Wheels,
         run[r].pc \in Local => run'[r].pc \in Local,
         run'[r].pc = "report" /\ run'[r].exit = 0 =>
           run[r].wheel = None \/ Has(Home(r), run[r].wheel)
  PROVE  Inner'
<1>1. Sound(run'[r], Home(r))
  <2>1. Sound(run[r], Home(r))
    BY DEF IInv, RunsSound
  <2> QED BY <2>1 DEF Sound, Others
<1>2. RunsSound' /\ FootInv' /\ DoneInv'
  BY <1>1, RunKeeps DEF IInv, Working, Others, Proven
<1>3. LockInv' /\ JobInv'
  BY RunKeepsLock DEF IInv
<1> QED BY <1>2, <1>3 DEF Inner

LEMMA QuietStep ==
  ASSUME IInv, NEW r \in Active, NEW code \in ExitCodes,
         NEW pc \in Working \ {"install", "verify", "undo", "remote"},
         Step(r, code, pc) \/ (code = 0 /\ Go(r, pc)),
         UNCHANGED <<site, scripts, live, writer, jobs, holder>>,
         run[r].pc \in Working \ {"install", "undo", "remote"},
         pc \in Fresh => ~run[r].blocked,
         pc = "check" => run[r].wheel \in Wheels,
         run[r].pc \in Local => pc \in Local,
         pc = "report" => \/ code # 0 \/ run[r].exit # 0 \/ run[r].wheel = None
                          \/ Has(Home(r), run[r].wheel)
  PROVE  Inner' /\ OnlyRun(r)
<1>1. /\ OnlyRun(r) /\ Others(r) /\ run'[r].pc = pc /\ run'[r].blocked = run[r].blocked
      /\ run'[r].exit = 0 => run[r].exit = 0 /\ code = 0
  BY Steps, Goes DEF IInv, PCs
<1> QED BY <1>1, QuietMove

LEMMA RunMoves ==
  ASSUME IInv, NEW r \in Active,
         \/ Heals(r) \/ Unconfigured(r) \/ BuildFails(r) \/ PeersDone(r) \/ Syncs(r)
         \/ Examines(r) \/ Uninstallable(r) \/ ReceiptLost(r) \/ Reverifies(r)
  PROVE  IInv'
<1> USE DEF Working, Fresh, Local
<1> DEFINE Done == Inner' /\ OnlyRun(r)
<1>0. /\ TypeInv
      /\ run[r].pc \in Fresh => ~run[r].blocked
      /\ run[r].blocked => run[r].exit # 0
      /\ run[r].pc = "verify" => Has(Home(r), run[r].wheel)
      /\ run[r].wheel # None => run[r].wheel \in Wheels
      /\ {0, 1, 3} = ExitCodes
  BY DEF IInv, RunsSound, Sound, TypeInv, Runs, ExitCodes, DoneInv, Proven
<1>1. RunOnly /\ (faults' = faults \/ Fault)
  BY DEF Heals, Unconfigured, BuildFails, PeersDone, Syncs, Examines, Uninstallable,
     ReceiptLost, Reverifies, AnyStep
<1>2. ASSUME Heals(r) PROVE Done
  <2>1. PICK code \in ExitCodes : Step(r, code, IF run[r].cmd.no_update THEN "peers" ELSE "build")
    BY <1>2 DEF Heals, AnyStep
  <2> QED BY <1>0, <1>1, <1>2, <2>1, QuietStep DEF Heals, At, RunOnly, packageVars
<1>3. ASSUME Syncs(r) PROVE Done
  <2>1. PICK code \in ExitCodes : Step(r, code, "doctor")
    BY <1>3 DEF Syncs, AnyStep
  <2> QED BY <1>0, <1>1, <1>3, <2>1, QuietStep DEF Syncs, At, RunOnly, packageVars
<1>4. ASSUME Examines(r) PROVE Done
  <2>1. PICK code \in ExitCodes : Step(r, code, IF Stopped(r) THEN "report" ELSE "check")
    BY <1>4 DEF Examines, AnyStep
  <2>2. CASE Stopped(r)
    BY <1>0, <1>1, <1>4, <2>1, <2>2, QuietStep DEF Examines, At, RunOnly, packageVars, Stopped
  <2>3. CASE ~Stopped(r)
    BY <1>0, <1>1, <1>4, <2>1, <2>3, QuietStep DEF Examines, At, RunOnly, packageVars, Stopped
  <2> QED BY <2>2, <2>3
<1>5. ASSUME Unconfigured(r) PROVE Done
  BY <1>0, <1>1, <1>5, QuietStep DEF Unconfigured, At, RunOnly, packageVars
<1>6. ASSUME BuildFails(r) PROVE Done
  <2>1. CASE run[r].cmd.kind = "update"
    BY <1>0, <1>1, <1>6, <2>1, QuietStep DEF BuildFails, At, RunOnly, packageVars
  <2>2. CASE run[r].cmd.kind # "update"
    BY <1>0, <1>1, <1>6, <2>2, QuietStep DEF BuildFails, At, RunOnly, packageVars
  <2> QED BY <2>1, <2>2
<1>7. ASSUME PeersDone(r) PROVE Done
  <2>1. PICK pc \in {"sync", "doctor"} : Go(r, pc)
    BY <1>7 DEF PeersDone
  <2> QED BY <1>0, <1>1, <1>7, <2>1, QuietStep DEF PeersDone, At, RunOnly, packageVars
<1>8. ASSUME Uninstallable(r) PROVE Done
  BY <1>0, <1>1, <1>8, QuietStep DEF Uninstallable, At, RunOnly, packageVars
<1>9. ASSUME ReceiptLost(r) PROVE Done
  BY <1>0, <1>1, <1>9, QuietStep DEF ReceiptLost, At, RunOnly, packageVars
<1>10. ASSUME Reverifies(r) PROVE Done
  BY <1>0, <1>1, <1>10, QuietStep DEF Reverifies, At, RunOnly, packageVars
<1>11. Done
  BY <1>2, <1>3, <1>4, <1>5, <1>6, <1>7, <1>8, <1>9, <1>10
<1> QED BY <1>0, <1>1, <1>11, RunTyped DEF IInv, Inner

LEMMA RetainTyped ==
  ASSUME TypeInv, NEW m \in Macs, NEW wheel \in Wheels, Retains(m, wheel)
  PROVE  store' \in [Macs -> SUBSET Wheels] /\ rotten' \in [Macs -> SUBSET Wheels]
  BY DEF TypeInv, PackageTypeOK, Retains

(* install_wheel finds nothing to do, refuses, or is verified.             *)
LEMMA RunPackage ==
  ASSUME IInv, NEW r \in Active, Unchanged(r) \/ RefusesUpdate(r) \/ Verified(r)
  PROVE  IInv'
<1> USE DEF Working, Fresh, Local
<1>0. /\ TypeInv /\ Home(r) \in Macs
      /\ run[r].pc \in Fresh => ~run[r].blocked
      /\ run[r].pc \in {"check", "verify"} => run[r].wheel \in Wheels
      /\ run[r].pc = "verify" => Has(Home(r), run[r].wheel)
      /\ {0, 1, 3} = ExitCodes
  BY SiteFacts DEF IInv, RunsSound, Sound, ExitCodes, DoneInv, Proven
<1>1. UNCHANGED <<site, scripts, live, writer, jobs, holder, stamp, last, faults>>
  BY DEF Unchanged, RefusesUpdate, Verified
<1>2. ASSUME Unchanged(r) PROVE Inner' /\ OnlyRun(r)
  BY <1>0, <1>1, <1>2, QuietStep DEF Unchanged, At, Current, Has
<1>3. ASSUME RefusesUpdate(r) PROVE Inner' /\ OnlyRun(r)
  BY <1>0, <1>1, <1>3, QuietStep DEF RefusesUpdate, At
<1>4. ASSUME Verified(r) PROVE Inner' /\ OnlyRun(r)
  BY <1>0, <1>1, <1>4, QuietStep DEF Verified, At
<1>5. /\ store' \in [Macs -> SUBSET Wheels] /\ rotten' \in [Macs -> SUBSET Wheels]
      /\ receipt' \in [Macs -> Wheels \cup {None}]
  <2>1. ASSUME Unchanged(r) \/ RefusesUpdate(r)
        PROVE  Retains(Home(r), run[r].wheel) /\ run[r].wheel \in Wheels /\ receipt' = receipt
    BY <1>0, <2>1 DEF Unchanged, RefusesUpdate, At
  <2>2. ASSUME Verified(r)
        PROVE  /\ store' = store /\ rotten' = rotten
               /\ receipt' = [receipt EXCEPT ![Home(r)] = run[r].wheel] /\ run[r].wheel \in Wheels
    BY <1>0, <2>2 DEF Verified, Receipted, At
  <2>3. CASE Unchanged(r) \/ RefusesUpdate(r)
    BY <1>0, <2>1, <2>3, RetainTyped DEF TypeInv, PackageTypeOK
  <2>4. CASE Verified(r)
    BY <1>0, <2>2, <2>4 DEF TypeInv, PackageTypeOK
  <2> QED BY <2>3, <2>4
<1>6. TypeInv'
  BY <1>0, <1>1, <1>2, <1>3, <1>4, <1>5
  DEF TypeInv, OnlyRun, PackageTypeOK, Runs, Scripts, Active, Macs
<1> QED BY <1>2, <1>3, <1>4, <1>6 DEF IInv, Inner

(* The steps that end a run, or take it into one.                          *)
LEMMA RunBoundary ==
  ASSUME IInv, NEW r \in Active,
         LockBusy(r) \/ Reports(r) \/ ReportLost(r) \/ \E cmd \in site.commands : Begin(r, cmd)
  PROVE  IInv'
<1>0. /\ TypeInv /\ Home(r) \in Macs /\ run[r] \in Runs /\ Sound(run[r], Home(r))
  BY SiteFacts DEF IInv, RunsSound, TypeInv
<1>1. /\ UNCHANGED <<packageVars, site, scripts, holder>>
      /\ faults' = faults \/ Fault
  BY DEF LockBusy, Reports, ReportLost, Begin, RunOnly
<1>2. ASSUME LockBusy(r) \/ Reports(r) \/ ReportLost(r)
      PROVE  /\ OnlyRun(r) /\ Others(r) /\ run[r].pc \in {"lock", "report"} /\ run'[r].pc = "done"
             /\ run'[r].blocked = run[r].blocked
             /\ run'[r].exit \in {1, run[r].exit}
             /\ last' \in [Macs -> [by : Runners \cup {None}, exit : ExitCodes]]
  <2>1. PICK exit \in {1, run[r].exit} :
          /\ run' = [run EXCEPT ![r].pc = "done", ![r].exit = exit]
          /\ last' = last \/ last' = [last EXCEPT ![Home(r)] = [by |-> r, exit |-> exit]]
    BY <1>2 DEF LockBusy, Reports, ReportLost, Finishes, RunOnly
  <2>2. exit \in ExitCodes /\ r \in Runners
    BY <1>0, SiteFacts DEF Runs, ExitCodes
  <2>3. last' \in [Macs -> [by : Runners \cup {None}, exit : ExitCodes]]
    BY <1>0, <2>1, <2>2 DEF TypeInv
  <2>4. /\ OnlyRun(r) /\ Others(r) /\ run'[r].pc = "done" /\ run'[r].exit = exit
        /\ run'[r].blocked = run[r].blocked
    BY <1>0, <2>1, <2>2 DEF TypeInv, Runs, OnlyRun, Others, PCs
  <2> QED BY <1>2, <2>3, <2>4 DEF LockBusy, Reports, ReportLost, At
<1>3. ASSUME NEW cmd \in site.commands, Begin(r, cmd)
      PROVE  /\ OnlyRun(r) /\ run[r].pc = "idle" /\ run'[r].pc = "lock"
             /\ run'[r].blocked = run[r].blocked /\ run'[r].exit = run[r].exit
             /\ Home(r) \notin run'[r].todo /\ last' = last
  <2>1. /\ cmd.peers \in SUBSET Macs /\ Home(r) \notin cmd.peers /\ cmd \in site.commands
        /\ run' = [run EXCEPT ![r].pc = "lock", ![r].cmd = cmd, ![r].todo = cmd.peers]
    BY <1>0, <1>3, SiteFacts DEF Begin
  <2> DEFINE todo == cmd.peers
             y == [run[r] EXCEPT !.pc = "lock", !.cmd = cmd, !.todo = todo]
  <2>2. run' = [run EXCEPT ![r] = y]
    BY <2>1
  <2>3. todo \in SUBSET Macs /\ Home(r) \notin todo
    BY <2>1
  <2> HIDE DEF todo
  <2>4. /\ y \in Runs /\ y.pc = "lock" /\ y.blocked = run[r].blocked
        /\ y.exit = run[r].exit /\ y.todo = todo
    BY <1>0, <2>1, <2>3 DEF Runs, PCs
  <2> HIDE DEF y
  <2>5. run'[r] = y
    BY <1>0, <2>2 DEF TypeInv
  <2> QED BY <1>3, <2>2, <2>3, <2>4, <2>5 DEF Begin, At, OnlyRun
<1>4. /\ OnlyRun(r) /\ run[r].pc \in {"idle", "lock", "report"} /\ run'[r].pc \in {"lock", "done"}
      /\ run[r].pc # "idle" => run'[r].pc = "done"
      /\ run'[r].blocked = run[r].blocked /\ Home(r) \notin run'[r].todo
      /\ run'[r].exit \in {1, run[r].exit}
      /\ last' \in [Macs -> [by : Runners \cup {None}, exit : ExitCodes]]
  BY <1>0, <1>2, <1>3 DEF Others, Sound, TypeInv
<1>5. TypeInv'
  <2>1. faults' \in 0..site'.faults
    BY <1>0, <1>1, FaultsBounded
  <2>2. site' = site /\ scripts' = scripts /\ holder' = holder /\ PackageTypeOK(Macs)'
    BY <1>0, <1>1 DEF TypeInv, packageVars, PackageTypeOK, Macs
  <2>3. run' \in [Active -> Runs]
    BY <1>0, <1>4 DEF TypeInv, OnlyRun
  <2> QED BY <1>0, <1>4, <2>1, <2>2, <2>3 DEF TypeInv, Runs, Scripts, Active, Macs
<1>6. Sound(run'[r], Home(r))
  BY <1>0, <1>4 DEF Sound, Fresh
<1>7. RunsSound' /\ FootInv' /\ DoneInv'
  BY <1>0, <1>1, <1>4, <1>6, RunKeeps DEF IInv, packageVars, Local, Sound, Fresh, Proven
<1>8. LockInv' /\ JobInv'
  BY <1>0, <1>1, <1>4, RunKeepsLock DEF IInv, packageVars, Working
<1> QED BY <1>5, <1>7, <1>8 DEF IInv

(* The steps that change the wheel or what is left to do.                  *)
LEMMA RunPeers ==
  ASSUME IInv, NEW r \in Active,
         Builds(r) \/ HealsPeer(r) \/ SkipsPeer(r) \/ PeerUnreached(r)
  PROVE  IInv'
<1>0. /\ TypeInv /\ Home(r) \in Macs /\ run[r] \in Runs /\ Sound(run[r], Home(r))
  BY SiteFacts DEF IInv, RunsSound, TypeInv
<1>1. RunOnly /\ (faults' = faults \/ Fault)
  BY DEF Builds, HealsPeer, SkipsPeer, PeerUnreached
<1>2. ASSUME Builds(r)
      PROVE  /\ OnlyRun(r) /\ run[r].pc = "build" /\ run'[r].pc \in {"check", "peers"}
             /\ run'[r].wheel \in Wheels /\ run'[r].todo = run[r].todo
             /\ run'[r].blocked = run[r].blocked /\ run'[r].exit = run[r].exit
  <2>1. PICK wheel \in Wheels, pc \in {"check", "peers"} :
          run' = [run EXCEPT ![r].wheel = wheel, ![r].pc = pc]
    BY <1>2 DEF Builds
  <2> QED BY <1>0, <1>2, <2>1 DEF Builds, At, TypeInv, Runs, OnlyRun, PCs, Working
<1>3. ASSUME HealsPeer(r) \/ SkipsPeer(r)
      PROVE  /\ OnlyRun(r) /\ run[r].pc = "peers" /\ run'[r].pc = "peers"
             /\ run'[r].todo \subseteq run[r].todo /\ run'[r].blocked = run[r].blocked
             /\ run'[r].exit = 0 => run[r].exit = 0
  <2>1. PICK p \in Macs, code \in ExitCodes :
          \/ run' = [run EXCEPT ![r].todo = @ \ {p}, ![r].exit = Worse(@, code)]
          \/ run' = [run EXCEPT ![r].todo = @ \ {p}]
    BY <1>3 DEF HealsPeer, SkipsPeer, ExitCodes
  <2>2. /\ Worse(run[r].exit, code) \in ExitCodes
        /\ Worse(run[r].exit, code) = 0 => run[r].exit = 0
    BY <1>0 DEF Worse, ExitCodes, Runs
  <2>3. CASE run' = [run EXCEPT ![r].todo = @ \ {p}]
    BY <1>0, <1>3, <2>3 DEF HealsPeer, SkipsPeer, At, TypeInv, Runs, OnlyRun
  <2>4. CASE run' = [run EXCEPT ![r].todo = @ \ {p}, ![r].exit = Worse(@, code)]
    BY <1>0, <1>3, <2>2, <2>4 DEF HealsPeer, SkipsPeer, At, TypeInv, Runs, OnlyRun
  <2> QED BY <2>1, <2>3, <2>4
<1>4. ASSUME PeerUnreached(r)
      PROVE  /\ OnlyRun(r) /\ run[r].pc = "peers" /\ run'[r].pc = "peers"
             /\ run'[r].todo \subseteq run[r].todo /\ run'[r].blocked /\ run'[r].exit = 1
  <2>1. PICK p \in Macs : run' = [run EXCEPT ![r].todo = @ \ {p}, ![r].exit = 1, ![r].blocked = TRUE]
    BY <1>4 DEF PeerUnreached
  <2> QED BY <1>0, <1>4, <2>1 DEF PeerUnreached, At, TypeInv, Runs, OnlyRun, ExitCodes
<1>5. OnlyRun(r) /\ run[r].pc \in {"build", "peers"} /\ run'[r].pc \in {"check", "peers"}
  BY <1>2, <1>3, <1>4
<1>6. Sound(run'[r], Home(r)) /\ (run[r].blocked => run'[r].blocked)
  BY <1>0, <1>2, <1>3, <1>4 DEF Sound, Fresh
<1>7. RunsSound' /\ FootInv' /\ DoneInv'
  BY <1>0, <1>1, <1>5, <1>6, RunKeeps DEF IInv, RunOnly, packageVars, Local, Proven
<1>8. LockInv' /\ JobInv'
  BY <1>0, <1>1, <1>5, RunKeepsLock DEF IInv, RunOnly, packageVars, Working
<1> QED BY <1>0, <1>1, <1>5, <1>7, <1>8, RunTyped DEF IInv

-----------------------------------------------------------------------------
(* Locks, and the remote installs.                                         *)

LEMMA RunLocks ==
  ASSUME IInv, NEW r \in Active, Locks(r)
  PROVE  IInv'
<1>0. /\ TypeInv /\ Home(r) \in Macs /\ Sound(run[r], Home(r)) /\ r \in Runners
      /\ run[r].pc = "lock" /\ ~Held(Home(r))
      /\ UNCHANGED <<packageVars, site, scripts, last, faults>>
      /\ holder' = [holder EXCEPT ![Home(r)] = r]
  BY SiteFacts DEF IInv, RunsSound, Locks, At
<1>1. PICK pc \in {"build", "heal"} : Go(r, pc)
  BY DEF Locks
<1>2. /\ OnlyRun(r) /\ Others(r) /\ run'[r].pc = pc /\ run'[r].exit = run[r].exit
      /\ run'[r].blocked = run[r].blocked
  BY <1>0, <1>1, Goes DEF PCs, Working
<1>3. TypeInv'
  <2>1. holder' \in [Macs -> Runners \cup {None}]
    BY <1>0 DEF TypeInv
  <2>2. PackageTypeOK(Macs)'
    BY <1>0 DEF TypeInv, packageVars, PackageTypeOK, Macs
  <2>3. run' \in [Active -> Runs]
    BY <1>0, <1>2 DEF TypeInv, OnlyRun
  <2> QED BY <1>0, <2>1, <2>2, <2>3 DEF TypeInv, Runs, Scripts, Active, Macs
<1>4. RunsSound' /\ FootInv' /\ DoneInv'
  <2>1. Sound(run'[r], Home(r))
    BY <1>0, <1>2 DEF Sound, Fresh, Others
  <2> QED BY <1>0, <1>2, <2>1, RunKeeps DEF IInv, packageVars, Local, Sound, Fresh, Proven
<1>5. /\ Active' = Active /\ Macs' = Macs /\ \A q : Home(q)' = Home(q)
      /\ \A q \in Active : q # r => run'[q] = run[q]
      /\ scripts' = scripts /\ jobs' = jobs
      /\ \A q \in Active : Home(q) # Home(r) => holder'[Home(q)] = holder[Home(q)]
      /\ holder'[Home(r)] = r
  BY <1>0, <1>2, SiteFacts DEF TypeInv, OnlyRun, packageVars, Active, Macs, Home
<1>6. LockInv'
  <2>1. /\ \A q \in Active : Home(q) = Home(r) => run[q].pc \notin Working
        /\ \A s \in scripts[Home(r)] : s.pc = "start"
        /\ \A j \in jobs[Home(r)] : ~Keeper(j)
    BY <1>0 DEF Held, KeptByJobs, Keeper
  <2>2. ASSUME NEW q \in Active, run'[q].pc \in Working
        PROVE  /\ holder'[Home(q)] = q
               /\ \A s \in scripts[Home(q)] : s.pc = "start"
               /\ \A j \in jobs[Home(q)] : ~Keeper(j)
    <3>1. CASE q = r
      BY <1>5, <2>1, <3>1
    <3>2. CASE q # r
      <4>1. run[q].pc \in Working /\ Home(q) # Home(r)
        BY <1>5, <2>1, <2>2, <3>2
      <4> QED BY <1>5, <4>1 DEF IInv, LockInv
    <3> QED BY <3>1, <3>2
  <2>3. ASSUME NEW m \in Macs
        PROVE  /\ \A s, t \in scripts[m] : s.pc # "start" /\ t.pc # "start" => s = t
               /\ \A i, j \in jobs[m] : Keeper(i) /\ Keeper(j) => i = j
               /\ \A j \in jobs[m] : \A s \in scripts[m] :
                    Keeper(j) /\ s.pc # "start" => ScriptJob(s, j)
    BY DEF IInv, LockInv
  <2> QED BY <1>5, <2>2, <2>3 DEF LockInv
<1>7. JobInv'
  <2>1. ASSUME NEW q \in Active, NEW j, OwnJob(run[q], q, j) PROVE OwnJob(run'[q], q, j)
    BY <1>0, <1>5, <2>1, JobFacts
  <2> QED BY <1>5, <2>1 DEF IInv, JobInv
<1> QED BY <1>3, <1>4, <1>6, <1>7 DEF IInv

(* Nobody has the lock when it is taken.                                   *)
LEMMA ScriptTakesLock ==
  ASSUME IInv, NEW m \in Macs, NEW s \in scripts[m], ScriptLocks(m, s)
  PROVE  IInv'
<1> DEFINE t == [s EXCEPT !.pc = "verify"]
<1>0. /\ TypeInv /\ s \in Scripts /\ s.pc = "start" /\ ~Held(m)
      /\ UNCHANGED <<packageVars, site, run, last, faults>>
      /\ holder' = [holder EXCEPT ![m] = None]
      /\ scripts' = [scripts EXCEPT ![m] = (@ \ {s}) \cup {t}]
  BY DEF IInv, TypeInv, ScriptLocks, Replaced
<1>1. t \in Scripts /\ t.id = s.id /\ t.pc = "verify"
  BY <1>0 DEF Scripts
<1> HIDE DEF t
<1>2. TypeInv'
  BY <1>0, <1>1 DEF TypeInv, packageVars, PackageTypeOK, Runs, Scripts, Active, Macs
<1>3. /\ Active' = Active /\ Macs' = Macs /\ \A q : Home(q)' = Home(q)
      /\ scripts'[m] = (scripts[m] \ {s}) \cup {t}
      /\ \A n \in Macs : n # m => scripts'[n] = scripts[n] /\ holder'[n] = holder[n]
      /\ run' = run /\ jobs' = jobs /\ live' = live /\ writer' = writer
      /\ \A q \in Active : Home(q) \in Macs
  BY <1>0, SiteFacts DEF TypeInv, packageVars, Active, Macs, Home
<1>4. RunsSound'
  BY <1>3 DEF IInv, RunsSound
<1>5. \A q \in Active : \A n \in Macs : Touches(q, n)' <=> Touches(q, n)
  BY <1>1, <1>3 DEF Touches
<1>6. FootInv'
  <2>1. \A n \in Macs : \A u, v \in scripts'[n] : u.id = v.id => u = v
    BY <1>1, <1>3 DEF IInv, FootInv
  <2> QED BY <1>3, <1>5, <2>1 DEF IInv, FootInv
<1>7. DoneInv'
  BY <1>1, <1>3 DEF IInv, DoneInv, Has
<1>8. /\ \A q \in Active : run[q].pc \in Working => Home(q) # m
      /\ \A u \in scripts[m] : u.pc = "start"
      /\ \A j \in jobs[m] : ~Keeper(j)
  BY <1>0 DEF Held, KeptByJobs, Keeper
<1>9. LockInv'
  <2>1. ASSUME NEW n \in Macs
        PROVE  /\ \A u, v \in scripts'[n] : u.pc # "start" /\ v.pc # "start" => u = v
               /\ \A i, j \in jobs[n] : Keeper(i) /\ Keeper(j) => i = j
               /\ \A j \in jobs[n] : \A u \in scripts'[n] :
                    Keeper(j) /\ u.pc # "start" => ScriptJob(u, j)
    BY <1>3, <1>8 DEF IInv, LockInv
  <2>2. ASSUME NEW q \in Active, run[q].pc \in Working
        PROVE  /\ holder'[Home(q)] = q
               /\ \A u \in scripts'[Home(q)] : u.pc = "start"
               /\ \A j \in jobs[Home(q)] : ~Keeper(j)
    BY <1>3, <1>8, <2>2 DEF IInv, LockInv
  <2> QED BY <1>3, <2>1, <2>2 DEF LockInv
<1>10. JobInv'
  <2>1. \A n \in Macs : \A u \in scripts[n] : u.pc = "install" => u \in scripts'[n]
    BY <1>0, <1>3
  <2> QED BY <1>3, <2>1, JobFacts DEF IInv, JobInv
<1> QED BY <1>2, <1>4, <1>6, <1>7, <1>9, <1>10 DEF IInv

LEMMA RunInstallsPeer ==
  ASSUME IInv, NEW r \in Active, InstallsPeer(r)
  PROVE  IInv'
<1>0. /\ TypeInv /\ Home(r) \in Macs /\ Sound(run[r], Home(r)) /\ run[r] \in Runs
      /\ run[r].pc = "peers" /\ ~run[r].blocked /\ run[r].wheel \in Wheels
      /\ UNCHANGED <<packageVars, site, last, holder, faults>>
  BY SiteFacts DEF IInv, RunsSound, InstallsPeer, At, Stopped, TypeInv, Runs
<1>1. PICK p \in Macs :
        /\ p \in run[r].todo
        /\ run' = [run EXCEPT ![r].todo = @ \ {p}, ![r].at = p, ![r].pc = "remote"]
        /\ scripts' = [scripts EXCEPT ![p] = @ \cup {Script(r)}]
  BY DEF InstallsPeer, NextPeer
<1> DEFINE s == Script(r)
<1>2. s \in Scripts /\ s.id = r /\ s.pc = "start" /\ p # Home(r)
  BY <1>0, <1>1 DEF Script, Scripts, Sound
<1> HIDE DEF s
<1>3. /\ run'[r] \in Runs /\ run'[r].pc = "remote" /\ run'[r].at = p
      /\ run'[r].blocked = run[r].blocked /\ run'[r].todo \subseteq run[r].todo
      /\ OnlyRun(r)
  BY <1>0, <1>1 DEF TypeInv, Runs, PCs, Working, OnlyRun
<1>4. /\ Active' = Active /\ Macs' = Macs /\ \A q : Home(q)' = Home(q)
      /\ \A q \in Active : q # r => run'[q] = run[q]
      /\ scripts'[p] = scripts[p] \cup {s}
      /\ \A n \in Macs : n # p => scripts'[n] = scripts[n]
      /\ holder' = holder /\ jobs' = jobs /\ live' = live /\ writer' = writer
      /\ \A q \in Active : Home(q) \in Macs
  BY <1>0, <1>1, <1>3, SiteFacts DEF TypeInv, OnlyRun, packageVars, Active, Macs, Home, s
<1>5. TypeInv'
  <2>1. scripts' \in [Macs -> SUBSET Scripts]
    BY <1>0, <1>1, <1>2 DEF TypeInv, s
  <2>2. PackageTypeOK(Macs)'
    BY <1>0 DEF TypeInv, packageVars, PackageTypeOK, Macs
  <2>3. run' \in [Active -> Runs]
    BY <1>0, <1>3 DEF TypeInv, OnlyRun
  <2> QED BY <1>0, <2>1, <2>2, <2>3 DEF TypeInv, Runs, Scripts, Active, Macs
<1>6. RunsSound'
  <2>1. Sound(run'[r], Home(r))
    BY <1>0, <1>3 DEF Sound, Fresh
  <2> QED BY <1>4, <2>1 DEF IInv, RunsSound
<1>7. \A n \in Macs : ~Touches(r, n)
  BY <1>0, Zenon DEF IInv, FootInv, Parted, Local
<1>8. FootInv'
  <2>1. /\ \A q \in Active : \A n \in Macs : q # r /\ Touches(q, n)' => Touches(q, n)
        /\ \A n \in Macs : Touches(r, n)' => n = p
    BY <1>2, <1>4, <1>7 DEF Touches
  <2>2. \A n \in Macs : \A u, v \in scripts'[n] : u.id = v.id => u = v
    BY <1>2, <1>4, <1>7 DEF IInv, FootInv, Touches
  <2>3. ASSUME NEW q \in Active, NEW n \in Macs, Touches(q, n)'
        PROVE  /\ \A k \in Macs : Touches(q, k)' => k = n
               /\ n = Home(q) => run'[q].pc \in Local
               /\ n # Home(q) => Parted(run'[q], n)
    <3>1. CASE q = r
      BY <1>2, <1>3, <2>1, <2>3, <3>1 DEF Parted
    <3>2. CASE q # r
      BY <1>4, <2>1, <2>3, <3>2 DEF IInv, FootInv
    <3> QED BY <3>1, <3>2
  <2> QED BY <1>4, <2>2, <2>3 DEF FootInv
<1>9. DoneInv'
  <2>1. ~Proven(run'[r])
    BY <1>3 DEF Proven
  <2> QED BY <1>2, <1>4, <2>1 DEF IInv, DoneInv, Has
<1>10. LockInv'
  <2>1. \A q \in Active : run'[q].pc \in Working => run[q].pc \in Working
    BY <1>0, <1>4 DEF Working
  <2>2. ASSUME NEW n \in Macs, NEW u \in scripts'[n], u.pc # "start"
        PROVE  u \in scripts[n]
    BY <1>2, <1>4, <2>2
  <2>3. ASSUME NEW n \in Macs
        PROVE  /\ \A u, v \in scripts'[n] : u.pc # "start" /\ v.pc # "start" => u = v
               /\ \A i, j \in jobs[n] : Keeper(i) /\ Keeper(j) => i = j
               /\ \A j \in jobs[n] : \A u \in scripts'[n] :
                    Keeper(j) /\ u.pc # "start" => ScriptJob(u, j)
    BY <2>2 DEF IInv, LockInv
  <2>4. ASSUME NEW q \in Active, run'[q].pc \in Working
        PROVE  /\ holder[Home(q)] = q
               /\ \A u \in scripts'[Home(q)] : u.pc = "start"
               /\ \A j \in jobs[Home(q)] : ~Keeper(j)
    BY <1>4, <2>1, <2>2, <2>4 DEF IInv, LockInv
  <2> QED BY <1>4, <2>3, <2>4 DEF LockInv
<1>11. JobInv'
  <2>1. ASSUME NEW q \in Active, NEW j, OwnJob(run[q], q, j) PROVE OwnJob(run'[q], q, j)
    BY <1>0, <1>4, <2>1, JobFacts
  <2>2. \A n \in Macs : scripts[n] \subseteq scripts'[n]
    BY <1>4
  <2> QED BY <1>4, <2>1, <2>2 DEF IInv, JobInv
<1> QED BY <1>5, <1>6, <1>8, <1>9, <1>10, <1>11 DEF IInv

(* The files of the script may be removed, and nothing else of it changes. *)
LEMMA RunGivesUp ==
  ASSUME IInv, NEW r \in Active, GivesUp(r)
  PROVE  IInv'
<1>0. /\ TypeInv /\ Sound(run[r], Home(r)) /\ run[r] \in Runs
      /\ run[r].pc = "remote" /\ PeerOver(r, 1) /\ Fault
      /\ UNCHANGED <<packageVars, site, last, holder>>
  BY DEF IInv, RunsSound, GivesUp, At, TypeInv
<1>1. PICK files \in BOOLEAN :
        scripts' = [scripts EXCEPT ![run[r].at] =
          {IF s.id = r THEN [s EXCEPT !.files = files] ELSE s : s \in @}]
  BY DEF GivesUp
<1> DEFINE p == run[r].at
           later(s) == IF s.id = r THEN [s EXCEPT !.files = files] ELSE s
<1>2. \A s \in Scripts : /\ later(s) \in Scripts /\ later(s).id = s.id /\ later(s).pc = s.pc
                         /\ later(s).wheel = s.wheel
  BY DEF Scripts
<1>3. scripts' = [scripts EXCEPT ![p] = {later(s) : s \in @}]
  BY <1>1
<1> HIDE DEF later
<1>4. /\ run'[r] \in Runs /\ run'[r].pc = "peers" /\ run'[r].blocked /\ run'[r].exit # 0
      /\ run'[r].todo = run[r].todo /\ OnlyRun(r)
  <2>1. Worse(run[r].exit, 1) = 1
    BY DEF Worse
  <2>2. run[r].blocked \/ 1 # 0
    OBVIOUS
  <2> DEFINE b == run[r].blocked \/ 1 # 0
             y == [run[r] EXCEPT !.pc = "peers", !.at = 0, !.exit = Worse(@, 1), !.blocked = b]
  <2>3. run' = [run EXCEPT ![r] = y]
    BY <1>0 DEF PeerOver
  <2>4. b = TRUE
    OBVIOUS
  <2> HIDE DEF b
  <2>5. y \in Runs /\ y.pc = "peers" /\ y.blocked = b /\ y.exit = 1 /\ y.todo = run[r].todo
    BY <1>0, <2>1, <2>4 DEF Runs, PCs, Working, ExitCodes
  <2> HIDE DEF y
  <2>6. run'[r] = y
    BY <1>0, <2>3 DEF TypeInv
  <2>7. y.blocked
    BY <2>4, <2>5
  <2>8. run'[r].blocked
    BY <2>6, <2>7, Zenon
  <2>9. OnlyRun(r)
    BY <2>3, <2>5, <2>6 DEF OnlyRun
  <2>10. run'[r].pc = "peers" /\ run'[r].exit # 0 /\ run'[r].todo = run[r].todo
    BY <2>5, <2>6
  <2> QED BY <2>8, <2>9, <2>10 DEF OnlyRun
<1>5. /\ Active' = Active /\ Macs' = Macs /\ \A q : Home(q)' = Home(q)
      /\ \A q \in Active : q # r => run'[q] = run[q]
      /\ \A n \in Macs : n # p => scripts'[n] = scripts[n]
      /\ p \in Macs => scripts'[p] = {later(s) : s \in scripts[p]}
      /\ \A n \in Macs : scripts[n] \subseteq Scripts
      /\ holder' = holder /\ jobs' = jobs /\ live' = live /\ writer' = writer
      /\ \A q \in Active : Home(q) \in Macs
  BY <1>0, <1>3, <1>4, SiteFacts DEF TypeInv, OnlyRun, packageVars, Active, Macs, Home
<1>6. /\ \A n \in Macs : \A t \in scripts'[n] : \E s \in scripts[n] : t = s \/ (n = p /\ t = later(s))
      /\ \A n \in Macs : \A s \in scripts[n] :
           IF n = p THEN later(s) \in scripts'[n] ELSE s \in scripts'[n]
  BY <1>5
<1>7. TypeInv'
  <2>1. scripts' \in [Macs -> SUBSET Scripts]
    <3>1. p \in Macs => {later(s) : s \in scripts[p]} \in SUBSET Scripts
      BY <1>2, <1>5
    <3>2. \A n \in Macs : scripts'[n] \in SUBSET Scripts
      BY <1>5, <3>1
    <3> QED BY <1>0, <1>3, <3>2 DEF TypeInv
  <2>2. PackageTypeOK(Macs)'
    BY <1>0 DEF TypeInv, packageVars, PackageTypeOK, Macs
  <2>3. run' \in [Active -> Runs]
    BY <1>0, <1>4 DEF TypeInv, OnlyRun
  <2>4. faults' \in 0..site'.faults
    BY <1>0, FaultsBounded
  <2> QED BY <1>0, <2>1, <2>2, <2>3, <2>4 DEF TypeInv, Runs, Scripts, Active, Macs
<1>8. RunsSound'
  <2>1. Sound(run'[r], Home(r))
    BY <1>0, <1>4 DEF Sound, Fresh
  <2> QED BY <1>5, <2>1 DEF IInv, RunsSound
<1>9. \A q \in Active : \A n \in Macs : Touches(q, n)' => Touches(q, n)
  BY <1>2, <1>5, <1>6 DEF Touches
<1>10. FootInv'
  <2>1. ASSUME NEW n \in Macs, NEW t \in scripts'[n], NEW u \in scripts'[n], t.id = u.id
        PROVE  t = u
    <3>1. CASE n = p
      BY <1>2, <1>5, <2>1, <3>1 DEF IInv, FootInv
    <3>2. CASE n # p
      BY <1>5, <2>1, <3>2 DEF IInv, FootInv
    <3> QED BY <3>1, <3>2
  <2>2. ASSUME NEW q \in Active, NEW n \in Macs, Touches(q, n)'
        PROVE  /\ \A k \in Macs : Touches(q, k)' => k = n
               /\ n = Home(q) => run'[q].pc \in Local
               /\ n # Home(q) => Parted(run'[q], n)
    <3>1. /\ \A k \in Macs : Touches(q, k)' => k = n
          /\ n = Home(q) => run[q].pc \in Local
          /\ n # Home(q) => Parted(run[q], n)
      BY <1>9, <2>2 DEF IInv, FootInv
    <3>2. CASE q = r
      BY <1>0, <1>4, <3>1, <3>2 DEF Parted, Local
    <3>3. CASE q # r
      BY <1>5, <3>1, <3>3
    <3> QED BY <3>2, <3>3
  <2> QED BY <1>5, <2>1, <2>2 DEF FootInv
<1>11. DoneInv'
  <2>1. ~Proven(run'[r])
    BY <1>4 DEF Proven
  <2>2. ASSUME NEW n \in Macs, NEW t \in scripts'[n], t.pc \in {"answer", "rest"}
        PROVE  Has(n, t.wheel)
    BY <1>2, <1>5, <1>6, <2>2 DEF IInv, DoneInv
  <2> QED BY <1>5, <2>1, <2>2 DEF IInv, DoneInv, Has
<1>12. /\ \A n \in Macs : \A t \in scripts'[n] : \E s \in scripts[n] :
            t.pc = s.pc /\ \A j : ScriptJob(s, j) <=> ScriptJob(t, j)
       /\ \A n \in Macs : \A s \in scripts[n] : \E t \in scripts'[n] :
            \A j : ScriptJob(s, j) <=> ScriptJob(t, j)
  <2>1. \A s \in Scripts : \A j : ScriptJob(s, j) <=> ScriptJob(later(s), j)
    BY <1>2 DEF ScriptJob
  <2>2. ASSUME NEW n \in Macs, NEW t \in scripts'[n]
        PROVE  \E s \in scripts[n] : t.pc = s.pc /\ \A j : ScriptJob(s, j) <=> ScriptJob(t, j)
    <3>1. PICK s \in scripts[n] : t = s \/ t = later(s)
      BY <1>6
    <3> QED BY <1>2, <1>5, <2>1, <3>1
  <2>3. ASSUME NEW n \in Macs, NEW s \in scripts[n]
        PROVE  \E t \in scripts'[n] : \A j : ScriptJob(s, j) <=> ScriptJob(t, j)
    BY <1>5, <1>6, <2>1
  <2> QED BY <2>2, <2>3
<1>13. LockInv'
  <2>1. \A q \in Active : run'[q].pc \in Working => run[q].pc \in Working
    BY <1>0, <1>5 DEF Working
  <2>2. ASSUME NEW n \in Macs, NEW t \in scripts'[n], NEW u \in scripts'[n],
               t.pc # "start", u.pc # "start"
        PROVE  t = u
    <3>1. CASE n = p
      <4>1. PICK v \in scripts[n], w \in scripts[n] : t = later(v) /\ u = later(w)
        BY <1>5, <3>1
      <4>2. v.pc # "start" /\ w.pc # "start"
        BY <1>2, <1>5, <2>2, <4>1
      <4>3. v = w
        BY <4>2 DEF IInv, LockInv
      <4> QED BY <4>1, <4>3
    <3>2. CASE n # p
      BY <1>5, <2>2, <3>2 DEF IInv, LockInv
    <3> QED BY <3>1, <3>2
  <2>3. ASSUME NEW n \in Macs
        PROVE  /\ \A i, j \in jobs[n] : Keeper(i) /\ Keeper(j) => i = j
               /\ \A j \in jobs[n] : \A u \in scripts'[n] :
                    Keeper(j) /\ u.pc # "start" => ScriptJob(u, j)
    BY <1>12 DEF IInv, LockInv
  <2>4. ASSUME NEW q \in Active, run'[q].pc \in Working
        PROVE  /\ holder[Home(q)] = q
               /\ \A u \in scripts'[Home(q)] : u.pc = "start"
               /\ \A j \in jobs[Home(q)] : ~Keeper(j)
    BY <1>5, <1>12, <2>1, <2>4 DEF IInv, LockInv
  <2> QED BY <1>5, <2>2, <2>3, <2>4 DEF LockInv
<1>14. JobInv'
  <2>1. ASSUME NEW q \in Active, NEW j, OwnJob(run[q], q, j) PROVE OwnJob(run'[q], q, j)
    BY <1>0, <1>5, <2>1, JobFacts
  <2> QED BY <1>5, <1>12, <2>1 DEF IInv, JobInv
<1> QED BY <1>7, <1>8, <1>10, <1>11, <1>13, <1>14 DEF IInv

-----------------------------------------------------------------------------
(* The update of this Mac.                                                 *)

LEMMA JobTypes ==
  ASSUME NEW id \in Runners \cup {Stray}, NEW wheel \in Wheels, NEW keeps \in BOOLEAN
  PROVE  /\ Job(id, wheel, keeps) \in Jobs /\ Job(id, wheel, keeps).id = id
         /\ Keeper(Job(id, wheel, keeps)) <=> keeps
         /\ [Job(id, wheel, keeps) EXCEPT !.id = Stray] = Job(Stray, wheel, keeps)
  BY DEF Job, Jobs, Keeper

LEMMA Alone ==
  ASSUME IInv, NEW r \in Active, run[r].pc \in Working
  PROVE  /\ \A q \in Active : run[q].pc \in Working /\ Home(q) = Home(r) => q = r
         /\ \A s \in scripts[Home(r)] : s.pc = "start"
         /\ \A j \in jobs[Home(r)] : ~Keeper(j) /\ (j.id = Stray \/ OwnJob(run[r], r, j))
         /\ jobs[Home(r)] \subseteq Jobs
<1>1. Home(r) \in Macs /\ jobs[Home(r)] \subseteq Jobs
  BY SiteFacts DEF IInv, TypeInv, PackageTypeOK
<1>2. \A q \in Active : run[q].pc \in Working /\ Home(q) = Home(r) => q = r
  BY DEF IInv, LockInv
<1>3. /\ \A s \in scripts[Home(r)] : s.pc = "start"
      /\ \A j \in jobs[Home(r)] : ~Keeper(j)
  BY DEF IInv, LockInv
<1>4. ASSUME NEW j \in jobs[Home(r)], j.id # Stray PROVE OwnJob(run[r], r, j)
  <2>1. \A s \in scripts[Home(r)] : ~ScriptJob(s, j)
    BY <1>3, JobFacts
  <2>2. j.id \in Active /\ Home(j.id) = Home(r) /\ OwnJob(run[j.id], j.id, j)
    BY <1>1, <1>4, <2>1 DEF IInv, JobInv
  <2>3. run[j.id].pc \in Working
    BY <2>2, JobFacts DEF Working
  <2> QED BY <1>2, <2>2, <2>3
<1> QED BY <1>1, <1>2, <1>3, <1>4

LEMMA LocalMove ==
  ASSUME IInv, NEW r \in Active, OnlyRun(r),
         run[r].pc \in {"check", "install", "verify", "undo"},
         run'[r].pc \in {"install", "undo", "report", "done"},
         ~run'[r].blocked, run'[r].todo = run[r].todo,
         run'[r].pc = "report" => run'[r].exit = 1,
         run'[r].pc = "install" => run'[r].wheel \in Wheels,
         run'[r].pc = "undo" => run'[r].back \in Wheels,
         UNCHANGED <<live, receipt, stamp, writer, site, scripts, last, holder>>,
         store' \in [Macs -> SUBSET Wheels], rotten' \in [Macs -> SUBSET Wheels],
         faults' = faults \/ Fault,
         jobs' = [jobs EXCEPT ![Home(r)] = jobs'[Home(r)]], jobs'[Home(r)] \subseteq Jobs,
         \A j \in jobs'[Home(r)] : ~Keeper(j) /\ (j.id = Stray \/ OwnJob(run'[r], r, j))
  PROVE  IInv'
<1>0. /\ TypeInv /\ Home(r) \in Macs /\ Sound(run[r], Home(r))
      /\ Active' = Active /\ Macs' = Macs
  BY SiteFacts DEF IInv, RunsSound, Active, Macs
<1>1. TypeInv'
  <2>1. faults' \in 0..site'.faults
    BY <1>0, FaultsBounded
  <2>2. jobs' \in [Macs -> SUBSET Jobs]
    BY <1>0 DEF TypeInv, PackageTypeOK
  <2>3. PackageTypeOK(Macs)'
    BY <1>0, <2>2 DEF TypeInv, PackageTypeOK
  <2>4. run' \in [Active -> Runs]
    BY <1>0 DEF TypeInv, OnlyRun
  <2> QED BY <1>0, <2>1, <2>3, <2>4 DEF TypeInv, Runs, Scripts, Active, Macs
<1>2. Sound(run'[r], Home(r)) /\ ~run[r].blocked
  BY <1>0 DEF Sound, Fresh
<1>3. RunsSound' /\ FootInv' /\ DoneInv'
  BY <1>0, <1>2, RunKeeps DEF IInv, Local, Proven
<1>4. LockInv' /\ JobInv'
  BY RunInstalls DEF IInv, Working
<1> QED BY <1>1, <1>3, <1>4 DEF IInv

LEMMA AbandonedJobs ==
  ASSUME TypeInv, NEW m \in Macs, NEW id \in Runners, NEW wheel \in Wheels, NEW keeps \in BOOLEAN,
         Abandoned(m, Job(id, wheel, keeps))
  PROVE  \E new \in SUBSET Jobs :
           /\ jobs' = [jobs EXCEPT ![m] = new]
           /\ new \subseteq (jobs[m] \ {Job(id, wheel, keeps)}) \cup {Job(Stray, wheel, keeps)}
<1>1. jobs[m] \subseteq Jobs /\ jobs \in [Macs -> SUBSET Jobs]
  BY DEF TypeInv, PackageTypeOK
<1>2. Job(Stray, wheel, keeps) \in Jobs
  BY JobTypes
<1> DEFINE job == Job(id, wheel, keeps)
           left == Job(Stray, wheel, keeps)
<1>3. [job EXCEPT !.id = Stray] = left
  BY JobTypes
<1>4. job \in Jobs /\ Abandoned(m, job)
  BY JobTypes
<1> HIDE DEF job, left
<1>5. PICK new \in SUBSET Jobs :
        /\ jobs' = [jobs EXCEPT ![m] = new]
        /\ new \subseteq (jobs[m] \ {job}) \cup {left}
  <2>1. CASE jobs' = [jobs EXCEPT ![m] = jobs[m] \ {job}]
    BY <1>1, <2>1
  <2>2. CASE jobs' = [jobs EXCEPT ![m] = (jobs[m] \ {job}) \cup {left}]
    BY <1>1, <1>2, <2>2 DEF left
  <2> QED BY <1>3, <1>4, <2>1, <2>2 DEF Abandoned, Gone
<1> QED BY <1>5 DEF job, left

LEMMA RunStartsUpdate ==
  ASSUME IInv, NEW r \in Active, StartsUpdate(r)
  PROVE  IInv'
<1>0. /\ TypeInv /\ Home(r) \in Macs /\ Sound(run[r], Home(r)) /\ run[r] \in Runs
      /\ run[r].pc = "check" /\ run[r].wheel \in Wheels /\ r \in Runners
      /\ UNCHANGED <<live, receipt, stamp, writer, site, scripts, last, holder, faults>>
      /\ Retains(Home(r), run[r].wheel) /\ Starts(Home(r), Mine(r))
      /\ run' = [run EXCEPT ![r].pc = "install", ![r].back = WayBack(Home(r))]
  BY SiteFacts DEF IInv, RunsSound, Sound, StartsUpdate, At, TypeInv
<1>1. WayBack(Home(r)) \in Wheels \cup {None}
  BY <1>0 DEF WayBack, TypeInv, PackageTypeOK
<1>2. /\ OnlyRun(r) /\ run'[r].pc = "install" /\ run'[r].wheel = run[r].wheel
      /\ run'[r].blocked = run[r].blocked /\ run'[r].todo = run[r].todo
  BY <1>0, <1>1 DEF TypeInv, Runs, OnlyRun, PCs, Working
<1>3. store' \in [Macs -> SUBSET Wheels] /\ rotten' \in [Macs -> SUBSET Wheels]
  BY <1>0, RetainTyped
<1> DEFINE new == jobs[Home(r)] \cup {Mine(r)}
<1>4. Mine(r) \in Jobs /\ ~Keeper(Mine(r)) /\ OwnJob(run'[r], r, Mine(r))
  BY <1>0, <1>2, JobTypes DEF Mine, OwnJob
<1>5. \A j \in jobs[Home(r)] : j \in Jobs /\ ~Keeper(j) /\ j.id = Stray
  BY <1>0, Alone, JobFacts DEF Working
<1>6. jobs' = [jobs EXCEPT ![Home(r)] = new]
  BY <1>0 DEF Starts
<1>7. new \in SUBSET Jobs /\ \A j \in new : ~Keeper(j) /\ (j.id = Stray \/ OwnJob(run'[r], r, j))
  BY <1>4, <1>5
<1> HIDE DEF new
<1>8. jobs'[Home(r)] = new
  BY <1>0, <1>6 DEF TypeInv, PackageTypeOK
<1>9. run'[r].wheel \in Wheels /\ ~run'[r].blocked
  BY <1>0, <1>2 DEF Sound, Fresh
<1>10. faults' = faults
  BY <1>0
<1> QED BY <1>0, <1>2, <1>3, <1>6, <1>7, <1>8, <1>9, <1>10, LocalMove

(* What the installer of a run may leave behind when it is not waited for. *)
LEMMA OwnLeft ==
  ASSUME IInv, NEW r \in Active, run[r].pc \in {"install", "undo"},
         \/ run[r].pc = "install" /\ Abandoned(Home(r), Mine(r))
         \/ run[r].pc = "undo" /\ Abandoned(Home(r), Undo(r))
  PROVE  /\ jobs' = [jobs EXCEPT ![Home(r)] = jobs'[Home(r)]] /\ jobs'[Home(r)] \subseteq Jobs
         /\ \A j \in jobs'[Home(r)] : ~Keeper(j) /\ j.id = Stray
<1> DEFINE wheel == IF run[r].pc = "install" THEN run[r].wheel ELSE run[r].back
           own == Job(r, wheel, FALSE)
<1>0. /\ TypeInv /\ Home(r) \in Macs /\ wheel \in Wheels /\ r \in Runners
      /\ jobs \in [Macs -> SUBSET Jobs]
  BY SiteFacts DEF IInv, TypeInv, PackageTypeOK, RunsSound, Sound
<1>1. Abandoned(Home(r), own)
  BY DEF Mine, Undo
<1>2. \A j \in jobs[Home(r)] : ~Keeper(j) /\ (j.id = Stray \/ j = own)
  BY Alone DEF Working, OwnJob
<1>3. Keeper(Job(Stray, wheel, FALSE)) <=> FALSE
  BY <1>0, JobTypes
<1>4. Job(Stray, wheel, FALSE).id = Stray
  BY DEF Job
<1> HIDE DEF wheel
<1>5. PICK new \in SUBSET Jobs :
        /\ jobs' = [jobs EXCEPT ![Home(r)] = new]
        /\ new \subseteq (jobs[Home(r)] \ {own}) \cup {Job(Stray, wheel, FALSE)}
  BY <1>0, <1>1, AbandonedJobs
<1>6. jobs'[Home(r)] = new
  BY <1>0, <1>5
<1> HIDE DEF own
<1> QED BY <1>2, <1>3, <1>4, <1>5, <1>6

(* The installer is gone, abandoned, or replaced by the way back.          *)
LEMMA RunStopsUpdate ==
  ASSUME IInv, NEW r \in Active,
         InstallFails(r) \/ TimesOut(r) \/ Unverified(r) \/ UndoFails(r)
  PROVE  IInv'
<1>0. /\ TypeInv /\ Home(r) \in Macs /\ Sound(run[r], Home(r)) /\ run[r] \in Runs
      /\ run[r].pc \in {"install", "verify", "undo"} /\ r \in Runners
      /\ UNCHANGED <<live, receipt, store, rotten, stamp, writer, site, scripts, last, holder>>
      /\ store \in [Macs -> SUBSET Wheels] /\ rotten \in [Macs -> SUBSET Wheels]
      /\ jobs \in [Macs -> SUBSET Jobs] /\ 1 \in ExitCodes
  BY SiteFacts DEF IInv, RunsSound, InstallFails, TimesOut, Unverified, UndoFails, At,
     TypeInv, PackageTypeOK, Fails, ExitCodes
<1>1. faults' = faults \/ Fault
  BY DEF InstallFails, TimesOut, Unverified, UndoFails
<1>2. ~run[r].blocked
  BY <1>0 DEF Sound, Fresh
<1>3. ASSUME Step(r, 1, "report")
      PROVE  /\ OnlyRun(r) /\ run'[r].pc = "report" /\ run'[r].exit = 1 /\ ~run'[r].blocked
             /\ run'[r].todo = run[r].todo
  <2>1. /\ OnlyRun(r) /\ Others(r) /\ run'[r].pc = "report"
        /\ run'[r].exit = Worse(run[r].exit, 1) /\ run'[r].blocked = run[r].blocked
    BY <1>0, <1>3, Steps DEF PCs, Working
  <2> QED BY <1>2, <2>1 DEF Others, Worse
<1>4. ASSUME Go(r, "undo")
      PROVE  /\ OnlyRun(r) /\ run'[r].pc = "undo" /\ run'[r].back = run[r].back
             /\ ~run'[r].blocked /\ run'[r].todo = run[r].todo
  <2>1. /\ OnlyRun(r) /\ Others(r) /\ run'[r].pc = "undo" /\ run'[r].blocked = run[r].blocked
    BY <1>0, <1>4, Goes DEF PCs, Working
  <2> QED BY <1>2, <2>1 DEF Others
<1> DEFINE Left == /\ jobs' = [jobs EXCEPT ![Home(r)] = jobs'[Home(r)]]
                   /\ jobs'[Home(r)] \subseteq Jobs
                   /\ \A j \in jobs'[Home(r)] : ~Keeper(j) /\ j.id = Stray
<1>5. ASSUME Step(r, 1, "report"), Left PROVE IInv'
  BY <1>0, <1>1, <1>3, <1>5, LocalMove
<1>6. ASSUME NEW others \in SUBSET jobs[Home(r)], \A j \in others : j.id = Stray,
             GoesBack(r, others)
      PROVE  IInv'
  <2>1. others \subseteq Jobs /\ \A j \in others : ~Keeper(j) /\ j.id = Stray
    BY <1>0, <1>6, Alone DEF Working
  <2>2. CASE run[r].back \in {None} \cup rotten[Home(r)]
    <3>1. Step(r, 1, "report") /\ jobs' = [jobs EXCEPT ![Home(r)] = others]
      BY <1>6, <2>2 DEF GoesBack
    <3>2. jobs'[Home(r)] = others
      BY <1>0, <3>1
    <3> QED BY <1>5, <2>1, <3>1, <3>2
  <2>3. CASE run[r].back \notin {None} \cup rotten[Home(r)]
    <3>1. Go(r, "undo") /\ jobs' = [jobs EXCEPT ![Home(r)] = others \cup {Undo(r)}]
      BY <1>6, <2>3 DEF GoesBack
    <3>2. run[r].back \in Wheels
      BY <1>0, <2>3 DEF Runs
    <3>3. Undo(r) \in Jobs /\ ~Keeper(Undo(r)) /\ OwnJob(run'[r], r, Undo(r))
      BY <1>0, <1>4, <3>1, <3>2, JobTypes DEF Undo, OwnJob
    <3>4. jobs'[Home(r)] = others \cup {Undo(r)}
      BY <1>0, <3>1
    <3>5. \A j \in jobs'[Home(r)] :
            j \in Jobs /\ ~Keeper(j) /\ (j.id = Stray \/ OwnJob(run'[r], r, j))
      BY <2>1, <3>3, <3>4
    <3>6. jobs' = [jobs EXCEPT ![Home(r)] = jobs'[Home(r)]] /\ jobs'[Home(r)] \subseteq Jobs
      BY <3>1, <3>4, <3>5
    <3> QED BY <1>0, <1>1, <1>4, <3>1, <3>2, <3>5, <3>6, LocalMove
  <2> QED BY <2>2, <2>3
<1>7. CASE InstallFails(r)
  <2>1. \A j \in jobs[Home(r)] \ {Mine(r)} : j.id = Stray
    BY <1>7, Alone DEF InstallFails, At, Working, OwnJob, Mine
  <2> QED BY <1>6, <1>7, <2>1 DEF InstallFails
<1>8. CASE Unverified(r)
  <2>1. \A j \in jobs[Home(r)] : j.id = Stray
    BY <1>8, Alone, JobFacts DEF Unverified, At, Working
  <2> QED BY <1>6, <1>8, <2>1 DEF Unverified
<1>9. CASE TimesOut(r)
  <2>1. Left
    BY <1>9, OwnLeft DEF TimesOut, At
  <2> QED BY <1>5, <1>9, <2>1 DEF TimesOut
<1>10. CASE UndoFails(r)
  <2>1. Left
    BY <1>10, OwnLeft DEF UndoFails, At, Fails, Abandoned
  <2> QED BY <1>5, <1>10, <2>1 DEF UndoFails
<1> QED BY <1>7, <1>8, <1>9, <1>10

(* The process of a run is killed.                                         *)
LEMMA RunDies ==
  ASSUME IInv, NEW r \in Active, Dies(r)
  PROVE  IInv'
<1>0. /\ TypeInv /\ Home(r) \in Macs /\ Sound(run[r], Home(r)) /\ run[r] \in Runs
      /\ run[r].pc \notin {"idle", "done"} /\ Fault
      /\ UNCHANGED <<live, receipt, store, rotten, stamp, writer, site, scripts, last, holder>>
      /\ run' = [run EXCEPT ![r].pc = "done", ![r].exit = 1]
      /\ store \in [Macs -> SUBSET Wheels] /\ rotten \in [Macs -> SUBSET Wheels]
  BY SiteFacts DEF IInv, RunsSound, Dies, TypeInv, PackageTypeOK
<1>1. /\ OnlyRun(r) /\ run'[r].pc = "done" /\ run'[r].exit = 1
      /\ run'[r].todo = run[r].todo /\ run'[r].blocked = run[r].blocked
  BY <1>0 DEF TypeInv, Runs, OnlyRun, PCs, ExitCodes
<1>2. CASE run[r].pc \in {"install", "undo"}
  <2>1. /\ jobs' = [jobs EXCEPT ![Home(r)] = jobs'[Home(r)]] /\ jobs'[Home(r)] \subseteq Jobs
        /\ \A j \in jobs'[Home(r)] : ~Keeper(j) /\ j.id = Stray
    BY <1>2, OwnLeft DEF Dies, At
  <2>2. ~run'[r].blocked
    BY <1>0, <1>1, <1>2 DEF Sound, Fresh
  <2> QED BY <1>0, <1>1, <1>2, <2>1, <2>2, LocalMove
<1>3. CASE run[r].pc \notin {"install", "undo"}
  <2>1. jobs' = jobs
    BY <1>3 DEF Dies, At
  <2>2. TypeInv'
    <3>1. faults' \in 0..site'.faults
      BY <1>0, FaultsBounded
    <3>2. run' \in [Active -> Runs]
      BY <1>0, <1>1 DEF TypeInv, OnlyRun
    <3> QED BY <1>0, <2>1, <3>1, <3>2 DEF TypeInv, PackageTypeOK, Runs, Scripts, Active, Macs
  <2>3. Sound(run'[r], Home(r))
    BY <1>0, <1>1 DEF Sound, Fresh
  <2>4. RunsSound' /\ FootInv' /\ DoneInv'
    BY <1>0, <1>1, <2>3, RunKeeps DEF IInv, Local, Proven
  <2>5. LockInv' /\ JobInv'
    BY <1>0, <1>1, <1>3, <2>1, RunKeepsLock DEF IInv, Working
  <2> QED BY <2>2, <2>4, <2>5 DEF IInv
<1> QED BY <1>2, <1>3

(* pip at work for a run.                                                  *)
LEMMA RunUnpacks ==
  ASSUME IInv, NEW r \in Active, Unpacking(r)
  PROVE  IInv'
<1>0. /\ TypeInv /\ Home(r) \in Macs /\ run[r].pc \in {"install", "undo"} /\ ~run[r].blocked
      /\ r \in Runners
      /\ UNCHANGED <<receipt, store, rotten, stamp, jobs, site, run, scripts, last, holder, faults>>
  BY SiteFacts DEF IInv, RunsSound, Sound, Fresh, Unpacking, At, Unpacks
<1>1. PICK wheel : Wrote(Home(r), Job(r, wheel, FALSE), Broken)
  BY DEF Unpacking, Unpacks, Mine, Undo
<1>2. Job(r, wheel, FALSE).id = r
  BY DEF Job
<1>3. TypeInv'
  BY <1>0, <1>1, <1>2 DEF TypeInv, PackageTypeOK, Wrote, Runs, Scripts, Active, Macs
<1>4. RunsSound' /\ LockInv' /\ JobInv'
  BY <1>0 DEF IInv, RunsSound, LockInv, JobInv, Home, Active, Macs
<1>5. /\ \A q \in Active : Proven(run[q]) => Home(q) # Home(r)
      /\ \A s \in scripts[Home(r)] : s.pc \notin {"answer", "rest"}
  BY <1>0, Alone DEF Proven, Working
<1>6. FootInv' /\ DoneInv'
  BY <1>0, <1>1, <1>2, <1>5, WriteKeeps DEF IInv
<1> QED BY <1>3, <1>4, <1>6 DEF IInv

(* The wheel of a run is in place.                                         *)
LEMMA RunLands ==
  ASSUME IInv, NEW r \in Active, Installed(r) \/ Undone(r)
  PROVE  IInv'
<1> DEFINE wheel == IF run[r].pc = "install" THEN run[r].wheel ELSE run[r].back
           own == Job(r, wheel, FALSE)
<1>0. /\ TypeInv /\ Home(r) \in Macs /\ run[r].pc \in {"install", "undo"}
      /\ Sound(run[r], Home(r)) /\ r \in Runners /\ wheel \in Wheels
      /\ UNCHANGED <<receipt, store, rotten, stamp, site, scripts, last, holder, faults>>
  BY SiteFacts DEF IInv, RunsSound, Sound, Installed, Undone, At, Lands
<1>1. Wrote(Home(r), own, wheel) /\ Gone(Home(r), own) /\ own.id = r
  BY DEF Installed, Undone, At, Lands, Mine, Undo, Job
<1>2. PICK pc \in {"verify", "reverify"} :
        Go(r, pc) /\ (pc = "verify" => run[r].pc = "install")
  BY DEF Installed, Undone, At
<1>3. /\ OnlyRun(r) /\ Others(r) /\ run'[r].pc = pc /\ run'[r].blocked = run[r].blocked
      /\ run'[r].exit = run[r].exit
  BY <1>0, <1>2, Goes DEF PCs, Working
<1>4. \A j \in jobs[Home(r)] : j \in Jobs /\ ~Keeper(j) /\ (j.id = Stray \/ j = own)
  BY <1>0, Alone DEF Working, OwnJob
<1> HIDE DEF own
<1>5. /\ Active' = Active /\ Macs' = Macs /\ \A q : Home(q)' = Home(q)
      /\ \A q \in Active : q # r => run'[q] = run[q]
      /\ live'[Home(r)] = wheel /\ writer'[Home(r)] = r
      /\ \A n \in Macs : n # Home(r) => live'[n] = live[n] /\ writer'[n] = writer[n]
      /\ jobs'[Home(r)] = jobs[Home(r)] \ {own}
      /\ jobs' = [jobs EXCEPT ![Home(r)] = jobs[Home(r)] \ {own}]
      /\ \A q \in Active : Home(q) \in Macs
      /\ scripts' = scripts
  BY <1>0, <1>1, <1>3, SiteFacts
  DEF TypeInv, PackageTypeOK, OnlyRun, Wrote, Gone, Active, Macs, Home
<1> HIDE DEF wheel
<1>6. TypeInv'
  <2>1. PackageTypeOK(Macs)'
    BY <1>0, <1>1, <1>4, <1>5 DEF TypeInv, PackageTypeOK, Wrote
  <2>2. run' \in [Active -> Runs]
    BY <1>0, <1>3 DEF TypeInv, OnlyRun
  <2> QED BY <1>0, <2>1, <2>2 DEF TypeInv, Runs, Scripts, Active, Macs
<1>7. RunsSound'
  <2>1. Sound(run'[r], Home(r))
    BY <1>0, <1>2, <1>3 DEF Sound, Fresh, Others
  <2> QED BY <1>5, <2>1 DEF IInv, RunsSound
<1>8. LockInv' /\ JobInv'
  BY <1>0, <1>3, <1>4, <1>5, RunInstalls DEF IInv, Working
<1>9. \A q \in Active : \A n \in Macs : Touches(q, n)' => Touches(q, n)
  BY <1>0, <1>5, PackageAssumption DEF Touches
<1>10. FootInv'
  <2>1. ~run[r].blocked /\ run[r].pc # "remote" /\ run[r].pc # "done"
    BY <1>0 DEF Sound, Fresh
  <2>2. ASSUME NEW q \in Active, NEW n \in Macs, Touches(q, n)'
        PROVE  /\ \A k \in Macs : Touches(q, k)' => k = n
               /\ n = Home(q) => run'[q].pc \in Local
               /\ n # Home(q) => Parted(run'[q], n)
    <3>1. /\ \A k \in Macs : Touches(q, k)' => k = n
          /\ n = Home(q) => run[q].pc \in Local
          /\ n # Home(q) => Parted(run[q], n)
      BY <1>9, <2>2 DEF IInv, FootInv
    <3>2. CASE q = r
      BY <1>3, <2>1, <3>1, <3>2 DEF Parted, Local
    <3>3. CASE q # r
      BY <1>5, <3>1, <3>3
    <3> QED BY <3>2, <3>3
  <2> QED BY <1>5, <2>2 DEF IInv, FootInv
<1>11. DoneInv'
  <2>1. Proven(run'[r]) => live'[Home(r)] = run'[r].wheel
    BY <1>2, <1>3, <1>5 DEF Proven, Others, wheel
  <2>2. ASSUME NEW q \in Active, q # r, Proven(run'[q])
        PROVE  live'[Home(q)] = run'[q].wheel \/ writer'[Home(q)] = Stray
    <3>1. Home(q) # Home(r)
      BY <1>0, <1>5, <2>2, Alone DEF Proven, Working
    <3> QED BY <1>5, <2>2, <3>1 DEF IInv, DoneInv, Has
  <2>3. ASSUME NEW n \in Macs, NEW s \in scripts[n], s.pc \in {"answer", "rest"}
        PROVE  live'[n] = s.wheel \/ writer'[n] = Stray
    <3>1. n # Home(r)
      BY <1>0, <2>3, Alone DEF Working
    <3> QED BY <1>5, <2>3, <3>1 DEF IInv, DoneInv, Has
  <2> QED BY <1>5, <2>1, <2>2, <2>3 DEF DoneInv, Has
<1> QED BY <1>6, <1>7, <1>8, <1>10, <1>11 DEF IInv

-----------------------------------------------------------------------------
(* The script on a peer.                                                   *)

\* The lock of the Mac is with a script past its start.
LEMMA ScriptAlone ==
  ASSUME IInv, NEW m \in Macs, NEW s \in scripts[m], s.pc # "start"
  PROVE  /\ \A q \in Active : run[q].pc \in Working => Home(q) # m
         /\ \A t \in scripts[m] : t # s => t.pc = "start"
         /\ \A j \in jobs[m] : j \in Jobs /\ (Keeper(j) => ScriptJob(s, j))
         /\ \A j \in jobs[m] : j.id = Stray \/ ScriptJob(s, j)
         /\ s \in Scripts /\ s.id \in Active /\ s.wheel \in Wheels
<1>1. s \in Scripts /\ s.id \in Active /\ s.wheel \in Wheels /\ jobs[m] \subseteq Jobs
  BY DEF IInv, TypeInv, PackageTypeOK, Scripts
<1>2. /\ \A q \in Active : run[q].pc \in Working => Home(q) # m
      /\ \A t \in scripts[m] : t # s => t.pc = "start"
      /\ \A j \in jobs[m] : Keeper(j) => ScriptJob(s, j)
  BY DEF IInv, LockInv
<1>3. ASSUME NEW j \in jobs[m], j.id # Stray PROVE ScriptJob(s, j)
  <2>1. \A q \in Active : Home(q) = m => ~OwnJob(run[q], q, j)
    BY <1>2, JobFacts DEF Working
  <2>2. PICK t \in scripts[m] : ScriptJob(t, j)
    BY <1>3, <2>1 DEF IInv, JobInv
  <2>3. t = s
    BY <1>2, <2>2, JobFacts
  <2> QED BY <2>2, <2>3
<1> QED BY <1>1, <1>2, <1>3

LEMMA ScriptAdvances ==
  ASSUME IInv, NEW m \in Macs, NEW s \in scripts[m], NEW pc \in {"install", "answer", "rest"},
         s.pc # "start", Replaced(m, s, pc), UNCHANGED <<site, run, holder>>,
         \A n \in Macs : n # m =>
           live'[n] = live[n] /\ writer'[n] = writer[n] /\ jobs'[n] = jobs[n],
         live'[m] = Broken => live[m] = Broken /\ writer'[m] = writer[m],
         pc # "install" => live'[m] = s.wheel \/ writer'[m] = Stray,
         \A j \in jobs'[m] : j \in jobs[m] \/ ScriptJob([s EXCEPT !.pc = pc], j),
         \A j \in jobs'[m] : Keeper(j) => ScriptJob([s EXCEPT !.pc = pc], j)
  PROVE  RunsSound' /\ LockInv' /\ JobInv' /\ FootInv' /\ DoneInv'
           /\ scripts' \in [Macs -> SUBSET Scripts]
<1> DEFINE t == [s EXCEPT !.pc = pc]
<1>0. /\ TypeInv /\ s \in Scripts
      /\ \A q \in Active : run[q].pc \in Working => Home(q) # m
      /\ \A u \in scripts[m] : u # s => u.pc = "start"
      /\ \A j \in jobs[m] : Keeper(j) => ScriptJob(s, j)
      /\ \A j \in jobs[m] : j.id = Stray \/ ScriptJob(s, j)
  BY ScriptAlone DEF IInv
<1>1. t \in Scripts /\ t.id = s.id /\ t.pc = pc /\ t.wheel = s.wheel
  BY <1>0 DEF Scripts
<1>2. /\ \A j \in jobs'[m] : j \in jobs[m] \/ ScriptJob(t, j)
      /\ \A j \in jobs'[m] : Keeper(j) => ScriptJob(t, j)
      /\ scripts' = [scripts EXCEPT ![m] = (scripts[m] \ {s}) \cup {t}]
  BY DEF Replaced
<1> HIDE DEF t
<1>3. /\ Active' = Active /\ Macs' = Macs /\ \A q : Home(q)' = Home(q)
      /\ scripts'[m] = (scripts[m] \ {s}) \cup {t}
      /\ \A n \in Macs : n # m => scripts'[n] = scripts[n]
      /\ run' = run /\ holder' = holder
      /\ \A q \in Active : Home(q) \in Macs
  BY <1>0, <1>2, SiteFacts DEF TypeInv, Active, Macs, Home
<1>4. scripts' \in [Macs -> SUBSET Scripts]
  BY <1>0, <1>1, <1>2 DEF TypeInv
<1>5. RunsSound'
  BY <1>3 DEF IInv, RunsSound
<1>6. \A q \in Active : \A n \in Macs : Touches(q, n)' => Touches(q, n)
  BY <1>1, <1>3 DEF Touches
<1>7. FootInv'
  <2>1. \A n \in Macs : \A u, v \in scripts'[n] : u.id = v.id => u = v
    BY <1>1, <1>3 DEF IInv, FootInv
  <2> QED BY <1>3, <1>6, <2>1 DEF IInv, FootInv
<1>8. DoneInv'
  <2>1. ASSUME NEW q \in Active, Proven(run[q])
        PROVE  live'[Home(q)] = run[q].wheel \/ writer'[Home(q)] = Stray
    <3>1. Home(q) # m
      BY <1>0, <2>1 DEF Proven, Working
    <3> QED BY <1>3, <2>1, <3>1 DEF IInv, DoneInv, Has
  <2>2. ASSUME NEW n \in Macs, NEW u \in scripts'[n], u.pc \in {"answer", "rest"}
        PROVE  live'[n] = u.wheel \/ writer'[n] = Stray
    <3>1. CASE n = m
      BY <1>0, <1>1, <1>3, <2>2, <3>1
    <3>2. CASE n # m
      BY <1>3, <2>2, <3>2 DEF IInv, DoneInv, Has
    <3> QED BY <3>1, <3>2
  <2> QED BY <1>3, <2>1, <2>2 DEF DoneInv, Has
<1>9. LockInv'
  <2>1. ASSUME NEW n \in Macs
        PROVE  /\ \A u, v \in scripts'[n] : u.pc # "start" /\ v.pc # "start" => u = v
               /\ \A i, j \in jobs'[n] : Keeper(i) /\ Keeper(j) => i = j
               /\ \A j \in jobs'[n] : \A u \in scripts'[n] :
                    Keeper(j) /\ u.pc # "start" => ScriptJob(u, j)
    <3>1. CASE n # m
      BY <1>3, <3>1 DEF IInv, LockInv
    <3>2. CASE n = m
      <4>1. \A u \in scripts'[m] : u.pc # "start" => u = t
        BY <1>0, <1>3
      <4>2. \A i, j \in jobs'[m] : Keeper(i) /\ Keeper(j) => i = j
        BY <1>2 DEF ScriptJob
      <4> QED BY <1>2, <3>2, <4>1, <4>2
    <3> QED BY <3>1, <3>2
  <2>2. ASSUME NEW q \in Active, run[q].pc \in Working
        PROVE  /\ holder[Home(q)] = q
               /\ \A u \in scripts'[Home(q)] : u.pc = "start"
               /\ \A j \in jobs'[Home(q)] : ~Keeper(j)
    BY <1>0, <1>3, <2>2 DEF IInv, LockInv
  <2> QED BY <1>3, <2>1, <2>2 DEF LockInv
<1>10. JobInv'
  <2>1. ASSUME NEW n \in Macs, NEW j \in jobs'[n]
        PROVE  \/ j.id = Stray
               \/ j.id \in Active /\ Home(j.id) = n /\ OwnJob(run[j.id], j.id, j)
               \/ \E u \in scripts'[n] : ScriptJob(u, j)
    <3>1. CASE n # m
      BY <1>3, <3>1 DEF IInv, JobInv
    <3>2. CASE n = m
      <4>1. j.id = Stray \/ ScriptJob(t, j)
        BY <1>0, <1>2, <3>2, JobFacts
      <4> QED BY <1>3, <3>2, <4>1
    <3> QED BY <3>1, <3>2
  <2> QED BY <1>3, <2>1 DEF JobInv
<1> QED BY <1>4, <1>5, <1>7, <1>8, <1>9, <1>10

LEMMA ScriptMoves ==
  ASSUME IInv, NEW m \in Macs, NEW s \in scripts[m],
         ScriptSkips(m, s) \/ ScriptInstalls(m, s) \/ ScriptStamps(m, s) \/ ScriptLands(m, s)
  PROVE  IInv'
<1> DEFINE own == Job(s.id, s.wheel, TRUE)
<1>0. /\ TypeInv /\ s \in Scripts /\ s.id \in Runners /\ s.wheel \in Wheels /\ s.pc # "start"
      /\ UNCHANGED <<receipt, store, rotten, site, run, last, holder, faults>>
      /\ \A j \in jobs[m] : j \in Jobs /\ (Keeper(j) => ScriptJob(s, j))
  BY ScriptAlone, SiteFacts
  DEF IInv, ScriptSkips, ScriptInstalls, ScriptStamps, ScriptLands, Lands, packageVars
<1>1. own \in Jobs /\ own.id = s.id
  BY <1>0, JobTypes
<1>2. ASSUME NEW pc, NEW j PROVE ScriptJob([s EXCEPT !.pc = pc], j) <=> pc = "install" /\ j = own
  BY <1>0 DEF ScriptJob, Scripts
<1>3. Broken \notin Wheels
  BY PackageAssumption
<1> HIDE DEF own
<1> DEFINE Rest == RunsSound' /\ LockInv' /\ JobInv' /\ FootInv' /\ DoneInv'
                     /\ scripts' \in [Macs -> SUBSET Scripts]
<1>4. ASSUME ScriptSkips(m, s)
      PROVE  Rest /\ live' = live /\ writer' = writer /\ jobs' = jobs /\ stamp' = stamp
  <2>1. /\ s.pc = "verify" /\ Replaced(m, s, "rest") /\ live[m] = s.wheel
        /\ live' = live /\ writer' = writer /\ jobs' = jobs /\ stamp' = stamp
    BY <1>4 DEF ScriptSkips, Stamped, packageVars
  <2>2. \A j \in jobs[m] : ~Keeper(j)
    BY <1>0, <2>1 DEF ScriptJob
  <2> QED BY <1>0, <1>3, <2>1, <2>2, ScriptAdvances
<1>5. ASSUME ScriptInstalls(m, s)
      PROVE  Rest /\ live' = live /\ writer' = writer /\ stamp' = stamp
               /\ jobs' = [jobs EXCEPT ![m] = jobs[m] \cup {own}]
  <2>1. /\ s.pc = "verify" /\ Replaced(m, s, "install")
        /\ live' = live /\ writer' = writer /\ stamp' = stamp
        /\ jobs' = [jobs EXCEPT ![m] = jobs[m] \cup {own}]
    BY <1>5 DEF ScriptInstalls, Starts, own
  <2>2. \A j \in jobs[m] : ~Keeper(j)
    BY <1>0, <2>1 DEF ScriptJob
  <2>3. /\ \A n \in Macs : n # m => jobs'[n] = jobs[n]
        /\ jobs'[m] = jobs[m] \cup {own}
    BY <1>0, <2>1 DEF TypeInv, PackageTypeOK
  <2>4. /\ \A j \in jobs'[m] : j \in jobs[m] \/ ScriptJob([s EXCEPT !.pc = "install"], j)
        /\ \A j \in jobs'[m] : Keeper(j) => ScriptJob([s EXCEPT !.pc = "install"], j)
    BY <1>2, <2>2, <2>3
  <2> QED BY <1>0, <2>1, <2>3, <2>4, ScriptAdvances
<1>6. ASSUME ScriptStamps(m, s)
      PROVE  Rest /\ live' = live /\ writer' = writer /\ jobs' = jobs
               /\ stamp' = [stamp EXCEPT ![m] = s.wheel]
  <2>1. /\ s.pc = "answer" /\ Replaced(m, s, "rest") /\ Has(m, s.wheel)
        /\ live' = live /\ writer' = writer /\ jobs' = jobs
        /\ stamp' = [stamp EXCEPT ![m] = s.wheel]
    BY <1>6 DEF ScriptStamps, IInv, DoneInv
  <2>2. \A j \in jobs[m] : ~Keeper(j)
    BY <1>0, <2>1 DEF ScriptJob
  <2>3. live'[m] = s.wheel \/ writer'[m] = Stray
    BY <2>1 DEF Has
  <2> QED BY <1>0, <2>1, <2>2, <2>3, ScriptAdvances
<1>7. ASSUME ScriptLands(m, s)
      PROVE  Rest /\ live' = [live EXCEPT ![m] = s.wheel] /\ writer' = [writer EXCEPT ![m] = s.id]
               /\ stamp' = stamp /\ jobs' = [jobs EXCEPT ![m] = jobs[m] \ {own}]
  <2>1. /\ s.pc = "install" /\ Replaced(m, s, "answer") /\ stamp' = stamp
        /\ live' = [live EXCEPT ![m] = s.wheel] /\ writer' = [writer EXCEPT ![m] = s.id]
        /\ jobs' = [jobs EXCEPT ![m] = jobs[m] \ {own}]
    BY <1>7 DEF ScriptLands, Lands, Wrote, Gone, own, Job
  <2>2. \A j \in jobs[m] : Keeper(j) => j = own
    BY <1>0, <2>1 DEF ScriptJob, own
  <2>3. /\ \A n \in Macs : n # m =>
             live'[n] = live[n] /\ writer'[n] = writer[n] /\ jobs'[n] = jobs[n]
        /\ jobs'[m] = jobs[m] \ {own} /\ live'[m] = s.wheel
    BY <1>0, <2>1 DEF TypeInv, PackageTypeOK
  <2>4. /\ \A j \in jobs'[m] : j \in jobs[m]
        /\ \A j \in jobs'[m] : ~Keeper(j)
    BY <2>2, <2>3
  <2>5. live'[m] # Broken
    BY <1>0, <1>3, <2>3
  <2> QED BY <1>0, <2>1, <2>3, <2>4, <2>5, ScriptAdvances
<1>8. Rest
  BY <1>4, <1>5, <1>6, <1>7
<1>9. PackageTypeOK(Macs)'
  <2>0. PackageTypeOK(Macs)
    BY <1>0 DEF TypeInv
  <2>1. live' = live \/ live' = [live EXCEPT ![m] = s.wheel]
    BY <1>4, <1>5, <1>6, <1>7
  <2>2. stamp' = stamp \/ stamp' = [stamp EXCEPT ![m] = s.wheel]
    BY <1>4, <1>5, <1>6, <1>7
  <2>3. jobs' = jobs \/ \E new \in SUBSET (jobs[m] \cup {own}) : jobs' = [jobs EXCEPT ![m] = new]
    BY <1>4, <1>5, <1>6, <1>7
  <2>4. writer' = writer \/ writer' = [writer EXCEPT ![m] = s.id]
    BY <1>4, <1>5, <1>6, <1>7
  <2>5. /\ live' \in [Macs -> Wheels \cup {Broken}] /\ stamp' \in [Macs -> Wheels \cup {None}]
        /\ writer' \in [Macs -> Runners \cup {Stray, None}]
    BY <1>0, <2>0, <2>1, <2>2, <2>4 DEF PackageTypeOK
  <2>6. jobs' \in [Macs -> SUBSET Jobs]
    BY <1>1, <2>0, <2>3 DEF PackageTypeOK
  <2> QED BY <1>0, <2>0, <2>5, <2>6 DEF PackageTypeOK, Macs
<1>10. TypeInv'
  BY <1>0, <1>8, <1>9 DEF TypeInv, Runs, Scripts, Active, Macs
<1> QED BY <1>8, <1>10 DEF IInv

(* pip at work for a script.                                               *)
LEMMA ScriptAtWork ==
  ASSUME IInv, NEW m \in Macs, NEW s \in scripts[m], ScriptUnpacks(m, s)
  PROVE  IInv'
<1> DEFINE own == Job(s.id, s.wheel, TRUE)
<1>0. /\ TypeInv /\ s.id \in Active /\ s.id \in Runners /\ s.pc = "install"
      /\ Wrote(m, own, Broken) /\ own.id = s.id
      /\ UNCHANGED <<receipt, store, rotten, stamp, jobs, site, run, scripts, last, holder, faults>>
  BY ScriptAlone, SiteFacts DEF IInv, ScriptUnpacks, Unpacks, Job
<1> HIDE DEF own
<1>1. TypeInv'
  BY <1>0 DEF TypeInv, PackageTypeOK, Wrote, Runs, Scripts, Active, Macs
<1>2. RunsSound' /\ LockInv' /\ JobInv'
  BY <1>0 DEF IInv, RunsSound, LockInv, JobInv, Home, Active, Macs
<1>3. /\ \A q \in Active : Proven(run[q]) => Home(q) # m
      /\ \A t \in scripts[m] : t.pc \notin {"answer", "rest"}
  BY <1>0, ScriptAlone DEF Proven, Working
<1>4. FootInv' /\ DoneInv'
  BY <1>0, <1>3, WriteKeeps DEF IInv
<1> QED BY <1>1, <1>2, <1>4 DEF IInv

(* A script ends, one way or another.                                      *)
LEMMA ScriptExits ==
  ASSUME IInv, NEW m \in Macs, NEW s \in scripts[m],
         \/ ScriptRefused(m, s) \/ ScriptDistrusts(m, s) \/ ScriptFails(m, s)
         \/ ScriptMismatch(m, s) \/ ScriptDies(m, s) \/ ScriptEnds(m, s)
  PROVE  IInv'
<1> USE DEF packageVars, Fails
<1>0. TypeInv /\ s \in Scripts /\ s.id \in Runners /\ s.wheel \in Wheels
  BY SiteFacts DEF IInv, TypeInv, Scripts
<1>1. /\ UNCHANGED <<live, receipt, store, rotten, stamp, writer, site, last, holder>>
      /\ faults' = faults \/ Fault
  BY DEF ScriptRefused, ScriptDistrusts, ScriptFails, ScriptMismatch, ScriptDies, ScriptEnds
<1>2. PICK code \in {0, 1} : Exits(m, s, code) /\ (code = 0 => s.pc = "rest")
  <2>1. CASE ScriptEnds(m, s)
    BY <2>1 DEF ScriptEnds
  <2>2. CASE ~ScriptEnds(m, s)
    <3>1. Exits(m, s, 1)
      BY <2>2 DEF ScriptRefused, ScriptDistrusts, ScriptFails, ScriptMismatch, ScriptDies
    <3> QED BY <3>1
  <2> QED BY <2>1, <2>2
<1>3. \/ s.pc # "install" /\ jobs' = jobs
      \/ s.pc = "install" /\ Abandoned(m, Job(s.id, s.wheel, TRUE))
  BY DEF ScriptRefused, ScriptDistrusts, ScriptFails, ScriptMismatch, ScriptDies, ScriptEnds,
     Abandoned
<1>4. RunsSound' /\ FootInv' /\ DoneInv' /\ run' \in [Active -> Runs]
  BY <1>1, <1>2, ExitKeeps DEF IInv
<1>5. LockInv' /\ JobInv'
  BY <1>1, <1>2, <1>3, ExitKeepsLock DEF IInv
<1>6. jobs' \in [Macs -> SUBSET Jobs]
  <2>1. CASE jobs' = jobs
    BY <1>0, <2>1 DEF TypeInv, PackageTypeOK
  <2>2. CASE Abandoned(m, Job(s.id, s.wheel, TRUE))
    <3>1. PICK new \in SUBSET Jobs : jobs' = [jobs EXCEPT ![m] = new]
      BY <1>0, <2>2, AbandonedJobs
    <3> QED BY <1>0, <3>1 DEF TypeInv, PackageTypeOK
  <2> QED BY <1>3, <2>1, <2>2
<1>7. scripts' \in [Macs -> SUBSET Scripts]
  BY <1>0, <1>2 DEF Exits, TypeInv
<1>8. faults' \in 0..site'.faults
  BY <1>0, <1>1, FaultsBounded
<1>9. TypeInv'
  BY <1>0, <1>1, <1>4, <1>6, <1>7, <1>8
  DEF TypeInv, PackageTypeOK, Runs, Scripts, Active, Macs
<1> QED BY <1>4, <1>5, <1>9 DEF IInv

-----------------------------------------------------------------------------
(* Installers that nobody waits for, and worse.                            *)

LEMMA StrayMoves ==
  ASSUME IInv, NEW m \in Macs, StrayAtWork(m)
  PROVE  IInv'
<1>1. PICK j \in jobs[m] : j.id = Stray /\ (Unpacks(m, j) \/ Lands(m, j) \/ Fails(m, j))
  BY DEF StrayAtWork, StrayWorks, Strays
<1>2. /\ TypeInv /\ j \in Jobs /\ j.wheel \in Wheels
      /\ UNCHANGED <<receipt, store, rotten, stamp, site, run, scripts, last, holder, faults>>
  BY <1>1 DEF IInv, TypeInv, PackageTypeOK, Jobs, StrayAtWork, Unpacks, Lands, Fails
<1>3. \/ Wrote(m, j, Broken) \/ Wrote(m, j, j.wheel)
      \/ live' = live /\ writer' = writer
  BY <1>1 DEF Unpacks, Lands, Fails
<1>4. jobs' = jobs \/ jobs' = [jobs EXCEPT ![m] = jobs[m] \ {j}]
  BY <1>1 DEF Unpacks, Lands, Fails, Gone
<1>5. jobs' \in [Macs -> SUBSET Jobs] /\ \A n \in Macs : jobs'[n] \subseteq jobs[n]
  BY <1>2, <1>4 DEF TypeInv, PackageTypeOK
<1>6. /\ live' \in [Macs -> Wheels \cup {Broken}]
      /\ writer' \in [Macs -> Runners \cup {Stray, None}]
  BY <1>1, <1>2, <1>3 DEF TypeInv, PackageTypeOK, Wrote
<1>7. TypeInv'
  BY <1>2, <1>5, <1>6 DEF TypeInv, PackageTypeOK, Runs, Scripts, Active, Macs
<1>8. Active' = Active /\ Macs' = Macs /\ \A q : Home(q)' = Home(q)
  BY <1>2 DEF Active, Macs, Home
<1>9. RunsSound'
  BY <1>2, <1>8 DEF IInv, RunsSound
<1>10. LockInv' /\ JobInv'
  <2>1. \A q \in Active : Home(q) \in Macs
    BY <1>2, SiteFacts
  <2>2. ASSUME NEW n \in Macs
        PROVE  /\ \A u, v \in scripts[n] : u.pc # "start" /\ v.pc # "start" => u = v
               /\ \A i, k \in jobs'[n] : Keeper(i) /\ Keeper(k) => i = k
               /\ \A k \in jobs'[n] : \A u \in scripts[n] :
                    Keeper(k) /\ u.pc # "start" => ScriptJob(u, k)
    BY <1>5 DEF IInv, LockInv
  <2>3. LockInv'
    BY <1>2, <1>5, <1>8, <2>1, <2>2 DEF IInv, LockInv
  <2>4. JobInv'
    BY <1>2, <1>5, <1>8 DEF IInv, JobInv
  <2> QED BY <2>3, <2>4
<1>11. FootInv' /\ DoneInv'
  <2>1. CASE live' = live /\ writer' = writer
    <3>1. /\ \A q, n : Touches(q, n)' <=> Touches(q, n)
          /\ \A n, w : Has(n, w)' <=> Has(n, w)
      BY <1>2, <2>1 DEF Touches, Has
    <3> QED BY <1>2, <1>8, <3>1 DEF IInv, FootInv, DoneInv
  <2>2. CASE Wrote(m, j, Broken)
    BY <1>1, <1>2, <2>2, WriteKeeps DEF IInv
  <2>3. CASE Wrote(m, j, j.wheel)
    BY <1>1, <1>2, <2>3, WriteKeeps DEF IInv
  <2> QED BY <1>3, <2>1, <2>2, <2>3
<1> QED BY <1>7, <1>9, <1>10, <1>11 DEF IInv

LEMMA MacRestarts ==
  ASSUME IInv, NEW m \in Macs, Restarts(m)
  PROVE  IInv'
<1>0. /\ TypeInv /\ Fault
      /\ UNCHANGED <<live, receipt, store, rotten, stamp, writer, site, last, holder>>
      /\ jobs' = [jobs EXCEPT ![m] = {}] /\ scripts' = [scripts EXCEPT ![m] = {}]
  BY DEF IInv, Restarts
<1> DEFINE ended(q) == [run[q] EXCEPT !.pc = "done", !.exit = 1]
           failed(q) == [run[q] EXCEPT !.pc = "peers", !.at = 0, !.exit = 1, !.blocked = TRUE]
<1>1. run' = [q \in Active |->
         IF Home(q) = m /\ run[q].pc # "idle" THEN ended(q)
         ELSE IF ~At(q, "remote") \/ run[q].at # m THEN run[q]
         ELSE failed(q)]
  BY DEF Restarts
<1>2. ASSUME NEW q \in Active
      PROVE  /\ ended(q) \in Runs /\ ended(q).pc = "done" /\ ended(q).exit = 1
             /\ ended(q).todo = run[q].todo
             /\ failed(q) \in Runs /\ failed(q).pc = "peers" /\ failed(q).exit = 1
             /\ failed(q).todo = run[q].todo /\ failed(q).blocked
  <2>1. run[q] \in Runs
    BY <1>0 DEF TypeInv
  <2>2. /\ ended(q) \in Runs /\ ended(q).pc = "done" /\ ended(q).exit = 1
        /\ ended(q).todo = run[q].todo
    BY <2>1 DEF Runs, PCs, ExitCodes
  <2>3. /\ failed(q) \in Runs /\ failed(q).pc = "peers" /\ failed(q).exit = 1
        /\ failed(q).todo = run[q].todo
    BY <2>1 DEF Runs, PCs, Working, ExitCodes
  <2>4. failed(q).blocked
    BY <2>1 DEF Runs
  <2> QED BY <2>2, <2>3, <2>4
<1> HIDE DEF ended, failed
<1>3. ASSUME NEW q \in Active
      PROVE  \/ run'[q] = ended(q)
             \/ run'[q] = run[q] /\ (Home(q) = m => run[q].pc = "idle")
             \/ run'[q] = failed(q) /\ run[q].pc = "remote" /\ Home(q) # m
  BY <1>1 DEF At
<1>4. /\ Active' = Active /\ Macs' = Macs /\ \A q : Home(q)' = Home(q)
      /\ jobs'[m] = {} /\ scripts'[m] = {}
      /\ \A n \in Macs : n # m => jobs'[n] = jobs[n] /\ scripts'[n] = scripts[n]
      /\ \A q \in Active : Home(q) \in Macs
      /\ holder' = holder /\ live' = live /\ writer' = writer
  BY <1>0, SiteFacts DEF TypeInv, PackageTypeOK, Active, Macs, Home
<1>5. TypeInv'
  <2>1. \A q \in Active : run'[q] \in Runs
    BY <1>0, <1>2, <1>3 DEF TypeInv
  <2>2. run' \in [Active -> Runs]
    BY <1>1, <2>1
  <2>3. faults' \in 0..site'.faults
    BY <1>0, FaultsBounded
  <2>4. jobs' \in [Macs -> SUBSET Jobs] /\ scripts' \in [Macs -> SUBSET Scripts]
    BY <1>0 DEF TypeInv, PackageTypeOK
  <2> QED BY <1>0, <2>2, <2>3, <2>4 DEF TypeInv, PackageTypeOK, Runs, Scripts, Active, Macs
<1>6. RunsSound'
  <2>1. ASSUME NEW q \in Active PROVE Sound(run'[q], Home(q))
    BY <1>2, <1>3 DEF IInv, RunsSound, Sound, Fresh
  <2> QED BY <1>4, <2>1 DEF RunsSound
<1>7. FootInv'
  <2>1. \A q \in Active : \A n \in Macs : Touches(q, n)' => Touches(q, n)
    BY <1>4 DEF Touches
  <2>2. ASSUME NEW q \in Active, NEW n \in Macs, Touches(q, n)'
        PROVE  /\ \A k \in Macs : Touches(q, k)' => k = n
               /\ n = Home(q) => run'[q].pc \in Local
               /\ n # Home(q) => Parted(run'[q], n)
    <3>1. /\ \A k \in Macs : Touches(q, k)' => k = n
          /\ n = Home(q) => run[q].pc \in Local
          /\ n # Home(q) => Parted(run[q], n)
      BY <2>1, <2>2 DEF IInv, FootInv
    <3> QED BY <1>2, <1>3, <3>1 DEF Parted, Local
  <2>3. \A n \in Macs : \A u, v \in scripts'[n] : u.id = v.id => u = v
    BY <1>4 DEF IInv, FootInv
  <2> QED BY <1>4, <2>2, <2>3 DEF FootInv
<1>8. DoneInv'
  <2>1. ASSUME NEW q \in Active, Proven(run'[q]) PROVE run'[q] = run[q]
    BY <1>2, <1>3, <2>1 DEF Proven
  <2> QED BY <1>4, <2>1 DEF IInv, DoneInv, Has
<1>9. LockInv'
  <2>1. ASSUME NEW q \in Active, run'[q].pc \in Working
        PROVE  run[q].pc \in Working /\ Home(q) # m
    BY <1>2, <1>3, <2>1 DEF Working
  <2>2. ASSUME NEW q \in Active, run'[q].pc \in Working
        PROVE  /\ holder[Home(q)] = q
               /\ \A u \in scripts'[Home(q)] : u.pc = "start"
               /\ \A j \in jobs'[Home(q)] : ~Keeper(j)
    BY <1>4, <2>1, <2>2 DEF IInv, LockInv
  <2>3. ASSUME NEW n \in Macs
        PROVE  /\ \A u, v \in scripts'[n] : u.pc # "start" /\ v.pc # "start" => u = v
               /\ \A i, k \in jobs'[n] : Keeper(i) /\ Keeper(k) => i = k
               /\ \A k \in jobs'[n] : \A u \in scripts'[n] :
                    Keeper(k) /\ u.pc # "start" => ScriptJob(u, k)
    <3>1. CASE n = m
      BY <1>4, <3>1
    <3>2. CASE n # m
      BY <1>4, <3>2 DEF IInv, LockInv
    <3> QED BY <3>1, <3>2
  <2> QED BY <1>4, <2>2, <2>3 DEF LockInv
<1>10. JobInv'
  <2>1. ASSUME NEW q \in Active, NEW j, Home(q) # m, OwnJob(run[q], q, j)
        PROVE  OwnJob(run'[q], q, j)
    <3>1. run'[q] = run[q]
      BY <1>1, <2>1, JobFacts DEF At
    <3> QED BY <2>1, <3>1
  <2>2. ASSUME NEW n \in Macs, NEW j \in jobs'[n]
        PROVE  \/ j.id = Stray
               \/ j.id \in Active /\ Home(j.id) = n /\ OwnJob(run'[j.id], j.id, j)
               \/ \E u \in scripts'[n] : ScriptJob(u, j)
    BY <1>4, <2>1 DEF IInv, JobInv
  <2> QED BY <1>4, <2>2 DEF JobInv
<1> QED BY <1>5, <1>6, <1>7, <1>8, <1>9, <1>10 DEF IInv

LEMMA WheelsRot ==
  ASSUME IInv, NEW m \in Macs, WheelRots(m)
  PROVE  IInv'
<1>1. /\ TypeInv /\ Fault
      /\ UNCHANGED <<live, receipt, store, stamp, jobs, writer, site, run, scripts, last, holder>>
      /\ \E w \in store[m] \ rotten[m] : rotten' = [rotten EXCEPT ![m] = @ \cup {w}]
  BY DEF IInv, WheelRots, Rots
<1>2. rotten' \in [Macs -> SUBSET Wheels] /\ faults' \in 0..site'.faults
  BY <1>1, FaultsBounded DEF TypeInv, PackageTypeOK
<1>3. TypeInv'
  BY <1>1, <1>2 DEF TypeInv, PackageTypeOK, Runs, Scripts, Active, Macs
<1>4. RunsSound' /\ LockInv' /\ JobInv' /\ FootInv' /\ DoneInv'
  BY <1>1 DEF IInv, RunsSound, LockInv, JobInv, FootInv, DoneInv, Has, Touches, Home, Active, Macs
<1> QED BY <1>3, <1>4 DEF IInv

-----------------------------------------------------------------------------
(* The inductive invariant.                                                *)

LEMMA Initially == Init => IInv
<1> SUFFICES ASSUME Init PROVE IInv
  OBVIOUS
<1>1. /\ site \in Sites /\ First \in Wheels /\ site.maintained \subseteq Macs
      /\ site.faults \in Nat /\ Idle.cmd \in site.commands /\ site.commands # {}
  BY AutomationAssumption DEF Init, Macs, Idle
<1>2. receipt \in [Macs -> Wheels \cup {None}]
  BY <1>1 DEF Init, PackageInit
<1>3. PackageTypeOK(Macs)
  BY <1>1, <1>2, PackageAssumption DEF Init, PackageInit, PackageTypeOK
<1>4. Idle \in Runs /\ Idle.pc = "idle" /\ ~Idle.blocked /\ Idle.todo = {}
  BY <1>1 DEF Idle, Runs, PCs, ExitCodes
<1>5. TypeInv
  BY <1>1, <1>3, <1>4 DEF Init, TypeInv, ExitCodes
<1>6. RunsSound
  BY <1>4 DEF Init, RunsSound, Sound
<1>7. LockInv /\ JobInv
  BY <1>4 DEF Init, PackageInit, LockInv, JobInv, Working
<1>8. \A q \in Active : \A n \in Macs : ~Touches(q, n)
  BY <1>1, PackageAssumption DEF Init, PackageInit, Touches
<1>9. FootInv /\ DoneInv
  BY <1>4, <1>8 DEF Init, FootInv, DoneInv, Proven
<1> QED BY <1>5, <1>6, <1>7, <1>9 DEF IInv

LEMMA Inductive == IInv /\ [Next]_vars => IInv'
<1> SUFFICES ASSUME IInv, [Next]_vars PROVE IInv'
  OBVIOUS
<1>1. ASSUME NEW r \in Active, RunStep(r) PROVE IInv'
  BY <1>1, RunLocks, RunMoves, RunPackage, RunBoundary, RunPeers, RunInstallsPeer, RunGivesUp,
     RunStartsUpdate, RunStopsUpdate, RunUnpacks, RunLands DEF RunStep
<1>2. ASSUME NEW m \in Macs, NEW s \in scripts[m], ScriptStep(m, s) PROVE IInv'
  BY <1>2, ScriptTakesLock, ScriptMoves, ScriptAtWork, ScriptExits DEF ScriptStep
<1>3. CASE UNCHANGED vars
  BY <1>3 DEF vars, packageVars, IInv, TypeInv, PackageTypeOK, Runs, Scripts, RunsSound, LockInv,
     JobInv, FootInv, DoneInv, Has, Touches, Home, Active, Macs
<1>4. CASE Next
  BY <1>1, <1>2, <1>4, RunDies, RunBoundary, StrayMoves, MacRestarts, WheelsRot DEF Next
<1> QED BY <1>3, <1>4

LEMMA Invariant == Spec => []IInv
BY Initially, Inductive, PTL DEF Spec

-----------------------------------------------------------------------------
(* What it shows.                                                          *)

LEMMA Types == IInv => TypeOK
<1> SUFFICES ASSUME IInv PROVE TypeOK
  OBVIOUS
<1>1. ASSUME NEW r \in Active
      PROVE  /\ run[r].pc \in Working \cup {"idle", "lock", "done"} /\ run[r].cmd \in site.commands
             /\ {run[r].wheel, run[r].back} \subseteq Wheels \cup {None}
             /\ run[r].todo \subseteq Macs /\ run[r].at \in Macs \cup {0}
             /\ run[r].blocked \in BOOLEAN /\ run[r].exit \in ExitCodes
  BY DEF IInv, TypeInv, Runs, PCs
<1>2. ASSUME NEW m \in Macs, NEW s \in scripts[m]
      PROVE  /\ s.id \in Active /\ s.wheel \in Wheels /\ s.files \in BOOLEAN
             /\ s.pc \in {"start", "verify", "install", "answer", "rest"}
  BY DEF IInv, TypeInv, Scripts
<1>3. /\ site \in Sites /\ PackageTypeOK(Macs) /\ DOMAIN run = Active
      /\ last \in [Macs -> [by : Runners \cup {None}, exit : ExitCodes]]
      /\ holder \in [Macs -> Runners \cup {None}] /\ faults \in 0..site.faults
  BY DEF IInv, TypeInv
<1>4. \A r \in Active :
        /\ run[r].pc \in Working \cup {"idle", "lock", "done"} /\ run[r].cmd \in site.commands
        /\ {run[r].wheel, run[r].back} \subseteq Wheels \cup {None}
        /\ run[r].todo \subseteq Macs /\ run[r].at \in Macs \cup {0}
        /\ run[r].blocked \in BOOLEAN /\ run[r].exit \in ExitCodes
  BY <1>1
<1>5. \A m \in Macs : \A s \in scripts[m] :
        /\ s.id \in Active /\ s.wheel \in Wheels /\ s.files \in BOOLEAN
        /\ s.pc \in {"start", "verify", "install", "answer", "rest"}
  BY <1>2
<1> QED BY <1>3, <1>4, <1>5 DEF TypeOK

LEMMA Overlaps == IInv => OnlyOrphansOverlap
<1> SUFFICES ASSUME IInv, NEW m \in Macs, NEW i \in jobs[m], NEW j \in jobs[m], i # j
             PROVE  \E k \in {i, j} : k.id = Stray /\ ~k.inherits
  BY DEF OnlyOrphansOverlap
<1>1. ASSUME ~(i.id = Stray /\ ~Keeper(i)), ~(j.id = Stray /\ ~Keeper(j)) PROVE FALSE
  <2>1. ASSUME NEW k \in {i, j}, ~(k.id = Stray /\ ~Keeper(k))
        PROVE  Keeper(k) \/ \E q \in Active : run[q].pc \in Working /\ Home(q) = m /\ OwnJob(run[q], q, k)
    BY <2>1, JobFacts DEF IInv, JobInv, Working
  <2>2. CASE Keeper(i) /\ Keeper(j)
    BY <2>2 DEF IInv, LockInv
  <2>3. CASE ~Keeper(i)
    <3>1. PICK q \in Active : run[q].pc \in Working /\ Home(q) = m /\ OwnJob(run[q], q, i)
      BY <1>1, <2>1, <2>3
    <3>2. OwnJob(run[q], q, j)
      BY <1>1, <3>1, Alone
    <3>3. i = j
      BY <3>1, <3>2, JobFacts
    <3> QED BY <3>3
  <2>4. CASE ~Keeper(j)
    <3>1. PICK q \in Active : run[q].pc \in Working /\ Home(q) = m /\ OwnJob(run[q], q, j)
      BY <1>1, <2>1, <2>4
    <3>2. OwnJob(run[q], q, i)
      BY <1>1, <3>1, Alone
    <3>3. i = j
      BY <3>1, <3>2, JobFacts
    <3> QED BY <3>3
  <2> QED BY <2>2, <2>3, <2>4
<1> QED BY <1>1 DEF Keeper

LEMMA Radius == IInv => BlastRadius
<1> SUFFICES ASSUME IInv, NEW r \in Active
             PROVE  Cardinality({m \in Macs : live[m] = Broken /\ writer[m] = r}) <= 1
  BY DEF BlastRadius
<1> DEFINE broken == {m \in Macs : live[m] = Broken /\ writer[m] = r}
<1>1. \A m, n \in broken : m = n
  BY DEF IInv, FootInv, Touches
<1>2. CASE broken = {}
  BY <1>2, FS_EmptySet
<1>3. ASSUME NEW m \in broken PROVE Cardinality(broken) <= 1
  <2>1. broken = {m}
    BY <1>1, <1>3
  <2>2. Cardinality({m}) = 1
    BY FS_Singleton
  <2> QED BY <2>1, <2>2
<1> QED BY <1>2, <1>3

LEMMA InstalledIfOk == IInv => OkMeansInstalled
BY DEF IInv, DoneInv, Proven, Has, OkMeansInstalled, At

LEMMA HolderReports == 
  IInv /\ [Next]_vars =>
    [\A m \in Macs : last'[m] # last[m] => last'[m].by = holder[m]]_vars
<1> SUFFICES ASSUME IInv, Next, NEW m \in Macs, last'[m] # last[m]
             PROVE  last'[m].by = holder[m]
  BY DEF vars
<1>1. PICK r \in Active : LockBusy(r) \/ Reports(r)
  <2>1. ASSUME NEW q \in Active, RunStep(q), last' # last PROVE LockBusy(q) \/ Reports(q)
    BY <2>1 DEF RunStep, Locks, ReportLost, Heals, Unconfigured, Builds, BuildFails, HealsPeer,
       SkipsPeer, InstallsPeer, PeerUnreached, GivesUp, PeersDone, Syncs, Examines, Unchanged,
       Uninstallable, RefusesUpdate, StartsUpdate, Unpacking, Installed, InstallFails, TimesOut,
       Verified, Unverified, ReceiptLost, Undone, UndoFails, Reverifies, RunOnly
  <2>2. ASSUME NEW n \in Macs, NEW s \in scripts[n], ScriptStep(n, s) PROVE last' = last
    BY <2>2 DEF ScriptStep, ScriptLocks, ScriptRefused, ScriptDistrusts, ScriptSkips,
       ScriptInstalls, ScriptUnpacks, ScriptLands, ScriptFails, ScriptStamps, ScriptMismatch,
       ScriptDies, ScriptEnds
  <2>3. last' # last
    OBVIOUS
  <2> QED BY <2>1, <2>2, <2>3 DEF Next, Dies, Begin, StrayAtWork, Restarts, WheelRots
<1>2. run[r].pc = "report" /\ holder[Home(r)] = r
  BY <1>1 DEF LockBusy, Reports, Finishes, Kept, At, IInv, LockInv, Working
<1>3. PICK exit : last' = [last EXCEPT ![Home(r)] = [by |-> r, exit |-> exit]]
  BY <1>1, <1>2 DEF LockBusy, Reports, Finishes, Kept, At
<1> QED BY <1>2, <1>3 DEF IInv, TypeInv

(* Every variable holds a value of its type.                               *)
THEOREM AutomationTypeOK == Spec => []TypeOK
BY Invariant, Types, PTL

(* Two installers work on one Mac at a time only if one of them was        *)
(* abandoned and had not inherited the lock: the lock of the Mac, which a  *)
(* script leaves to its installer, keeps the others apart, whoever dies.   *)
THEOREM InstallersApart == Spec => []OnlyOrphansOverlap
BY Invariant, Overlaps, PTL

(* One rollout leaves at most one Mac without a working CLI, in clusters   *)
(* of any size: the rollout stops at the first peer that fails, and what   *)
(* it may have left behind is all it ever touched.                         *)
THEOREM RolloutRadius == Spec => []BlastRadius
BY Invariant, Radius, PTL

(* A run about to end with exit 0 has its wheel on this Mac, and a script  *)
(* past its installation on its peer, unless an abandoned installer        *)
(* changed it: neither the receipt nor the stamp stands for more.          *)
THEOREM OkInstalled == Spec => []OkMeansInstalled
BY Invariant, InstalledIfOk, PTL

(* The report of a Mac is only ever written by the run that had its lock   *)
(* last.                                                                   *)
THEOREM HolderWritesReport == Spec => ReportOfHolder
BY Invariant, HolderReports, PTL DEF Spec, ReportOfHolder
=============================================================================
