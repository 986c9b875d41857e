----------------------------- MODULE AgentProofs -----------------------------
(***************************************************************************)
(* The heal agent, and the configuration it is installed from.             *)
(*                                                                         *)
(* The lock excludes: no two ensures of one Mac are past the mutation lock *)
(* at a time, in the abstract ensure and in everything the heal loop, the  *)
(* watchdog, the installers and the user make of it.  And the watchdog     *)
(* spares: it ends no loop that does its work.                             *)
(*                                                                         *)
(* The configuration survives: whatever commands overlap and whichever one *)
(* thing fails, a complete one is left; alone, a command without --force   *)
(* keeps what the file says and a push makes the keychain agree with it.   *)
(* And the agent is fresh: launchd runs what the plist says.               *)
(***************************************************************************)
EXTENDS HealLoop, LocalSetup, TLAPS

\* A caller past the lock holds it.
MutexInv == EnsureTypeOK /\ OneMutator

LEMMA MutexInit == EnsureInit => MutexInv
  BY EnsureAssumption DEF EnsureInit, MutexInv, EnsureTypeOK, OneMutator

LEMMA MutexStutters == MutexInv /\ UNCHANGED ensureVars => MutexInv'
  BY DEF MutexInv, EnsureTypeOK, OneMutator, ensureVars

\* A caller that ends, however it does, leaves the lock to whom it belongs.
LEMMA MutexEnds ==
  ASSUME MutexInv, NEW c \in Callers, NEW outcome \in Outcomes, Ends(c, outcome)
  PROVE  MutexInv'
<1>1. EnsureTypeOK'
  BY DEF MutexInv, EnsureTypeOK, Ends, Released
<1>2. OneMutator'
  BY DEF MutexInv, EnsureTypeOK, OneMutator, Ends, Released
<1> QED
  BY <1>1, <1>2 DEF MutexInv

LEMMA MutexBegins ==
  ASSUME MutexInv, NEW c \in Callers, Begin(c)
  PROVE  MutexInv'
  BY DEF MutexInv, EnsureTypeOK, OneMutator, Begin

LEMMA MutexDies ==
  ASSUME MutexInv, NEW c \in Callers, Dies(c)
  PROVE  MutexInv'
  BY MutexEnds DEF Dies, Outcomes

LEMMA MutexEnsures ==
  ASSUME MutexInv, NEW c \in Callers, EnsureStep(c)
  PROVE  MutexInv'
<1>1. CASE Refused(c)
  BY <1>1, MutexEnds DEF Refused, Outcomes
<1>2. CASE LockBusy(c)
  BY <1>2, MutexEnds DEF LockBusy, Outcomes
<1>3. CASE Acquire(c)
  <2>1. \A d \in Callers : phase[d] # "locked"
    BY <1>3, EnsureAssumption DEF MutexInv, OneMutator, Acquire, Free
  <2> QED
    BY <1>3, <2>1 DEF MutexInv, EnsureTypeOK, OneMutator, Acquire
<1>4. CASE Returns(c)
  BY <1>4, MutexEnds DEF Returns
<1> QED
  BY <1>1, <1>2, <1>3, <1>4 DEF EnsureStep

(* The abstract ensure excludes, for any number of callers.                *)
THEOREM EnsureExcludes == EnsureSpec => []OneMutator
<1>1. MutexInv /\ [EnsureNext]_ensureVars => MutexInv'
  BY MutexStutters, MutexBegins, MutexEnsures, MutexDies DEF EnsureNext
<1>2. MutexInv => OneMutator
  BY DEF MutexInv
<1> QED
  BY <1>1, <1>2, MutexInit, PTL DEF EnsureSpec

-----------------------------------------------------------------------------
LEMMA HealStep == MutexInv /\ [Next]_vars => MutexInv'
<1> SUFFICES ASSUME MutexInv, [Next]_vars PROVE MutexInv'
  OBVIOUS
<1> USE HealAssumption
<1>1. CASE UNCHANGED vars
  BY <1>1, MutexStutters DEF vars
<1>2. CASE LaunchdStarts
  BY <1>2, MutexBegins DEF LaunchdStarts, Starts
<1>3. CASE WatchdogKicks
  BY <1>3, MutexDies DEF WatchdogKicks, Killed
<1>4. CASE WatchdogPasses
  BY <1>4, MutexStutters DEF WatchdogPasses
<1>5. ASSUME BootOut PROVE MutexInv'
  BY <1>5, MutexStutters, MutexDies DEF BootOut, Killed
<1>6. CASE InstallsHeal \/ Uninstalls
  BY <1>5, <1>6 DEF InstallsHeal, Uninstalls
<1>7. CASE InstallsWatchdog \/ Tick \/ ClockJumps \/ ConfigEdited
  BY <1>7, MutexStutters DEF InstallsWatchdog, Tick, ClockJumps, ConfigEdited
<1>8. ASSUME NEW c \in Callers, Acts(c) PROVE MutexInv'
  <2>1. CASE Ensures(c)
    BY <1>8, <2>1, MutexEnsures DEF Ensures
  <2>2. CASE OneShotEnds(c) \/ Beats(c) \/ BeatLost(c)
    BY <2>2, MutexStutters DEF OneShotEnds, Beats, BeatLost
  <2>3. CASE Wakes(c)
    BY <1>8, <2>3, MutexBegins DEF Wakes, Starts
  <2> QED
    BY <1>8, <2>1, <2>2, <2>3 DEF Acts
<1>9. ASSUME NEW c \in Callers, Hangs(c) \/ UserEnds(c) PROVE MutexInv'
  BY <1>9, MutexStutters, MutexDies DEF Hangs, UserEnds, Killed
<1>10. ASSUME NEW c \in Callers, NEW delay \in Intervals \cup {0}, UserStarts(c, delay)
       PROVE  MutexInv'
  BY <1>10, MutexBegins DEF UserStarts, Starts
<1> QED
  BY <1>1, <1>2, <1>3, <1>4, <1>6, <1>7, <1>8, <1>9, <1>10 DEF Next

(* Whatever hangs, is killed, installed or kicked: ensures of one Mac do   *)
(* not overlap.                                                            *)
THEOREM HealOneMutator == Spec => []OneMutator
<1>1. Init => MutexInv
  BY MutexInit DEF Init
<1>2. MutexInv => OneMutator
  BY DEF MutexInv
<1> QED
  BY <1>1, <1>2, HealStep, PTL DEF Spec

-----------------------------------------------------------------------------
(* The watchdog and the clocks.                                            *)

ClockTypes ==
  /\ loop \in [Callers -> [at : {"down", "ensure", "sleep", "hung"},
                           delay : Intervals \cup {0}, left : Nat]]
  /\ spent \in [Callers -> 0..Longest] /\ interval \in Intervals

\* A heartbeat that is trusted is as old as the agent's sleep and ensure since.
Punctual ==
  trusted =>
    /\ beat = [there |-> TRUE, age |-> beat.age] /\ beat.age \in Nat
    /\ loop[Agent].at \in {"sleep", "ensure"} => loop[Agent].delay = interval
    /\ loop[Agent].at = "sleep" => beat.age + loop[Agent].left <= interval
    /\ loop[Agent].at = "ensure" => beat.age <= interval + spent[Agent]

ClockInv == ClockTypes /\ Punctual

LEMMA ClockFacts ==
  ASSUME ClockTypes
  PROVE  /\ \A c \in Callers : /\ loop[c].delay \in Nat /\ loop[c].left \in Nat
                               /\ spent[c] \in Nat /\ spent[c] <= Longest
         /\ interval \in Nat /\ interval >= 0 /\ Longest \in Nat /\ Agent \in Callers
<1>1. \A i \in Intervals \cup {0} : i \in Nat
  BY HealAssumption
<1>2. \A c \in Callers :
        loop[c].delay \in Intervals \cup {0} /\ loop[c].left \in Nat /\ spent[c] \in 0..Longest
  BY DEF ClockTypes
<1>3. interval \in Intervals \cup {0}
  BY DEF ClockTypes
<1>4. Longest \in Nat
  BY HealAssumption
<1>5. \A n \in 0..Longest : n \in Nat /\ n <= Longest
  BY <1>4
<1>6. interval \in Nat /\ interval >= 0
  BY <1>1, <1>3
<1>7. \A c \in Callers : /\ loop[c].delay \in Nat /\ loop[c].left \in Nat
                         /\ spent[c] \in Nat /\ spent[c] <= Longest
  BY <1>1, <1>2, <1>5
<1> QED BY <1>4, <1>6, <1>7, HealAssumption

LEMMA ClockStarts == Init => ClockInv
BY HealAssumption DEF Init, Ended, ClockInv, ClockTypes, Punctual

\* Ensures and what only others own leave the clocks alone.
LEMMA ClockStutters ==
  ASSUME ClockInv, UNCHANGED <<loop, beat, interval, spent>>,
         (trusted' = trusted) \/ ~trusted'
  PROVE  ClockInv'
BY DEF ClockInv, ClockTypes, Punctual

LEMMA ClockKilled ==
  ASSUME ClockInv, NEW c \in Callers,
         loop' = [loop EXCEPT ![c].at = "down"] \/ loop' = [loop EXCEPT ![c] = Ended],
         UNCHANGED <<beat, interval, spent, trusted>>
  PROVE  ClockInv'
BY HealAssumption DEF ClockInv, ClockTypes, Punctual, Ended

LEMMA ClockBegins ==
  ASSUME ClockInv, NEW c \in Callers, NEW delay \in Intervals \cup {0},
         Starts(c, delay), UNCHANGED <<beat, interval>>,
         c = Agent => \/ ~trusted'
                     \/ /\ trusted' = trusted /\ loop[c].at = "sleep"
                        /\ loop[c].left = 0 /\ delay = loop[c].delay,
         c # Agent => trusted' = trusted
  PROVE  ClockInv'
<1>1. ClockTypes'
  BY HealAssumption DEF ClockInv, ClockTypes, Starts
<1>2. CASE c # Agent
  <2>1. loop'[Agent] = loop[Agent] /\ spent'[Agent] = spent[Agent]
    BY <1>2, HealAssumption DEF ClockInv, ClockTypes, Starts
  <2> QED BY <1>1, <1>2, <2>1 DEF ClockInv, Punctual
<1>3. CASE c = Agent /\ trusted'
  <2>1. loop'[Agent].at = "ensure" /\ loop'[Agent].delay = loop[Agent].delay /\ spent'[Agent] = 0
    BY <1>3, HealAssumption DEF ClockInv, ClockTypes, Starts
  <2>2. beat.age + loop[Agent].left <= interval /\ loop[Agent].left = 0 /\ beat.age \in Nat
    BY <1>3 DEF ClockInv, Punctual
  <2>3. beat'.age <= interval' + spent'[Agent]
    BY <2>1, <2>2, ClockFacts DEF ClockInv
  <2>4. /\ beat' = [there |-> TRUE, age |-> beat'.age] /\ beat'.age \in Nat
        /\ loop'[Agent].delay = interval'
    BY <1>3, <2>1 DEF ClockInv, Punctual
  <2> QED BY <1>1, <2>1, <2>3, <2>4 DEF ClockInv, Punctual
<1> QED BY <1>1, <1>2, <1>3 DEF ClockInv, Punctual

LEMMA ClockSleeps ==
  ASSUME ClockInv, NEW c \in Callers, Beats(c)
  PROVE  ClockInv'
<1>1. ClockTypes'
  BY ClockFacts DEF ClockInv, ClockTypes, Beats, Sleeps
<1>2. beat' = [there |-> TRUE, age |-> 0]
  BY DEF Beats
<1>3. CASE c # Agent
  <2>1. loop'[Agent] = loop[Agent] /\ UNCHANGED <<spent, interval, trusted>>
    BY <1>3, HealAssumption DEF ClockInv, ClockTypes, Beats, Sleeps
  <2>2. ASSUME trusted PROVE Punctual'
    <3>1. loop[Agent].at = "sleep" => 0 + loop[Agent].left <= interval
      BY <2>2, ClockFacts DEF ClockInv, Punctual
    <3>2. 0 <= interval + spent[Agent]
      BY ClockFacts DEF ClockInv
    <3>3. loop[Agent].at \in {"sleep", "ensure"} => loop[Agent].delay = interval
      BY <2>2 DEF ClockInv, Punctual
    <3> QED BY <1>2, <2>1, <3>1, <3>2, <3>3 DEF Punctual
  <2> QED BY <1>1, <2>1, <2>2 DEF ClockInv, Punctual
<1>4. CASE c = Agent
  <2>1. /\ loop'[Agent].at = "sleep" /\ loop'[Agent].left = loop[Agent].delay
        /\ loop'[Agent].delay = loop[Agent].delay /\ interval' = interval
        /\ trusted' => loop[Agent].delay = interval
    BY <1>4, HealAssumption DEF ClockInv, ClockTypes, Beats, Sleeps
  <2> QED BY <1>1, <1>2, <2>1, HealAssumption DEF ClockInv, ClockTypes, Punctual
<1> QED BY <1>3, <1>4

LEMMA ClockTicks ==
  ASSUME ClockInv, Tick
  PROVE  ClockInv'
<1> DEFINE States == {"down", "ensure", "sleep", "hung"}
           less(n) == IF n > 0 THEN n - 1 ELSE 0
<1>1. \A c \in Callers :
        /\ loop'[c] = [loop[c] EXCEPT !.left = less(@)]
        /\ spent'[c] = IF loop[c].at = "ensure" THEN spent[c] + 1 ELSE 0
        /\ loop[c].at = "ensure" => spent[c] < Longest
        /\ loop[c].at = "sleep" => loop[c].left # 0
  BY DEF Tick, Busy, Stands
<1>2. \A c \in Callers : loop[c] \in [at : States, delay : Intervals \cup {0}, left : Nat]
  BY DEF ClockInv, ClockTypes
<1>3. \A n \in Nat : less(n) \in Nat /\ (n # 0 => less(n) = n - 1)
  OBVIOUS
<1>4. \A c \in Callers : loop[c].left \in Nat /\ less(loop[c].left) \in Nat
  BY <1>3, ClockFacts DEF ClockInv
<1> HIDE DEF less
<1>5. \A c \in Callers :
        /\ loop'[c].at = loop[c].at /\ loop'[c].delay = loop[c].delay
        /\ loop'[c].left = less(loop[c].left)
        /\ loop'[c] \in [at : States, delay : Intervals \cup {0}, left : Nat]
  BY <1>1, <1>2, <1>4
<1>6. ASSUME NEW c \in Callers PROVE spent'[c] \in 0..Longest
  <2>1. spent[c] \in Nat /\ spent[c] <= Longest /\ Longest \in Nat
    BY ClockFacts DEF ClockInv
  <2>2. \/ spent'[c] = 0
        \/ spent'[c] = spent[c] + 1 /\ spent[c] < Longest
    BY <1>1
  <2> QED BY <2>1, <2>2
<1>7. ClockTypes'
  <2>1. DOMAIN loop' = Callers /\ loop' = [c \in Callers |-> loop'[c]]
    BY DEF Tick
  <2>2. spent' = [c \in Callers |-> spent'[c]] /\ interval' = interval
    BY DEF Tick
  <2> QED BY <1>5, <1>6, <2>1, <2>2 DEF ClockInv, ClockTypes
<1>8. ASSUME trusted PROVE Punctual'
  <2> DEFINE age == IF beat.there /\ beat.age <= MaxLimit THEN beat.age + 1 ELSE beat.age
  <2>1. beat = [there |-> TRUE, age |-> beat.age] /\ beat.age \in Nat
    BY <1>8 DEF ClockInv, Punctual
  <2>2. beat' = [beat EXCEPT !.age = age]
    BY DEF Tick
  <2>3. age \in Nat /\ age <= beat.age + 1
    BY <2>1
  <2> HIDE DEF age
  <2>4. beat' = [there |-> TRUE, age |-> beat'.age] /\ beat'.age = age
    <3>1. PICK a : beat = [there |-> TRUE, age |-> a]
      BY <2>1
    <3>2. beat' = [there |-> TRUE, age |-> age]
      BY <2>2, <3>1
    <3> QED BY <3>2
  <2>5. /\ loop[Agent].left \in Nat /\ spent[Agent] \in Nat /\ interval \in Nat /\ Agent \in Callers
        /\ interval' = interval
    BY ClockFacts DEF ClockInv, Tick
  <2>6. loop[Agent].at = "sleep" => loop'[Agent].left = loop[Agent].left - 1
    BY <1>1, <1>3, <1>5, <2>5
  <2>7. loop[Agent].at = "ensure" => spent'[Agent] = spent[Agent] + 1
    BY <1>1, <2>5
  <2>8. /\ loop[Agent].at \in {"sleep", "ensure"} => loop[Agent].delay = interval
        /\ loop[Agent].at = "sleep" => beat.age + loop[Agent].left <= interval
        /\ loop[Agent].at = "ensure" => beat.age <= interval + spent[Agent]
    BY <1>8 DEF ClockInv, Punctual
  <2>9. loop'[Agent].at = loop[Agent].at /\ loop'[Agent].delay = loop[Agent].delay
    BY <1>5, <2>5
  <2>10. loop'[Agent].at = "sleep" => beat'.age + loop'[Agent].left <= interval'
    BY <2>1, <2>3, <2>4, <2>5, <2>6, <2>8, <2>9
  <2>11. loop'[Agent].at = "ensure" => beat'.age <= interval' + spent'[Agent]
    BY <2>1, <2>3, <2>4, <2>5, <2>7, <2>8, <2>9
  <2> QED BY <2>3, <2>4, <2>5, <2>8, <2>9, <2>10, <2>11 DEF Punctual
<1>9. trusted' = trusted
  BY DEF Tick
<1> QED BY <1>7, <1>8, <1>9 DEF ClockInv, Punctual

LEMMA ClockBootOut ==
  ASSUME ClockInv, BootOut, UNCHANGED <<beat, interval, spent, trusted>>
  PROVE  ClockInv'
BY ClockKilled, ClockStutters, HealAssumption DEF BootOut, Killed

LEMMA ClockStep ==
  ASSUME ClockInv, [Next]_vars
  PROVE  ClockInv'
<1> USE HealAssumption
<1>1. CASE UNCHANGED vars
  BY <1>1, ClockStutters DEF vars
<1>2. CASE LaunchdStarts
  <2>1. interval \in Intervals \cup {0}
    BY DEF ClockInv, ClockTypes
  <2> QED BY <1>2, <2>1, ClockBegins DEF LaunchdStarts
<1>3. CASE WatchdogKicks
  BY <1>3, ClockKilled DEF WatchdogKicks, Killed
<1>4. CASE WatchdogPasses \/ InstallsWatchdog
  BY <1>4, ClockStutters DEF WatchdogPasses, InstallsWatchdog
<1>5. CASE InstallsHeal \/ Uninstalls
  BY <1>5, ClockBootOut DEF InstallsHeal, Uninstalls
<1>6. CASE Tick
  BY <1>6, ClockTicks
<1>7. CASE ClockJumps
  BY <1>7 DEF ClockJumps, ClockInv, ClockTypes, Punctual
<1>8. CASE ConfigEdited
  BY <1>8 DEF ConfigEdited, ClockInv, ClockTypes, Punctual
<1>9. ASSUME NEW c \in Callers, Acts(c) PROVE ClockInv'
  <2>1. CASE Ensures(c)
    BY <2>1, ClockStutters DEF Ensures
  <2>2. CASE OneShotEnds(c)
    BY <2>2, ClockKilled DEF OneShotEnds
  <2>3. CASE Beats(c)
    BY <2>3, ClockSleeps
  <2>4. CASE BeatLost(c)
    <3>1. ClockTypes'
      BY <2>4, ClockFacts DEF BeatLost, Sleeps, ClockInv, ClockTypes
    <3> QED BY <2>4, <3>1 DEF BeatLost, ClockInv, Punctual
  <2>5. CASE Wakes(c)
    <3>1. loop[c].delay \in Intervals \cup {0}
      BY DEF ClockInv, ClockTypes
    <3> QED BY <2>5, <3>1, ClockBegins DEF Wakes, Stands
  <2> QED BY <1>9, <2>1, <2>2, <2>3, <2>4, <2>5 DEF Acts
<1>10. ASSUME NEW c \in Callers, Hangs(c) PROVE ClockInv'
  BY <1>10 DEF Hangs, ClockInv, ClockTypes, Punctual
<1>11. ASSUME NEW c \in Callers, UserEnds(c) PROVE ClockInv'
  BY <1>11, ClockKilled DEF UserEnds, Killed
<1>12. ASSUME NEW c \in Callers, NEW delay \in Intervals \cup {0}, UserStarts(c, delay)
       PROVE  ClockInv'
  BY <1>12, ClockBegins DEF UserStarts
<1> QED
  BY <1>1, <1>2, <1>3, <1>4, <1>5, <1>6, <1>7, <1>8, <1>9, <1>10, <1>11, <1>12 DEF Next

(* The watchdog ends no loop that does its work, however the clocks of     *)
(* launchd, loop and ensure interleave, whatever the intervals, the floor  *)
(* and the period of the watchdog (heal_heartbeat.py:82).                  *)
THEOREM HealSpares == Spec => HealthyLoopSpared
<1> DEFINE Spared == \/ loop[Agent].at \in {"hung", "down"}
                     \/ Busy(Agent) /\ spent[Agent] > (Factor - 1) * interval
<1>1. ASSUME ClockInv, WatchdogKicks, trusted PROVE Spared
  <2>1. CASE loop[Agent].at \in {"hung", "down"}
    BY <2>1
  <2>2. CASE loop[Agent].at \in {"sleep", "ensure"}
    <3>1. /\ beat.there /\ beat.age \in Nat /\ interval \in Nat /\ interval > 0
          /\ spent[Agent] \in Nat /\ loop[Agent].left \in Nat
      BY <1>1, ClockFacts, HealAssumption DEF ClockInv, Punctual, ClockTypes
    <3>2. Limit >= 3 * interval /\ Limit \in Int
      BY <3>1, HealAssumption DEF Limit, Larger, Factor
    <3>3. beat.age > 3 * interval
      BY <1>1, <3>1, <3>2 DEF WatchdogKicks, Stale
    <3>4. loop[Agent].at = "sleep" => beat.age + loop[Agent].left <= interval
      BY <1>1 DEF ClockInv, Punctual
    <3>5. loop[Agent].at = "ensure" => beat.age <= interval + spent[Agent]
      BY <1>1 DEF ClockInv, Punctual
    <3>6. loop[Agent].at = "ensure"
      BY <2>2, <3>1, <3>3, <3>4
    <3>7. spent[Agent] > 2 * interval
      BY <3>1, <3>3, <3>5, <3>6
    <3> QED BY <3>6, <3>7 DEF Busy, Stands, Factor
  <2> QED
    BY <1>1, <2>1, <2>2, HealAssumption DEF ClockInv, ClockTypes
<1>2. ClockInv /\ [Next]_vars => [WatchdogKicks /\ trusted => Spared]_vars
  BY <1>1
<1> QED
  BY <1>2, ClockStarts, ClockStep, PTL DEF Spec, HealthyLoopSpared

-----------------------------------------------------------------------------
(* Types of LocalSetup.                                                    *)

LEMMA Texts ==
  /\ \A x \in Whole, e \in Edits : /\ [x EXCEPT !.edits = @ \cup {e}] \in Whole
                                   /\ [x EXCEPT !.edits = @ \ {e}] \in Whole
  /\ \A x \in Whole : [x EXCEPT !.edits = {"targets"}] \in Whole
  /\ [base |-> Template, edits |-> {}] \in Whole
  /\ Whole \subseteq Contents /\ Absent \in Contents /\ Torn \in Contents
  BY ConfigAssumption DEF Whole, Contents, Edits

LEMMA Names ==
  /\ <<"bak", 0>> \in BakNames
  /\ \A s \in Seconds : <<"dated", s>> \in BakNames /\ <<"refresh", s>> \in BakNames
  BY DEF BakNames

LEMMA AtTypes ==
  ASSUME SetupTypeOK, NEW p \in site.procs, proc[p] # Idle
  PROVE  /\ proc[p] \in Process(site) /\ Mac(p) \in Macs /\ Text(p) \in Contents
         /\ proc[p].cmd \in site.commands /\ proc[p].cmd.to \in Macs
         /\ disk[Mac(p)] \in Contents /\ kc[Mac(p)] \in Whole \cup {Absent}
  BY SetupAssumption DEF SetupTypeOK, Process, Mac, Text, Macs, FilesTypeOK

\* The process p becomes r and nobody else changes.
Becomes(p, r) == proc' = [proc EXCEPT ![p] = r]

LEMMA ProcTypes ==
  ASSUME SetupTypeOK, NEW p \in site.procs, site' = site,
         NEW r \in Process(site) \cup {Idle}, Becomes(p, r)
  PROVE  proc' \in [site.procs -> Process(site) \cup {Idle}]
  BY DEF SetupTypeOK, Becomes

LEMMA GoTypes ==
  ASSUME SetupTypeOK, NEW p \in site.procs, site' = site, proc[p] # Idle,
         NEW pc \in Steps, Go(p, pc)
  PROVE  proc' \in [site.procs -> Process(site) \cup {Idle}]
<1>1. [proc[p] EXCEPT !.pc = pc] \in Process(site)
  BY AtTypes DEF Process
<1> QED
  BY <1>1, ProcTypes DEF Go, Becomes

LEMMA GoesTypes ==
  ASSUME SetupTypeOK, NEW p \in site.procs, site' = site, proc[p] # Idle,
         NEW pc \in Steps, NEW text \in Contents, Goes(p, pc, text)
  PROVE  proc' \in [site.procs -> Process(site) \cup {Idle}]
<1>1. [proc[p] EXCEPT !.pc = pc, !.text = text] \in Process(site)
  BY AtTypes DEF Process
<1> QED
  BY <1>1, ProcTypes DEF Goes, Becomes, SetupTypeOK

LEMMA ExitsTypes ==
  ASSUME SetupTypeOK, NEW p \in site.procs, site' = site, Exits(p)
  PROVE  proc' \in [site.procs -> Process(site) \cup {Idle}]
  BY ProcTypes DEF Exits, Becomes

LEMMA FaultTypes ==
  ASSUME SetupTypeOK, site' = site, Fault
  PROVE  faults' \in 0..site.faults
  BY SetupAssumption DEF SetupTypeOK, Fault

LEMMA BackupNames ==
  ASSUME SetupTypeOK, NEW m \in Macs
  PROVE  BackupName(m) \in BakNames
  BY Names DEF SetupTypeOK, FilesTypeOK, BackupName

LEMMA KeepTypes ==
  ASSUME SetupTypeOK, NEW m \in Macs, NEW name \in BakNames, NEW text \in Contents,
         Keep(m, name, text)
  PROVE  bak' \in [Macs -> [BakNames -> Contents]]
  BY DEF SetupTypeOK, FilesTypeOK, Keep

LEMMA PutTypes ==
  ASSUME SetupTypeOK, NEW m \in Macs, NEW text \in Contents, Put(m, text)
  PROVE  disk' \in [Macs -> Contents]
  BY DEF SetupTypeOK, FilesTypeOK, Put

\* The steps that only move the command on.
LEMMA MovesTypes ==
  ASSUME SetupTypeOK, NoFile, Rest, proc' \in [site.procs -> Process(site) \cup {Idle}]
  PROVE  SetupTypeOK'
  BY DEF SetupTypeOK, FilesTypeOK, NoFile, Rest, fileVars, Macs

LEMMA InvokesTypes ==
  ASSUME SetupTypeOK, NEW p \in site.procs, NEW c \in site.commands, Invokes(p, c)
  PROVE  SetupTypeOK'
<1>1. /\ c.kind \in Kinds /\ c.mac \in site.macs /\ c.to \in site.macs
      /\ First[c.kind] \in Steps /\ Target(c) \in Macs
  BY SetupAssumption DEF SetupTypeOK, First, Kinds, Steps, Target, Macs
<1>2. disk[Target(c)] \in Contents /\ Absent \in Contents /\ Default \in Agents
  BY <1>1, Texts DEF SetupTypeOK, FilesTypeOK, Agents
<1> DEFINE fresh == [cmd |-> c, pc |-> First[c.kind], mac |-> c.mac, text |-> Absent,
                     drafted |-> FALSE, edited |-> FALSE, over |-> FALSE, agent |-> Default,
                     alone |-> Working = {}, was |-> disk[Target(c)]]
<1>3. \A alone \in BOOLEAN :
        [cmd |-> c, pc |-> First[c.kind], mac |-> c.mac, text |-> Absent,
         drafted |-> FALSE, edited |-> FALSE, over |-> FALSE, agent |-> Default,
         alone |-> alone, was |-> disk[Target(c)]] \in Process(site)
  BY <1>1, <1>2 DEF Process
<1>4. fresh \in Process(site)
  BY <1>3
<1>5. \A q \in site.procs :
        proc[q] # Idle => [proc[q] EXCEPT !.alone = FALSE] \in Process(site)
  BY AtTypes DEF Process
<1>6. proc' = [q \in site.procs |-> IF q = p THEN fresh
                 ELSE IF proc[q] = Idle THEN Idle ELSE [proc[q] EXCEPT !.alone = FALSE]]
  BY DEF Invokes
<1> HIDE DEF fresh
<1>7. proc' \in [site.procs -> Process(site) \cup {Idle}]
  BY <1>4, <1>5, <1>6
<1>8. count' \in 0..site.count
  BY SetupAssumption DEF SetupTypeOK, Invokes
<1> QED
  BY <1>7, <1>8 DEF SetupTypeOK, FilesTypeOK, Invokes, fileVars, Macs

LEMMA InitPullTypes ==
  ASSUME SetupTypeOK, NEW p \in site.procs,
         Peek(p) \/ Fetch(p) \/ NoFetch(p) \/ Draft(p) \/ Save(p) \/ PutText(p)
  PROVE  SetupTypeOK'
<1>0. proc[p] # Idle /\ site' = site
  BY DEF Peek, Fetch, NoFetch, Draft, Save, PutText, At, Rest
<1>a. {"edit", "fetch", "draft", "save", "put", "read"} \subseteq Steps
  BY DEF Steps
<1>b. /\ proc[p] \in Process(site) /\ Mac(p) \in Macs /\ Text(p) \in Contents
      /\ disk[Mac(p)] \in Contents /\ kc[Mac(p)] \in Whole \cup {Absent}
  BY <1>0, AtTypes
<1>1. CASE Peek(p)
  BY <1>0, <1>1, <1>a, GoTypes, MovesTypes DEF Peek
<1>2. CASE Fetch(p)
  <2>1. kc[Mac(p)] \in Contents
    BY <1>2, <1>b, Texts DEF Fetch
  <2>2. \A over \in BOOLEAN :
          [proc[p] EXCEPT !.pc = "save", !.text = kc[Mac(p)], !.over = over] \in Process(site)
    BY <1>a, <1>b, <2>1 DEF Process
  <2>3. [proc[p] EXCEPT !.pc = "save", !.text = kc[Mac(p)], !.over = Exists(Mac(p))]
          \in Process(site)
    BY <2>2 DEF Exists
  <2>4. Becomes(p, [proc[p] EXCEPT !.pc = "save", !.text = kc[Mac(p)], !.over = Exists(Mac(p))])
    BY <1>2 DEF Fetch, Becomes
  <2> QED
    BY <1>0, <1>2, <2>3, <2>4, ProcTypes, MovesTypes DEF Fetch
<1>3. CASE NoFetch(p)
  <2>1. proc' \in [site.procs -> Process(site) \cup {Idle}]
    BY <1>0, <1>3, <1>a, GoTypes, ExitsTypes DEF NoFetch, Fails
  <2>2. faults' \in 0..site.faults
    BY <1>0, <1>3, FaultTypes DEF NoFetch, SetupTypeOK
  <2> QED
    BY <1>3, <2>1, <2>2 DEF SetupTypeOK, FilesTypeOK, NoFetch, NoFile, fileVars, Macs
<1>4. CASE Draft(p)
  <2> DEFINE tmpl == [base |-> Template, edits |-> {}]
  <2>1. tmpl \in Contents
    BY Texts
  <2>2. \A over \in BOOLEAN, t \in Contents :
          [proc[p] EXCEPT !.pc = "save", !.over = over, !.drafted = TRUE, !.text = t] \in Process(site)
    BY <1>a, <1>b DEF Process
  <2>3. [proc[p] EXCEPT !.pc = "save", !.over = Exists(Mac(p)), !.drafted = TRUE, !.text = tmpl]
          \in Process(site)
    BY <2>1, <2>2 DEF Exists
  <2>4. Exits(p) \/ Becomes(p, [proc[p] EXCEPT !.pc = "save", !.over = Exists(Mac(p)), !.drafted = TRUE, !.text = tmpl])
    BY <1>4 DEF Draft, Becomes, Fails
  <2> QED
    BY <1>0, <1>4, <2>3, <2>4, ProcTypes, ExitsTypes, MovesTypes DEF Draft
<1>5. CASE Save(p)
  <2>1. proc' \in [site.procs -> Process(site) \cup {Idle}]
    BY <1>0, <1>5, <1>a, GoTypes DEF Save
  <2>2. disk' \in [Macs -> Contents] /\ bak' \in [Macs -> [BakNames -> Contents]]
    <3>1. CASE MovedAway(Mac(p))
      BY <1>b, <3>1, Texts, BackupNames, KeepTypes, PutTypes DEF MovedAway
    <3> QED
      BY <1>5, <3>1 DEF Save, SetupTypeOK, FilesTypeOK
  <2> QED
    BY <1>5, <2>1, <2>2 DEF SetupTypeOK, FilesTypeOK, Save, Rest, Macs
<1>6. CASE PutText(p)
  <2>1. proc' \in [site.procs -> Process(site) \cup {Idle}]
    BY <1>0, <1>6, <1>a, GoTypes DEF PutText
  <2>2. disk' \in [Macs -> Contents]
    BY <1>6, <1>b DEF PutText, Put, SetupTypeOK, FilesTypeOK
  <2>3. had' \in [Macs -> BOOLEAN]
    BY <1>6, <1>b DEF PutText, Keeps, SetupTypeOK
  <2> QED
    BY <1>6, <2>1, <2>2, <2>3 DEF SetupTypeOK, FilesTypeOK, PutText, Macs
<1> QED
  BY <1>1, <1>2, <1>3, <1>4, <1>5, <1>6

LEMMA PushTypes ==
  ASSUME SetupTypeOK, NEW p \in site.procs,
         ReadFile(p) \/ Drop(p) \/ Add(p) \/ AddFails(p) \/ EditTargets(p),
         proc[p].pc = "add" => Text(p) \in Whole
  PROVE  SetupTypeOK'
<1>0. proc[p] # Idle /\ site' = site
  BY DEF ReadFile, Drop, Add, AddFails, EditTargets, At, Rest
<1>a. {"edit", "save", "drop", "add"} \subseteq Steps
  BY DEF Steps
<1>b. /\ proc[p] \in Process(site) /\ Mac(p) \in Macs /\ Text(p) \in Contents
      /\ disk[Mac(p)] \in Contents /\ kc[Mac(p)] \in Whole \cup {Absent}
  BY <1>0, AtTypes
<1>1. Onwards(p) => proc' \in [site.procs -> Process(site) \cup {Idle}]
  BY <1>0, <1>a, GoTypes, ExitsTypes DEF Onwards
<1>2. PushFails(p) => proc' \in [site.procs -> Process(site) \cup {Idle}]
  BY <1>0, <1>1, ExitsTypes DEF PushFails, Fails
<1>3. CASE ReadFile(p)
  BY <1>0, <1>2, <1>3, <1>a, <1>b, GoesTypes, MovesTypes DEF ReadFile
<1>4. CASE Drop(p)
  <2>1. proc' \in [site.procs -> Process(site) \cup {Idle}]
    BY <1>0, <1>4, <1>a, GoTypes DEF Drop
  <2>2. kc' \in [Macs -> Whole \cup {Absent}]
    BY <1>4, <1>b DEF Drop, Dropped, SetupTypeOK, FilesTypeOK
  <2> QED
    BY <1>4, <2>1, <2>2 DEF SetupTypeOK, FilesTypeOK, Drop, Rest, Macs
<1>5. CASE Add(p)
  <2>1. kc' \in [Macs -> Whole \cup {Absent}]
    BY <1>5, <1>b DEF Add, At, Added, SetupTypeOK, FilesTypeOK
  <2> QED
    BY <1>1, <1>5, <2>1 DEF SetupTypeOK, FilesTypeOK, Add, Rest, Macs
<1>6. CASE AddFails(p)
  BY <1>0, <1>2, <1>6, FaultTypes
    DEF SetupTypeOK, FilesTypeOK, AddFails, NoFile, fileVars, Macs
<1>7. CASE EditTargets(p)
  <2>0. CASE Exits(p)
    BY <1>0, <1>7, <2>0, ExitsTypes, MovesTypes DEF EditTargets
  <2>1. CASE Loads(Mac(p)) /\ Pushes(p, [disk[Mac(p)] EXCEPT !.edits = {"targets"}])
    <3> DEFINE text == [disk[Mac(p)] EXCEPT !.edits = {"targets"}]
    <3>1. text \in Contents
      BY <2>1, Texts DEF Loads, Edits
    <3> HIDE DEF text
    <3>2. [proc[p] EXCEPT !.pc = "save", !.text = text, !.over = TRUE, !.edited = TRUE]
            \in Process(site)
      BY <1>a, <1>b, <3>1 DEF Process
    <3>3. Becomes(p, [proc[p] EXCEPT !.pc = "save", !.text = text, !.over = TRUE, !.edited = TRUE])
      BY <2>1 DEF Pushes, Becomes, text
    <3> QED
      BY <1>0, <1>7, <3>2, <3>3, ProcTypes, MovesTypes DEF EditTargets
  <2> QED
    BY <1>7, <2>0, <2>1 DEF EditTargets
<1> QED
  BY <1>3, <1>4, <1>5, <1>6, <1>7

LEMMA CopyTypes ==
  ASSUME SetupTypeOK, NEW p \in site.procs,
         Reread(p) \/ Copy(p) \/ Bind(p) \/ Pack(p) \/ KeepFile(p) \/ Truncate(p) \/ Fill(p),
         proc[p].pc = "copy" => Text(p) \in Whole
  PROVE  SetupTypeOK'
<1>0. proc[p] # Idle /\ site' = site
  BY DEF Reread, Copy, Bind, Pack, KeepFile, Truncate, Fill, At, Rest
<1>a. {"copy", "trunc", "pack", "keep", "fill", "read"} \subseteq Steps
  BY DEF Steps
<1>b. /\ proc[p] \in Process(site) /\ Mac(p) \in Macs /\ Text(p) \in Contents
      /\ disk[Mac(p)] \in Contents /\ kc[Mac(p)] \in Whole \cup {Absent}
      /\ proc[p].cmd.to \in Macs
  BY <1>0, AtTypes
<1>1. CASE Reread(p)
  <2>0. CASE Exits(p)
    BY <1>0, <1>1, <2>0, ExitsTypes, MovesTypes DEF Reread
  <2>1. CASE Loads(Mac(p)) /\ Goes(p, "copy", [disk[Mac(p)] EXCEPT !.edits = @ \cup {"ids"}])
    <3>1. [disk[Mac(p)] EXCEPT !.edits = @ \cup {"ids"}] \in Contents
      BY <2>1, Texts DEF Loads, Edits
    <3> QED
      BY <1>0, <1>1, <1>a, <2>1, <3>1, GoesTypes, MovesTypes DEF Reread
  <2> QED
    BY <1>1, <2>0, <2>1 DEF Reread
<1>2. CASE Copy(p)
  <2>1. proc' \in [site.procs -> Process(site) \cup {Idle}]
    BY <1>0, <1>2, <1>a, GoTypes DEF Copy
  <2>2. [Text(p) EXCEPT !.edits = @ \ {"ids"}] \in Contents
    BY <1>2, Texts DEF Copy, At, Edits
  <2>3. <<"refresh", now>> \in BakNames
    BY Names DEF SetupTypeOK, FilesTypeOK
  <2>4. bak' \in [Macs -> [BakNames -> Contents]]
    BY <1>2, <1>b, <2>2, <2>3, KeepTypes DEF Copy
  <2> QED
    BY <1>2, <2>1, <2>4 DEF SetupTypeOK, FilesTypeOK, Copy, Rest, Macs
<1>3. CASE Bind(p)
  BY <1>0, <1>3, <1>a, GoTypes, ExitsTypes, MovesTypes DEF Bind, Fails
<1>4. CASE Pack(p)
  <2> DEFINE r == [proc[p] EXCEPT !.pc = "keep", !.text = disk[Mac(p)], !.mac = proc[p].cmd.to]
  <2>1. r \in Process(site)
    BY <1>a, <1>b DEF Process, Macs
  <2>2. Exits(p) \/ Becomes(p, r)
    BY <1>4 DEF Pack, Fails, Becomes
  <2> QED
    BY <1>0, <1>4, <2>1, <2>2, ProcTypes, ExitsTypes, MovesTypes DEF Pack
<1>5. CASE KeepFile(p)
  <2>1. proc' \in [site.procs -> Process(site) \cup {Idle}]
    BY <1>0, <1>5, <1>a, GoTypes, ExitsTypes DEF KeepFile
  <2>2. bak' \in [Macs -> [BakNames -> Contents]]
    <3>1. CASE Keep(Mac(p), <<"bak", 0>>, disk[Mac(p)])
      BY <1>b, <3>1, Names, KeepTypes
    <3> QED
      BY <1>5, <3>1 DEF KeepFile, Aside, SetupTypeOK, FilesTypeOK
  <2>3. had' \in [Macs -> BOOLEAN]
    <3>1. CASE UNCHANGED had
      BY <3>1 DEF SetupTypeOK
    <3>2. CASE had' = [had EXCEPT ![Mac(p)] = @ /\ Text(p) \in Whole]
      BY <3>2 DEF SetupTypeOK
    <3> QED
      BY <1>5, <3>1, <3>2 DEF KeepFile
  <2> QED
    BY <1>5, <2>1, <2>2, <2>3 DEF SetupTypeOK, FilesTypeOK, KeepFile, Macs
<1>6. CASE Truncate(p)
  <2>1. proc' \in [site.procs -> Process(site) \cup {Idle}]
    BY <1>0, <1>6, <1>a, GoTypes DEF Truncate
  <2>2. disk' \in [Macs -> Contents]
    BY <1>6, <1>b, Texts, PutTypes DEF Truncate
  <2> QED
    BY <1>6, <2>1, <2>2 DEF SetupTypeOK, FilesTypeOK, Truncate, Rest, Macs
<1>7. CASE Fill(p)
  <2>1. proc' \in [site.procs -> Process(site) \cup {Idle}]
    BY <1>0, <1>7, <1>a, GoTypes, ExitsTypes DEF Fill
  <2>2. disk' \in [Macs -> Contents]
    BY <1>7, <1>b, PutTypes DEF Fill
  <2>3. had' \in [Macs -> BOOLEAN]
    <3>1. CASE UNCHANGED had
      BY <3>1 DEF SetupTypeOK
    <3>2. CASE Keeps(Mac(p), p)
      BY <3>2 DEF SetupTypeOK, Keeps
    <3> QED
      BY <1>7, <3>1, <3>2 DEF Fill
  <2> QED
    BY <1>7, <2>1, <2>2, <2>3 DEF SetupTypeOK, FilesTypeOK, Fill, Macs
<1> QED
  BY <1>1, <1>2, <1>3, <1>4, <1>5, <1>6, <1>7

LEMMA PlantTypes ==
  ASSUME SetupTypeOK, NEW p \in site.procs, Local(p) \/ Ask(p) \/ Send(p)
  PROVE  SetupTypeOK'
<1>0. proc[p] # Idle /\ site' = site
  BY DEF Local, Ask, Send, At, Rest
<1>a. {"ask", "send", "fill"} \subseteq Steps
  BY DEF Steps
<1>b. /\ proc[p] \in Process(site) /\ Mac(p) \in Macs /\ Text(p) \in Contents
      /\ disk[Mac(p)] \in Contents /\ kc[Mac(p)] \in Whole \cup {Absent}
      /\ proc[p].cmd.to \in Macs
  BY <1>0, AtTypes
<1>1. CASE Local(p)
  <2>1. proc' \in [site.procs -> Process(site) \cup {Idle}]
    BY <1>0, <1>1, <1>a, GoTypes, ExitsTypes DEF Local, Fails
  <2>2. kc[Mac(p)] \in Contents
    BY <1>b, Texts
  <2>3. disk' \in [Macs -> Contents]
    BY <1>1, <1>b, <2>2, PutTypes DEF Local, SetupTypeOK, FilesTypeOK
  <2>4. had' \in [Macs -> BOOLEAN]
    <3>1. CASE UNCHANGED had
      BY <3>1 DEF SetupTypeOK
    <3>2. CASE Keeps(Mac(p), p)
      BY <3>2 DEF SetupTypeOK, Keeps
    <3> QED
      BY <1>1, <3>1, <3>2 DEF Local
  <2> QED
    BY <1>1, <2>1, <2>3, <2>4 DEF SetupTypeOK, FilesTypeOK, Local, Macs
<1>2. CASE Ask(p)
  BY <1>0, <1>2, <1>a, GoTypes, ExitsTypes, MovesTypes DEF Ask, Fails
<1>3. CASE Send(p)
  <2> DEFINE r == [proc[p] EXCEPT !.pc = "fill", !.text = disk[Mac(p)], !.mac = proc[p].cmd.to]
  <2>1. r \in Process(site)
    BY <1>a, <1>b DEF Process, Macs
  <2>2. Exits(p) \/ Becomes(p, r)
    BY <1>3 DEF Send, Fails, Becomes
  <2>3. proc' \in [site.procs -> Process(site) \cup {Idle}]
    BY <1>0, <2>1, <2>2, ProcTypes, ExitsTypes
  <2>4. disk' \in [Macs -> Contents]
    BY <1>3, <1>b, Texts, PutTypes DEF Send, SetupTypeOK, FilesTypeOK
  <2>5. had' \in [Macs -> BOOLEAN]
    BY <1>3, <1>b DEF Send, SetupTypeOK
  <2> QED
    BY <1>3, <2>3, <2>4, <2>5 DEF SetupTypeOK, FilesTypeOK, Send, Macs
<1> QED
  BY <1>1, <1>2, <1>3

LEMMA ServiceTypes ==
  ASSUME SetupTypeOK, NEW p \in site.procs,
         \/ Plan(p) \/ Look(p) \/ BootsOut(p) \/ BootOutFails(p) \/ BootStrap(p)
         \/ Remove(p) \/ Unlink(p)
  PROVE  SetupTypeOK'
<1>0. proc[p] # Idle /\ site' = site
  BY DEF Plan, Look, BootsOut, BootOutFails, BootStrap, Remove, Unlink, At, Rest
<1>a. {"look", "bootout", "bootstrap", "unlink"} \subseteq Steps /\ Absent \in Agents
  BY DEF Steps, Agents
<1>b. proc[p] \in Process(site) /\ Mac(p) \in Macs /\ proc[p].agent \in Agents
  BY <1>0, AtTypes DEF Process
<1>1. CASE Plan(p)
  <2>1. AgentFor(Mac(p)) \in Agents
    BY DEF AgentFor, Loads, Whole, Agents
  <2>2. [proc[p] EXCEPT !.pc = "look", !.agent = AgentFor(Mac(p))] \in Process(site)
    BY <1>a, <1>b, <2>1 DEF Process
  <2>3. Becomes(p, [proc[p] EXCEPT !.pc = "look", !.agent = AgentFor(Mac(p))])
    BY <1>1 DEF Plan, Becomes
  <2> QED
    BY <1>0, <1>1, <2>2, <2>3, ProcTypes, MovesTypes DEF Plan
<1>2. CASE Look(p) \/ BootsOut(p) \/ BootStrap(p) \/ Remove(p) \/ Unlink(p)
  <2>1. proc' \in [site.procs -> Process(site) \cup {Idle}]
    BY <1>0, <1>2, <1>a, GoTypes, ExitsTypes DEF Look, BootsOut, BootStrap, Remove, Unlink
  <2>2. plist' \in [Macs -> Agents]
    BY <1>2, <1>a, <1>b
      DEF Look, BootsOut, BootStrap, Remove, Unlink, Rendered, SetupTypeOK, FilesTypeOK
  <2>3. loaded' \in [Macs -> Agents]
    BY <1>2, <1>a, <1>b
      DEF Look, BootsOut, BootStrap, Remove, Unlink, Unloaded, Bootstrapped, SetupTypeOK, FilesTypeOK
  <2> QED
    BY <1>2, <2>1, <2>2, <2>3
      DEF SetupTypeOK, FilesTypeOK, Look, BootsOut, BootStrap, Remove, Unlink, Rest, Macs
<1>3. CASE BootOutFails(p)
  <2>1. proc' \in [site.procs -> Process(site) \cup {Idle}]
    BY <1>0, <1>3, <1>a, GoTypes DEF BootOutFails
  <2> QED
    BY <1>0, <1>3, <2>1, FaultTypes
      DEF SetupTypeOK, FilesTypeOK, BootOutFails, NoFile, fileVars, Macs
<1> QED
  BY <1>1, <1>2, <1>3

-----------------------------------------------------------------------------
(* Which command is at which step, and what it has in its hands there.     *)

IsStepOf(kind, pc) ==
  \/ kind = "init" /\ pc \in {"peek", "fetch", "draft", "save", "put", "read", "drop", "add", "edit"}
  \/ kind = "pull" /\ pc \in {"fetch", "save", "put", "read", "drop", "add", "edit"}
  \/ kind = "push" /\ pc \in {"read", "drop", "add", "edit", "save", "put"}
  \/ kind = "refresh" /\ pc \in {"reread", "copy", "trunc", "fill"}
  \/ kind = "plant" /\ pc \in {"local", "ask", "send", "fill", "read", "drop", "add", "edit", "save", "put"}
  \/ kind = "deliver" /\ pc \in {"bind", "pack", "keep", "trunc", "fill"}
  \/ kind = "service" /\ pc \in {"plan", "look", "bootout", "bootstrap"}
  \/ kind = "unservice" /\ pc \in {"remove", "unlink"}

\* The copy that `config refresh-tb` makes; nothing writes over it with less.
RefBak(m) == \E s \in Seconds : bak[m][<<"refresh", s>>] \in Whole

Sane(p) ==
  proc[p] # Idle =>
    /\ IsStepOf(Kind(p), proc[p].pc)
    /\ proc[p].pc \in {"save", "put", "copy", "drop", "add"} => Text(p) \in Whole
    /\ Kind(p) = "refresh" /\ proc[p].pc \in {"trunc", "fill"} =>
         Text(p) \in Whole /\ RefBak(Mac(p))

SaneInv == SetupTypeOK /\ \A p \in site.procs : Sane(p)

LEMMA StepActive ==
  ASSUME NEW p, Step(p)
  PROVE  proc[p] # Idle
  BY DEF Step, Peek, Fetch, NoFetch, Draft, Save, PutText, ReadFile, Drop, Add, AddFails, EditTargets,
         Reread, Copy, Bind, Pack, KeepFile, Truncate, Fill, Local, Ask, Send, Plan, Look, BootsOut,
         BootOutFails, BootStrap, Remove, Unlink, At

LEMMA KindTypes ==
  ASSUME SetupTypeOK, NEW p \in site.procs, proc[p] # Idle
  PROVE  Kind(p) \in Kinds
  BY AtTypes, SetupAssumption DEF SetupTypeOK, Kind

LEMMA RefBakStays ==
  ASSUME SetupTypeOK, NEW p \in site.procs, Step(p), proc[p].pc = "copy" => Text(p) \in Whole,
         NEW m \in Macs, RefBak(m)
  PROVE  RefBak(m)'
<1>0. PICK s \in Seconds : bak[m][<<"refresh", s>>] \in Whole
  BY DEF RefBak
<1>n. <<"refresh", s>> \in BakNames /\ now \in Seconds
  BY Names DEF SetupTypeOK, FilesTypeOK
<1>1. ASSUME NEW n \in Macs, NEW name \in BakNames, NEW text, Keep(n, name, text),
             name = <<"refresh", s>> => text \in Whole
      PROVE  RefBak(m)'
  BY <1>0, <1>n, <1>1 DEF Keep, RefBak, SetupTypeOK, FilesTypeOK
<1>2. CASE UNCHANGED bak
  BY <1>2 DEF RefBak
<1>3. CASE Save(p) /\ MovedAway(Mac(p))
  <2>1. BackupName(Mac(p)) # <<"refresh", s>>
    BY DEF BackupName
  <2>2. Mac(p) \in Macs
    BY <1>3, AtTypes DEF Save, At
  <2> QED
    BY <1>1, <1>3, <2>1, <2>2, BackupNames DEF MovedAway
<1>4. CASE Copy(p)
  <2>1. Mac(p) \in Macs /\ <<"refresh", now>> \in BakNames
    BY <1>4, <1>n, AtTypes, Names DEF Copy, At
  <2>2. [Text(p) EXCEPT !.edits = @ \ {"ids"}] \in Whole
    BY <1>4, Texts DEF Copy, At, Edits
  <2> QED
    BY <1>1, <1>4, <2>1, <2>2 DEF Copy
<1>5. CASE KeepFile(p)
  <2>1. Mac(p) \in Macs /\ <<"bak", 0>> # <<"refresh", s>>
    BY <1>5, AtTypes DEF KeepFile, At
  <2> QED
    BY <1>1, <1>2, <1>5, <2>1, Names DEF KeepFile, Aside
<1> QED
  BY <1>2, <1>3, <1>4, <1>5
    DEF Step, Peek, Fetch, NoFetch, Draft, Save, PutText, ReadFile, Drop, Add, AddFails, EditTargets,
        Reread, Bind, Pack, Truncate, Fill, Local, Ask, Send, Plan, Look, BootsOut, BootOutFails,
        BootStrap, Remove, Unlink, NoFile, fileVars

\* The others notice nothing of a step of p.
LEMMA OthersSame ==
  ASSUME SetupTypeOK, NEW p \in site.procs, Step(p)
  PROVE  /\ site' = site
         /\ \A q \in site.procs \ {p} : proc'[q] = proc[q]
  BY DEF SetupTypeOK, Step, Peek, Fetch, NoFetch, Draft, Save, PutText, ReadFile, Drop, Add,
         AddFails, EditTargets, Reread, Copy, Bind, Pack, KeepFile, Truncate, Fill, Local, Ask, Send,
         Plan, Look, BootsOut, BootOutFails, BootStrap, Remove, Unlink, Go, Goes, Exits, Fails,
         Onwards, PushFails, Pushes, Rest

\* What becomes of p when it moves on.
LEMMA GoView ==
  ASSUME SetupTypeOK, NEW p \in site.procs, proc[p] # Idle, NEW pc \in Steps, Go(p, pc)
  PROVE  /\ proc'[p] # Idle /\ proc'[p].pc = pc /\ Kind(p)' = Kind(p) /\ Mac(p)' = Mac(p)
         /\ Text(p)' = Text(p) /\ proc'[p].cmd = proc[p].cmd
         /\ proc'[p].was = proc[p].was /\ proc'[p].alone = proc[p].alone
         /\ proc'[p].edited = proc[p].edited /\ proc'[p].over = proc[p].over
         /\ proc'[p].agent = proc[p].agent
<1>1. [proc[p] EXCEPT !.pc = pc] \in Process(site) /\ Idle \notin Process(site)
  BY AtTypes, SetupAssumption DEF Process, SetupTypeOK
<1>2. proc'[p] = [proc[p] EXCEPT !.pc = pc]
  BY DEF Go, SetupTypeOK
<1>3. proc[p] \in Process(site)
  BY AtTypes
<1> QED
  BY <1>1, <1>2, <1>3 DEF Kind, Mac, Text, Process

LEMMA GoesView ==
  ASSUME SetupTypeOK, NEW p \in site.procs, proc[p] # Idle, NEW pc \in Steps,
         NEW text \in Contents, Goes(p, pc, text)
  PROVE  /\ proc'[p] # Idle /\ proc'[p].pc = pc /\ Kind(p)' = Kind(p) /\ Mac(p)' = Mac(p)
         /\ Text(p)' = text /\ proc'[p].cmd = proc[p].cmd
         /\ proc'[p].was = proc[p].was /\ proc'[p].alone = proc[p].alone
         /\ proc'[p].edited = proc[p].edited /\ proc'[p].over = proc[p].over
<1>1. [proc[p] EXCEPT !.pc = pc, !.text = text] \in Process(site) /\ Idle \notin Process(site)
  BY AtTypes, SetupAssumption DEF Process, SetupTypeOK
<1>2. proc'[p] = [proc[p] EXCEPT !.pc = pc, !.text = text]
  BY DEF Goes, SetupTypeOK
<1>3. proc[p] \in Process(site)
  BY AtTypes
<1> QED
  BY <1>1, <1>2, <1>3 DEF Kind, Mac, Text, Process

LEMMA ExitsView ==
  ASSUME SetupTypeOK, NEW p \in site.procs, Exits(p)
  PROVE  proc'[p] = Idle
  BY DEF Exits, SetupTypeOK

LEMMA GoSane ==
  ASSUME SetupTypeOK, NEW p \in site.procs, Sane(p), proc[p] # Idle, NEW pc \in Steps, Go(p, pc),
         IsStepOf(Kind(p), pc),
         pc \in {"save", "put", "copy", "drop", "add"} => Text(p) \in Whole,
         Kind(p) = "refresh" /\ pc \in {"trunc", "fill"} =>
           Text(p) \in Whole /\ (\E s \in Seconds : bak'[Mac(p)][<<"refresh", s>>] \in Whole)
  PROVE  Sane(p)'
<1>1. /\ proc'[p].pc = pc /\ Kind(p)' = Kind(p) /\ Mac(p)' = Mac(p) /\ Text(p)' = Text(p)
  BY GoView
<1>2. Mac(p)' = Mac(p) /\ proc'[p] # Idle
  BY GoView
<1>3. Kind(p) = "refresh" /\ pc \in {"trunc", "fill"} => RefBak(Mac(p))'
  BY <1>2 DEF RefBak
<1> QED
  BY <1>1, <1>2, <1>3 DEF Sane

\* Between its look at the file and its writing, no step of p makes it forget.
LEMMA StepSane ==
  ASSUME SetupTypeOK, NEW p \in site.procs, Sane(p), Step(p), SetupTypeOK'
  PROVE  Sane(p)'
<1> USE DEF IsStepOf
<1>0. proc[p] # Idle
  BY StepActive
<1>k. Kind(p) \in Kinds
  BY <1>0, KindTypes
<1>e. CASE Exits(p)
  BY <1>e, ExitsView DEF Sane
<1>1. CASE Peek(p)
  BY <1>0, <1>1, <1>k, GoSane DEF Peek, At, Steps, Sane
<1>2. CASE Fetch(p)
  BY <1>0, <1>2, <1>k, AtTypes DEF Fetch, At, Sane, Kind, Text, SetupTypeOK, Process
<1>3. CASE NoFetch(p)
  BY <1>0, <1>3, <1>e, GoSane DEF NoFetch, At, Steps, Fails
<1>4. CASE Draft(p)
  <2> DEFINE tmpl == [base |-> Template, edits |-> {}]
  <2>1. tmpl \in Whole
    BY Texts
  <2> HIDE DEF tmpl
  <2>2. CASE proc' = [proc EXCEPT ![p].pc = "save", ![p].over = Exists(Mac(p)),
                                    ![p].drafted = TRUE, ![p].text = tmpl]
    BY <1>0, <1>4, <2>1, <2>2, AtTypes DEF Draft, At, Sane, Kind, Text, SetupTypeOK, Process
  <2> QED
    BY <1>4, <1>e, <2>2 DEF Draft, Fails, tmpl
<1>5. CASE Save(p)
  BY <1>0, <1>5, GoSane DEF Save, At, Steps, Sane
<1>6. CASE PutText(p)
  BY <1>0, <1>6, GoSane DEF PutText, At, Steps, Sane
<1>o. CASE Onwards(p) /\ proc[p].pc \in {"read", "add"}
  BY <1>0, <1>o, <1>e, GoSane DEF Onwards, Steps, Sane
<1>f. CASE PushFails(p) /\ proc[p].pc \in {"read", "add"}
  BY <1>0, <1>o, <1>f, <1>e DEF PushFails, Fails
<1>7. CASE ReadFile(p)
  <2>1. CASE Pushable(p) /\ Goes(p, "drop", disk[Mac(p)])
    BY <1>0, <1>7, <2>1, AtTypes, GoesView DEF ReadFile, At, Steps, Sane, Pushable, Loads
  <2> QED
    BY <1>7, <1>f, <2>1 DEF ReadFile, At
<1>8. CASE Drop(p)
  BY <1>0, <1>8, GoSane DEF Drop, At, Steps, Sane
<1>9. CASE Add(p) \/ AddFails(p)
  BY <1>9, <1>o, <1>f DEF Add, AddFails, At
<1>10. CASE EditTargets(p)
  <2> DEFINE text == [disk[Mac(p)] EXCEPT !.edits = {"targets"}]
  <2>1. CASE Loads(Mac(p)) /\ Pushes(p, text)
    <3>1. text \in Whole
      BY <2>1, Texts DEF Loads, Edits
    <3> HIDE DEF text
    <3> QED
      BY <1>0, <1>10, <2>1, <3>1, AtTypes
        DEF EditTargets, Pushes, At, Sane, Kind, Text, SetupTypeOK, Process
  <2> QED
    BY <1>10, <1>e, <2>1 DEF EditTargets
<1>11. CASE Reread(p)
  <2>1. CASE Loads(Mac(p)) /\ Goes(p, "copy", [disk[Mac(p)] EXCEPT !.edits = @ \cup {"ids"}])
    <3>1. [disk[Mac(p)] EXCEPT !.edits = @ \cup {"ids"}] \in Whole \cap Contents
      BY <2>1, Texts DEF Loads, Edits
    <3> QED
      BY <1>0, <1>11, <2>1, <3>1, GoesView DEF Reread, At, Steps, Sane
  <2> QED
    BY <1>11, <1>e, <2>1 DEF Reread
<1>12. CASE Copy(p)
  <2>1. Kind(p) = "refresh" /\ Text(p) \in Whole /\ Mac(p) \in Macs
    BY <1>0, <1>12, AtTypes DEF Copy, At, Sane
  <2>2. [Text(p) EXCEPT !.edits = @ \ {"ids"}] \in Whole
    BY <2>1, Texts DEF Edits
  <2>3. \E s \in Seconds : bak'[Mac(p)][<<"refresh", s>>] \in Whole
    <3>1. <<"refresh", now>> \in BakNames /\ now \in Seconds
      BY Names DEF SetupTypeOK, FilesTypeOK
    <3>2. bak'[Mac(p)][<<"refresh", now>>] \in Whole
      BY <1>12, <2>1, <2>2, <3>1 DEF Copy, Keep, SetupTypeOK, FilesTypeOK
    <3> QED
      BY <3>1, <3>2
  <2> QED
    BY <1>0, <1>12, <2>1, <2>3, GoSane DEF Copy, At, Steps
<1>13. CASE Bind(p)
  BY <1>0, <1>13, <1>e, GoSane DEF Bind, At, Steps, Sane, Fails
<1>14. CASE Pack(p)
  BY <1>0, <1>14, <1>e, AtTypes DEF Pack, At, Sane, Kind, Text, SetupTypeOK, Process, Fails
<1>15. CASE KeepFile(p)
  BY <1>0, <1>15, <1>e, GoSane DEF KeepFile, At, Steps, Sane
<1>16. CASE Truncate(p)
  BY <1>0, <1>16, GoSane DEF Truncate, At, Steps, Sane, RefBak
<1>17. CASE Fill(p)
  BY <1>0, <1>17, <1>e, GoSane DEF Fill, At, Steps, Sane
<1>18. CASE Local(p)
  BY <1>0, <1>18, <1>e, GoSane DEF Local, At, Steps, Sane, Fails
<1>19. CASE Ask(p)
  BY <1>0, <1>19, <1>e, GoSane DEF Ask, At, Steps, Sane, Fails
<1>20. CASE Send(p)
  BY <1>0, <1>20, <1>e, AtTypes DEF Send, At, Sane, Kind, Text, SetupTypeOK, Process, Fails
<1>21. CASE Plan(p)
  BY <1>0, <1>21, AtTypes DEF Plan, At, Sane, Kind, Text, SetupTypeOK, Process
<1>22. CASE Look(p) \/ BootsOut(p) \/ BootOutFails(p) \/ BootStrap(p)
  BY <1>0, <1>22, <1>e, GoSane DEF Look, BootsOut, BootOutFails, BootStrap, At, Steps, Sane
<1>23. CASE Remove(p) \/ Unlink(p)
  BY <1>0, <1>23, <1>e, GoSane DEF Remove, Unlink, At, Steps, Sane
<1> QED
  BY <1>1, <1>2, <1>3, <1>4, <1>5, <1>6, <1>7, <1>8, <1>9, <1>10, <1>11, <1>12, <1>13, <1>14, <1>15,
     <1>16, <1>17, <1>18, <1>19, <1>20, <1>21, <1>22, <1>23
  DEF Step

LEMMA StepTypes ==
  ASSUME SetupTypeOK, NEW p \in site.procs, Sane(p), Step(p)
  PROVE  SetupTypeOK'
<1>1. \A pc \in {"copy", "add"} : At(p, pc) => Text(p) \in Whole
  BY DEF Sane, At
<1>2. CASE Add(p) \/ Copy(p)
  BY <1>1, <1>2, PushTypes, CopyTypes DEF Add, Copy, At
<1>3. CASE ReadFile(p) \/ Drop(p) \/ AddFails(p) \/ EditTargets(p)
  BY <1>1, <1>3, PushTypes DEF ReadFile, Drop, AddFails, EditTargets, At
<1>4. CASE Reread(p) \/ Bind(p) \/ Pack(p) \/ KeepFile(p) \/ Truncate(p) \/ Fill(p)
  BY <1>4, CopyTypes DEF Reread, Bind, Pack, KeepFile, Truncate, Fill, At
<1> QED
  BY <1>2, <1>3, <1>4, InitPullTypes, PlantTypes, ServiceTypes DEF Step

\* What is true of the steps, deaths and beginnings alike of a process that is not p.
LEMMA InvokesOthers ==
  ASSUME SetupTypeOK, NEW p \in site.procs, NEW c \in site.commands, Invokes(p, c)
  PROVE  /\ proc'[p].cmd = c /\ proc'[p].pc = First[c.kind] /\ proc'[p].mac = c.mac
         /\ proc'[p].was = disk[Target(c)] /\ proc'[p].agent = Default /\ proc[p] = Idle
         /\ \A q \in site.procs \ {p} :
              IF proc[q] = Idle THEN proc'[q] = Idle
              ELSE /\ proc'[q] # Idle /\ proc'[q].cmd = proc[q].cmd /\ proc'[q].pc = proc[q].pc
                   /\ proc'[q].mac = proc[q].mac /\ proc'[q].text = proc[q].text
                   /\ proc'[q].agent = proc[q].agent /\ ~proc'[q].alone
<1> DEFINE fresh == [cmd |-> c, pc |-> First[c.kind], mac |-> c.mac, text |-> Absent,
                     drafted |-> FALSE, edited |-> FALSE, over |-> FALSE, agent |-> Default,
                     alone |-> Working = {}, was |-> disk[Target(c)]]
<1>0. /\ fresh.cmd = c /\ fresh.pc = First[c.kind] /\ fresh.mac = c.mac
      /\ fresh.was = disk[Target(c)] /\ fresh.agent = Default
  OBVIOUS
<1>1. proc' = [q \in site.procs |-> IF q = p THEN fresh
                 ELSE IF proc[q] = Idle THEN Idle ELSE [proc[q] EXCEPT !.alone = FALSE]]
  BY DEF Invokes
<1> HIDE DEF fresh
<1>2. proc'[p] = fresh /\ proc[p] = Idle
  BY <1>1 DEF Invokes
<1>3. ASSUME NEW q \in site.procs \ {p}, proc[q] # Idle
      PROVE  /\ proc'[q] # Idle /\ proc'[q].cmd = proc[q].cmd /\ proc'[q].pc = proc[q].pc
             /\ proc'[q].mac = proc[q].mac /\ proc'[q].text = proc[q].text
             /\ proc'[q].agent = proc[q].agent /\ ~proc'[q].alone
  <2>1. proc'[q] = [proc[q] EXCEPT !.alone = FALSE] /\ proc[q] \in Process(site)
    BY <1>1, <1>3, AtTypes
  <2>2. [proc[q] EXCEPT !.alone = FALSE] \in Process(site) /\ Idle \notin Process(site)
    BY <2>1, SetupAssumption DEF Process, SetupTypeOK
  <2> QED
    BY <2>1, <2>2 DEF Process
<1>4. \A q \in site.procs \ {p} : proc[q] = Idle => proc'[q] = Idle
  BY <1>1
<1> QED
  BY <1>0, <1>2, <1>3, <1>4

LEMMA InvokesSane ==
  ASSUME SaneInv, NEW p \in site.procs, NEW c \in site.commands, Invokes(p, c)
  PROVE  SaneInv'
<1>1. SetupTypeOK' /\ site' = site
  BY InvokesTypes DEF SaneInv, Invokes
<1>2. Sane(p)'
  <2>1. proc'[p].cmd = c /\ proc'[p].pc = First[c.kind] /\ c.kind \in Kinds
    BY InvokesOthers, SetupAssumption DEF SaneInv, SetupTypeOK
  <2> QED
    BY <2>1 DEF Sane, Kind, Kinds, First, IsStepOf
<1>3. ASSUME NEW q \in site.procs \ {p}
      PROVE  Sane(q)'
  <2>1. CASE proc[q] # Idle
    <3>1. /\ proc'[q].cmd = proc[q].cmd /\ proc'[q].pc = proc[q].pc
          /\ proc'[q].mac = proc[q].mac /\ proc'[q].text = proc[q].text
      BY <2>1, InvokesOthers DEF SaneInv
    <3>2. bak' = bak /\ Sane(q)
      BY DEF Invokes, fileVars, SaneInv
    <3> QED
      BY <2>1, <3>1, <3>2 DEF Sane, Kind, Text, Mac, RefBak
  <2>2. CASE proc[q] = Idle
    BY <2>2, InvokesOthers DEF SaneInv, Sane
  <2> QED
    BY <2>1, <2>2
<1> QED
  BY <1>1, <1>2, <1>3 DEF SaneInv

LEMMA KilledSane ==
  ASSUME SaneInv, NEW p \in site.procs, GetsKilled(p)
  PROVE  SaneInv'
<1>1. site' = site /\ SetupTypeOK'
  <2>1. site' = site
    BY DEF GetsKilled
  <2>2. proc' \in [site.procs -> Process(site) \cup {Idle}] /\ faults' \in 0..site.faults
    BY <2>1, ExitsTypes, FaultTypes DEF SaneInv, GetsKilled
  <2> QED
    BY <2>1, <2>2 DEF SaneInv, SetupTypeOK, FilesTypeOK, GetsKilled, NoFile, fileVars, Macs
<1>2. \A q \in site.procs : proc'[q] = Idle \/ proc'[q] = proc[q]
  BY DEF GetsKilled, Exits, SaneInv, SetupTypeOK
<1>3. ASSUME NEW q \in site.procs
      PROVE  Sane(q)'
  BY <1>2 DEF SaneInv, Sane, Kind, Text, Mac, RefBak, GetsKilled, NoFile, fileVars
<1> QED
  BY <1>1, <1>3 DEF SaneInv

LEMMA StepsSane ==
  ASSUME SaneInv, NEW p \in site.procs, Step(p)
  PROVE  SaneInv'
<1>1. SetupTypeOK' /\ Sane(p)' /\ site' = site
  BY StepTypes, StepSane, OthersSame DEF SaneInv
<1>2. ASSUME NEW q \in site.procs \ {p}
      PROVE  Sane(q)'
  <2>1. proc'[q] = proc[q] /\ Sane(q)
    BY OthersSame DEF SaneInv
  <2>2. CASE proc[q] # Idle
    <3>1. RefBak(Mac(q)) => RefBak(Mac(q))'
      <4>1. Mac(q) \in Macs /\ Mac(q)' = Mac(q)
        BY <2>1, <2>2, AtTypes DEF SaneInv, Mac
      <4>2. proc[p].pc = "copy" => Text(p) \in Whole
        BY StepActive DEF SaneInv, Sane
      <4>3. \A m \in Macs : RefBak(m) => RefBak(m)'
        BY <4>2, RefBakStays DEF SaneInv
      <4> QED
        BY <4>1, <4>3 DEF RefBak
    <3> QED
      BY <2>1, <3>1 DEF Sane, Kind, Text, Mac
  <2> QED
    BY <2>1, <2>2 DEF Sane
<1> QED
  BY <1>1, <1>2 DEF SaneInv

LEMMA SaneStarts == SetupInit => SaneInv
<1> SUFFICES ASSUME SetupInit
             PROVE  SaneInv
  OBVIOUS
<1>1. FilesTypeOK(Macs)
  <2>1. site.disk \in [Macs -> Contents] /\ site.bak \in [Macs -> Contents]
        /\ site.kc \in [Macs -> Whole \cup {Absent}]
    BY SetupAssumption DEF SetupInit, Macs
  <2>2. bak \in [Macs -> [BakNames -> Contents]]
    BY <2>1, Texts DEF SetupInit
  <2> QED
    BY <2>1, <2>2, ConfigAssumption DEF SetupInit, FilesTypeOK, Agents, Seconds
<1>2. proc \in [site.procs -> Process(site) \cup {Idle}]
  BY DEF SetupInit
<1>3. had \in [Macs -> BOOLEAN]
  BY DEF SetupInit, Loads
<1>4. SetupTypeOK
  BY <1>1, <1>2, <1>3, SetupAssumption DEF SetupInit, SetupTypeOK
<1> QED
  BY <1>4 DEF SetupInit, SaneInv, Sane

LEMMA SaneTicks ==
  ASSUME SaneInv, SecondPasses \/ UNCHANGED setupVars
  PROVE  SaneInv'
<1>1. site' = site /\ proc' = proc /\ bak' = bak
  BY DEF SecondPasses, setupVars, fileVars
<1>2. now' \in Seconds
  BY ConfigAssumption DEF SaneInv, SetupTypeOK, FilesTypeOK, Seconds, SecondPasses, setupVars, fileVars
<1>3. SetupTypeOK'
  BY <1>2 DEF SaneInv, SetupTypeOK, FilesTypeOK, SecondPasses, setupVars, fileVars, Macs
<1> QED
  BY <1>1, <1>3 DEF SaneInv, Sane, Kind, Text, Mac, RefBak

LEMMA NextSane ==
  ASSUME SaneInv, [SetupNext]_setupVars
  PROVE  SaneInv'
  BY StepsSane, KilledSane, InvokesSane, SaneTicks DEF SetupNext

(* Types: whatever overlaps and whatever dies, disks, backups and          *)
(* keychains hold texts, and the keychain only complete ones.              *)
THEOREM SetupTypes == SetupSpec => []SetupTypeOK
<1>1. SaneInv => SetupTypeOK
  BY DEF SaneInv
<1> QED
  BY <1>1, SaneStarts, NextSane, PTL DEF SetupSpec

-----------------------------------------------------------------------------
(* A complete file is somewhere.                                           *)

Has(q, m, pc) == proc[q] # Idle /\ Mac(q) = m /\ proc[q].pc = pc

Putters(m) == {q \in site.procs : Has(q, m, "put")}
Cutters(m) == {q \in site.procs : Has(q, m, "trunc") /\ Kind(q) = "deliver"}
Fillers(m) == {q \in site.procs : Has(q, m, "fill") /\ Kind(q) = "deliver"}
Planters(m) == {q \in site.procs : Has(q, m, "fill") /\ Kind(q) = "plant"}
Owers(m) ==
  {q \in site.procs : /\ \E pc \in {"put", "add", "trunc", "fill"} : Has(q, m, pc)
                      /\ Text(q) \in Whole}

BakWhole(m) == \E name \in BakNames : bak[m][name] \in Whole
Stored(m) == disk[m] \in Whole \/ kc[m] \in Whole \/ BakWhole(m)
Kept(m) == Stored(m) \/ Owers(m) # {}

(* Where a complete file is as long as nothing has failed: in the copy of  *)
(* a refresh; on the disk, and in a backup too once an install is about to *)
(* cut the file; in the backup, while another is about to be put in its    *)
(* place; or in the hands of an install, and one more time elsewhere.      *)
Safe(m) ==
  \/ RefBak(m)
  \/ disk[m] \in Whole /\ (Cutters(m) = {} \/ BakWhole(m))
  \/ disk[m] = Absent /\ BakWhole(m) /\ Putters(m) # {}
  \/ Fillers(m) # {} /\ (BakWhole(m) \/ disk[m] \in Whole \/ Putters(m) # {})

\* Installs exclude each other, and what they bring to a Mac that has a file is complete.
OneDelivery(m) == \A q, r \in Cutters(m) \cup Fillers(m) : q = r
BringsWhole(m) ==
  had[m] => Planters(m) = {} /\ \A q \in Cutters(m) \cup Fillers(m) : Text(q) \in Whole

IsKept(m) == had[m] => (faults = 0 => Safe(m)) /\ (faults = 1 => Kept(m))

KeepsInv(m) == OneDelivery(m) /\ BringsWhole(m) /\ IsKept(m)
RecoverInv == SaneInv /\ \A m \in Macs : KeepsInv(m)

\* A step of p changes nobody's part but that of p.
LEMMA Parts ==
  ASSUME SaneInv, NEW p \in site.procs, NEW m \in Macs,
         site' = site, \A q \in site.procs \ {p} : proc'[q] = proc[q]
  PROVE  /\ Putters(m)' \ {p} = Putters(m) \ {p} /\ Cutters(m)' \ {p} = Cutters(m) \ {p}
         /\ Fillers(m)' \ {p} = Fillers(m) \ {p} /\ Planters(m)' \ {p} = Planters(m) \ {p}
         /\ Owers(m)' \ {p} = Owers(m) \ {p}
         /\ \A q \in site.procs \ {p} : Text(q)' = Text(q)
<1>1. \A q \in site.procs \ {p} :
        /\ Kind(q)' = Kind(q) /\ Text(q)' = Text(q)
        /\ \A pc \in Steps : Has(q, m, pc)' = Has(q, m, pc)
  BY DEF Kind, Text, Has, Mac
<1>2. {"put", "add", "trunc", "fill"} \subseteq Steps
  BY DEF Steps
<1>3. Putters(m)' \ {p} = Putters(m) \ {p}
  BY <1>1, <1>2 DEF Putters
<1>4. Cutters(m)' \ {p} = Cutters(m) \ {p}
  BY <1>1, <1>2 DEF Cutters
<1>5. Fillers(m)' \ {p} = Fillers(m) \ {p}
  BY <1>1, <1>2 DEF Fillers
<1>6. Planters(m)' \ {p} = Planters(m) \ {p}
  BY <1>1, <1>2 DEF Planters
<1>7. Owers(m)' \ {p} = Owers(m) \ {p}
  BY <1>1, <1>2 DEF Owers
<1> QED
  BY <1>1, <1>3, <1>4, <1>5, <1>6, <1>7

NoPart(p, m) == p \notin Putters(m) \cup Cutters(m) \cup Fillers(m) \cup Planters(m) \cup Owers(m)
SameFiles(m) ==
  disk'[m] = disk[m] /\ bak'[m] = bak[m] /\ kc'[m] = kc[m] /\ had'[m] = had[m]

LEMMA SameBackups ==
  ASSUME NEW m, bak'[m] = bak[m]
  PROVE  BakWhole(m)' = BakWhole(m) /\ RefBak(m)' = RefBak(m)
  BY DEF BakWhole, RefBak

\* Where p neither had a part nor has one.
LEMMA Elsewhere ==
  ASSUME SaneInv, NEW p \in site.procs, NEW m \in Macs,
         site' = site, \A q \in site.procs \ {p} : proc'[q] = proc[q],
         NoPart(p, m), NoPart(p, m)', SameFiles(m), faults' = faults, KeepsInv(m)
  PROVE  KeepsInv(m)'
<1>1. /\ Putters(m)' = Putters(m) /\ Cutters(m)' = Cutters(m) /\ Fillers(m)' = Fillers(m)
      /\ Planters(m)' = Planters(m) /\ Owers(m)' = Owers(m)
  BY Parts DEF NoPart
<1>2. \A q \in Cutters(m) \cup Fillers(m) : Text(q)' = Text(q)
  BY Parts DEF NoPart, Cutters, Fillers
<1>3. BakWhole(m)' = BakWhole(m) /\ RefBak(m)' = RefBak(m)
  BY SameBackups DEF SameFiles
<1>4. OneDelivery(m)'
  BY <1>1 DEF KeepsInv, OneDelivery
<1>5. BringsWhole(m)'
  BY <1>1, <1>2 DEF KeepsInv, BringsWhole, SameFiles
<1>6. IsKept(m)'
  <2>1. Safe(m)' = Safe(m)
    BY <1>1, <1>3 DEF Safe, SameFiles
  <2>2. Kept(m)' = Kept(m)
    BY <1>1, <1>3 DEF Kept, Stored, SameFiles
  <2> QED
    BY <2>1, <2>2 DEF KeepsInv, IsKept, SameFiles
<1> QED
  BY <1>4, <1>5, <1>6 DEF KeepsInv

Handling == {"put", "add", "trunc", "fill"}

LEMMA NoParts ==
  ASSUME NEW p, NEW m, proc[p] = Idle \/ proc[p].pc \notin Handling
  PROVE  NoPart(p, m)
  BY DEF NoPart, Putters, Cutters, Fillers, Planters, Owers, Has, Handling

LEMMA NoPartsNext ==
  ASSUME NEW p, NEW m, proc'[p] = Idle \/ proc'[p].pc \notin Handling
  PROVE  NoPart(p, m)'
  BY DEF NoPart, Putters, Cutters, Fillers, Planters, Owers, Has, Handling

\* Steps that neither touch a file nor come near one.
LEMMA QuietKeeps ==
  ASSUME SaneInv, NEW p \in site.procs, Step(p),
         proc[p].pc \notin Handling, proc'[p] = Idle \/ proc'[p].pc \notin Handling,
         UNCHANGED <<disk, bak, kc, had, faults>>, NEW m \in Macs, KeepsInv(m)
  PROVE  KeepsInv(m)'
  BY NoParts, NoPartsNext, OthersSame, Elsewhere DEF SaneInv, SameFiles

LEMMA QuietSteps ==
  ASSUME SaneInv, NEW p \in site.procs, NEW m \in Macs, KeepsInv(m), faults' = faults,
         \/ Peek(p) \/ Fetch(p) \/ NoFetch(p) \/ Draft(p) \/ ReadFile(p) \/ EditTargets(p) \/ Reread(p)
         \/ Bind(p) \/ Pack(p) \/ Ask(p) \/ Plan(p) \/ Look(p) \/ BootsOut(p) \/ BootStrap(p)
         \/ Remove(p) \/ Unlink(p)
  PROVE  KeepsInv(m)'
<1>0. Step(p) /\ proc[p] # Idle /\ SetupTypeOK /\ proc[p] \in Process(site)
  BY StepActive, AtTypes DEF Step, SaneInv
<1>1. proc[p].pc \notin Handling
  BY DEF Handling, Peek, Fetch, NoFetch, Draft, ReadFile, EditTargets, Reread, Bind, Pack, Ask, Plan,
         Look, BootsOut, BootStrap, Remove, Unlink, At
<1>2. UNCHANGED <<disk, bak, kc, had, faults>>
  BY DEF Peek, Fetch, NoFetch, Draft, ReadFile, EditTargets, Reread, Bind, Pack, Ask, Plan,
         Look, BootsOut, BootStrap, Remove, Unlink, NoFile, fileVars, Rest
<1>3. proc'[p] = Idle \/ proc'[p].pc \notin Handling
  <2>1. Exits(p) => proc'[p] = Idle
    BY <1>0, ExitsView
  <2>2. \A pc \in Steps \ Handling : Go(p, pc) => proc'[p].pc \notin Handling
    BY <1>0, GoView
  <2>4. CASE Peek(p) \/ NoFetch(p) \/ Bind(p) \/ Ask(p) \/ Look(p) \/ BootsOut(p) \/ BootStrap(p)
             \/ Remove(p) \/ Unlink(p)
    BY <2>1, <2>2, <2>4
      DEF Steps, Handling, Peek, NoFetch, Bind, Ask, Look, BootsOut, BootStrap, Remove, Unlink, Fails
  <2>5. CASE Fetch(p) \/ Draft(p) \/ EditTargets(p) \/ Reread(p) \/ Pack(p) \/ Plan(p)
    BY <1>0, <2>1, <2>5
      DEF Handling, Fetch, Draft, EditTargets, Reread, Pack, Plan, Goes, Pushes, Fails, SetupTypeOK,
          Process
  <2>6. CASE ReadFile(p)
    BY <1>0, <2>1, <2>2, <2>6
      DEF Steps, Handling, ReadFile, Goes, PushFails, Onwards, Fails, SetupTypeOK, Process
  <2> QED
    BY <2>4, <2>5, <2>6
<1> QED
  BY <1>0, <1>1, <1>2, <1>3, QuietKeeps

LEMMA RefBakWhole ==
  ASSUME NEW m, RefBak(m)
  PROVE  BakWhole(m)
  BY Names DEF RefBak, BakWhole

\* What is safe is not lost with any one process.
LEMMA SafeOutlives ==
  ASSUME SaneInv, NEW p \in site.procs, NEW m \in Macs, Safe(m), had[m], BringsWhole(m)
  PROVE  Stored(m) \/ Owers(m) \ {p} # {}
<1>1. CASE RefBak(m)
  BY <1>1, RefBakWhole DEF Stored
<1>2. CASE disk[m] \in Whole \/ BakWhole(m)
  BY <1>2 DEF Stored
<1>3. CASE Fillers(m) # {} /\ Putters(m) # {}
  <2>1. PICK r \in Fillers(m), q \in Putters(m) : TRUE
    BY <1>3
  <2>2. r \in Owers(m)
    BY <1>3, <2>1 DEF BringsWhole, Fillers, Owers
  <2>3. q \in Owers(m)
    BY <2>1 DEF Putters, Owers, SaneInv, Sane, Has
  <2>4. q # r
    BY <2>1 DEF Putters, Fillers, Has
  <2> QED
    BY <2>2, <2>3, <2>4
<1> QED
  BY <1>1, <1>2, <1>3 DEF Safe

LEMMA FaultKeeps ==
  ASSUME SaneInv, NEW p \in site.procs, site' = site, \A q \in site.procs \ {p} : proc'[q] = proc[q],
         proc'[p] = Idle \/ proc'[p].pc \notin Handling,
         UNCHANGED <<disk, bak, kc, had>>, faults' = faults + 1, NEW m \in Macs, KeepsInv(m)
  PROVE  KeepsInv(m)'
<1>1. NoPart(p, m)'
  BY NoPartsNext
<1>2. /\ Cutters(m)' = Cutters(m) \ {p} /\ Fillers(m)' = Fillers(m) \ {p}
      /\ Planters(m)' = Planters(m) \ {p} /\ Owers(m)' = Owers(m) \ {p}
  BY <1>1, Parts DEF NoPart
<1>3. \A q \in site.procs \ {p} : Text(q)' = Text(q)
  BY Parts
<1>4. BakWhole(m)' = BakWhole(m)
  BY SameBackups
<1>5. OneDelivery(m)'
  BY <1>2 DEF KeepsInv, OneDelivery
<1>6. BringsWhole(m)'
  BY <1>2, <1>3 DEF KeepsInv, BringsWhole, Cutters, Fillers
<1>7. IsKept(m)'
  <2>1. CASE faults = 0 /\ had[m]
    <3>1. Stored(m) \/ Owers(m) \ {p} # {}
      BY <2>1, SafeOutlives DEF KeepsInv, IsKept
    <3>2. Kept(m)'
      BY <1>2, <1>4, <3>1 DEF Kept, Stored
    <3> QED
      BY <2>1, <3>2 DEF IsKept
  <2>2. faults \in Nat
    BY SetupAssumption DEF SaneInv, SetupTypeOK
  <2> QED
    BY <2>1, <2>2 DEF IsKept
<1> QED
  BY <1>5, <1>6, <1>7 DEF KeepsInv

LEMMA FaultSteps ==
  ASSUME SaneInv, NEW p \in site.procs, NEW m \in Macs, KeepsInv(m), Fault,
         NoFetch(p) \/ AddFails(p) \/ BootOutFails(p) \/ GetsKilled(p)
  PROVE  KeepsInv(m)'
<1>0. proc[p] # Idle /\ SetupTypeOK /\ site' = site
  BY DEF NoFetch, AddFails, BootOutFails, GetsKilled, At, SaneInv
<1>1. \A q \in site.procs \ {p} : proc'[q] = proc[q]
  BY <1>0, OthersSame DEF GetsKilled, Exits, SetupTypeOK, Step
<1>2. proc'[p] = Idle \/ proc'[p].pc \notin Handling
  <2>1. Exits(p) => proc'[p] = Idle
    BY <1>0, ExitsView
  <2>2. \A pc \in Steps \ Handling : Go(p, pc) => proc'[p].pc \notin Handling
    BY <1>0, GoView
  <2> QED
    BY <2>1, <2>2 DEF NoFetch, AddFails, BootOutFails, GetsKilled, PushFails, Onwards, Fails, Steps, Handling
<1>3. UNCHANGED <<disk, bak, kc, had>> /\ faults' = faults + 1
  BY DEF NoFetch, AddFails, BootOutFails, GetsKilled, NoFile, fileVars, Fault
<1> QED
  BY <1>0, <1>1, <1>2, <1>3, FaultKeeps

LEMMA NotThere ==
  ASSUME NEW p, NEW m, proc[p] = Idle \/ Mac(p) # m
  PROVE  NoPart(p, m)
  BY DEF NoPart, Putters, Cutters, Fillers, Planters, Owers, Has

LEMMA NotThereNext ==
  ASSUME NEW p, NEW m, proc'[p] = Idle \/ Mac(p)' # m
  PROVE  NoPart(p, m)'
  BY DEF NoPart, Putters, Cutters, Fillers, Planters, Owers, Has

\* The Macs that a step of p is not about.
LEMMA OtherMacs ==
  ASSUME SaneInv, NEW p \in site.procs, Step(p), NEW m \in Macs, KeepsInv(m), SameFiles(m),
         faults' = faults, Mac(p) # m, proc'[p] = Idle \/ Mac(p)' = Mac(p)
  PROVE  KeepsInv(m)'
<1>1. NoPart(p, m) /\ NoPart(p, m)'
  BY NotThere, NotThereNext
<1> QED
  BY <1>1, OthersSame, Elsewhere DEF SaneInv

\* Nobody else is writing: nobody is cutting or filling, or it is p.
LEMMA NotOverwriting ==
  ASSUME SaneInv, NEW p \in site.procs, NEW m \in Macs, ~Overwriting(m, p)
  PROVE  Cutters(m) \cup Fillers(m) \cup Planters(m) \subseteq {p}
  BY DEF Overwriting, Working, Cutters, Fillers, Planters, Has

LEMMA SaveKeeps ==
  ASSUME SaneInv, NEW p \in site.procs, Save(p), NEW m \in Macs, KeepsInv(m)
  PROVE  KeepsInv(m)'
<1>0. /\ proc[p] # Idle /\ proc[p].pc = "save" /\ SetupTypeOK /\ Step(p) /\ faults' = faults
      /\ had' = had /\ kc' = kc /\ Go(p, "put")
  BY DEF Save, At, SaneInv, Step, Rest
<1>t. Text(p) \in Whole /\ Mac(p) \in Macs
  BY <1>0, AtTypes DEF SaneInv, Sane
<1>v. proc'[p] # Idle /\ proc'[p].pc = "put" /\ Mac(p)' = Mac(p) /\ Text(p)' = Text(p)
  BY <1>0, GoView DEF Steps
<1>1. CASE Mac(p) # m
  <2>1. SameFiles(m)
    BY <1>0, <1>1, <1>t DEF Save, MovedAway, Keep, Put, SameFiles, SetupTypeOK, FilesTypeOK
  <2> QED
    BY <1>0, <1>1, <1>v, <2>1, OtherMacs
<1>2. CASE Mac(p) = m
  <2>1. NoPart(p, m)
    BY <1>0, NoParts DEF Handling
  <2>2. p \in Putters(m)' /\ p \in Owers(m)' /\ p \notin Cutters(m)' \cup Fillers(m)' \cup Planters(m)'
    BY <1>0, <1>2, <1>t, <1>v, OthersSame DEF Putters, Owers, Cutters, Fillers, Planters, Has
  <2>3. /\ Putters(m) \subseteq Putters(m)' /\ Cutters(m)' = Cutters(m) /\ Fillers(m)' = Fillers(m)
        /\ Planters(m)' = Planters(m)
    <3>1. site' = site /\ \A q \in site.procs \ {p} : proc'[q] = proc[q]
      BY <1>0, OthersSame
    <3>2. /\ Putters(m)' \ {p} = Putters(m) \ {p} /\ Cutters(m)' \ {p} = Cutters(m) \ {p}
          /\ Fillers(m)' \ {p} = Fillers(m) \ {p} /\ Planters(m)' \ {p} = Planters(m) \ {p}
      BY <3>1, Parts
    <3> QED
      BY <2>1, <2>2, <3>2 DEF NoPart
  <2>4. \A q \in Cutters(m) \cup Fillers(m) : Text(q)' = Text(q)
    BY <1>0, <2>1, OthersSame, Parts DEF NoPart, Cutters, Fillers
  <2>5. OneDelivery(m)' /\ BringsWhole(m)'
    BY <1>0, <2>3, <2>4 DEF KeepsInv, OneDelivery, BringsWhole
  <2>6. had[m] /\ faults = 0 => Safe(m)'
    <3> SUFFICES ASSUME had[m], faults = 0
                 PROVE  Safe(m)'
      OBVIOUS
    <3>1. Safe(m)
      BY DEF KeepsInv, IsKept
    <3>2. CASE UNCHANGED <<disk, bak>>
      BY <2>2, <2>3, <3>1, <3>2, SameBackups DEF Safe
    <3>3. CASE Exists(m) /\ MovedAway(m)
      <4>1. disk'[m] = Absent /\ (disk[m] \in Whole => BakWhole(m)')
        BY <1>0, <3>3, BackupNames
          DEF MovedAway, Keep, Put, BakWhole, SetupTypeOK, FilesTypeOK
      <4>2. RefBak(m) => RefBak(m)'
        BY <1>0, <1>t, RefBakStays
      <4> QED
        BY <2>2, <2>3, <3>1, <3>3, <4>1, <4>2 DEF Safe, Exists
    <3> QED
      BY <1>2, <3>2, <3>3 DEF Save
  <2> QED
    BY <1>0, <2>2, <2>5, <2>6 DEF KeepsInv, IsKept, Kept
<1> QED
  BY <1>1, <1>2

LEMMA PutKeeps ==
  ASSUME SaneInv, NEW p \in site.procs, PutText(p), NEW m \in Macs, KeepsInv(m)
  PROVE  KeepsInv(m)'
<1>0. /\ proc[p] # Idle /\ proc[p].pc = "put" /\ SetupTypeOK /\ Step(p) /\ faults' = faults
      /\ bak' = bak /\ kc' = kc /\ Put(Mac(p), Text(p)) /\ Keeps(Mac(p), p)
      /\ (Go(p, "read") \/ Go(p, "edit"))
  BY DEF PutText, At, SaneInv, Step
<1>t. Text(p) \in Whole /\ Mac(p) \in Macs
  BY <1>0, AtTypes DEF SaneInv, Sane
<1>v. proc'[p].pc \in {"read", "edit"} /\ Mac(p)' = Mac(p)
  BY <1>0, GoView DEF Steps
<1>1. CASE Mac(p) # m
  <2>1. SameFiles(m)
    BY <1>0, <1>1, <1>t DEF Put, Keeps, SameFiles, SetupTypeOK, FilesTypeOK
  <2> QED
    BY <1>0, <1>1, <1>v, <2>1, OtherMacs
<1>2. CASE Mac(p) = m
  <2>1. p \notin Cutters(m) \cup Fillers(m) \cup Planters(m)
    BY <1>0 DEF Cutters, Fillers, Planters, Has
  <2>2. NoPart(p, m)'
    BY <1>v, NoPartsNext DEF Handling
  <2>3. Cutters(m)' = Cutters(m) /\ Fillers(m)' = Fillers(m) /\ Planters(m)' = Planters(m)
    BY <1>0, <2>1, <2>2, OthersSame, Parts DEF NoPart
  <2>4. \A q \in Cutters(m) \cup Fillers(m) : Text(q)' = Text(q)
    BY <1>0, <2>1, OthersSame, Parts DEF Cutters, Fillers
  <2>5. disk'[m] \in Whole
    BY <1>0, <1>2, <1>t DEF Put, SetupTypeOK, FilesTypeOK
  <2>6. had'[m] => had[m] \/ Cutters(m) \cup Fillers(m) \cup Planters(m) = {}
    <3>1. had'[m] => had[m] \/ ~Overwriting(m, p)
      BY <1>0, <1>2, <1>t DEF Keeps, SetupTypeOK
    <3> QED
      BY <2>1, <3>1, NotOverwriting
  <2>7. OneDelivery(m)' /\ BringsWhole(m)'
    BY <2>3, <2>4, <2>6 DEF KeepsInv, OneDelivery, BringsWhole
  <2>8. Kept(m)'
    BY <2>5 DEF Kept, Stored
  <2>9. had'[m] /\ faults = 0 => Safe(m)'
    BY <1>0, <2>3, <2>5, <2>6, SameBackups DEF KeepsInv, IsKept, Safe
  <2> QED
    BY <1>0, <2>7, <2>8, <2>9 DEF KeepsInv, IsKept
<1> QED
  BY <1>1, <1>2

LEMMA KeychainKeeps ==
  ASSUME SaneInv, NEW p \in site.procs, Drop(p) \/ Add(p), NEW m \in Macs, KeepsInv(m)
  PROVE  KeepsInv(m)'
<1>0. /\ proc[p] # Idle /\ proc[p].pc \in {"drop", "add"} /\ SetupTypeOK /\ Step(p)
      /\ faults' = faults /\ bak' = bak /\ disk' = disk /\ had' = had
  BY DEF Drop, Add, At, SaneInv, Step, Rest
<1>t. Text(p) \in Whole /\ Mac(p) \in Macs
  BY <1>0, AtTypes DEF SaneInv, Sane
<1>v. /\ proc'[p] = Idle \/ (proc'[p].pc \in {"add", "edit"} /\ Mac(p)' = Mac(p) /\ Text(p)' = Text(p))
      /\ Drop(p) => proc'[p] # Idle /\ proc'[p].pc = "add"
  <2>1. Exits(p) \/ Go(p, "add") \/ Go(p, "edit")
    BY DEF Drop, Add, Onwards
  <2>2. Exits(p) => proc'[p] = Idle
    BY <1>0, ExitsView
  <2>3. \A pc \in Steps : Go(p, pc) =>
          proc'[p] # Idle /\ proc'[p].pc = pc /\ Mac(p)' = Mac(p) /\ Text(p)' = Text(p)
    BY <1>0, GoView
  <2>4. Drop(p) => Go(p, "add")
    BY DEF Drop
  <2> QED
    BY <2>1, <2>2, <2>3, <2>4 DEF Steps
<1>1. CASE Mac(p) # m
  <2>1. SameFiles(m)
    BY <1>0, <1>1, <1>t DEF Drop, Add, Dropped, Added, SameFiles, SetupTypeOK, FilesTypeOK
  <2> QED
    BY <1>0, <1>1, <1>v, <2>1, OtherMacs
<1>2. CASE Mac(p) = m
  <2>1. p \notin Cutters(m) \cup Fillers(m) \cup Planters(m) \cup Putters(m)
    BY <1>0 DEF Cutters, Fillers, Planters, Putters, Has
  <2>2. p \notin Cutters(m)' \cup Fillers(m)' \cup Planters(m)' \cup Putters(m)'
    BY <1>v DEF Cutters, Fillers, Planters, Putters, Has
  <2>3. /\ Cutters(m)' = Cutters(m) /\ Fillers(m)' = Fillers(m) /\ Planters(m)' = Planters(m)
        /\ Putters(m)' = Putters(m)
    BY <1>0, <2>1, <2>2, OthersSame, Parts
  <2>4. \A q \in Cutters(m) \cup Fillers(m) : Text(q)' = Text(q)
    BY <1>0, <2>1, OthersSame, Parts DEF Cutters, Fillers
  <2>5. OneDelivery(m)' /\ BringsWhole(m)'
    BY <1>0, <2>3, <2>4 DEF KeepsInv, OneDelivery, BringsWhole
  <2>6. Safe(m)' = Safe(m)
    BY <1>0, <2>3, SameBackups DEF Safe
  <2>7. Kept(m)'
    <3>1. CASE Drop(p)
      BY <1>0, <1>2, <1>t, <1>v, <3>1, OthersSame DEF Kept, Owers, Has
    <3>2. CASE Add(p)
      BY <1>0, <1>2, <1>t, <3>2 DEF Add, Added, Kept, Stored, SetupTypeOK, FilesTypeOK
    <3> QED
      BY <3>1, <3>2
  <2> QED
    BY <1>0, <2>5, <2>6, <2>7 DEF KeepsInv, IsKept
<1> QED
  BY <1>1, <1>2

LEMMA CopyKeeps ==
  ASSUME SaneInv, SaneInv', NEW p \in site.procs, Copy(p), NEW m \in Macs, KeepsInv(m)
  PROVE  KeepsInv(m)'
<1>0. /\ proc[p] # Idle /\ proc[p].pc = "copy" /\ SetupTypeOK /\ Step(p) /\ faults' = faults
      /\ disk' = disk /\ kc' = kc /\ had' = had /\ Go(p, "trunc")
  BY DEF Copy, At, SaneInv, Step, Rest
<1>t. Kind(p) = "refresh" /\ Mac(p) \in Macs /\ site' = site
  BY <1>0, AtTypes, OthersSame DEF SaneInv, Sane, IsStepOf
<1>v. proc'[p] # Idle /\ proc'[p].pc = "trunc" /\ Mac(p)' = Mac(p) /\ Kind(p)' = Kind(p)
  BY <1>0, GoView DEF Steps
<1>1. CASE Mac(p) # m
  <2>1. SameFiles(m)
    BY <1>0, <1>1, <1>t DEF Copy, Keep, SameFiles, SetupTypeOK, FilesTypeOK
  <2> QED
    BY <1>0, <1>1, <1>v, <2>1, OtherMacs
<1>2. CASE Mac(p) = m
  <2>1. p \notin Cutters(m) \cup Fillers(m) \cup Planters(m)
    BY <1>0 DEF Cutters, Fillers, Planters, Has
  <2>2. p \notin Cutters(m)' \cup Fillers(m)' \cup Planters(m)'
    BY <1>t, <1>v DEF Cutters, Fillers, Planters, Has
  <2>3. Cutters(m)' = Cutters(m) /\ Fillers(m)' = Fillers(m) /\ Planters(m)' = Planters(m)
    BY <1>0, <2>1, <2>2, OthersSame, Parts
  <2>4. \A q \in Cutters(m) \cup Fillers(m) : Text(q)' = Text(q)
    BY <1>0, <2>1, OthersSame, Parts DEF Cutters, Fillers
  <2>5. OneDelivery(m)' /\ BringsWhole(m)'
    BY <1>0, <2>3, <2>4 DEF KeepsInv, OneDelivery, BringsWhole
  <2>6. RefBak(m)'
    <3>1. Sane(p)'
      BY <1>t DEF SaneInv
    <3> QED
      BY <1>2, <1>t, <1>v, <3>1 DEF Sane, RefBak
  <2>7. BakWhole(m)'
    BY <2>6, Names DEF RefBak, BakWhole
  <2> QED
    BY <2>5, <2>6, <2>7 DEF KeepsInv, IsKept, Safe, Kept, Stored
<1> QED
  BY <1>1, <1>2

LEMMA KeepFileKeeps ==
  ASSUME SaneInv, NEW p \in site.procs, KeepFile(p), NEW m \in Macs, KeepsInv(m)
  PROVE  KeepsInv(m)'
<1>0. /\ proc[p] # Idle /\ proc[p].pc = "keep" /\ SetupTypeOK /\ Step(p) /\ faults' = faults
      /\ disk' = disk /\ kc' = kc
  BY DEF KeepFile, At, SaneInv, Step
<1>t. Kind(p) = "deliver" /\ Mac(p) \in Macs
  BY <1>0, AtTypes DEF SaneInv, Sane, IsStepOf
<1>1. CASE Exits(p) /\ UNCHANGED <<bak, had>>
  BY <1>0, <1>1, ExitsView, QuietKeeps DEF Handling
<1>2. CASE /\ ~Delivering(Mac(p)) /\ Go(p, "trunc") /\ Aside(Mac(p))
           /\ had' = [had EXCEPT ![Mac(p)] = @ /\ Text(p) \in Whole]
  <2>v. /\ proc'[p] # Idle /\ proc'[p].pc = "trunc" /\ Mac(p)' = Mac(p) /\ Kind(p)' = Kind(p)
        /\ Text(p)' = Text(p)
    BY <1>0, <1>2, GoView DEF Steps
  <2>1. CASE Mac(p) # m
    <3>1. SameFiles(m)
      BY <1>0, <1>2, <1>t, <2>1 DEF Aside, Keep, SameFiles, SetupTypeOK, FilesTypeOK
    <3> QED
      BY <1>0, <2>1, <2>v, <3>1, OtherMacs
  <2>2. CASE Mac(p) = m
    <3>1. Cutters(m) = {} /\ Fillers(m) = {}
      BY <1>2, <2>2 DEF Delivering, Cutters, Fillers, Has, Working
    <3>2. p \notin Fillers(m)' \cup Planters(m)' /\ p \notin Planters(m) \cup Putters(m)
      BY <1>0, <2>v DEF Fillers, Planters, Putters, Has
    <3>3. Cutters(m)' \subseteq {p} /\ Fillers(m)' = {} /\ Planters(m)' = Planters(m)
          /\ Putters(m) \subseteq Putters(m)'
      BY <1>0, <3>1, <3>2, OthersSame, Parts
    <3>4. had'[m] => had[m] /\ Text(p) \in Whole
      <4> DEFINE kept == had[m] /\ Text(p) \in Whole
      <4>1. had' = [had EXCEPT ![m] = kept] /\ m \in DOMAIN had
        BY <1>2, <1>0, <2>2 DEF SetupTypeOK
      <4> HIDE DEF kept
      <4>2. had'[m] = kept
        BY <4>1
      <4> QED
        BY <4>2 DEF kept
    <3>5. OneDelivery(m)' /\ BringsWhole(m)'
      BY <2>v, <3>3, <3>4 DEF KeepsInv, OneDelivery, BringsWhole
    <3>6. had'[m] => Kept(m)'
      BY <1>0, <2>2, <2>v, <3>4, OthersSame DEF Kept, Owers, Has
    <3>7. had'[m] /\ faults = 0 => Safe(m)'
      <4> SUFFICES ASSUME had[m], faults = 0
                   PROVE  Safe(m)'
        BY <3>4
      <4>1. CASE RefBak(m)
        BY <1>0, <4>1, RefBakStays DEF Safe
      <4>2. CASE disk[m] \in Whole
        <5>1. bak'[m][<<"bak", 0>>] = disk[m]
          BY <1>0, <1>2, <2>2, <1>t, <4>2, ConfigAssumption, Names
            DEF Aside, Exists, Keep, SetupTypeOK, FilesTypeOK
        <5>2. BakWhole(m)'
          BY <4>2, <5>1, Names DEF BakWhole
        <5> QED
          BY <1>0, <4>2, <5>2 DEF Safe
      <4>3. CASE disk[m] = Absent /\ BakWhole(m) /\ Putters(m) # {}
        <5>1. bak' = bak
          BY <1>2, <2>2, <4>3 DEF Aside, Exists
        <5> QED
          BY <1>0, <3>3, <4>3, <5>1, SameBackups DEF Safe
      <4> QED
        BY <3>1, <4>1, <4>2, <4>3 DEF KeepsInv, IsKept, Safe
    <3> QED
      BY <1>0, <3>5, <3>6, <3>7 DEF KeepsInv, IsKept
  <2> QED
    BY <2>1, <2>2
<1> QED
  BY <1>1, <1>2 DEF KeepFile

LEMMA TruncateKeeps ==
  ASSUME SaneInv, NEW p \in site.procs, Truncate(p), NEW m \in Macs, KeepsInv(m)
  PROVE  KeepsInv(m)'
<1>0. /\ proc[p] # Idle /\ proc[p].pc = "trunc" /\ SetupTypeOK /\ Step(p) /\ faults' = faults
      /\ bak' = bak /\ kc' = kc /\ had' = had /\ Go(p, "fill")
  BY DEF Truncate, At, SaneInv, Step, Rest
<1>t. Kind(p) \in {"refresh", "deliver"} /\ Mac(p) \in Macs
  BY <1>0, AtTypes DEF SaneInv, Sane, IsStepOf
<1>v. /\ proc'[p] # Idle /\ proc'[p].pc = "fill" /\ Mac(p)' = Mac(p) /\ Kind(p)' = Kind(p)
      /\ Text(p)' = Text(p)
  BY <1>0, GoView DEF Steps
<1>1. CASE Mac(p) # m
  <2>1. SameFiles(m)
    BY <1>0, <1>1, <1>t DEF Truncate, Put, SameFiles, SetupTypeOK, FilesTypeOK
  <2> QED
    BY <1>0, <1>1, <1>v, <2>1, OtherMacs
<1>2. CASE Mac(p) = m /\ Kind(p) = "refresh"
  <2>1. p \notin Cutters(m) \cup Fillers(m) \cup Planters(m)
    BY <1>2 DEF Cutters, Fillers, Planters
  <2>2. p \notin Cutters(m)' \cup Fillers(m)' \cup Planters(m)'
    BY <1>2, <1>v DEF Cutters, Fillers, Planters
  <2>3. Cutters(m)' = Cutters(m) /\ Fillers(m)' = Fillers(m) /\ Planters(m)' = Planters(m)
    BY <1>0, <2>1, <2>2, OthersSame, Parts
  <2>4. \A q \in Cutters(m) \cup Fillers(m) : Text(q)' = Text(q)
    BY <1>0, <2>1, OthersSame, Parts DEF Cutters, Fillers
  <2>5. OneDelivery(m)' /\ BringsWhole(m)'
    BY <1>0, <2>3, <2>4 DEF KeepsInv, OneDelivery, BringsWhole
  <2>6. RefBak(m)' /\ BakWhole(m)'
    BY <1>0, <1>2, RefBakWhole, SameBackups DEF SaneInv, Sane
  <2> QED
    BY <2>5, <2>6 DEF KeepsInv, IsKept, Safe, Kept, Stored
<1>3. CASE Mac(p) = m /\ Kind(p) = "deliver"
  <2>1. p \in Cutters(m) /\ p \notin Fillers(m) \cup Planters(m) \cup Putters(m)
    BY <1>0, <1>3 DEF Cutters, Fillers, Planters, Putters, Has
  <2>2. p \in Fillers(m)' /\ p \notin Cutters(m)' \cup Planters(m)' \cup Putters(m)'
    BY <1>0, <1>3, <1>v, OthersSame DEF Cutters, Fillers, Planters, Putters, Has
  <2>3. Cutters(m) = {p} /\ Fillers(m) = {}
    BY <2>1 DEF KeepsInv, OneDelivery
  <2>4. Cutters(m)' = {} /\ Fillers(m)' = {p} /\ Planters(m)' = Planters(m)
    BY <1>0, <2>1, <2>2, <2>3, OthersSame, Parts
  <2>5. OneDelivery(m)' /\ BringsWhole(m)'
    BY <1>0, <1>v, <2>1, <2>4 DEF KeepsInv, OneDelivery, BringsWhole
  <2>6. had[m] => Kept(m)'
    <3>1. had[m] => Text(p)' \in Whole
      BY <1>v, <2>1 DEF KeepsInv, BringsWhole
    <3> QED
      BY <1>0, <1>3, <1>v, <3>1, OthersSame DEF Kept, Owers, Has
  <2>7. had[m] /\ faults = 0 => Safe(m)'
    BY <1>0, <2>1, <2>2, <2>3, SameBackups DEF KeepsInv, IsKept, Safe
  <2> QED
    BY <1>0, <2>5, <2>6, <2>7 DEF KeepsInv, IsKept
<1> QED
  BY <1>1, <1>2, <1>3, <1>t

LEMMA FillKeeps ==
  ASSUME SaneInv, NEW p \in site.procs, Fill(p), NEW m \in Macs, KeepsInv(m)
  PROVE  KeepsInv(m)'
<1>0. /\ proc[p] # Idle /\ proc[p].pc = "fill" /\ SetupTypeOK /\ Step(p) /\ faults' = faults
      /\ bak' = bak /\ kc' = kc /\ Put(Mac(p), Text(p))
  BY DEF Fill, At, SaneInv, Step
<1>t. Kind(p) \in {"refresh", "deliver", "plant"} /\ Mac(p) \in Macs
  BY <1>0, AtTypes DEF SaneInv, Sane, IsStepOf
<1>v. proc'[p] = Idle \/ (proc'[p].pc = "read" /\ Mac(p)' = Mac(p))
  BY <1>0, GoView, ExitsView DEF Fill, Steps
<1>1. CASE Mac(p) # m
  <2>1. SameFiles(m)
    BY <1>0, <1>1, <1>t DEF Fill, Put, Keeps, SameFiles, SetupTypeOK, FilesTypeOK
  <2> QED
    BY <1>0, <1>1, <1>v, <2>1, OtherMacs
<1>2. CASE Mac(p) = m
  <2>1. NoPart(p, m)'
    BY <1>v, NoPartsNext DEF Handling
  <2>2. /\ Cutters(m)' = Cutters(m) \ {p} /\ Fillers(m)' = Fillers(m) \ {p}
        /\ Planters(m)' = Planters(m) \ {p}
    BY <1>0, <2>1, OthersSame, Parts DEF NoPart
  <2>3. p \notin Putters(m) /\ Putters(m)' = Putters(m)
    BY <1>0, <2>1, OthersSame, Parts DEF Putters, Has, NoPart
  <2>4. \A q \in (Cutters(m) \cup Fillers(m)) \ {p} : Text(q)' = Text(q)
    BY <1>0, OthersSame, Parts DEF Cutters, Fillers
  <2>5. disk'[m] = Text(p)
    BY <1>0, <1>2, <1>t DEF Put, SetupTypeOK, FilesTypeOK
  <2>6. had'[m] => \/ had[m]
                   \/ Text(p) \in Whole /\ Cutters(m) \cup Fillers(m) \cup Planters(m) \subseteq {p}
    <3>1. had'[m] => had[m] \/ (Text(p) \in Whole /\ ~Overwriting(m, p))
      BY <1>0, <1>2, <1>t DEF Fill, Keeps, SetupTypeOK
    <3> QED
      BY <3>1, NotOverwriting
  <2>7. had[m] => Text(p) \in Whole
    BY <1>0, <1>2, <1>t DEF KeepsInv, BringsWhole, Fillers, Planters, Has, SaneInv, Sane
  <2>8. OneDelivery(m)' /\ BringsWhole(m)'
    BY <2>2, <2>4, <2>6 DEF KeepsInv, OneDelivery, BringsWhole
  <2>9. had'[m] => Kept(m)'
    BY <2>5, <2>6, <2>7 DEF Kept, Stored
  <2>10. had'[m] /\ faults = 0 => Safe(m)'
    <3> SUFFICES ASSUME had'[m], faults = 0
                 PROVE  Safe(m)'
      OBVIOUS
    <3>1. disk'[m] \in Whole
      BY <2>5, <2>6, <2>7
    <3>2. CASE Cutters(m)' = {}
      BY <3>1, <3>2 DEF Safe
    <3>3. CASE Cutters(m)' # {}
      <4>1. had[m] /\ p \notin Fillers(m) /\ p \notin Planters(m)
        BY <1>0, <2>2, <2>6, <3>3 DEF KeepsInv, OneDelivery, BringsWhole, Cutters, Fillers, Has
      <4>2. Kind(p) = "refresh"
        BY <1>0, <1>2, <1>t, <4>1 DEF Fillers, Planters, Has
      <4>3. RefBak(m)
        BY <1>0, <1>2, <4>2 DEF SaneInv, Sane
      <4> QED
        BY <1>0, <4>3, SameBackups DEF Safe
    <3> QED
      BY <3>2, <3>3
  <2> QED
    BY <1>0, <2>8, <2>9, <2>10 DEF KeepsInv, IsKept
<1> QED
  BY <1>1, <1>2

LEMMA LocalKeeps ==
  ASSUME SaneInv, NEW p \in site.procs, Local(p), NEW m \in Macs, KeepsInv(m)
  PROVE  KeepsInv(m)'
<1>0. /\ proc[p] # Idle /\ proc[p].pc = "local" /\ SetupTypeOK /\ Step(p) /\ faults' = faults
      /\ bak' = bak /\ kc' = kc
  BY DEF Local, At, SaneInv, Step
<1>t. Mac(p) \in Macs /\ kc[Mac(p)] \in Whole \cup {Absent}
  BY <1>0, AtTypes
<1>v. proc'[p] = Idle \/ (proc'[p].pc = "ask" /\ Mac(p)' = Mac(p))
  BY <1>0, GoView, ExitsView DEF Local, Fails, Steps
<1>1. CASE UNCHANGED <<disk, had>>
  BY <1>0, <1>1, <1>v, QuietKeeps DEF Handling
<1>2. CASE ~Exists(Mac(p)) /\ kc[Mac(p)] # Absent /\ Put(Mac(p), kc[Mac(p)]) /\ Keeps(Mac(p), p)
  <2>1. CASE Mac(p) # m
    <3>1. SameFiles(m)
      BY <1>0, <1>2, <2>1, <1>t DEF Put, Keeps, SameFiles, SetupTypeOK, FilesTypeOK
    <3> QED
      BY <1>0, <1>v, <2>1, <3>1, OtherMacs
  <2>2. CASE Mac(p) = m
    <3>1. NoPart(p, m) /\ NoPart(p, m)'
      BY <1>0, <1>v, NoParts, NoPartsNext DEF Handling
    <3>2. Cutters(m)' = Cutters(m) /\ Fillers(m)' = Fillers(m) /\ Planters(m)' = Planters(m)
      <4>1. /\ p \notin Cutters(m) \cup Fillers(m) \cup Planters(m)
            /\ p \notin Cutters(m)' \cup Fillers(m)' \cup Planters(m)'
        BY <3>1 DEF NoPart
      <4> QED
        BY <1>0, <4>1, OthersSame, Parts
    <3>3. \A q \in Cutters(m) \cup Fillers(m) : Text(q)' = Text(q)
      BY <1>0, <3>1, OthersSame, Parts DEF NoPart, Cutters, Fillers
    <3>4. disk'[m] \in Whole /\ disk[m] = Absent
      BY <1>0, <1>2, <1>t, <2>2 DEF Put, Exists, SetupTypeOK, FilesTypeOK
    <3>5. had'[m] => had[m] \/ Cutters(m) \cup Fillers(m) \cup Planters(m) = {}
      <4>1. had'[m] => had[m] \/ ~Overwriting(m, p)
        BY <1>0, <1>2, <1>t, <2>2 DEF Keeps, SetupTypeOK
      <4> QED
        BY <3>1, <4>1, NotOverwriting DEF NoPart
    <3>6. OneDelivery(m)' /\ BringsWhole(m)'
      BY <3>2, <3>3, <3>5 DEF KeepsInv, OneDelivery, BringsWhole
    <3>7. Kept(m)'
      BY <3>4 DEF Kept, Stored
    <3>8. had'[m] /\ faults = 0 => Safe(m)'
      BY <1>0, <3>2, <3>4, <3>5, SameBackups, ConfigAssumption DEF KeepsInv, IsKept, Safe
    <3> QED
      BY <1>0, <3>6, <3>7, <3>8 DEF KeepsInv, IsKept
  <2> QED
    BY <2>1, <2>2
<1> QED
  BY <1>1, <1>2 DEF Local

LEMMA SendKeeps ==
  ASSUME SaneInv, NEW p \in site.procs, Send(p), NEW m \in Macs, KeepsInv(m)
  PROVE  KeepsInv(m)'
<1>0. /\ proc[p] # Idle /\ proc[p].pc = "send" /\ SetupTypeOK /\ Step(p) /\ faults' = faults
      /\ bak' = bak /\ kc' = kc /\ proc[p] \in Process(site)
  BY AtTypes DEF Send, At, SaneInv, Step
<1>1. CASE Exits(p) /\ UNCHANGED <<disk, had>>
  BY <1>0, <1>1, ExitsView, QuietKeeps DEF Handling
<1>2. CASE /\ proc' = [proc EXCEPT ![p].pc = "fill", ![p].text = disk[Mac(p)], ![p].mac = proc[p].cmd.to]
           /\ Put(proc[p].cmd.to, Torn) /\ had' = [had EXCEPT ![proc[p].cmd.to] = FALSE]
  <2>t. Kind(p) = "plant" /\ proc[p].cmd.to \in Macs
    BY <1>0, AtTypes DEF SaneInv, Sane, IsStepOf
  <2>v. Mac(p)' = proc[p].cmd.to /\ Kind(p)' = Kind(p)
    BY <1>0, <1>2 DEF Mac, Kind, SetupTypeOK, Process
  <2>1. NoPart(p, m)
    BY <1>0, NoParts DEF Handling
  <2>2. CASE proc[p].cmd.to # m
    <3>1. SameFiles(m)
      BY <1>0, <1>2, <2>2, <2>t DEF Put, SameFiles, SetupTypeOK, FilesTypeOK
    <3>2. NoPart(p, m)'
      BY <2>2, <2>v, NotThereNext
    <3> QED
      BY <1>0, <2>1, <3>1, <3>2, OthersSame, Elsewhere
  <2>3. CASE proc[p].cmd.to = m
    <3>1. ~had'[m]
      BY <1>0, <1>2, <2>3, <2>t DEF SetupTypeOK
    <3>2. p \notin Cutters(m)' \cup Fillers(m)'
      BY <2>t, <2>v DEF Cutters, Fillers
    <3>3. Cutters(m)' = Cutters(m) /\ Fillers(m)' = Fillers(m)
      <4>1. p \notin Cutters(m) \cup Fillers(m)
        BY <2>1 DEF NoPart
      <4> QED
        BY <1>0, <3>2, <4>1, OthersSame, Parts
    <3> QED
      BY <3>1, <3>3 DEF KeepsInv, OneDelivery, BringsWhole, IsKept
  <2> QED
    BY <2>2, <2>3
<1> QED
  BY <1>1, <1>2 DEF Send, Fails

LEMMA InvokesKeeps ==
  ASSUME SaneInv, NEW p \in site.procs, NEW c \in site.commands, Invokes(p, c),
         NEW m \in Macs, KeepsInv(m)
  PROVE  KeepsInv(m)'
<1>0. /\ site' = site /\ UNCHANGED <<disk, bak, kc, had, faults>> /\ SetupTypeOK
      /\ c.kind \in Kinds /\ proc[p] = Idle
  BY SetupAssumption DEF Invokes, fileVars, SaneInv, SetupTypeOK
<1>1. proc'[p].pc \notin Handling
  BY <1>0, InvokesOthers DEF Handling, First, Kinds
<1>2. \A q \in site.procs \ {p} :
        /\ \A pc : Has(q, m, pc)' = Has(q, m, pc)
        /\ proc[q] # Idle => Kind(q)' = Kind(q) /\ Text(q)' = Text(q)
  <2> SUFFICES ASSUME NEW q \in site.procs \ {p}
               PROVE  /\ \A pc : Has(q, m, pc)' = Has(q, m, pc)
                      /\ proc[q] # Idle => Kind(q)' = Kind(q) /\ Text(q)' = Text(q)
    OBVIOUS
  <2>1. CASE proc[q] = Idle
    <3>1. proc'[q] = Idle
      BY <1>0, <2>1, InvokesOthers
    <3> QED
      BY <2>1, <3>1 DEF Has
  <2>2. CASE proc[q] # Idle
    <3>1. /\ proc'[q] # Idle /\ proc'[q].cmd = proc[q].cmd /\ proc'[q].pc = proc[q].pc
          /\ proc'[q].mac = proc[q].mac /\ proc'[q].text = proc[q].text
      BY <1>0, <2>2, InvokesOthers
    <3> QED
      BY <2>2, <3>1 DEF Has, Kind, Text, Mac
  <2> QED
    BY <2>1, <2>2
<1>3. \A pc \in Handling : ~Has(p, m, pc) /\ ~Has(p, m, pc)'
  BY <1>0, <1>1 DEF Has
<1>4. /\ Putters(m)' = Putters(m) /\ Cutters(m)' = Cutters(m) /\ Fillers(m)' = Fillers(m)
      /\ Planters(m)' = Planters(m) /\ Owers(m)' = Owers(m)
  <2>1. \A q \in site.procs, pc \in Handling :
          /\ Has(q, m, pc)' = Has(q, m, pc)
          /\ Has(q, m, pc) => Kind(q)' = Kind(q) /\ Text(q)' = Text(q)
    BY <1>2, <1>3 DEF Has
  <2> HIDE DEF Has
  <2> QED
    BY <1>0, <2>1 DEF Putters, Cutters, Fillers, Planters, Owers, Handling
<1>5. \A q \in Cutters(m) \cup Fillers(m) : Text(q)' = Text(q)
  BY <1>0, <1>2 DEF Cutters, Fillers, Has
<1>6. BakWhole(m)' = BakWhole(m) /\ RefBak(m)' = RefBak(m)
  BY <1>0, SameBackups
<1> QED
  BY <1>0, <1>4, <1>5, <1>6
    DEF KeepsInv, OneDelivery, BringsWhole, IsKept, Safe, Kept, Stored

LEMMA TicksKeep ==
  ASSUME SaneInv, SecondPasses \/ UNCHANGED setupVars, NEW m \in Macs, KeepsInv(m)
  PROVE  KeepsInv(m)'
<1>1. UNCHANGED <<disk, bak, kc, had, faults, site, proc>>
  BY DEF SecondPasses, setupVars, fileVars
<1> QED
  BY <1>1 DEF KeepsInv, OneDelivery, BringsWhole, IsKept, Safe, Kept, Stored, BakWhole, RefBak,
              Putters, Cutters, Fillers, Planters, Owers, Has, Kind, Mac, Text

LEMMA RecoverStarts == SetupInit => RecoverInv
<1> SUFFICES ASSUME SetupInit
             PROVE  RecoverInv
  OBVIOUS
<1>1. SaneInv
  BY SaneStarts
<1>2. ASSUME NEW m \in Macs
      PROVE  /\ Cutters(m) = {} /\ Fillers(m) = {} /\ Planters(m) = {}
             /\ had[m] => disk[m] \in Whole
  BY DEF SetupInit, Cutters, Fillers, Planters, Has, Loads
<1> QED
  BY <1>1, <1>2 DEF RecoverInv, KeepsInv, OneDelivery, BringsWhole, IsKept, Safe, Kept, Stored

LEMMA NextRecover ==
  ASSUME RecoverInv, [SetupNext]_setupVars
  PROVE  RecoverInv'
<1>1. SaneInv /\ SaneInv' /\ \A m \in Macs : KeepsInv(m)
  BY NextSane DEF RecoverInv
<1>2. Macs' = Macs
  <2>1. \A p \in site.procs : Step(p) => site' = site
    BY <1>1, OthersSame DEF SaneInv
  <2> QED
    BY <2>1 DEF Macs, SetupNext, GetsKilled, Invokes, SecondPasses, setupVars
<1>3. ASSUME NEW m \in Macs, KeepsInv(m)
      PROVE  KeepsInv(m)'
  <2>1. CASE SecondPasses \/ UNCHANGED setupVars
    BY <1>1, <1>3, <2>1, TicksKeep
  <2>2. ASSUME NEW p \in site.procs, Step(p)
        PROVE  KeepsInv(m)'
    <3>1. NoFetch(p) => Fault \/ faults' = faults
      BY DEF NoFetch
    <3>2. AddFails(p) \/ BootOutFails(p) => Fault
      BY DEF AddFails, BootOutFails
    <3>4. CASE NoFetch(p) \/ AddFails(p) \/ BootOutFails(p)
      BY <1>1, <1>3, <3>1, <3>2, <3>4, QuietSteps, FaultSteps
    <3>5. CASE \/ Peek(p) \/ Fetch(p) \/ Draft(p) \/ ReadFile(p) \/ EditTargets(p) \/ Reread(p)
               \/ Bind(p) \/ Pack(p) \/ Ask(p) \/ Plan(p) \/ Look(p) \/ BootsOut(p) \/ BootStrap(p)
               \/ Remove(p) \/ Unlink(p)
      <4>1. faults' = faults
        BY <3>5
          DEF Peek, Fetch, Draft, ReadFile, EditTargets, Reread, Bind, Pack, Ask, Plan, Look, BootsOut,
              BootStrap, Remove, Unlink, Rest
      <4> QED
        BY <1>1, <1>3, <3>5, <4>1, QuietSteps
    <3>6. CASE Save(p) \/ PutText(p) \/ Drop(p) \/ Add(p) \/ Copy(p)
      BY <1>1, <1>3, <3>6, SaveKeeps, PutKeeps, KeychainKeeps, CopyKeeps
    <3>7. CASE KeepFile(p) \/ Truncate(p) \/ Fill(p) \/ Local(p) \/ Send(p)
      BY <1>1, <1>3, <3>7, KeepFileKeeps, TruncateKeeps, FillKeeps, LocalKeeps, SendKeeps
    <3> QED
      BY <2>2, <3>4, <3>5, <3>6, <3>7 DEF Step
  <2>3. ASSUME NEW p \in site.procs, GetsKilled(p)
        PROVE  KeepsInv(m)'
    BY <1>1, <1>3, <2>3, FaultSteps DEF GetsKilled
  <2>4. ASSUME NEW p \in site.procs, NEW c \in site.commands, Invokes(p, c)
        PROVE  KeepsInv(m)'
    BY <1>1, <1>3, <2>4, InvokesKeeps
  <2> QED
    BY <2>1, <2>2, <2>3, <2>4 DEF SetupNext
<1> QED
  BY <1>1, <1>2, <1>3 DEF RecoverInv

LEMMA RecoverHolds == RecoverInv => Recoverable
<1> SUFFICES ASSUME RecoverInv, faults <= 1, NEW m \in Macs, had[m]
             PROVE  Copies(m) # {}
  BY DEF Recoverable
<1>1. SaneInv /\ KeepsInv(m) /\ faults \in Nat
  BY SetupAssumption DEF RecoverInv, SaneInv, SetupTypeOK
<1>2. Kept(m)
  <2>1. CASE faults = 0
    <3>1. CASE Safe(m)
      <4>1. CASE site.procs = {}
        BY <3>1, <4>1, RefBakWhole DEF Safe, Kept, Stored, Fillers, Putters
      <4>2. CASE site.procs # {}
        BY <1>1, <3>1, <4>2, SafeOutlives DEF KeepsInv, Kept
      <4> QED
        BY <4>1, <4>2
    <3> QED
      BY <1>1, <2>1, <3>1 DEF KeepsInv, IsKept
  <2> QED
    BY <1>1, <2>1 DEF KeepsInv, IsKept
<1>3. CASE Owers(m) # {}
  BY <1>3 DEF Owers, Copies, Working, Has
<1>4. CASE Stored(m)
  BY <1>4 DEF Stored, BakWhole, Copies
<1> QED
  BY <1>2, <1>3, <1>4 DEF Kept

(* Whatever overlaps and whichever single thing fails, a Mac that had a    *)
(* complete configuration has one on its disk, in a backup, in its         *)
(* keychain or in the hands of a command that is about to write it.        *)
THEOREM SetupRecovers == SetupSpec => []Recoverable
  BY RecoverStarts, NextRecover, RecoverHolds, PTL DEF SetupSpec

-----------------------------------------------------------------------------
(* launchd runs what the plist says.                                       *)

\* A process does one command until it ends.
LEMMA SameCommand ==
  ASSUME SetupTypeOK, NEW p \in site.procs, Step(p)
  PROVE  \/ proc'[p] = Idle
         \/ /\ proc'[p].cmd = proc[p].cmd /\ proc'[p].was = proc[p].was
            /\ proc'[p].alone = proc[p].alone
            /\ proc'[p].agent = proc[p].agent \/ Plan(p)
<1>0. proc[p] # Idle /\ proc[p] \in Process(site)
  BY StepActive, AtTypes
<1>1. Exits(p) => proc'[p] = Idle
  BY ExitsView
<1>2. \A pc \in Steps : Go(p, pc) =>
        /\ proc'[p].cmd = proc[p].cmd /\ proc'[p].was = proc[p].was
        /\ proc'[p].alone = proc[p].alone /\ proc'[p].agent = proc[p].agent
  BY <1>0, GoView
<1>3. CASE Peek(p) \/ NoFetch(p) \/ Save(p) \/ PutText(p) \/ Drop(p) \/ Add(p) \/ AddFails(p)
           \/ Copy(p) \/ Bind(p) \/ KeepFile(p) \/ Truncate(p) \/ Fill(p) \/ Local(p) \/ Ask(p)
  BY <1>1, <1>2, <1>3
    DEF Steps, Peek, NoFetch, Save, PutText, Drop, Add, AddFails, Copy, Bind, KeepFile, Truncate, Fill,
        Local, Ask, Fails, Onwards, PushFails
<1>4. CASE Look(p) \/ BootsOut(p) \/ BootOutFails(p) \/ BootStrap(p) \/ Remove(p) \/ Unlink(p)
  BY <1>1, <1>2, <1>4
    DEF Steps, Look, BootsOut, BootOutFails, BootStrap, Remove, Unlink
<1>5. CASE Fetch(p) \/ Draft(p) \/ EditTargets(p) \/ Reread(p) \/ Pack(p) \/ Send(p) \/ Plan(p)
  BY <1>0, <1>1, <1>5
    DEF Fetch, Draft, EditTargets, Reread, Pack, Send, Plan, Goes, Pushes, Fails, SetupTypeOK, Process
<1>6. CASE ReadFile(p)
  BY <1>0, <1>1, <1>2, <1>6
    DEF Steps, ReadFile, Goes, PushFails, Onwards, Fails, SetupTypeOK, Process
<1> QED
  BY <1>3, <1>4, <1>5, <1>6 DEF Step

Replacers(m) == {q \in site.procs : Has(q, m, "bootout")}
Starters(m) == {q \in site.procs : Has(q, m, "bootstrap") \/ Has(q, m, "unlink")}

\* What is not loaded yet, somebody is about to load or to remove.
Pending(m) ==
  plist[m] # Absent /\ loaded[m] # plist[m] =>
    Replacers(m) # {} \/ (loaded[m] = Absent /\ Starters(m) # {})

Solo == \A p, q \in site.procs : p = q

\* With one process, what has no plist is not loaded.
Gone(m) ==
  /\ plist[m] = Absent => loaded[m] = Absent
  /\ \A q \in site.procs : Has(q, m, "unlink") => loaded[m] = Absent

AgentInv ==
  /\ SaneInv
  /\ \A p \in site.procs : proc[p] # Idle => proc[p].agent # Absent
  /\ faults = 0 => \A m \in Macs : Pending(m) /\ (Solo => Gone(m))

LEMMA Waiting ==
  ASSUME SaneInv, NEW p \in site.procs, NEW m \in Macs,
         site' = site, \A q \in site.procs \ {p} : proc'[q] = proc[q]
  PROVE  Replacers(m) \ {p} \subseteq Replacers(m)' /\ Starters(m) \ {p} \subseteq Starters(m)'
  BY DEF Replacers, Starters, Has, Mac

\* Commands other than those of the service.
LEMMA OtherCommands ==
  ASSUME SaneInv, SaneInv', NEW p \in site.procs, Step(p), UNCHANGED <<plist, loaded>>,
         proc[p].pc \notin {"bootout", "bootstrap", "remove", "unlink"}, NEW m \in Macs,
         Pending(m), Solo => Gone(m)
  PROVE  Pending(m)' /\ (Solo => Gone(m))'
<1>1. site' = site /\ (\A q \in site.procs \ {p} : proc'[q] = proc[q]) /\ proc[p] # Idle
  BY OthersSame, StepActive DEF SaneInv
<1>2. p \notin Replacers(m) \cup Starters(m)
  BY DEF Replacers, Starters, Has
<1>3. Pending(m)'
  BY <1>1, <1>2, Waiting DEF Pending
<1>4. ~Has(p, m, "unlink")'
  <2>1. Kind(p) # "unservice"
    BY <1>1 DEF SaneInv, Sane, IsStepOf
  <2>2. proc'[p] = Idle \/ Kind(p)' # "unservice"
    BY <2>1, SameCommand DEF Kind, SaneInv
  <2>3. Sane(p)'
    BY <1>1 DEF SaneInv
  <2> QED
    BY <2>2, <2>3 DEF Has, Sane, IsStepOf
<1>5. (Solo => Gone(m))'
  <2>1. \A q \in site.procs \ {p} : Has(q, m, "unlink")' = Has(q, m, "unlink")
    BY <1>1 DEF Has, Mac
  <2> QED
    BY <1>1, <1>4, <2>1 DEF Solo, Gone
<1> QED
  BY <1>3, <1>5

LEMMA ServiceSteps ==
  ASSUME SaneInv, NEW p \in site.procs, proc[p].agent # Absent,
         Look(p) \/ BootsOut(p) \/ BootStrap(p) \/ Remove(p) \/ Unlink(p),
         NEW m \in Macs, Pending(m), Solo => Gone(m)
  PROVE  Pending(m)' /\ (Solo => Gone(m))'
<1>0. SetupTypeOK /\ Step(p) /\ proc[p] # Idle /\ Mac(p) \in Macs
  BY AtTypes, StepActive DEF SaneInv, Step
<1>1. site' = site /\ (\A q \in site.procs \ {p} : proc'[q] = proc[q])
  BY <1>0, OthersSame
<1>v. /\ \A pc \in Steps : Go(p, pc) => proc'[p] # Idle /\ proc'[p].pc = pc /\ Mac(p)' = Mac(p)
      /\ Exits(p) => proc'[p] = Idle
  BY <1>0, GoView, ExitsView
<1>s. "bootout" \in Steps /\ "bootstrap" \in Steps /\ "unlink" \in Steps
  BY DEF Steps
<1>w. Replacers(m) \ {p} \subseteq Replacers(m)' /\ Starters(m) \ {p} \subseteq Starters(m)'
  BY <1>1, Waiting
<1>h. \A q \in site.procs \ {p} : Has(q, m, "unlink")' = Has(q, m, "unlink")
  BY <1>1 DEF Has, Mac
<1>2. CASE Mac(p) # m
  <2>1. plist'[m] = plist[m] /\ loaded'[m] = loaded[m]
    BY <1>0, <1>2
      DEF Look, BootsOut, BootStrap, Remove, Unlink, Rendered, Unloaded, Bootstrapped, SetupTypeOK,
          FilesTypeOK
  <2>2. p \notin Replacers(m) \cup Starters(m)
    BY <1>2 DEF Replacers, Starters, Has
  <2>3. ~Has(p, m, "unlink")'
    BY <1>2, <1>v, <1>s DEF Has, Look, BootsOut, BootStrap, Remove, Unlink
  <2>4. Pending(m)'
    BY <1>w, <2>1, <2>2 DEF Pending
  <2>5. (Solo => Gone(m))'
    BY <1>1, <1>h, <2>1, <2>3 DEF Solo, Gone
  <2> QED
    BY <2>4, <2>5
<1>3. CASE Mac(p) = m /\ Look(p)
  <2>1. loaded' = loaded /\ p \notin Replacers(m) \cup Starters(m) /\ ~Has(p, m, "unlink")'
    BY <1>3, <1>v, <1>s DEF Look, At, Replacers, Starters, Has
  <2>2. CASE UNCHANGED plist
    <3>1. Pending(m)'
      BY <1>w, <2>1, <2>2 DEF Pending
    <3>2. (Solo => Gone(m))'
      BY <1>1, <1>h, <2>1, <2>2 DEF Solo, Gone
    <3> QED
      BY <3>1, <3>2
  <2>3. CASE Rendered(m, proc[p].agent) /\ Go(p, "bootout")
    <3>1. plist'[m] = proc[p].agent
      BY <1>0, <2>3 DEF Rendered, SetupTypeOK, FilesTypeOK
    <3>2. p \in Replacers(m)'
      BY <1>1, <1>3, <1>v, <1>s, <2>3 DEF Replacers, Has
    <3>3. Pending(m)'
      BY <3>2 DEF Pending
    <3>4. (Solo => Gone(m))'
      BY <1>1, <1>h, <2>1, <3>1 DEF Solo, Gone
    <3> QED
      BY <3>3, <3>4
  <2> QED
    BY <1>3, <2>2, <2>3 DEF Look
<1>4. CASE Mac(p) = m /\ (BootsOut(p) \/ Remove(p))
  <2>1. loaded'[m] = Absent
    BY <1>0, <1>4 DEF BootsOut, Remove, Unloaded, SetupTypeOK, FilesTypeOK
  <2>2. p \in Starters(m)'
    BY <1>1, <1>4, <1>v, <1>s DEF Starters, Has, BootsOut, Remove
  <2> QED
    BY <2>1, <2>2 DEF Pending, Gone
<1>5. CASE Mac(p) = m /\ BootStrap(p)
  <2>1. plist' = plist /\ loaded'[m] = IF loaded[m] # Absent THEN loaded[m] ELSE plist[m]
    BY <1>0, <1>5 DEF BootStrap, Bootstrapped, SetupTypeOK, FilesTypeOK
  <2>2. p \notin Replacers(m) /\ ~Has(p, m, "unlink")'
    BY <1>5, <1>v DEF BootStrap, At, Replacers, Has
  <2>3. Pending(m)'
    BY <1>w, <2>1, <2>2 DEF Pending
  <2>4. (Solo => Gone(m))'
    <3>1. Solo => ~\E q \in site.procs : Has(q, m, "unlink")
      BY <1>5 DEF BootStrap, At, Solo, Has
    <3> QED
      BY <1>1, <1>h, <2>1, <2>2, <3>1 DEF Solo, Gone
  <2> QED
    BY <2>3, <2>4
<1>6. CASE Mac(p) = m /\ Unlink(p)
  <2>1. plist'[m] = Absent /\ loaded' = loaded /\ ~Has(p, m, "unlink")' /\ Has(p, m, "unlink")
    BY <1>0, <1>6, <1>v DEF Unlink, At, Rendered, Has, SetupTypeOK, FilesTypeOK
  <2> QED
    BY <1>1, <1>h, <2>1 DEF Pending, Solo, Gone
<1> QED
  BY <1>2, <1>3, <1>4, <1>5, <1>6

LEMMA AgentNamed ==
  ASSUME SaneInv, NEW p \in site.procs, Step(p), proc[p].agent # Absent
  PROVE  proc'[p] = Idle \/ proc'[p].agent # Absent
<1>1. CASE Plan(p)
  <2>1. AgentFor(Mac(p)) # Absent
    BY ConfigAssumption DEF AgentFor, Loads, Whole
  <2>2. proc'[p].agent = AgentFor(Mac(p))
    BY <1>1, StepActive, AtTypes DEF Plan, SaneInv, SetupTypeOK, Process
  <2> QED
    BY <2>1, <2>2
<1> QED
  BY <1>1, SameCommand DEF SaneInv

LEMMA AgentStarts == SetupInit => AgentInv
<1> SUFFICES ASSUME SetupInit
             PROVE  AgentInv
  OBVIOUS
<1>1. \A m \in Macs : Pending(m) /\ Gone(m)
  BY DEF SetupInit, Pending, Gone, Has
<1> QED
  BY <1>1, SaneStarts DEF AgentInv, SetupInit

LEMMA AgentSteps ==
  ASSUME AgentInv, NEW p \in site.procs, Step(p)
  PROVE  AgentInv'
<1>0. SaneInv /\ SaneInv' /\ site' = site /\ Macs' = Macs /\ faults \in Nat
      /\ proc[p] # Idle /\ proc[p].agent # Absent
  BY StepsSane, OthersSame, StepActive, SetupAssumption DEF AgentInv, SaneInv, Macs, SetupTypeOK
<1>1. \A q \in site.procs : proc'[q] # Idle => proc'[q].agent # Absent
  BY <1>0, AgentNamed, OthersSame DEF AgentInv, SaneInv
<1>2. ASSUME faults' = 0, NEW m \in Macs
      PROVE  Pending(m)' /\ (Solo => Gone(m))'
  <2>1. faults = 0 /\ ~Fault /\ ~BootOutFails(p)
    BY <1>0, <1>2
      DEF Step, Peek, Fetch, NoFetch, Draft, Save, PutText, ReadFile, Drop, Add, AddFails, EditTargets,
          Reread, Copy, Bind, Pack, KeepFile, Truncate, Fill, Local, Ask, Send, Plan, Look, BootsOut,
          BootOutFails, BootStrap, Remove, Unlink, Fault, Rest
  <2>2. Pending(m) /\ (Solo => Gone(m))
    BY <2>1 DEF AgentInv
  <2>3. CASE Look(p) \/ BootsOut(p) \/ BootStrap(p) \/ Remove(p) \/ Unlink(p)
    BY <1>0, <2>2, <2>3, ServiceSteps
  <2>4. CASE ~(Look(p) \/ BootsOut(p) \/ BootStrap(p) \/ Remove(p) \/ Unlink(p))
    <3>1. UNCHANGED <<plist, loaded>> /\ proc[p].pc \notin {"bootout", "bootstrap", "remove", "unlink"}
      BY <2>1, <2>4
        DEF Step, Peek, Fetch, NoFetch, Draft, Save, PutText, ReadFile, Drop, Add, AddFails, EditTargets,
            Reread, Copy, Bind, Pack, KeepFile, Truncate, Fill, Local, Ask, Send, Plan, At, NoFile, fileVars
    <3> QED
      BY <1>0, <2>2, <3>1, OtherCommands
  <2> QED
    BY <2>3, <2>4
<1> QED
  BY <1>0, <1>1, <1>2 DEF AgentInv

LEMMA AgentInvokes ==
  ASSUME AgentInv, NEW p \in site.procs, NEW c \in site.commands, Invokes(p, c)
  PROVE  AgentInv'
<1>0. SaneInv /\ SaneInv' /\ site' = site /\ Macs' = Macs /\ proc[p] = Idle /\ SetupTypeOK
      /\ UNCHANGED <<plist, loaded, faults>> /\ c.kind \in Kinds
  BY InvokesSane, SetupAssumption DEF AgentInv, SaneInv, Macs, SetupTypeOK, Invokes, fileVars
<1>1. ASSUME NEW q \in site.procs, proc'[q] # Idle
      PROVE  proc'[q].agent # Absent
  <2>1. CASE q = p
    BY <1>0, <2>1, InvokesOthers, ConfigAssumption
  <2>2. CASE q # p
    <3>1. proc[q] # Idle
      BY <1>0, <1>1, <2>2, InvokesOthers
    <3>2. proc'[q].agent = proc[q].agent
      BY <1>0, <2>2, <3>1, InvokesOthers
    <3> QED
      BY <3>1, <3>2 DEF AgentInv
  <2> QED
    BY <2>1, <2>2
<1>2. ASSUME faults = 0, NEW m \in Macs
      PROVE  Pending(m)' /\ (Solo => Gone(m))'
  <2>1. Pending(m) /\ (Solo => Gone(m))
    BY <1>2 DEF AgentInv
  <2>2. \A q \in site.procs \ {p}, pc \in Steps : Has(q, m, pc)' = Has(q, m, pc)
    <3> SUFFICES ASSUME NEW q \in site.procs \ {p}
                 PROVE  \A pc \in Steps : Has(q, m, pc)' = Has(q, m, pc)
      OBVIOUS
    <3>1. CASE proc[q] = Idle
      <4>1. proc'[q] = Idle
        BY <1>0, <3>1, InvokesOthers
      <4> QED
        BY <3>1, <4>1 DEF Has
    <3>2. CASE proc[q] # Idle
      <4>1. proc'[q] # Idle /\ proc'[q].pc = proc[q].pc /\ proc'[q].mac = proc[q].mac
        BY <1>0, <3>2, InvokesOthers
      <4> QED
        BY <3>2, <4>1 DEF Has, Mac
    <3> QED
      BY <3>1, <3>2
  <2>3. proc'[p].pc \notin {"bootout", "bootstrap", "unlink"}
    BY <1>0, InvokesOthers DEF First, Kinds
  <2>4. \A pc \in {"bootout", "bootstrap", "unlink"} : ~Has(p, m, pc) /\ ~Has(p, m, pc)'
    BY <1>0, <2>3 DEF Has
  <2>5. \A q \in site.procs, pc \in {"bootout", "bootstrap", "unlink"} : Has(q, m, pc)' = Has(q, m, pc)
    <3> SUFFICES ASSUME NEW q \in site.procs, NEW pc \in {"bootout", "bootstrap", "unlink"}
                 PROVE  Has(q, m, pc)' = Has(q, m, pc)
      OBVIOUS
    <3>1. CASE q = p
      BY <2>4, <3>1 DEF Has
    <3>2. CASE q # p
      BY <2>2, <3>2 DEF Steps
    <3> QED
      BY <3>1, <3>2
  <2>6. Replacers(m)' = Replacers(m) /\ Starters(m)' = Starters(m)
    BY <1>0, <2>5 DEF Replacers, Starters
  <2>7. Pending(m)'
    BY <1>0, <2>1, <2>6 DEF Pending
  <2>8. (Solo => Gone(m))'
    BY <1>0, <2>1, <2>5 DEF Solo, Gone
  <2> QED
    BY <2>7, <2>8
<1> QED
  BY <1>0, <1>1, <1>2 DEF AgentInv

LEMMA NextAgent ==
  ASSUME AgentInv, [SetupNext]_setupVars
  PROVE  AgentInv'
<1>1. ASSUME NEW p \in site.procs, GetsKilled(p)
      PROVE  AgentInv'
  <2>1. faults' # 0 /\ site' = site
    BY <1>1, SetupAssumption DEF GetsKilled, Fault, AgentInv, SaneInv, SetupTypeOK
  <2>2. \A q \in site.procs : proc'[q] = Idle \/ proc'[q] = proc[q]
    BY <1>1 DEF GetsKilled, Exits, AgentInv, SaneInv, SetupTypeOK
  <2> QED
    BY <1>1, <2>1, <2>2, KilledSane DEF AgentInv
<1>2. CASE SecondPasses \/ UNCHANGED setupVars
  <2>1. UNCHANGED <<proc, site, plist, loaded, faults>>
    BY <1>2 DEF SecondPasses, setupVars, fileVars
  <2> QED
    BY <1>2, <2>1, SaneTicks
      DEF AgentInv, Pending, Solo, Gone, Replacers, Starters, Has, Mac, Macs
<1> QED
  BY <1>1, <1>2, AgentSteps, AgentInvokes DEF SetupNext

LEMMA AgentHolds == AgentInv => AgentFresh
<1> SUFFICES ASSUME AgentInv, Working = {}, faults = 0, NEW m \in Macs, loaded[m] # plist[m]
             PROVE  plist[m] = Absent /\ (\E p, q \in site.procs : p # q)
  BY DEF AgentFresh
<1>1. Replacers(m) = {} /\ Starters(m) = {}
  BY DEF Replacers, Starters, Has, Working
<1>2. plist[m] = Absent
  BY <1>1 DEF AgentInv, Pending
<1> QED
  BY <1>2 DEF AgentInv, Gone, Solo

(* When nothing is at work and nothing has failed, launchd runs what the   *)
(* plist says, however many installs have overlapped; only an uninstall    *)
(* that an install overtakes may leave something loaded without a plist.   *)
THEOREM SetupAgentFresh == SetupSpec => []AgentFresh
  BY AgentStarts, NextAgent, AgentHolds, PTL DEF SetupSpec

-----------------------------------------------------------------------------
(* What a command does that runs alone.                                    *)

Lone(p) == proc[p] # Idle /\ proc[p].alone

(* x says what the configuration w said, and may have more added to it;    *)
(* or a command of the kind has set the targets.                           *)
Like(x, w, kind) ==
  /\ x \in Whole /\ x.base = w.base
  /\ \/ w.edits \subseteq x.edits
     \/ kind \in {"init", "pull", "push"} /\ "targets" \in x.edits \ w.edits

Aim(p) == Target(proc[p].cmd)
Unforced(p) == ~proc[p].cmd.force /\ proc[p].was \in Whole

(* Without --force nothing is fetched or drafted over a file that is there *)
(* and no other Mac's file is written; what is written was read there.     *)
Sparing(p) ==
  /\ Kind(p) = "init" => proc[p].pc \notin {"fetch", "draft"}
  /\ Kind(p) = "pull" => proc[p].pc = "fetch"
  /\ Kind(p) = "plant" => proc[p].pc \in {"local", "ask"}
  /\ Kind(p) = "deliver" => proc[p].pc \in {"bind", "pack", "keep"}
  /\ Kind(p) \notin {"plant", "deliver"} \/ proc[p].pc = "keep" => Mac(p) = Aim(p)
  /\ proc[p].pc \in {"save", "put", "copy", "trunc", "fill"} => Like(Text(p), proc[p].was, Kind(p))
  /\ proc[p].pc \notin {"put", "fill"} => Like(disk[Aim(p)], proc[p].was, Kind(p))

LEMMA LikeMore ==
  ASSUME NEW x, NEW w, NEW kind, Like(x, w, kind), NEW e \in Edits
  PROVE  Like([x EXCEPT !.edits = @ \cup {e}], w, kind)
  BY Texts DEF Like, Whole

LEMMA LikeTargets ==
  ASSUME NEW x, NEW w, NEW kind \in {"init", "pull", "push"}, Like(x, w, kind),
         "targets" \notin x.edits
  PROVE  Like([x EXCEPT !.edits = {"targets"}], w, kind)
  BY Texts DEF Like, Whole

LEMMA AimTypes ==
  ASSUME SaneInv, NEW p \in site.procs, proc[p] # Idle
  PROVE  Aim(p) \in Macs
  BY SetupAssumption, AtTypes DEF SaneInv, SetupTypeOK, Aim, Target, Macs

LEMMA PutSets ==
  ASSUME SetupTypeOK, NEW m \in Macs, NEW text, Put(m, text)
  PROVE  disk'[m] = text /\ \A n \in Macs \ {m} : disk'[n] = disk[n]
  BY DEF SetupTypeOK, FilesTypeOK, Put

\* p goes to pc, with its text and its Mac; its file is what it was, or is about to be.
LEMMA SparingGoes ==
  ASSUME SaneInv, NEW p \in site.procs, proc[p] # Idle, Unforced(p), Sparing(p),
         NEW pc \in Steps, Go(p, pc),
         Kind(p) = "init" => pc \notin {"fetch", "draft"},
         Kind(p) # "pull",
         Kind(p) = "plant" => pc \in {"local", "ask"},
         Kind(p) = "deliver" => pc \in {"bind", "pack", "keep"} /\ pc # "keep",
         pc \in {"save", "put", "copy", "trunc", "fill"} => Like(Text(p), proc[p].was, Kind(p)),
         pc \notin {"put", "fill"} => Like(disk'[Aim(p)], proc[p].was, Kind(p))
  PROVE  Sparing(p)'
<1>1. /\ proc'[p] # Idle /\ proc'[p].pc = pc /\ Kind(p)' = Kind(p) /\ Mac(p)' = Mac(p)
      /\ Text(p)' = Text(p) /\ proc'[p].cmd = proc[p].cmd /\ proc'[p].was = proc[p].was
  BY GoView DEF SaneInv
<1>2. Aim(p)' = Aim(p)
  BY <1>1 DEF Aim
<1>3. disk[Aim(p)]' = disk'[Aim(p)]
  BY <1>2
<1>4. pc # "keep" \/ Kind(p) \notin {"plant", "deliver"}
  OBVIOUS
<1> QED
  BY <1>1, <1>2, <1>3, <1>4 DEF Sparing

LEMMA SparingSteps ==
  ASSUME SaneInv, NEW p \in site.procs, Step(p), Unforced(p), Sparing(p), faults' = faults
  PROVE  /\ proc'[p] # Idle => Sparing(p)'
         /\ proc'[p] = Idle => Like(disk'[Aim(p)], proc[p].was, Kind(p))
<1>0. /\ proc[p] # Idle /\ SetupTypeOK /\ Kind(p) \in Kinds /\ Aim(p) \in Macs /\ Mac(p) \in Macs
      /\ IsStepOf(Kind(p), proc[p].pc) /\ proc[p] \in Process(site) /\ disk[Mac(p)] \in Contents
      /\ ~Fault
  BY StepActive, KindTypes, AimTypes, AtTypes, SetupAssumption
    DEF SaneInv, Sane, SetupTypeOK, Fault
<1> USE DEF IsStepOf
<1>e. CASE Exits(p) /\ disk' = disk /\ proc[p].pc \notin {"put", "fill"}
  BY <1>0, <1>e, ExitsView DEF Sparing
<1>1. CASE Peek(p)
  <2>1. Exists(Mac(p)) /\ Kind(p) = "init" /\ Like(disk[Aim(p)], proc[p].was, Kind(p))
    BY <1>0, <1>1, ConfigAssumption DEF Peek, At, Sparing, Exists, Like
  <2>2. Go(p, "edit") /\ disk' = disk
    BY <1>1, <2>1 DEF Peek, Present, Unforced, NoFile, fileVars
  <2> QED
    BY <1>0, <2>1, <2>2, SparingGoes, GoView DEF Steps
<1>2. CASE Fetch(p) \/ NoFetch(p)
  <2>1. Kind(p) = "pull" /\ Like(disk[Mac(p)], proc[p].was, Kind(p))
    BY <1>0, <1>2 DEF Fetch, NoFetch, At, Sparing
  <2>2. Present(p)
    BY <2>1, ConfigAssumption DEF Present, Exists, Like, Unforced
  <2>3. ~Fetch(p) /\ Exits(p) /\ disk' = disk
    BY <1>2, <2>1, <2>2 DEF Fetch, NoFetch, Fails, NoFile, fileVars
  <2> QED
    BY <1>e, <1>2, <2>3 DEF NoFetch, At
<1>4. CASE Draft(p)
  BY <1>0, <1>4 DEF Draft, At, Sparing
<1>5. CASE Save(p)
  BY <1>0, <1>5, SparingGoes, GoView DEF Save, At, Steps, Sparing
<1>6. CASE PutText(p)
  <2>1. Mac(p) = Aim(p) /\ Kind(p) \notin {"pull", "plant", "deliver"} /\ Like(Text(p), proc[p].was, Kind(p))
    BY <1>0, <1>6 DEF PutText, At, Sparing
  <2>2. disk'[Aim(p)] = Text(p)
    BY <1>0, <1>6, <2>1, PutSets DEF PutText
  <2>3. PICK pc \in {"read", "edit"} : Go(p, pc)
    BY <1>6 DEF PutText
  <2> QED
    BY <1>0, <2>1, <2>2, <2>3, SparingGoes, GoView DEF Steps
<1>7. CASE ReadFile(p) \/ Drop(p) \/ Add(p) \/ AddFails(p) \/ EditTargets(p)
  <2>1. /\ Kind(p) \notin {"pull", "plant", "deliver"} /\ disk' = disk /\ ~AddFails(p)
        /\ Mac(p) = Aim(p) /\ Like(disk[Aim(p)], proc[p].was, Kind(p))
        /\ proc[p].pc \in {"read", "drop", "add", "edit"}
    BY <1>0, <1>7
      DEF ReadFile, Drop, Add, AddFails, EditTargets, At, Sparing, NoFile, fileVars
  <2>2. CASE Go(p, "edit") \/ Go(p, "add")
    BY <1>0, <2>1, <2>2, SparingGoes, GoView DEF Steps
  <2>3. CASE Exits(p)
    BY <1>e, <2>1, <2>3
  <2>4. CASE Pushable(p) /\ Goes(p, "drop", disk[Mac(p)])
    <3>1. /\ proc'[p] # Idle /\ proc'[p].pc = "drop" /\ Kind(p)' = Kind(p) /\ Mac(p)' = Mac(p)
          /\ proc'[p].cmd = proc[p].cmd /\ proc'[p].was = proc[p].was
      BY <1>0, <2>4, GoesView DEF Steps
    <3> QED
      BY <2>1, <3>1 DEF Sparing, Aim
  <2>5. CASE EditTargets(p) /\ ~Exits(p)
    <3> DEFINE text == [disk[Mac(p)] EXCEPT !.edits = {"targets"}]
    <3>1. Pushes(p, text) /\ Like(text, proc[p].was, Kind(p))
      <4>1. Kind(p) \in {"init", "pull", "push"}
        BY <1>0, <2>1
      <4>2. Pushes(p, text) /\ "targets" \notin disk[Mac(p)].edits
        BY <2>5 DEF EditTargets
      <4> QED
        BY <2>1, <4>1, <4>2, LikeTargets
    <3> HIDE DEF text
    <3>2. /\ proc'[p].pc = "save" /\ Kind(p)' = Kind(p) /\ Mac(p)' = Mac(p) /\ Text(p)' = text
          /\ proc'[p].cmd = proc[p].cmd /\ proc'[p].was = proc[p].was /\ proc'[p] # Idle
      <4>1. [proc[p] EXCEPT !.pc = "save", !.text = text, !.over = TRUE, !.edited = TRUE]
              \in Process(site)
        BY <1>0, <3>1, Texts DEF Like, Process, Steps
      <4>2. proc'[p] = [proc[p] EXCEPT !.pc = "save", !.text = text, !.over = TRUE, !.edited = TRUE]
        BY <1>0, <3>1 DEF Pushes, SetupTypeOK
      <4> QED
        BY <1>0, <4>1, <4>2, SetupAssumption DEF Kind, Mac, Text, Process, SetupTypeOK
    <3> QED
      BY <2>1, <3>1, <3>2 DEF Sparing, Aim
  <2> QED
    BY <1>7, <2>1, <2>2, <2>3, <2>4, <2>5 DEF ReadFile, Drop, Add, PushFails, Onwards, Fails
<1>8. CASE Reread(p)
  <2>1. /\ Kind(p) = "refresh" /\ disk' = disk /\ Mac(p) = Aim(p)
        /\ Like(disk[Aim(p)], proc[p].was, Kind(p)) /\ proc[p].pc = "reread"
    BY <1>0, <1>8 DEF Reread, At, Sparing, NoFile, fileVars
  <2>2. CASE Exits(p)
    BY <1>e, <2>1, <2>2
  <2>3. CASE ~Exits(p)
    <3> DEFINE text == [disk[Mac(p)] EXCEPT !.edits = @ \cup {"ids"}]
    <3>1. Goes(p, "copy", text) /\ Like(text, proc[p].was, Kind(p))
      BY <1>8, <2>1, <2>3, LikeMore DEF Reread, Edits
    <3> HIDE DEF text
    <3>2. /\ proc'[p].pc = "copy" /\ Kind(p)' = Kind(p) /\ Mac(p)' = Mac(p) /\ Text(p)' = text
          /\ proc'[p].cmd = proc[p].cmd /\ proc'[p].was = proc[p].was /\ proc'[p] # Idle
      BY <1>0, <3>1, GoesView, Texts DEF Like, Steps
    <3> QED
      BY <2>1, <3>1, <3>2 DEF Sparing, Aim
  <2> QED
    BY <2>2, <2>3
<1>9. CASE Copy(p)
  BY <1>0, <1>9, SparingGoes, GoView DEF Copy, At, Steps, Sparing
<1>10. CASE Bind(p)
  <2>1. /\ Kind(p) = "deliver" /\ disk' = disk /\ Like(disk[Aim(p)], proc[p].was, Kind(p)) /\ proc[p].pc = "bind"
    BY <1>0, <1>10 DEF Bind, At, Sparing, NoFile, fileVars
  <2>2. Exits(p) \/ Go(p, "pack")
    BY <1>10 DEF Bind, Fails
  <2> QED
    BY <1>0, <1>e, <2>1, <2>2, SparingGoes, GoView DEF Steps
<1>11. CASE Pack(p)
  <2>1. /\ Kind(p) = "deliver" /\ disk' = disk /\ Like(disk[Aim(p)], proc[p].was, Kind(p)) /\ proc[p].pc = "pack"
        /\ Aim(p) = proc[p].cmd.to
    BY <1>0, <1>11 DEF Pack, At, Sparing, NoFile, fileVars, Aim, Target, Kind
  <2>2. CASE Exits(p)
    BY <1>e, <2>1, <2>2
  <2>3. CASE ~Exits(p)
    <3>1. [proc[p] EXCEPT !.pc = "keep", !.text = disk[Mac(p)], !.mac = proc[p].cmd.to] \in Process(site)
      BY <1>0, AtTypes DEF Process, Steps, Macs
    <3>2. proc'[p] = [proc[p] EXCEPT !.pc = "keep", !.text = disk[Mac(p)], !.mac = proc[p].cmd.to]
      BY <1>0, <1>11, <2>3 DEF Pack, Fails, SetupTypeOK
    <3>3. /\ proc'[p].pc = "keep" /\ Kind(p)' = Kind(p) /\ Mac(p)' = Aim(p)
          /\ proc'[p].cmd = proc[p].cmd /\ proc'[p].was = proc[p].was /\ proc'[p] # Idle
      BY <1>0, <2>1, <3>1, <3>2, SetupAssumption DEF Kind, Mac, Process, SetupTypeOK
    <3> QED
      BY <2>1, <3>3 DEF Sparing, Aim
  <2> QED
    BY <2>2, <2>3
<1>12. CASE KeepFile(p)
  <2>1. Mac(p) = Aim(p) /\ Like(disk[Aim(p)], proc[p].was, Kind(p)) /\ proc[p].pc = "keep" /\ disk' = disk
    BY <1>0, <1>12 DEF KeepFile, At, Sparing
  <2>2. Present(p)
    BY <2>1, ConfigAssumption DEF Present, Exists, Like, Unforced
  <2> QED
    BY <1>e, <1>12, <2>1, <2>2 DEF KeepFile
<1>13. CASE Truncate(p)
  BY <1>0, <1>13, SparingGoes, GoView DEF Truncate, At, Steps, Sparing
<1>14. CASE Fill(p)
  <2>1. Kind(p) = "refresh" /\ Mac(p) = Aim(p) /\ Like(Text(p), proc[p].was, Kind(p))
    BY <1>0, <1>14 DEF Fill, At, Sparing
  <2>2. disk'[Aim(p)] = Text(p) /\ Exits(p)
    BY <1>0, <1>14, <2>1, PutSets DEF Fill
  <2> QED
    BY <1>0, <2>1, <2>2, ExitsView
<1>15. CASE Local(p)
  <2>1. Kind(p) = "plant" /\ Like(disk[Aim(p)], proc[p].was, Kind(p)) /\ proc[p].pc = "local"
    BY <1>0, <1>15 DEF Local, At, Sparing
  <2>2. Exists(Aim(p))
    BY <2>1, ConfigAssumption DEF Exists, Like
  <2>3. disk'[Aim(p)] = disk[Aim(p)]
    BY <1>0, <1>15, <2>2, PutSets DEF Local
  <2>4. Exits(p) \/ Go(p, "ask")
    BY <1>15 DEF Local, Fails
  <2> QED
    BY <1>0, <2>1, <2>3, <2>4, SparingGoes, GoView, ExitsView DEF Steps
<1>16. CASE Ask(p)
  <2>1. /\ Kind(p) = "plant" /\ Like(disk[Aim(p)], proc[p].was, Kind(p)) /\ proc[p].pc = "ask" /\ disk' = disk
        /\ Aim(p) = proc[p].cmd.to
    BY <1>0, <1>16 DEF Ask, At, Sparing, NoFile, fileVars, Aim, Target, Kind
  <2>2. Exists(Aim(p))
    BY <2>1, ConfigAssumption DEF Exists, Like
  <2> QED
    BY <1>e, <1>16, <2>1, <2>2 DEF Ask, Fails, Unforced
<1>17. CASE Send(p)
  BY <1>0, <1>17 DEF Send, At, Sparing
<1>18. CASE \/ Plan(p) \/ Look(p) \/ BootsOut(p) \/ BootOutFails(p) \/ BootStrap(p)
            \/ Remove(p) \/ Unlink(p)
  <2>1. /\ Kind(p) \in {"service", "unservice"} /\ disk' = disk /\ Like(disk[Aim(p)], proc[p].was, Kind(p))
        /\ proc[p].pc \notin {"put", "fill"}
    BY <1>0, <1>18
      DEF Plan, Look, BootsOut, BootOutFails, BootStrap, Remove, Unlink, At, Sparing, NoFile, fileVars
  <2>2. CASE Exits(p)
    BY <1>e, <2>1, <2>2
  <2>3. CASE Go(p, "bootout") \/ Go(p, "bootstrap") \/ Go(p, "unlink")
    BY <1>0, <2>1, <2>3, SparingGoes, GoView DEF Steps
  <2>4. CASE Plan(p)
    <3>1. /\ proc'[p].pc = "look" /\ Kind(p)' = Kind(p) /\ Mac(p)' = Mac(p)
          /\ proc'[p].cmd = proc[p].cmd /\ proc'[p].was = proc[p].was
      BY <1>0, <2>4 DEF Plan, Kind, Mac, Process, SetupTypeOK
    <3> QED
      BY <2>1, <3>1 DEF Sparing, Aim
  <2> QED
    BY <1>18, <2>2, <2>3, <2>4 DEF Look, BootsOut, BootOutFails, BootStrap, Remove, Unlink
<1> QED
  BY <1>1, <1>2, <1>4, <1>5, <1>6, <1>7, <1>8, <1>9, <1>10, <1>11, <1>12, <1>13, <1>14, <1>15, <1>16,
     <1>17, <1>18
  DEF Step

\* A push, or a pull that writes.
Pushing(p) ==
  \/ Kind(p) = "push"
  \/ Kind(p) = "pull" /\ (proc[p].was = Absent \/ proc[p].cmd.force)

(* Where the text of a push or a pull is, on its way from the disk to the  *)
(* keychain or back.                                                       *)
Agreeing(p) ==
  LET m == Mac(p) IN
  /\ Kind(p) = "pull" /\ proc[p].pc = "fetch" => disk[m] = proc[p].was
  /\ proc[p].pc \in {"save", "put"} => proc[p].edited \/ Text(p) = kc[m]
  /\ proc[p].pc = "edit" => disk[m] = kc[m]
  /\ proc[p].pc = "read" /\ proc[p].edited => Loads(m)
  /\ proc[p].pc \in {"drop", "add"} => Text(p) = disk[m]

\* What Agreeing comes to when the command has ended.
Agreed(m) == kc'[m] # Absent /\ disk'[m] \in Whole => kc'[m] = disk'[m]

LEMMA AgreeingSteps ==
  ASSUME SaneInv, NEW p \in site.procs, Step(p), Pushing(p), Agreeing(p), faults' = faults
  PROVE  /\ proc'[p] # Idle => Agreeing(p)'
         /\ proc'[p] = Idle => Agreed(Mac(p))
<1>0. /\ proc[p] # Idle /\ SetupTypeOK /\ Kind(p) \in {"push", "pull"} /\ Mac(p) \in Macs
      /\ IsStepOf(Kind(p), proc[p].pc) /\ proc[p] \in Process(site)
      /\ kc[Mac(p)] \in Whole \cup {Absent} /\ ~Fault
  BY StepActive, AtTypes, SetupAssumption DEF SaneInv, Sane, SetupTypeOK, Fault, Pushing
<1>g. \A pc \in Steps : Go(p, pc) =>
        /\ proc'[p] # Idle /\ proc'[p].pc = pc /\ Kind(p)' = Kind(p) /\ Mac(p)' = Mac(p)
        /\ Text(p)' = Text(p) /\ proc'[p].was = proc[p].was /\ proc'[p].edited = proc[p].edited
  BY <1>0, GoView
<1>e. Exits(p) => proc'[p] = Idle
  BY <1>0, ExitsView
<1>s. {"save", "put", "read", "edit", "drop", "add"} \subseteq Steps
  BY DEF Steps
<1>i. Idle \notin Process(site)
  BY <1>0, SetupAssumption DEF SetupTypeOK
<1>1. CASE Fetch(p)
  <2>1. /\ proc'[p].pc = "save" /\ Mac(p)' = Mac(p) /\ Text(p)' = kc[Mac(p)] /\ kc' = kc
    BY <1>0, <1>1 DEF Fetch, Mac, Text, Process, SetupTypeOK, NoFile, fileVars
  <2>2. proc'[p] # Idle
    <3>1. \A over \in BOOLEAN :
            [proc[p] EXCEPT !.pc = "save", !.text = kc[Mac(p)], !.over = over] \in Process(site)
      BY <1>0, <1>s, Texts DEF Process
    <3>2. [proc[p] EXCEPT !.pc = "save", !.text = kc[Mac(p)], !.over = Exists(Mac(p))]
            \in Process(site)
      BY <3>1 DEF Exists
    <3>3. proc'[p] = [proc[p] EXCEPT !.pc = "save", !.text = kc[Mac(p)], !.over = Exists(Mac(p))]
      BY <1>0, <1>1 DEF Fetch, SetupTypeOK
    <3> QED
      BY <1>i, <3>2, <3>3
  <2> QED
    BY <2>1, <2>2 DEF Agreeing
<1>2. CASE NoFetch(p)
  <2>1. Kind(p) = "pull" /\ proc[p].pc = "fetch" /\ Exits(p) /\ UNCHANGED <<disk, kc>>
    BY <1>0, <1>2 DEF NoFetch, At, Fails, NoFile, fileVars, IsStepOf
  <2>2. kc[Mac(p)] = Absent
    BY <1>0, <1>2, <2>1 DEF NoFetch, Present, Exists, Agreeing, Pushing
  <2> QED
    BY <1>e, <2>1, <2>2 DEF Agreed
<1>3. CASE Save(p)
  <2>1. Go(p, "put") /\ proc[p].pc = "save" /\ kc' = kc
    BY <1>3 DEF Save, At
  <2> QED
    BY <1>g, <1>s, <2>1 DEF Agreeing
<1>4. CASE PutText(p)
  <2>1. /\ disk'[Mac(p)] = Text(p) /\ proc[p].pc = "put" /\ kc' = kc /\ Text(p) \in Whole
        /\ IF proc[p].edited THEN Go(p, "read") ELSE Go(p, "edit")
    BY <1>0, <1>4, PutSets DEF PutText, At, SaneInv, Sane
  <2> QED
    BY <1>g, <1>s, <2>1 DEF Agreeing, Loads
<1>5. CASE ReadFile(p)
  <2>1. proc[p].pc = "read" /\ UNCHANGED <<disk, kc>>
    BY <1>5 DEF ReadFile, At, NoFile, fileVars
  <2>2. CASE Loads(Mac(p)) /\ Goes(p, "drop", disk[Mac(p)])
    <3>1. /\ proc'[p] # Idle /\ proc'[p].pc = "drop" /\ Mac(p)' = Mac(p) /\ Text(p)' = disk[Mac(p)]
      BY <1>0, <1>s, <2>2, GoesView, Texts DEF Loads
    <3> QED
      BY <2>1, <3>1 DEF Agreeing
  <2>3. CASE ~Loads(Mac(p)) /\ Exits(p)
    BY <1>e, <2>1, <2>3 DEF Agreed, Loads
  <2> QED
    BY <1>0, <1>5, <2>1, <2>2, <2>3 DEF ReadFile, Pushable, PushFails, Fails, Agreeing
<1>6. CASE Drop(p)
  <2>1. Go(p, "add") /\ proc[p].pc = "drop" /\ disk' = disk
    BY <1>6 DEF Drop, At
  <2> QED
    BY <1>g, <1>s, <2>1 DEF Agreeing
<1>7. CASE Add(p)
  <2>1. /\ kc'[Mac(p)] = Text(p) /\ disk' = disk /\ proc[p].pc = "add" /\ Text(p) = disk[Mac(p)]
    BY <1>0, <1>7 DEF Add, At, Added, SetupTypeOK, FilesTypeOK, Agreeing
  <2>2. CASE Exits(p)
    BY <1>e, <2>1, <2>2 DEF Agreed
  <2>3. CASE Go(p, "edit")
    BY <1>g, <1>s, <2>1, <2>3 DEF Agreeing
  <2> QED
    BY <1>7, <2>2, <2>3 DEF Add, Onwards
<1>8. CASE EditTargets(p)
  <2>1. disk[Mac(p)] = kc[Mac(p)] /\ UNCHANGED <<disk, kc>> /\ proc[p].pc = "edit"
    BY <1>8 DEF EditTargets, At, Agreeing, NoFile, fileVars
  <2>2. CASE Exits(p)
    BY <1>e, <2>1, <2>2 DEF Agreed
  <2>3. CASE ~Exits(p)
    <3> DEFINE text == [disk[Mac(p)] EXCEPT !.edits = {"targets"}]
    <3>1. Pushes(p, text) /\ text \in Contents
      BY <1>8, <2>3, Texts DEF EditTargets, Loads, Edits
    <3> HIDE DEF text
    <3>2. [proc[p] EXCEPT !.pc = "save", !.text = text, !.over = TRUE, !.edited = TRUE]
            \in Process(site)
      BY <1>0, <1>s, <3>1 DEF Process
    <3>3. proc'[p] = [proc[p] EXCEPT !.pc = "save", !.text = text, !.over = TRUE, !.edited = TRUE]
      BY <1>0, <3>1 DEF Pushes, SetupTypeOK
    <3>4. proc'[p] # Idle
      BY <1>i, <3>2, <3>3
    <3>5. proc'[p].pc = "save" /\ Mac(p)' = Mac(p)
      BY <1>0, <3>3 DEF Mac, Process
    <3>6. proc'[p].edited = TRUE
      BY <1>0, <3>3 DEF Process
    <3> QED
      BY <3>4, <3>5, <3>6 DEF Agreeing
  <2> QED
    BY <2>2, <2>3
<1>9. ~AddFails(p)
  BY <1>0 DEF AddFails
<1>10. proc[p].pc \in {"fetch", "save", "put", "read", "drop", "add", "edit"}
  BY <1>0 DEF IsStepOf
<1> QED
  BY <1>1, <1>2, <1>3, <1>4, <1>5, <1>6, <1>7, <1>8, <1>9, <1>10
  DEF Step, Peek, Draft, Reread, Copy, Bind, Pack, KeepFile, Truncate, Fill, Local, Ask, Send, Plan,
      Look, BootsOut, BootOutFails, BootStrap, Remove, Unlink, At

\* Who began alone and was not disturbed is alone, and it does what it should.
LoneInv(p) ==
  Lone(p) =>
    /\ \A q \in site.procs \ {p} : proc[q] = Idle
    /\ faults = 0 => (Unforced(p) => Sparing(p)) /\ (Pushing(p) => Agreeing(p))

AloneInv == SaneInv /\ \A p \in site.procs : LoneInv(p)

\* The step with which a command ends that ran alone.
LEMMA LoneEnds ==
  ASSUME AloneInv, [SetupNext]_setupVars, NEW p \in site.procs, EndsAlone(p)
  PROVE  /\ Unforced(p) => Like(disk'[Aim(p)], proc[p].was, Kind(p))
         /\ Pushing(p) => Agreed(Mac(p))
<1>0. SaneInv /\ LoneInv(p) /\ proc[p] # Idle /\ proc[p].alone /\ proc'[p] = Idle /\ faults' = 0
  BY DEF AloneInv, EndsAlone
<1>1. \A q \in site.procs \ {p} : proc[q] = Idle
  BY <1>0 DEF LoneInv, Lone
<1>2. ~Fault /\ faults \in Nat
  BY <1>0, SetupAssumption DEF Fault, SaneInv, SetupTypeOK
<1>3. Step(p)
  <2>1. \A q \in site.procs, c \in site.commands : Invokes(q, c) => proc'[p] # Idle
    <3> SUFFICES ASSUME NEW q \in site.procs, NEW c \in site.commands, Invokes(q, c)
                 PROVE  proc'[p] # Idle
      OBVIOUS
    <3>1. p # q
      BY <1>0 DEF Invokes
    <3> QED
      BY <1>0, <3>1, InvokesOthers DEF SaneInv
  <2>2. ~SecondPasses /\ ~UNCHANGED setupVars
    BY <1>0 DEF SecondPasses, setupVars
  <2>3. \A q \in site.procs : ~GetsKilled(q)
    BY <1>2 DEF GetsKilled
  <2>4. \A q \in site.procs : Step(q) => q = p
    BY <1>1, StepActive
  <2>5. PICK q \in site.procs : Step(q)
    BY <1>0, <2>1, <2>2, <2>3 DEF SetupNext
  <2> QED
    BY <2>4, <2>5
<1>4. faults' = faults
  BY <1>0, <1>2, <1>3
    DEF Step, Peek, Fetch, NoFetch, Draft, Save, PutText, ReadFile, Drop, Add, AddFails, EditTargets,
        Reread, Copy, Bind, Pack, KeepFile, Truncate, Fill, Local, Ask, Send, Plan, Look, BootsOut,
        BootOutFails, BootStrap, Remove, Unlink, Rest
<1>5. (Unforced(p) => Sparing(p)) /\ (Pushing(p) => Agreeing(p))
  BY <1>0, <1>4 DEF LoneInv, Lone
<1> QED
  BY <1>0, <1>3, <1>4, <1>5, SparingSteps, AgreeingSteps

LEMMA LoneBegins ==
  ASSUME AloneInv, NEW p \in site.procs, NEW c \in site.commands, Invokes(p, c)
  PROVE  \A q \in site.procs : LoneInv(q)'
<1>0. /\ SaneInv /\ SetupTypeOK /\ site' = site /\ UNCHANGED <<disk, kc>> /\ c.kind \in Kinds
      /\ proc[p] = Idle
  BY SetupAssumption DEF AloneInv, SaneInv, SetupTypeOK, Invokes, fileVars
<1>1. ASSUME NEW q \in site.procs \ {p}
      PROVE  LoneInv(q)'
  <2>1. ~Lone(q)'
    <3>1. CASE proc[q] = Idle
      BY <1>0, <3>1, InvokesOthers DEF Lone
    <3>2. CASE proc[q] # Idle
      <4>1. ~proc'[q].alone
        BY <1>0, <3>2, InvokesOthers
      <4> QED
        BY <4>1 DEF Lone
    <3> QED
      BY <3>1, <3>2
  <2> QED
    BY <2>1 DEF LoneInv
<1>2. LoneInv(p)'
  <2>1. /\ proc'[p].cmd = c /\ proc'[p].pc = First[c.kind] /\ proc'[p].mac = c.mac
        /\ proc'[p].was = disk[Target(c)]
    BY <1>0, InvokesOthers
  <2>2. Lone(p)' => \A q \in site.procs \ {p} : proc'[q] = Idle
    <3>1. SUFFICES ASSUME Lone(p)', NEW q \in site.procs \ {p}
                   PROVE  proc'[q] = Idle
      OBVIOUS
    <3>2. proc'[p].alone = (Working = {})
      <4> DEFINE alone == Working = {}
      <4>1. proc' = [r \in site.procs |->
              IF r = p THEN [cmd |-> c, pc |-> First[c.kind], mac |-> c.mac, text |-> Absent,
                             drafted |-> FALSE, edited |-> FALSE, over |-> FALSE, agent |-> Default,
                             alone |-> alone, was |-> disk[Target(c)]]
              ELSE IF proc[r] = Idle THEN Idle ELSE [proc[r] EXCEPT !.alone = FALSE]]
        BY DEF Invokes
      <4> HIDE DEF alone
      <4>2. proc'[p].alone = alone
        BY <4>1
      <4> QED
        BY <4>2 DEF alone
    <3>3. Working = {}
      BY <3>1, <3>2 DEF Lone
    <3>4. proc[q] = Idle
      BY <3>3 DEF Working
    <3> QED
      BY <1>0, <3>4, InvokesOthers
  <2>3. Kind(p)' = c.kind /\ Mac(p)' = c.mac /\ Aim(p)' = Target(c)
    BY <2>1 DEF Kind, Mac, Aim
  <2>4. (Unforced(p) => Sparing(p))'
    <3>1. c.kind # "pull" => proc'[p].pc # "fetch"
      BY <1>0, <2>1 DEF First, Kinds
    <3>2. /\ proc'[p].pc \notin {"draft", "keep", "save", "put", "copy", "trunc", "fill"}
          /\ c.kind = "pull" => proc'[p].pc = "fetch"
          /\ c.kind = "plant" => proc'[p].pc = "local"
          /\ c.kind = "deliver" => proc'[p].pc = "bind"
      BY <1>0, <2>1 DEF First, Kinds
    <3>3. c.kind \notin {"plant", "deliver"} => c.mac = Target(c)
      BY DEF Target
    <3>4. proc'[p].was \in Whole => Like(disk'[Target(c)], proc'[p].was, c.kind)
      BY <1>0, <2>1 DEF Like
    <3>5. disk[Aim(p)]' = disk'[Target(c)]
      BY <2>3
    <3> QED
      BY <2>3, <3>1, <3>2, <3>3, <3>4, <3>5 DEF Sparing, Unforced
  <2>5. (Pushing(p) => Agreeing(p))'
    <3>1. /\ proc'[p].pc \notin {"save", "put", "edit", "drop", "add"}
          /\ c.kind # "pull" => proc'[p].pc # "fetch"
      BY <1>0, <2>1 DEF First, Kinds
    <3>2. c.kind = "pull" => Target(c) = c.mac
      BY DEF Target
    <3>3. proc'[p].edited = FALSE
      BY DEF Invokes
    <3> QED
      BY <1>0, <2>1, <2>3, <3>1, <3>2, <3>3 DEF Agreeing
  <2> QED
    BY <2>2, <2>4, <2>5, <1>0 DEF LoneInv
<1> QED
  BY <1>1, <1>2

LEMMA LoneSteps ==
  ASSUME AloneInv, NEW p \in site.procs, Step(p)
  PROVE  \A q \in site.procs : LoneInv(q)'
<1>0. /\ SaneInv /\ SetupTypeOK /\ site' = site /\ proc[p] # Idle /\ faults \in Nat
      /\ \A q \in site.procs \ {p} : proc'[q] = proc[q]
  BY OthersSame, StepActive, SetupAssumption DEF AloneInv, SaneInv, SetupTypeOK
<1>1. ASSUME NEW q \in site.procs \ {p}
      PROVE  LoneInv(q)'
  <2>1. ~Lone(q)
    BY <1>0 DEF AloneInv, LoneInv
  <2> QED
    BY <1>0, <2>1 DEF Lone, LoneInv
<1>2. ASSUME Lone(p)'
      PROVE  LoneInv(p)'
  <2>1. /\ proc'[p] # Idle /\ proc'[p].cmd = proc[p].cmd /\ proc'[p].was = proc[p].was
        /\ Lone(p)
    BY <1>0, <1>2, SameCommand DEF Lone
  <2>2. \A q \in site.procs \ {p} : proc'[q] = Idle
    BY <1>0, <2>1 DEF AloneInv, LoneInv
  <2>3. ASSUME faults' = 0
        PROVE  /\ Unforced(p)' => Sparing(p)'
               /\ Pushing(p)' => Agreeing(p)'
    <3>1. faults' = faults
      BY <1>0, <2>3
        DEF Step, Peek, Fetch, NoFetch, Draft, Save, PutText, ReadFile, Drop, Add, AddFails, EditTargets,
            Reread, Copy, Bind, Pack, KeepFile, Truncate, Fill, Local, Ask, Send, Plan, Look, BootsOut,
            BootOutFails, BootStrap, Remove, Unlink, Rest, Fault
    <3>2. (Unforced(p) => Sparing(p)) /\ (Pushing(p) => Agreeing(p))
      BY <2>1, <2>3, <3>1 DEF AloneInv, LoneInv
    <3>3. Unforced(p)' = Unforced(p) /\ Pushing(p)' = Pushing(p)
      BY <2>1 DEF Unforced, Pushing, Kind
    <3> QED
      BY <1>0, <2>1, <3>1, <3>2, <3>3, SparingSteps, AgreeingSteps
  <2> QED
    BY <1>0, <2>2, <2>3 DEF LoneInv
<1> QED
  BY <1>1, <1>2 DEF LoneInv

LEMMA NextAlone ==
  ASSUME AloneInv, [SetupNext]_setupVars
  PROVE  AloneInv'
<1>0. SaneInv' /\ SaneInv
  BY NextSane DEF AloneInv
<1>1. ASSUME NEW p \in site.procs, GetsKilled(p)
      PROVE  AloneInv'
  <2>1. faults' # 0 /\ site' = site
    BY <1>0, <1>1, SetupAssumption DEF GetsKilled, Fault, SaneInv, SetupTypeOK
  <2>2. \A q \in site.procs : proc'[q] = Idle \/ proc'[q] = proc[q]
    BY <1>0, <1>1 DEF GetsKilled, Exits, SaneInv, SetupTypeOK
  <2> QED
    BY <1>0, <2>1, <2>2 DEF AloneInv, LoneInv, Lone
<1>2. CASE SecondPasses \/ UNCHANGED setupVars
  <2>1. UNCHANGED <<proc, site, disk, kc, faults>>
    BY <1>2 DEF SecondPasses, setupVars, fileVars
  <2> QED
    BY <1>0, <2>1
      DEF AloneInv, LoneInv, Lone, Unforced, Sparing, Pushing, Agreeing, Like, Aim, Kind, Mac, Text, Loads
<1>3. ASSUME NEW p \in site.procs, Step(p)
      PROVE  AloneInv'
  BY <1>0, <1>3, LoneSteps, OthersSame DEF AloneInv, SaneInv
<1>4. ASSUME NEW p \in site.procs, NEW c \in site.commands, Invokes(p, c)
      PROVE  AloneInv'
  BY <1>0, <1>4, LoneBegins DEF AloneInv, Invokes
<1> QED
  BY <1>1, <1>2, <1>3, <1>4 DEF SetupNext

LEMMA AloneStarts == SetupInit => AloneInv
  BY SaneStarts DEF AloneInv, SetupInit, LoneInv, Lone

(* After a push, and after a pull that writes, keychain and disk agree,    *)
(* whichever way the text went, if the command ran alone and unharmed.     *)
THEOREM SetupKeychainAgrees == SetupSpec => KeychainAgrees
<1>1. ASSUME AloneInv, [SetupNext]_setupVars, NEW p \in site.procs, EndsAlone(p),
             Kind(p) \in {"push", "pull"}, kc'[Mac(p)] # Absent, disk'[Mac(p)] \in Whole
      PROVE  \/ Kind(p) = "pull" /\ proc[p].was # Absent /\ ~proc[p].cmd.force
             \/ kc'[Mac(p)] = disk'[Mac(p)]
  BY <1>1, LoneEnds DEF Pushing, Agreed
<1>2. AloneInv /\ [SetupNext]_setupVars
        => [\A p \in site.procs :
             EndsAlone(p) /\ Kind(p) \in {"push", "pull"} /\ kc'[Mac(p)] # Absent /\ disk'[Mac(p)] \in Whole
               => (Kind(p) = "pull" /\ proc[p].was # Absent /\ ~proc[p].cmd.force)
                  \/ kc'[Mac(p)] = disk'[Mac(p)]]_setupVars
  BY <1>1
<1> QED
  BY <1>2, AloneStarts, NextAlone, PTL DEF SetupSpec, KeychainAgrees

(* A command without --force, alone and unharmed, leaves the configuration *)
(* what it says: nothing is lost through backup, template and keychain,    *)
(* and ids and comments only where the ssh targets are set anew.           *)
THEOREM SetupUnforcedKeeps == SetupSpec => UnforcedKeeps
<1> DEFINE Keeps0(p) ==
      /\ Left(p) \in Whole
      /\ Left(p).base = proc[p].was.base
      /\ \/ proc[p].was.edits \subseteq Left(p).edits
         \/ /\ Kind(p) \in {"init", "pull", "push"}
            /\ "targets" \in Left(p).edits \ proc[p].was.edits
<1>1. ASSUME AloneInv, [SetupNext]_setupVars, NEW p \in site.procs, KeepsAlone(p)
      PROVE  Keeps0(p)
  BY <1>1, LoneEnds DEF Unforced, Like, Aim, KeepsAlone, Left
<1>2. AloneInv /\ [SetupNext]_setupVars
        => [\A p \in site.procs : KeepsAlone(p) => Keeps0(p)]_setupVars
  BY <1>1
<1> QED
  BY <1>2, AloneStarts, NextAlone, PTL DEF SetupSpec, UnforcedKeeps
=============================================================================
