------------------------------ MODULE HealLoop ------------------------------
(***************************************************************************)
(* The heal agent of one Mac: launchd keeps `heal --loop` running          *)
(* (services/heal_loop_service.py), the loop runs ensure_local, writes a   *)
(* heartbeat and sleeps; a second agent, the watchdog, kickstarts the      *)
(* first one when the heartbeat is stale.  Others run ensures too: a       *)
(* one-shot `heal` or `up`, or a loop of the user's own, which writes the  *)
(* same heartbeat file.                                                    *)
(*                                                                         *)
(* Time passes in ticks, of 30 s say.                                      *)
(***************************************************************************)
EXTENDS ExclusiveEnsure, Integers, FiniteSets

CONSTANTS
  Agent,      \* the caller that is the heal agent's loop
  Intervals,  \* heal_interval_seconds, --interval, in ticks
  Floor,      \* MIN_STALE_FLOOR_S
  Period,     \* StartInterval of the watchdog
  Longest,    \* bound: ticks an ensure may take while it is making progress.  The
              \* lock waits 10 s, system_profiler and ioreg have 30 s each, every
              \* ifconfig and networksetup 15 s: it may outlast the Period
  Unrest      \* bound: how often the clock, the user, a hang or the disk interfere

Factor == 3   \* HEAL_HEARTBEAT_STALE_FACTOR

Larger(a, b) == IF a >= b THEN a ELSE b
MaxLimit == Larger(Floor, Factor * CHOOSE i \in Intervals : \A j \in Intervals : j <= i)

ASSUME HealAssumption ==
  /\ Agent \in Callers
  /\ Intervals \subseteq Nat \ {0} /\ Intervals # {} /\ IsFiniteSet(Intervals)
  /\ {Floor, Period, Longest} \subseteq Nat \ {0} /\ Unrest \in Nat

VARIABLES
  loop,      \* loop[c]: what the process is at, its delay, and the ticks to its next wake-up
  beat,      \* the heartbeat file: is there one, and its age
  agents,    \* the two launch agents: "absent", "written" or "loaded"
  interval,  \* heal_interval_seconds in cluster.toml
  dog,       \* ticks to the next run of the watchdog
  spent,     \* spent[c]: ticks since the caller's ensure began
  unrest,    \* interferences so far
  trusted    \* ghost: the heartbeat is the agent's, judged as the agent wrote it

vars == <<ensureVars, loop, beat, agents, interval, dog, spent, unrest, trusted>>

TypeOK ==
  /\ EnsureTypeOK
  /\ loop \in [Callers -> [at : {"down", "ensure", "sleep", "hung"},
                           delay : Intervals \cup {0}, left : 0..MaxLimit]]
  /\ beat \in [there : BOOLEAN, age : -Period..MaxLimit + 1]
  /\ agents \in [{"heal", "watchdog"} -> {"absent", "written", "loaded"}]
  /\ interval \in Intervals /\ dog \in 0..Period
  /\ spent \in [Callers -> 0..Longest] /\ unrest \in 0..Unrest /\ trusted \in BOOLEAN

\* No process.
Ended == [at |-> "down", delay |-> 0, left |-> 0]

(* Installed or not; what an earlier loop left behind may look stale.      *)
Init ==
  /\ EnsureInit
  /\ loop = [c \in Callers |-> Ended]
  /\ beat \in {[there |-> FALSE, age |-> 0], [there |-> TRUE, age |-> MaxLimit + 1]}
  /\ agents \in {[a \in {"heal", "watchdog"} |-> s] : s \in {"absent", "loaded"}}
  /\ interval \in Intervals
  /\ dog = 0 /\ spent = [c \in Callers |-> 0] /\ unrest = 0 /\ trusted = FALSE

Stands(c, at) == loop[c].at = at

-----------------------------------------------------------------------------
(* The loop.                                                               *)

(* run_heal_loop reads its interval once; delay 0 is a one-shot command.   *)
Starts(c, delay) ==
  /\ Begin(c)
  /\ loop' = [loop EXCEPT ![c] = [at |-> "ensure", delay |-> delay, left |-> 0]]
  /\ spent' = [spent EXCEPT ![c] = 0]

(* RunAtLoad and KeepAlive: launchd starts a loaded agent that is not up.  *)
LaunchdStarts ==
  /\ agents["heal"] = "loaded" /\ Stands(Agent, "down")
  /\ Starts(Agent, interval)
  /\ trusted' = FALSE
  /\ UNCHANGED <<beat, agents, interval, dog, unrest>>

UserStarts(c, delay) ==
  /\ c # Agent /\ Stands(c, "down") /\ unrest < Unrest
  /\ Starts(c, delay)
  /\ unrest' = unrest + 1
  /\ UNCHANGED <<beat, agents, interval, dog, trusted>>

Ensures(c) ==
  /\ Stands(c, "ensure") /\ EnsureStep(c)
  /\ UNCHANGED <<loop, beat, agents, interval, dog, spent, unrest, trusted>>

\* The ensure has returned or raised; the loop goes on.
Returned(c) == Stands(c, "ensure") /\ phase[c] = "idle"

OneShotEnds(c) ==
  /\ Returned(c) /\ loop[c].delay = 0
  /\ loop' = [loop EXCEPT ![c].at = "down"]
  /\ UNCHANGED <<ensureVars, beat, agents, interval, dog, spent, unrest, trusted>>

Sleeps(c) == loop' = [loop EXCEPT ![c].at = "sleep", ![c].left = loop[c].delay]

(* write_heartbeat, whatever the ensure's outcome, then sleep.             *)
Beats(c) ==
  /\ Returned(c) /\ loop[c].delay > 0
  /\ beat' = [there |-> TRUE, age |-> 0]
  /\ trusted' = IF c = Agent THEN loop[c].delay = interval ELSE trusted
  /\ Sleeps(c)
  /\ UNCHANGED <<ensureVars, agents, interval, dog, spent, unrest>>

(* The heartbeat cannot be written; the error is swallowed.                *)
BeatLost(c) ==
  /\ Returned(c) /\ loop[c].delay > 0 /\ unrest < Unrest
  /\ Sleeps(c)
  /\ unrest' = unrest + 1 /\ trusted' = FALSE
  /\ UNCHANGED <<ensureVars, beat, agents, interval, dog, spent>>

Wakes(c) ==
  /\ Stands(c, "sleep") /\ loop[c].left = 0
  /\ Starts(c, loop[c].delay)
  /\ UNCHANGED <<beat, agents, interval, dog, unrest, trusted>>

(* Some call never returns, inside the lock or outside of it.              *)
Hangs(c) ==
  /\ Stands(c, "ensure") /\ unrest < Unrest
  /\ loop' = [loop EXCEPT ![c].at = "hung"]
  /\ unrest' = unrest + 1
  /\ UNCHANGED <<ensureVars, beat, agents, interval, dog, spent, trusted>>

\* The process is gone; its lock is free.
Killed(c) == Dies(c) /\ loop' = [loop EXCEPT ![c] = Ended]

(* The user ends a command of his own, or it crashes.                      *)
UserEnds(c) ==
  /\ c # Agent /\ ~Stands(c, "down")
  /\ Killed(c)
  /\ UNCHANGED <<beat, agents, interval, dog, spent, unrest, trusted>>

-----------------------------------------------------------------------------
(* The watchdog.                                                           *)

\* Seeded fault: the limit is the interval itself.
Limit_One == Larger(Floor, interval)

Limit == Larger(Floor, Factor * interval)

\* Seeded fault: without a heartbeat there is nothing to judge.
Stale_Present == beat.there /\ beat.age > Limit

\* A heartbeat from the future has age 0.
Stale == ~beat.there \/ beat.age > Limit

\* Seeded fault: the watchdog runs again before a loop had time for an ensure.
WatchdogRuns_Eager == agents["watchdog"] = "loaded" /\ dog = 0 /\ dog' = 1

WatchdogRuns == agents["watchdog"] = "loaded" /\ dog = 0 /\ dog' = Period

(* kickstart -k kills a loaded agent, and launchd starts it again.         *)
WatchdogKicks ==
  /\ WatchdogRuns
  /\ agents["heal"] = "loaded" /\ Stale
  /\ Killed(Agent)
  /\ UNCHANGED <<beat, agents, interval, spent, unrest, trusted>>

\* The agent is not installed, the heartbeat is fresh, or launchctl fails.
WatchdogPasses ==
  /\ WatchdogRuns
  /\ UNCHANGED <<ensureVars, loop, beat, agents, interval, spent, unrest, trusted>>

-----------------------------------------------------------------------------
(* install_service and uninstall_service.                                  *)

\* launchctl bootout ends the running loop.
BootOut ==
  IF Stands(Agent, "down") THEN UNCHANGED <<ensureVars, loop>> ELSE Killed(Agent)

(* The heal plist is written, the old job booted out, the new one          *)
(* bootstrapped or not.  If not, the watchdog is not installed.            *)
InstallsHeal ==
  /\ unrest < Unrest /\ unrest' = unrest + 1
  /\ \E state \in {"loaded", "written"} : agents' = [agents EXCEPT !["heal"] = state]
  /\ BootOut
  /\ UNCHANGED <<beat, interval, dog, spent, trusted>>

(* After a loaded agent, or one that already ran from the same plist.      *)
(* RunAtLoad: the watchdog looks at once.                                  *)
InstallsWatchdog ==
  /\ agents["heal"] = "loaded" /\ agents["watchdog"] # "loaded"
  /\ \E state \in {"loaded", "written"} :
       /\ state = "written" => unrest < Unrest
       /\ agents' = [agents EXCEPT !["watchdog"] = state]
       /\ unrest' = IF state = "loaded" THEN unrest ELSE unrest + 1
  /\ dog' = 0
  /\ UNCHANGED <<ensureVars, loop, beat, interval, spent, trusted>>

Uninstalls ==
  /\ agents["heal"] # "absent" /\ unrest < Unrest
  /\ agents' = [a \in {"heal", "watchdog"} |-> "absent"]
  /\ BootOut
  /\ unrest' = unrest + 1
  /\ UNCHANGED <<beat, interval, dog, spent, trusted>>

-----------------------------------------------------------------------------
(* Time, and what interferes.                                              *)

Busy(c) == Stands(c, "ensure")

(* Whoever is due acts before time goes on; an ensure that makes progress  *)
(* takes at most Longest ticks.                                            *)
Tick ==
  /\ \A c \in Callers : (Busy(c) => spent[c] < Longest)
                        /\ ~(Stands(c, "sleep") /\ loop[c].left = 0)
  /\ agents["watchdog"] = "loaded" => dog > 0
  /\ ~(agents["heal"] = "loaded" /\ Stands(Agent, "down"))
  /\ beat' = [beat EXCEPT !.age = IF beat.there /\ @ <= MaxLimit THEN @ + 1 ELSE @]
  /\ loop' = [c \in Callers |-> [loop[c] EXCEPT !.left = IF @ > 0 THEN @ - 1 ELSE 0]]
  /\ dog' = IF dog > 0 THEN dog - 1 ELSE 0
  /\ spent' = [c \in Callers |-> IF Busy(c) THEN spent[c] + 1 ELSE 0]
  /\ UNCHANGED <<ensureVars, agents, interval, unrest, trusted>>

(* The wall clock is set: the heartbeat looks older, or from the future.   *)
ClockJumps ==
  /\ unrest < Unrest /\ unrest' = unrest + 1
  /\ \E age \in {-Period, MaxLimit + 1} : beat' = [beat EXCEPT !.age = age]
  /\ trusted' = FALSE
  /\ UNCHANGED <<ensureVars, loop, agents, interval, dog, spent>>

ConfigEdited ==
  /\ unrest < Unrest /\ unrest' = unrest + 1
  /\ interval' \in Intervals \ {interval}
  /\ trusted' = FALSE
  /\ UNCHANGED <<ensureVars, loop, beat, agents, dog, spent>>

Acts(c) ==
  \/ Ensures(c) \/ OneShotEnds(c) \/ Beats(c) \/ BeatLost(c) \/ Wakes(c)

Next ==
  \/ LaunchdStarts \/ WatchdogKicks \/ WatchdogPasses
  \/ InstallsHeal \/ InstallsWatchdog \/ Uninstalls
  \/ Tick \/ ClockJumps \/ ConfigEdited
  \/ \E c \in Callers :
       \/ Acts(c) \/ Hangs(c) \/ UserEnds(c)
       \/ \E delay \in Intervals \cup {0} : UserStarts(c, delay)

(* Time passes, launchd does its work, processes that are not hung go on;  *)
(* a kickstart that is tried again and again works in the end, so does an  *)
(* ensure, if it is not kept from the lock.                                *)
Fairness ==
  /\ WF_vars(Tick) /\ WF_vars(LaunchdStarts) /\ WF_vars(WatchdogPasses)
  /\ SF_vars(WatchdogKicks)
  /\ \A c \in Callers : WF_vars(Acts(c))

Spec == Init /\ [][Next]_vars /\ Fairness

-----------------------------------------------------------------------------
Guarded == agents["heal"] = "loaded" /\ agents["watchdog"] = "loaded"

\* A loop that is not the agent's keeps the heartbeat fresh.
Masked == \E c \in Callers \ {Agent} : loop[c].delay > 0 /\ loop[c].at \in {"ensure", "sleep"}

(* A hung loop is found out and started again, whatever the clock and the  *)
(* configuration did, unless another loop on the same Mac writes the       *)
(* heartbeat in its stead (heal_heartbeat.py:16).                          *)
HungLoopRestarted ==
  Stands(Agent, "hung") ~> ~Stands(Agent, "hung") \/ ~Guarded \/ Masked

(* The watchdog ends no loop that does its work: one that has written a    *)
(* heartbeat, by the interval the watchdog goes by, is left alone as it    *)
(* sleeps and as long as the next ensure takes no longer than the limit    *)
(* leaves it, two intervals (heal_heartbeat.py:82).                        *)
HealthyLoopSpared ==
  [][WatchdogKicks /\ trusted =>
       \/ loop[Agent].at \in {"hung", "down"}
       \/ Busy(Agent) /\ spent[Agent] > (Factor - 1) * interval]_vars

(* A watchdog that looks as soon as it is loaded, or a loop that is slow   *)
(* to write its first heartbeat, is no reason for kicks without end: every *)
(* attempt gets a period of the watchdog, and an agent whose ensures take  *)
(* no longer than that finishes one after the other (service_mgmt.py:69).  *)
AgentFinishes ==
  []<>(\/ Stands(Agent, "sleep") \/ Stands(Agent, "hung") \/ agents["heal"] # "loaded"
       \/ Busy(Agent) /\ spent[Agent] >= Period)
=============================================================================
