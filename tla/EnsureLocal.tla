----------------------------- MODULE EnsureLocal -----------------------------
(***************************************************************************)
(* ensure_local (services/mutate_service.py) on one Mac: under the         *)
(* mutation lock, look at the interfaces, plan, and configure the bridge   *)
(* with ifconfig, one command after the other; every command may fail or   *)
(* time out, and the process may die between two of them.  `up`, `heal`,   *)
(* the heal loop and the fleet heal of another Mac all run it.             *)
(***************************************************************************)
EXTENDS Integers, FiniteSets

CONSTANTS
  Callers,    \* processes that run ensure_local on this Mac
  Nobody,     \* no holder of the lock
  Ifaces,     \* the interfaces of this Mac
  Bridge,     \* bridge_interface of cluster.toml
  Default,    \* DEFAULT_TB_BRIDGE
  Mapped,     \* interfaces that the Thunderbolt probe and the layout table name
  Addrs,      \* addresses an interface may have
  Own,        \* this node's cluster address
  Loop,       \* the caller that is the heal loop
  Lookalike,  \* addresses whose text contains the text of Own, as 10.42.0.10 does 10.42.0.1
  Unrest      \* bound: how often others run an ensure or change the network

ASSUME LocalAssumption ==
  /\ Nobody \notin Callers /\ Loop \in Callers
  /\ {Bridge, Default} \cup Mapped \subseteq Ifaces
  /\ Unrest \in Nat
  /\ Own \in Addrs /\ Lookalike \subseteq Addrs \ {Own}

VARIABLES
  net,     \* net[iface]: exists, up, addrs
  prefs,   \* system preferences: the bridge service names a router; Wi-Fi comes first
  lock,    \* holder of the mutation lock, or Nobody
  caller,  \* caller[c]: where it is, what it has seen and its last result
  quiet,   \* ghost: nobody but ensures changed the network since the caller observed it
  unrest   \* what others did so far

vars == <<net, prefs, lock, caller, quiet, unrest>>

Locked == {"observe", "check", "create", "up", "show", "add", "router", "order"}
Results == {"none", "ok", "degraded", "failed", "usage", "killed"}

Iface == [exists : BOOLEAN, up : BOOLEAN, addrs : SUBSET Addrs]
Missing == [exists |-> FALSE, up |-> FALSE, addrs |-> {}]

TypeOK ==
  /\ net \in [Ifaces -> Iface]
  /\ \A i \in Ifaces : net[i].exists \/ net[i] = Missing
  /\ prefs \in [router : BOOLEAN, wifi_first : BOOLEAN]
  /\ lock \in Callers \cup {Nobody}
  /\ caller \in [Callers -> [pc : Locked \cup {"idle", "wait"}, target : Ifaces,
                             dry : BOOLEAN, result : Results]]
  /\ quiet \in [Callers -> BOOLEAN] /\ unrest \in 0..Unrest

Init ==
  /\ net \in [Ifaces -> {Missing, [exists |-> TRUE, up |-> TRUE, addrs |-> {}]}]
  /\ net[Bridge].exists
  /\ prefs = [router |-> FALSE, wifi_first |-> TRUE]
  /\ lock = Nobody
  /\ caller = [c \in Callers |-> [pc |-> "idle", target |-> Bridge,
                                  dry |-> FALSE, result |-> "none"]]
  /\ quiet = [c \in Callers |-> FALSE] /\ unrest = 0

Go(c, pc) == caller' = [caller EXCEPT ![c].pc = pc]

\* Leaving the lock's context, with a result or by an exception.
Leave(c, result) ==
  /\ caller' = [caller EXCEPT ![c].pc = "idle", ![c].result = result]
  /\ lock' = IF lock = c THEN Nobody ELSE lock

At(c, pc) == caller[c].pc = pc

-----------------------------------------------------------------------------
(* Into the lock.                                                          *)

(* The loop begins again and again, others now and then, --dry-run or not. *)
Begin(c, dry) ==
  /\ At(c, "idle")
  /\ IF c = Loop THEN ~dry ELSE unrest < Unrest
  /\ caller' = [caller EXCEPT ![c].pc = "wait", ![c].dry = dry, ![c].result = "none"]
  /\ unrest' = IF c = Loop THEN unrest ELSE unrest + 1
  /\ UNCHANGED <<net, prefs, lock, quiet>>

(* The platform is not supported, or cluster.toml cannot be loaded or does *)
(* not name this Mac: exit code 2 before the lock.                         *)
Unconfigured(c) ==
  /\ At(c, "wait") /\ Leave(c, "usage")
  /\ UNCHANGED <<net, prefs, quiet, unrest>>

Free(c) == lock = Nobody

Acquire(c) ==
  /\ At(c, "wait") /\ Free(c)
  /\ lock' = c
  /\ Go(c, "observe")
  /\ UNCHANGED <<net, prefs, quiet, unrest>>

(* Ten seconds were not enough.                                            *)
LockBusy(c) ==
  /\ At(c, "wait") /\ lock # Nobody
  /\ Leave(c, "failed")
  /\ UNCHANGED <<net, prefs, quiet, unrest>>

-----------------------------------------------------------------------------
(* Observe and plan.                                                       *)

Existing == {i \in Ifaces : net[i].exists}

(* resolve_target_interface: the configured bridge if it is listed or      *)
(* there is no list, else the one listed interface the mapping names.      *)
Candidates(listed, probed) ==
  (IF probed /\ Mapped # {} THEN Mapped ELSE {Default}) \cap listed

Targets(known, listed, probed) ==
  IF ~known \/ Bridge \in listed THEN {Bridge}
  ELSE {i \in Candidates(listed, probed) : Candidates(listed, probed) = {i}}

\* Seeded fault: an interface that has the address counts as configured even if it is down.
Done_Down(seen) == Own \in seen.addrs

\* plan_ensure finds nothing to do
Done(seen) == seen.exists /\ seen.up /\ Own \in seen.addrs

\* Degraded if the probe showed no Thunderbolt link.
Outcome == {"ok", "degraded"}

Look(c, known, listed, reads) ==
  /\ At(c, "observe")
  /\ \E probed \in BOOLEAN : \E target \in Targets(known, listed, probed) :
       LET seen == IF reads THEN net[target] ELSE Missing
           pc   == IF caller[c].dry THEN "idle" ELSE IF Done(seen) THEN "router" ELSE "check"
       IN  /\ \E outcome \in Outcome :
                caller' = [caller EXCEPT ![c].pc = pc, ![c].target = target,
                                         ![c].result = IF pc = "idle" THEN outcome ELSE @]
           /\ lock' = IF pc = "idle" THEN Nobody ELSE lock
  /\ quiet' = [quiet EXCEPT ![c] = TRUE]
  /\ UNCHANGED <<net, prefs, unrest>>

Observe(c) == Look(c, TRUE, Existing, TRUE)

(* No list, since the command could not run; an empty one, since it        *)
(* failed; or the look at the target failed and shows it as missing.       *)
Misread(c) ==
  \/ Look(c, FALSE, {}, TRUE) \/ Look(c, FALSE, {}, FALSE)
  \/ Look(c, TRUE, Existing, FALSE)

(* Fail closed: no target, or an ambiguous one.                            *)
Unresolved(c) ==
  /\ At(c, "observe")
  /\ \E probed \in BOOLEAN, listed \in {Existing, {}} : Targets(TRUE, listed, probed) = {}
  /\ Leave(c, "usage")
  /\ UNCHANGED <<net, prefs, quiet, unrest>>

-----------------------------------------------------------------------------
(* Apply: ensure_bridge_and_ip, one ifconfig after the other.              *)

Target(c) == net[caller[c].target]

\* A command that fails, for want of privileges or otherwise, ends the ensure.
CommandFails(c) ==
  /\ caller[c].pc \in {"create", "up", "add"}
  /\ Leave(c, "failed")
  /\ UNCHANGED <<net, prefs, quiet, unrest>>

Check(c) ==
  /\ At(c, "check")
  /\ Go(c, IF Target(c).exists THEN "up" ELSE "create")
  /\ UNCHANGED <<net, prefs, lock, quiet, unrest>>

\* ifconfig timed out: taken for a missing interface.
CheckMisled(c) ==
  /\ At(c, "check") /\ Target(c).exists
  /\ Go(c, "create")
  /\ UNCHANGED <<net, prefs, lock, quiet, unrest>>

Create(c) ==
  /\ At(c, "create") /\ ~Target(c).exists
  /\ net' = [net EXCEPT ![caller[c].target].exists = TRUE]
  /\ Go(c, "up")
  /\ UNCHANGED <<prefs, lock, quiet, unrest>>

Up(c) ==
  /\ At(c, "up") /\ Target(c).exists
  /\ net' = [net EXCEPT ![caller[c].target].up = TRUE]
  /\ Go(c, "show")
  /\ UNCHANGED <<prefs, lock, quiet, unrest>>

\* The output of ifconfig contains the address as a substring.
Shows(c) == Target(c).addrs \cap ({Own} \cup Lookalike) # {}

Show(c) ==
  /\ At(c, "show")
  /\ Go(c, IF Shows(c) THEN "router" ELSE "add")
  /\ UNCHANGED <<net, prefs, lock, quiet, unrest>>

\* ifconfig timed out and printed nothing.
ShowsNothing(c) ==
  /\ At(c, "show") /\ Shows(c)
  /\ Go(c, "add")
  /\ UNCHANGED <<net, prefs, lock, quiet, unrest>>

(* inet with a netmask, else the alias form: the address replaces the      *)
(* interface's others or joins them.                                       *)
Add(c) ==
  /\ At(c, "add") /\ Target(c).exists
  /\ \E keep \in {{}, Target(c).addrs} :
       net' = [net EXCEPT ![caller[c].target].addrs = keep \cup {Own}]
  /\ Go(c, "router")
  /\ UNCHANGED <<prefs, lock, quiet, unrest>>

-----------------------------------------------------------------------------
(* protect_wifi_from_bridge, best effort: every failure is swallowed.      *)

\* Seeded fault: the router is looked at only if the address was just set.
Steals_Never == FALSE

Steals == prefs.router     \* router_steals_internet

Router(c) ==
  /\ At(c, "router")
  /\ prefs' = IF Steals THEN [prefs EXCEPT !.router = FALSE] ELSE prefs
  /\ Go(c, "order")
  /\ UNCHANGED <<net, lock, quiet, unrest>>

\* The result of an ensure that came through.
Report(c) == \E outcome \in Outcome : Leave(c, outcome)

(* PlistBuddy is not permitted: the service order is left alone too.       *)
RouterDenied(c) ==
  /\ At(c, "router") /\ Steals
  /\ Report(c)
  /\ UNCHANGED <<net, prefs, quiet, unrest>>

(* networksetup cannot read the router, the service is not found, or       *)
(* PlistBuddy fails for another reason: the step is passed over.           *)
RouterMissed(c) ==
  /\ At(c, "router") /\ Steals
  /\ Go(c, "order")
  /\ UNCHANGED <<net, prefs, lock, quiet, unrest>>

Order(c) ==
  /\ At(c, "order")
  /\ prefs' = [prefs EXCEPT !.wifi_first = TRUE]
  /\ Report(c)
  /\ UNCHANGED <<net, quiet, unrest>>

OrderMissed(c) ==
  /\ At(c, "order") /\ ~prefs.wifi_first
  /\ Report(c)
  /\ UNCHANGED <<net, prefs, quiet, unrest>>

-----------------------------------------------------------------------------
\* Seeded fault: the lock outlives its holder, as a lock file would.
Released_Kept(c) == lock

\* The kernel releases the lock of a process that dies.
Released(c) == IF lock = c THEN Nobody ELSE lock

Dies(c) ==
  /\ caller' = [caller EXCEPT ![c].pc = "idle", ![c].result = "killed"]
  /\ lock' = Released(c)
  /\ UNCHANGED <<net, prefs, quiet, unrest>>

\* What a caller does when its commands succeed.
Succeeds(c) ==
  \/ Acquire(c) \/ Observe(c) \/ Check(c) \/ Create(c) \/ Up(c) \/ Show(c) \/ Add(c)
  \/ Router(c) \/ Order(c)

Fails(c) ==
  \/ Unconfigured(c) \/ LockBusy(c) \/ Misread(c) \/ Unresolved(c)
  \/ CheckMisled(c) \/ CommandFails(c) \/ ShowsNothing(c)
  \/ RouterDenied(c) \/ RouterMissed(c) \/ OrderMissed(c)

EnsureStep(c) == Succeeds(c) \/ Fails(c)

-----------------------------------------------------------------------------
(* What others do to the network.                                          *)

Disturbed ==
  /\ unrest < Unrest /\ unrest' = unrest + 1
  /\ quiet' = [c \in Callers |-> FALSE]

(* macOS takes an interface away, brings it back bare, or changes its      *)
(* state or one of its addresses.                                          *)
Changed(i) ==
  IF ~net[i].exists
  THEN {[exists |-> TRUE, up |-> up, addrs |-> {}] : up \in BOOLEAN}
  ELSE {Missing, [net[i] EXCEPT !.up = ~@]}
         \cup {[net[i] EXCEPT !.addrs = @ \ {a}] : a \in net[i].addrs}
         \cup {[net[i] EXCEPT !.addrs = @ \cup {a}] : a \in Addrs \ net[i].addrs}

IfaceChanges ==
  /\ \E i \in Ifaces : \E state \in Changed(i) : net' = [net EXCEPT ![i] = state]
  /\ Disturbed
  /\ UNCHANGED <<prefs, lock, caller>>

PrefsChange ==
  /\ prefs' \in [router : BOOLEAN, wifi_first : BOOLEAN]
  /\ Disturbed
  /\ UNCHANGED <<net, lock, caller>>

Next ==
  \/ \E c \in Callers : \/ \E dry \in BOOLEAN : Begin(c, dry)
                        \/ EnsureStep(c) \/ Dies(c)
  \/ IfaceChanges \/ PrefsChange

-----------------------------------------------------------------------------
(* One of the callers is a loop: it ends no ensure without beginning the   *)
(* next one.  A command that is tried again and again succeeds again and   *)
(* again; a caller that holds the lock goes on or dies.                    *)
Retried ==
  /\ WF_vars(Begin(Loop, FALSE))
  /\ \A c \in Callers : WF_vars(EnsureStep(c))
  /\ SF_vars(Acquire(Loop)) /\ SF_vars(Observe(Loop)) /\ SF_vars(Check(Loop))
  /\ SF_vars(Up(Loop)) /\ SF_vars(Show(Loop)) /\ SF_vars(Add(Loop))
  /\ SF_vars(Router(Loop)) /\ SF_vars(Order(Loop))

Spec == Init /\ [][Next]_vars /\ Retried

Abstract == INSTANCE ExclusiveEnsure WITH
  phase <- [c \in Callers |-> IF caller[c].pc \in Locked THEN "locked" ELSE caller[c].pc],
  result <- [c \in Callers |-> caller[c].result]

(* Every ensure keeps the promise of the abstract one: nothing outside the *)
(* lock, and the lock gone with its holder (mutate_service.py:26).         *)
EnsurePromise == Abstract!EnsureSpec

(* An ensure that reports success has configured its target, unless others *)
(* changed the network after it looked, or a lookalike address hides that  *)
(* its own one is missing (network_apply.py:64).                           *)
SuccessIsReal ==
  \A c \in Callers :
    caller[c].result \in {"ok", "degraded"} /\ ~caller[c].dry /\ quiet[c] =>
      LET i == net[caller[c].target]
      IN  i.exists /\ i.up /\ (Own \in i.addrs \/ i.addrs \cap Lookalike # {})

Ready ==
  /\ net[Bridge].exists /\ net[Bridge].up /\ Own \in net[Bridge].addrs
  /\ ~prefs.router /\ prefs.wifi_first

(* What a loop cannot mend: a missing bridge, for which it fails closed,   *)
(* and an address that looks like its own.                                 *)
Mendable == net[Bridge].exists /\ net[Bridge].addrs \cap Lookalike = {}

(* However ensures fail, die between two commands and get in each other's  *)
(* way: once others leave the network alone, a loop gets it ready for good *)
(* (plan.py:11: what is missing is planned anew from what is observed).    *)
Converges == <>[]Mendable => <>[]Ready
=============================================================================
