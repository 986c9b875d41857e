---------------------------- MODULE EnsureProofs ----------------------------
(***************************************************************************)
(* ensure_local keeps its promises for any number of callers, interfaces   *)
(* and addresses: it implements the exclusive ensure, and a success it     *)
(* reports is real.  The one fact the second result rests on is that       *)
(* ensures only ever add to what an interface has.                         *)
(***************************************************************************)
EXTENDS EnsureLocal, TLAPS

Pcs == Locked \cup {"idle", "wait"}

CallerState == [pc : Pcs, target : Ifaces, dry : BOOLEAN, result : Results]

\* Past the lock, a caller holds it, and it has no result before it is done.
Holds == \A c \in Callers :
  /\ caller[c].pc \in Locked => lock = c
  /\ caller[c].pc # "idle" => caller[c].result = "none"

EnsureInv == TypeOK /\ Holds

LEMMA EnsureStarts == Init => EnsureInv
<1> SUFFICES ASSUME Init PROVE EnsureInv
  OBVIOUS
<1>1. net \in [Ifaces -> Iface] /\ \A i \in Ifaces : net[i].exists \/ net[i] = Missing
  <2>1. Missing \in Iface /\ [exists |-> TRUE, up |-> TRUE, addrs |-> {}] \in Iface
    BY DEF Missing, Iface
  <2>2. net \in [Ifaces -> {Missing, [exists |-> TRUE, up |-> TRUE, addrs |-> {}]}]
    BY DEF Init
  <2>3. \A i \in Ifaces : net[i] = Missing \/ net[i].exists = TRUE
    BY <2>2
  <2> QED
    BY <2>1, <2>2, <2>3
<1>2. caller \in [Callers -> CallerState] /\ Holds
  BY LocalAssumption DEF Init, CallerState, Pcs, Holds, Locked, Results
<1>3. prefs \in [router : BOOLEAN, wifi_first : BOOLEAN] /\ quiet \in [Callers -> BOOLEAN]
  BY DEF Init
<1>4. unrest \in 0..Unrest
  BY LocalAssumption DEF Init
<1> QED
  BY <1>1, <1>2, <1>3, <1>4 DEF Init, EnsureInv, TypeOK, CallerState, Pcs

LEMMA EnsureStutters == EnsureInv /\ UNCHANGED vars => EnsureInv'
  BY DEF EnsureInv, TypeOK, Holds, vars

-----------------------------------------------------------------------------
(* What a step of an ensure does to its caller and the lock: it goes on,   *)
(* it ends, or it gets into the lock.                                      *)

Becomes(c, s) == caller' = [caller EXCEPT ![c] = s]

GoesOn(c) ==
  /\ caller[c].pc \in Locked /\ lock' = lock
  /\ \E s \in CallerState : Becomes(c, s) /\ s.pc \in Locked /\ s.result = caller[c].result

Ends(c, result) ==
  /\ lock' = Released(c)
  /\ \E s \in CallerState : Becomes(c, s) /\ s.pc = "idle" /\ s.result = result

LEMMA CallersTyped ==
  ASSUME EnsureInv
  PROVE  caller \in [Callers -> CallerState]
  BY DEF EnsureInv, TypeOK, CallerState, Pcs

LEMMA Goes ==
  ASSUME EnsureInv, NEW c \in Callers, NEW pc \in Locked,
         caller[c].pc \in Locked, Go(c, pc), UNCHANGED lock
  PROVE  GoesOn(c) /\ Becomes(c, [caller[c] EXCEPT !.pc = pc])
<1>1. [caller[c] EXCEPT !.pc = pc] \in CallerState
  BY CallersTyped DEF CallerState, Pcs
<1>2. Becomes(c, [caller[c] EXCEPT !.pc = pc])
  BY CallersTyped DEF Go, Becomes
<1>3. /\ [caller[c] EXCEPT !.pc = pc].pc = pc
      /\ [caller[c] EXCEPT !.pc = pc].result = caller[c].result
  BY CallersTyped DEF CallerState
<1> QED
  BY <1>1, <1>2, <1>3 DEF GoesOn

LEMMA Leaves ==
  ASSUME EnsureInv, NEW c \in Callers, NEW result \in Results, Leave(c, result)
  PROVE  Ends(c, result) /\ Becomes(c, [caller[c] EXCEPT !.pc = "idle", !.result = result])
<1> DEFINE s == [caller[c] EXCEPT !.pc = "idle", !.result = result]
<1>1. s \in CallerState /\ s.pc = "idle" /\ s.result = result
  BY CallersTyped DEF CallerState, Pcs
<1>2. Becomes(c, s)
  BY CallersTyped DEF Leave, Becomes
<1> QED
  BY <1>1, <1>2 DEF Ends, Leave, Released

LEMMA TargetsAreIfaces ==
  ASSUME NEW known \in BOOLEAN, NEW listed \in SUBSET Ifaces, NEW probed \in BOOLEAN
  PROVE  Targets(known, listed, probed) \subseteq Ifaces
  BY LocalAssumption DEF Targets, Candidates

\* A look ends a dry run; else it settles the target and leads on.
LEMMA Looks ==
  ASSUME EnsureInv, NEW c \in Callers, NEW known \in BOOLEAN, NEW listed \in SUBSET Ifaces,
         NEW reads \in BOOLEAN, Look(c, known, listed, reads)
  PROVE  \/ caller[c].dry /\ \E outcome \in Outcome : Ends(c, outcome)
         \/ /\ ~caller[c].dry /\ GoesOn(c)
            /\ \E target \in Ifaces, pc \in {"router", "check"} :
                 /\ Becomes(c, [caller[c] EXCEPT !.pc = pc, !.target = target])
                 /\ pc = "router" => Done(net[target])
<1>0. PICK probed \in BOOLEAN : \E target \in Targets(known, listed, probed) :
        \E outcome \in Outcome :
          LET seen == IF reads THEN net[target] ELSE Missing
              pc   == IF caller[c].dry THEN "idle" ELSE IF Done(seen) THEN "router" ELSE "check"
          IN  /\ caller' = [caller EXCEPT ![c].pc = pc, ![c].target = target,
                                          ![c].result = IF pc = "idle" THEN outcome ELSE @]
              /\ lock' = IF pc = "idle" THEN Nobody ELSE lock
  BY DEF Look
<1>1. PICK target \in Targets(known, listed, probed), outcome \in Outcome :
        LET seen == IF reads THEN net[target] ELSE Missing
            pc   == IF caller[c].dry THEN "idle" ELSE IF Done(seen) THEN "router" ELSE "check"
        IN  /\ caller' = [caller EXCEPT ![c].pc = pc, ![c].target = target,
                                        ![c].result = IF pc = "idle" THEN outcome ELSE @]
            /\ lock' = IF pc = "idle" THEN Nobody ELSE lock
  BY <1>0
<1>2. target \in Ifaces /\ caller[c] \in CallerState
  BY TargetsAreIfaces, CallersTyped
<1>3. caller[c].pc = "observe" /\ caller[c].pc \in Locked /\ lock = c
  BY DEF Look, At, Locked, EnsureInv, Holds
<1>4. CASE caller[c].dry
  <2> DEFINE s == [caller[c] EXCEPT !.pc = "idle", !.target = target, !.result = outcome]
  <2>1. s \in CallerState /\ s.pc = "idle" /\ s.result = outcome
    BY <1>2 DEF CallerState, Pcs, Outcome, Results
  <2>2. Becomes(c, s) /\ lock' = Released(c)
    BY <1>1, <1>2, <1>3, <1>4, CallersTyped DEF Becomes, Released
  <2> QED
    BY <1>4, <2>1, <2>2 DEF Ends
<1>5. CASE ~caller[c].dry
  <2> DEFINE seen == IF reads THEN net[target] ELSE Missing
             pc == IF Done(seen) THEN "router" ELSE "check"
             s == [caller[c] EXCEPT !.pc = pc, !.target = target]
  <2>1. s \in CallerState /\ s.pc \in Locked /\ s.result = caller[c].result
    BY <1>2 DEF CallerState, Pcs, Locked
  <2>2. caller' = [caller EXCEPT ![c].pc = pc, ![c].target = target, ![c].result = @]
    BY <1>1, <1>5
  <2>3. Becomes(c, s) /\ lock' = lock
    <3>1. [s EXCEPT !.result = caller[c].result] = s
      BY <1>2 DEF CallerState
    <3>2. caller' = [caller EXCEPT ![c] = [s EXCEPT !.result = caller[c].result]]
      BY <1>2, <2>2, CallersTyped
    <3> QED
      BY <1>1, <1>5, <3>1, <3>2 DEF Becomes
  <2>4. pc = "router" => Done(net[target])
    <3>1. Missing.exists = FALSE
      BY DEF Missing
    <3> QED
      BY <3>1 DEF Done
  <2> QED
    BY <1>2, <1>3, <1>5, <2>1, <2>3, <2>4 DEF GoesOn
<1> QED
  BY <1>4, <1>5

-----------------------------------------------------------------------------
EntersLock(c) ==
  /\ At(c, "wait") /\ lock = Nobody
  /\ lock' = c /\ Becomes(c, [caller[c] EXCEPT !.pc = "observe"])

GivesUp(c) ==
  /\ At(c, "wait")
  /\ Ends(c, "usage") \/ (lock # Nobody /\ Ends(c, "failed"))

Returned == {"ok", "degraded", "failed", "usage"}

Returns(c) == caller[c].pc \in Locked /\ \E result \in Returned : Ends(c, result)

LEMMA Reports ==
  ASSUME EnsureInv, NEW c \in Callers, caller[c].pc \in Locked, Report(c)
  PROVE  Returns(c)
<1>1. PICK outcome \in Outcome : Leave(c, outcome)
  BY DEF Report
<1>2. outcome \in Results /\ outcome \in Returned
  BY DEF Outcome, Results, Returned
<1> QED
  BY <1>1, <1>2, Leaves DEF Returns

\* Every step of an ensure has one of these shapes.
LEMMA StepShapes ==
  ASSUME EnsureInv, NEW c \in Callers, EnsureStep(c)
  PROVE  EntersLock(c) \/ GivesUp(c) \/ GoesOn(c) \/ Returns(c)
<1> USE DEF At, Locked
<1>1. CASE Acquire(c)
  <2>1. Becomes(c, [caller[c] EXCEPT !.pc = "observe"])
    BY <1>1, CallersTyped DEF Acquire, Go, Becomes
  <2> QED
    BY <1>1, <2>1 DEF Acquire, Free, EntersLock
<1>2. CASE Unconfigured(c) \/ LockBusy(c)
  BY <1>2, Leaves DEF Unconfigured, LockBusy, GivesUp, Results
<1>3. ASSUME NEW known \in BOOLEAN, NEW listed \in SUBSET Ifaces, NEW reads \in BOOLEAN,
             Look(c, known, listed, reads)
      PROVE  GoesOn(c) \/ Returns(c)
  BY <1>3, Looks DEF Look, Returns, Outcome, Returned
<1>4. CASE Observe(c) \/ Misread(c)
  <2>1. Existing \in SUBSET Ifaces /\ {} \in SUBSET Ifaces
    BY DEF Existing
  <2> QED
    BY <1>3, <1>4, <2>1 DEF Observe, Misread
<1>5. CASE Unresolved(c) \/ CommandFails(c)
  BY <1>5, Leaves DEF Unresolved, CommandFails, Returns, Returned, Results
<1>6. CASE Check(c) \/ CheckMisled(c) \/ Create(c) \/ Up(c)
  BY <1>6, Goes DEF Check, CheckMisled, Create, Up
<1>7. CASE Show(c) \/ ShowsNothing(c) \/ Add(c)
  BY <1>7, Goes DEF Show, ShowsNothing, Add
<1>8. CASE Router(c) \/ RouterMissed(c)
  BY <1>8, Goes DEF Router, RouterMissed
<1>9. CASE RouterDenied(c) \/ Order(c) \/ OrderMissed(c)
  BY <1>9, Reports DEF RouterDenied, Order, OrderMissed
<1> QED
  BY <1>1, <1>2, <1>4, <1>5, <1>6, <1>7, <1>8, <1>9 DEF EnsureStep, Succeeds, Fails

\* Beginning and dying, which are no steps of an ensure.
LEMMA Begins ==
  ASSUME EnsureInv, NEW c \in Callers, NEW dry \in BOOLEAN, Begin(c, dry)
  PROVE  Becomes(c, [caller[c] EXCEPT !.pc = "wait", !.dry = dry, !.result = "none"])
  BY CallersTyped DEF Begin, Becomes

LEMMA DeathsEnd ==
  ASSUME EnsureInv, NEW c \in Callers, Dies(c)
  PROVE  Leave(c, "killed") /\ Ends(c, "killed")
<1>1. Leave(c, "killed")
  BY DEF Dies, Leave, Released
<1> QED
  BY <1>1, Leaves DEF Results

\* What a caller's move leaves of the types and of who holds the lock.
CallersGood ==
  caller \in [Callers -> CallerState] /\ lock \in Callers \cup {Nobody} /\ Holds

LEMMA MovesGood ==
  ASSUME EnsureInv, NEW c \in Callers, NEW s \in CallerState, Becomes(c, s),
         lock' = lock \/ lock' = Released(c) \/ (lock = Nobody /\ lock' = c),
         s.pc \in Locked => lock' = c, s.pc # "idle" => s.result = "none"
  PROVE  CallersGood'
<1>1. caller' \in [Callers -> CallerState] /\ caller'[c] = s
  BY CallersTyped DEF Becomes
<1>2. \A d \in Callers \ {c} : caller'[d] = caller[d]
  BY CallersTyped DEF Becomes
<1>3. lock' \in Callers \cup {Nobody}
  BY DEF EnsureInv, TypeOK, Released
<1>4. \A d \in Callers \ {c} : caller[d].pc \in Locked => lock' = d
  BY LocalAssumption DEF EnsureInv, Holds, Released
<1>5. Holds'
  BY <1>1, <1>2, <1>4 DEF EnsureInv, Holds
<1> QED
  BY <1>1, <1>3, <1>5 DEF CallersGood

LEMMA EndsGood ==
  ASSUME EnsureInv, NEW c \in Callers, NEW result, Ends(c, result)
  PROVE  CallersGood'
  BY MovesGood DEF Ends, Locked

LEMMA StepGood ==
  ASSUME EnsureInv, NEW c \in Callers,
         EnsureStep(c) \/ Dies(c) \/ \E dry \in BOOLEAN : Begin(c, dry)
  PROVE  CallersGood'
<1>1. CASE EntersLock(c)
  <2>1. [caller[c] EXCEPT !.pc = "observe"] \in CallerState
    BY CallersTyped DEF CallerState, Pcs, Locked
  <2>2. [caller[c] EXCEPT !.pc = "observe"].result = "none"
    BY <1>1, CallersTyped DEF EntersLock, At, CallerState, EnsureInv, Holds
  <2> QED
    BY <1>1, <2>1, <2>2, MovesGood DEF EntersLock
<1>2. CASE GivesUp(c) \/ Returns(c) \/ Dies(c)
  BY <1>2, EndsGood, DeathsEnd DEF GivesUp, Returns
<1>3. CASE GoesOn(c)
  <2>1. lock = c /\ caller[c].result = "none"
    BY <1>3 DEF GoesOn, EnsureInv, Holds, Locked
  <2> QED
    BY <1>3, <2>1, MovesGood DEF GoesOn
<1>4. ASSUME NEW dry \in BOOLEAN, Begin(c, dry) PROVE CallersGood'
  <2> DEFINE s == [caller[c] EXCEPT !.pc = "wait", !.dry = dry, !.result = "none"]
  <2>1. s \in CallerState /\ s.pc = "wait" /\ s.result = "none"
    BY CallersTyped DEF CallerState, Pcs, Results
  <2>2. Becomes(c, s) /\ lock' = lock
    BY <1>4, Begins DEF Begin
  <2> QED
    BY <2>1, <2>2, MovesGood DEF Locked
<1> QED
  BY <1>1, <1>2, <1>3, <1>4, StepShapes

-----------------------------------------------------------------------------
(* What a step of an ensure does to the network: it adds to it.            *)

NetTyped ==
  net \in [Ifaces -> Iface] /\ \A i \in Ifaces : net[i].exists \/ net[i] = Missing

Serves(i) == i.addrs \cap ({Own} \cup Lookalike) # {}

NetGrows == \A i \in Ifaces :
  /\ net[i].exists => net'[i].exists
  /\ net[i].up => net'[i].up
  /\ Serves(net[i]) => Serves(net'[i])

\* One interface that exists is replaced by a state that has all it had.
LEMMA OneGrows ==
  ASSUME NetTyped, NEW i \in Ifaces, NEW s \in Iface, net' = [net EXCEPT ![i] = s],
         s.exists, net[i].up => s.up, Serves(net[i]) => Serves(s)
  PROVE  NetTyped' /\ NetGrows
<1>1. net' \in [Ifaces -> Iface] /\ net'[i] = s /\ \A j \in Ifaces \ {i} : net'[j] = net[j]
  BY DEF NetTyped
<1>2. NetTyped'
  BY <1>1 DEF NetTyped
<1>3. NetGrows
  BY <1>1 DEF NetGrows
<1> QED
  BY <1>2, <1>3

LEMMA CreateGrows ==
  ASSUME EnsureInv, NEW c \in Callers, Create(c)
  PROVE  NetTyped' /\ NetGrows /\ net'[caller[c].target].exists
<1> DEFINE i == caller[c].target
           s == [net[i] EXCEPT !.exists = TRUE]
<1>1. i \in Ifaces /\ NetTyped /\ net[i] \in Iface
  BY CallersTyped DEF CallerState, EnsureInv, TypeOK, NetTyped
<1>2. s \in Iface /\ s.exists /\ s.up = net[i].up /\ s.addrs = net[i].addrs
  BY <1>1 DEF Iface
<1>3. net' = [net EXCEPT ![i] = s]
  BY <1>1 DEF Create, NetTyped
<1>4. NetTyped' /\ NetGrows
  BY <1>1, <1>2, <1>3, OneGrows DEF Serves
<1> QED
  BY <1>1, <1>2, <1>3, <1>4 DEF NetTyped

LEMMA UpGrows ==
  ASSUME EnsureInv, NEW c \in Callers, Up(c)
  PROVE  /\ NetTyped' /\ NetGrows
         /\ net'[caller[c].target].exists /\ net'[caller[c].target].up
<1> DEFINE i == caller[c].target
           s == [net[i] EXCEPT !.up = TRUE]
<1>1. i \in Ifaces /\ NetTyped /\ net[i] \in Iface /\ net[i].exists
  BY CallersTyped DEF CallerState, EnsureInv, TypeOK, NetTyped, Up, Target
<1>2. s \in Iface /\ s.exists = net[i].exists /\ s.up /\ s.addrs = net[i].addrs
  BY <1>1 DEF Iface
<1>3. net' = [net EXCEPT ![i] = s]
  BY <1>1 DEF Up, NetTyped
<1>4. NetTyped' /\ NetGrows
  BY <1>1, <1>2, <1>3, OneGrows DEF Serves
<1> QED
  BY <1>1, <1>2, <1>3, <1>4 DEF NetTyped

LEMMA AddGrows ==
  ASSUME EnsureInv, NEW c \in Callers, Add(c)
  PROVE  NetTyped' /\ NetGrows /\ Serves(net'[caller[c].target])
<1> DEFINE i == caller[c].target
<1>1. i \in Ifaces /\ NetTyped /\ net[i] \in Iface /\ net[i].exists
  BY CallersTyped DEF CallerState, EnsureInv, TypeOK, NetTyped, Add, Target
<1>2. PICK keep \in {{}, net[i].addrs} : net' = [net EXCEPT ![i].addrs = keep \cup {Own}]
  BY DEF Add, Target
<1> DEFINE s == [net[i] EXCEPT !.addrs = keep \cup {Own}]
<1>3. s \in Iface /\ s.exists = net[i].exists /\ s.up = net[i].up /\ s.addrs = keep \cup {Own}
  BY <1>1, <1>2, LocalAssumption DEF Iface
<1>4. net' = [net EXCEPT ![i] = s]
  BY <1>1, <1>2 DEF NetTyped
<1>5. Serves(s)
  BY <1>3 DEF Serves
<1>6. NetTyped' /\ NetGrows
  BY <1>1, <1>3, <1>4, <1>5, OneGrows
<1> QED
  BY <1>1, <1>4, <1>5, <1>6 DEF NetTyped

LEMMA SameNet ==
  ASSUME EnsureInv, UNCHANGED net
  PROVE  NetTyped' /\ NetGrows
  BY DEF EnsureInv, TypeOK, NetTyped, NetGrows

LEMMA StepGrows ==
  ASSUME EnsureInv, NEW c \in Callers, EnsureStep(c)
  PROVE  NetTyped' /\ NetGrows
<1>1. CASE Create(c) \/ Up(c) \/ Add(c)
  BY <1>1, CreateGrows, UpGrows, AddGrows
<1>2. CASE UNCHANGED net
  BY <1>2, SameNet
<1> QED
  BY <1>1, <1>2
     DEF EnsureStep, Succeeds, Fails, Acquire, Observe, Misread, Look, Check, Show, Router,
         Order, Unconfigured, LockBusy, Unresolved, CheckMisled, CommandFails, ShowsNothing,
         RouterDenied, RouterMissed, OrderMissed

LEMMA ChangesTyped ==
  ASSUME EnsureInv, IfaceChanges
  PROVE  NetTyped'
<1>1. PICK i \in Ifaces : \E s \in Changed(i) : net' = [net EXCEPT ![i] = s]
  BY DEF IfaceChanges
<1>2. PICK s \in Changed(i) : net' = [net EXCEPT ![i] = s]
  BY <1>1
<1>3. NetTyped /\ net[i] \in Iface /\ Missing \in Iface
  BY DEF EnsureInv, TypeOK, NetTyped, Missing, Iface
<1>4. s \in Iface /\ (s.exists \/ s = Missing)
  <2>1. CASE ~net[i].exists
    <3>1. \A up \in BOOLEAN : /\ [exists |-> TRUE, up |-> up, addrs |-> {}] \in Iface
                             /\ [exists |-> TRUE, up |-> up, addrs |-> {}].exists
      BY DEF Iface
    <3> QED
      BY <1>2, <2>1, <3>1 DEF Changed
  <2>2. CASE net[i].exists
    <3>1. [net[i] EXCEPT !.up = ~@] \in Iface /\ [net[i] EXCEPT !.up = ~@].exists
      BY <1>3, <2>2 DEF Iface
    <3>2. \A a \in Addrs :
            /\ [net[i] EXCEPT !.addrs = @ \ {a}] \in Iface
            /\ [net[i] EXCEPT !.addrs = @ \ {a}].exists
            /\ [net[i] EXCEPT !.addrs = @ \cup {a}] \in Iface
            /\ [net[i] EXCEPT !.addrs = @ \cup {a}].exists
      BY <1>3, <2>2 DEF Iface
    <3>3. net[i].addrs \subseteq Addrs
      BY <1>3 DEF Iface
    <3> QED
      BY <1>2, <1>3, <2>2, <3>1, <3>2, <3>3 DEF Changed
  <2> QED
    BY <2>1, <2>2
<1> QED
  BY <1>2, <1>3, <1>4 DEF NetTyped

-----------------------------------------------------------------------------
RestTyped ==
  /\ prefs \in [router : BOOLEAN, wifi_first : BOOLEAN]
  /\ quiet \in [Callers -> BOOLEAN] /\ unrest \in 0..Unrest

LEMMA RestSame ==
  ASSUME EnsureInv, UNCHANGED <<prefs, quiet, unrest>>
  PROVE  RestTyped'
  BY DEF EnsureInv, TypeOK, RestTyped

LEMMA StepRest ==
  ASSUME EnsureInv, NEW c \in Callers, EnsureStep(c)
  PROVE  RestTyped'
<1>1. ASSUME NEW known, NEW listed, NEW reads, Look(c, known, listed, reads)
      PROVE  RestTyped'
  BY <1>1 DEF Look, EnsureInv, TypeOK, RestTyped
<1>2. CASE Observe(c) \/ Misread(c)
  BY <1>1, <1>2 DEF Observe, Misread
<1>3. CASE Router(c) \/ Order(c)
  BY <1>3 DEF Router, Order, EnsureInv, TypeOK, RestTyped
<1>4. CASE UNCHANGED <<prefs, quiet, unrest>>
  BY <1>4, RestSame
<1> QED
  BY <1>2, <1>3, <1>4
     DEF EnsureStep, Succeeds, Fails, Acquire, Check, Create, Up, Show, Add, Unconfigured,
         LockBusy, Unresolved, CheckMisled, CommandFails, ShowsNothing, RouterDenied,
         RouterMissed, OrderMissed

LEMMA EnsureParts ==
  ASSUME NetTyped', CallersGood', RestTyped'
  PROVE  EnsureInv'
  BY DEF EnsureInv, TypeOK, NetTyped, CallersGood, CallerState, Pcs, RestTyped

LEMMA EnsureKept == EnsureInv /\ [Next]_vars => EnsureInv'
<1> SUFFICES ASSUME EnsureInv, [Next]_vars PROVE EnsureInv'
  OBVIOUS
<1>1. CASE UNCHANGED vars
  BY <1>1, EnsureStutters
<1>2. ASSUME NEW c \in Callers, NEW dry \in BOOLEAN, Begin(c, dry) PROVE EnsureInv'
  <2>1. CallersGood'
    BY <1>2, StepGood
  <2>2. RestTyped'
    BY <1>2, LocalAssumption DEF Begin, EnsureInv, TypeOK, RestTyped
  <2> QED
    BY <1>2, <2>1, <2>2, SameNet, EnsureParts DEF Begin
<1>3. ASSUME NEW c \in Callers, EnsureStep(c) PROVE EnsureInv'
  BY <1>3, StepGood, StepGrows, StepRest, EnsureParts
<1>4. ASSUME NEW c \in Callers, Dies(c) PROVE EnsureInv'
  BY <1>4, StepGood, SameNet, RestSame, EnsureParts DEF Dies
<1>5. CASE IfaceChanges
  <2>1. CallersGood'
    BY <1>5 DEF IfaceChanges, EnsureInv, TypeOK, CallersGood, CallerState, Pcs, Holds
  <2>2. RestTyped'
    BY <1>5, LocalAssumption DEF IfaceChanges, Disturbed, EnsureInv, TypeOK, RestTyped
  <2> QED
    BY <1>5, <2>1, <2>2, ChangesTyped, EnsureParts
<1>6. CASE PrefsChange
  <2>1. CallersGood'
    BY <1>6 DEF PrefsChange, EnsureInv, TypeOK, CallersGood, CallerState, Pcs, Holds
  <2>2. RestTyped'
    BY <1>6, LocalAssumption DEF PrefsChange, Disturbed, EnsureInv, TypeOK, RestTyped
  <2> QED
    BY <1>6, <2>1, <2>2, SameNet, EnsureParts DEF PrefsChange
<1> QED
  BY <1>1, <1>2, <1>3, <1>4, <1>5, <1>6 DEF Next

(* Callers, interfaces, preferences and the lock keep their types.         *)
THEOREM EnsureTypes == Spec => []TypeOK
<1>1. EnsureInv => TypeOK
  BY DEF EnsureInv
<1> QED
  BY <1>1, EnsureStarts, EnsureKept, PTL DEF Spec

-----------------------------------------------------------------------------
(* The abstract ensure, seen through the callers.                          *)

Phases == [c \in Callers |-> IF caller[c].pc \in Locked THEN "locked" ELSE caller[c].pc]
Outcomes == [c \in Callers |-> caller[c].result]

LEMMA AbstractUnchanged ==
  ASSUME Phases' = Phases, Outcomes' = Outcomes, lock' = lock
  PROVE  UNCHANGED Abstract!ensureVars
  BY DEF Phases, Outcomes, Abstract!ensureVars

LEMMA SeenThrough ==
  ASSUME EnsureInv, NEW c \in Callers, NEW s \in CallerState, Becomes(c, s)
  PROVE  /\ Phases' = [Phases EXCEPT ![c] = IF s.pc \in Locked THEN "locked" ELSE s.pc]
         /\ Outcomes' = [Outcomes EXCEPT ![c] = s.result]
<1>1. \A d \in Callers : caller'[d] = IF d = c THEN s ELSE caller[d]
  BY CallersTyped DEF Becomes
<1> QED
  BY <1>1 DEF Phases, Outcomes

LEMMA EndsAbstractly ==
  ASSUME EnsureInv, NEW c \in Callers, NEW result, Ends(c, result)
  PROVE  Abstract!Ends(c, result)
<1>1. PICK s \in CallerState : Becomes(c, s) /\ s.pc = "idle" /\ s.result = result
  BY DEF Ends
<1>2. /\ Phases' = [Phases EXCEPT ![c] = "idle"]
      /\ Outcomes' = [Outcomes EXCEPT ![c] = result]
  BY <1>1, SeenThrough DEF Locked
<1>3. lock' = Abstract!Released(c)
  BY DEF Ends, Released, Abstract!Released
<1> QED
  BY <1>2, <1>3 DEF Phases, Outcomes, Abstract!Ends

LEMMA StepImplements ==
  ASSUME EnsureInv, NEW c \in Callers, EnsureStep(c)
  PROVE  Abstract!EnsureStep(c) \/ UNCHANGED Abstract!ensureVars
<1>1. CASE GivesUp(c)
  <2>1. Phases[c] = "wait"
    BY <1>1 DEF GivesUp, At, Phases, Locked
  <2> QED
    BY <1>1, <2>1, EndsAbstractly
       DEF GivesUp, Phases, Abstract!EnsureStep, Abstract!Refused, Abstract!LockBusy
<1>2. CASE Returns(c)
  <2>1. Phases[c] = "locked"
    BY <1>2 DEF Returns, Phases
  <2>2. \E outcome \in Abstract!Outcomes \ {"killed"} : Abstract!Ends(c, outcome)
    BY <1>2, EndsAbstractly DEF Returns, Returned, Abstract!Outcomes
  <2> QED
    BY <2>1, <2>2 DEF Phases, Abstract!EnsureStep, Abstract!Returns
<1>3. CASE EntersLock(c)
  <2> DEFINE s == [caller[c] EXCEPT !.pc = "observe"]
  <2>1. s \in CallerState /\ s.pc = "observe" /\ s.result = caller[c].result
    BY CallersTyped DEF CallerState, Pcs, Locked
  <2>2. Phases' = [Phases EXCEPT ![c] = "locked"] /\ Outcomes' = Outcomes
    BY <1>3, <2>1, SeenThrough DEF EntersLock, Locked, Outcomes
  <2>3. Phases[c] = "wait"
    BY <1>3 DEF EntersLock, At, Phases, Locked
  <2> QED
    BY <1>3, <2>2, <2>3
       DEF EntersLock, Phases, Outcomes, Abstract!EnsureStep, Abstract!Acquire, Abstract!Free
<1>4. CASE GoesOn(c)
  <2>1. PICK s \in CallerState :
          Becomes(c, s) /\ s.pc \in Locked /\ s.result = caller[c].result
    BY <1>4 DEF GoesOn
  <2>2. Phases' = Phases /\ Outcomes' = Outcomes
    <3>1. /\ Phases' = [Phases EXCEPT ![c] = "locked"]
          /\ Outcomes' = [Outcomes EXCEPT ![c] = caller[c].result]
      BY <2>1, SeenThrough
    <3>2. Phases[c] = "locked" /\ Outcomes[c] = caller[c].result
      BY <1>4 DEF GoesOn, Phases, Outcomes
    <3> QED
      BY <3>1, <3>2 DEF Phases, Outcomes
  <2> QED
    BY <1>4, <2>2, AbstractUnchanged DEF GoesOn
<1> QED
  BY <1>1, <1>2, <1>3, <1>4, StepShapes

LEMMA NextImplements ==
  EnsureInv /\ [Next]_vars => [Abstract!EnsureNext]_Abstract!ensureVars
<1> SUFFICES ASSUME EnsureInv, [Next]_vars
             PROVE  Abstract!EnsureNext \/ UNCHANGED Abstract!ensureVars
  OBVIOUS
<1>1. CASE UNCHANGED vars \/ IfaceChanges \/ PrefsChange
  BY <1>1, AbstractUnchanged DEF vars, IfaceChanges, PrefsChange, Phases, Outcomes
<1>2. ASSUME NEW c \in Callers, NEW dry \in BOOLEAN, Begin(c, dry)
      PROVE  Abstract!Begin(c)
  <2> DEFINE s == [caller[c] EXCEPT !.pc = "wait", !.dry = dry, !.result = "none"]
  <2>1. s \in CallerState /\ s.pc = "wait" /\ s.result = "none"
    BY CallersTyped DEF CallerState, Pcs, Results
  <2>0. Becomes(c, s)
    BY <1>2, Begins
  <2>2. /\ Phases' = [Phases EXCEPT ![c] = "wait"]
        /\ Outcomes' = [Outcomes EXCEPT ![c] = "none"]
    <3> HIDE DEF s
    <3> QED
      BY <2>0, <2>1, SeenThrough DEF Locked
  <2>3. Phases[c] = "idle" /\ lock' = lock
    BY <1>2 DEF Begin, At, Phases, Locked
  <2> QED
    BY <2>2, <2>3 DEF Phases, Outcomes, Abstract!Begin
<1>3. ASSUME NEW c \in Callers, EnsureStep(c)
      PROVE  Abstract!EnsureStep(c) \/ UNCHANGED Abstract!ensureVars
  BY <1>3, StepImplements
<1>4. ASSUME NEW c \in Callers, Dies(c)
      PROVE  Abstract!Dies(c)
  BY <1>4, DeathsEnd, EndsAbstractly DEF Abstract!Dies
<1> QED
  BY <1>1, <1>2, <1>3, <1>4 DEF Next, Abstract!EnsureNext

LEMMA InitImplements == Init => Abstract!EnsureInit
  BY DEF Init, Abstract!EnsureInit, Locked

(* ensure_local implements the exclusive ensure: it refuses or waits       *)
(* outside the lock, acts inside it, and whoever dies leaves it.           *)
THEOREM EnsureImplements == Spec => EnsurePromise
  BY EnsureStarts, EnsureKept, InitImplements, NextImplements, PTL
     DEF Spec, EnsurePromise, Abstract!EnsureSpec

-----------------------------------------------------------------------------
(* How far a caller has got, if nobody but ensures changed the network     *)
(* since it looked: what it did or saw is still there, whatever the        *)
(* ensures of others have done since.                                      *)

Configured(i) == i.exists /\ i.up /\ Serves(i)

Real(s, n) ==
  /\ s.pc \in {"up", "show", "add"} => n[s.target].exists
  /\ s.pc \in {"show", "add"} => n[s.target].up
  /\ s.pc \in {"router", "order"} => Configured(n[s.target])
  /\ s.pc = "idle" /\ s.result \in Outcome /\ ~s.dry => Configured(n[s.target])

Stages == \A c \in Callers : quiet[c] => Real(caller[c], net)

LEMMA RealGrows ==
  ASSUME NetGrows, NEW s \in CallerState, Real(s, net)
  PROVE  Real(s, net')
  BY DEF NetGrows, Real, Configured, CallerState

\* A caller that fails, waits or dies claims nothing.
LEMMA NothingClaimed ==
  ASSUME NEW s \in CallerState, NEW n,
         \/ s.pc \in {"wait", "observe", "check", "create"}
         \/ s.pc = "idle" /\ (s.dry \/ s.result \notin Outcome)
  PROVE  Real(s, n)
  BY DEF Real

LEMMA StagesFollow ==
  ASSUME EnsureInv, Stages, NetGrows, NEW c \in Callers, NEW s \in CallerState, Becomes(c, s),
         \A d \in Callers \ {c} : quiet'[d] = quiet[d],
         quiet'[c] => Real(s, net')
  PROVE  Stages'
<1>1. \A d \in Callers : caller[d] \in CallerState
  BY CallersTyped
<1>2. \A d \in Callers : caller'[d] = IF d = c THEN s ELSE caller[d]
  BY CallersTyped DEF Becomes
<1>3. \A d \in Callers \ {c} : quiet'[d] => Real(caller[d], net')
  BY <1>1, RealGrows DEF Stages
<1> QED
  BY <1>2, <1>3 DEF Stages

\* Steps after which the caller has not yet done anything, or ends without success.
LEMMA FailuresClaimNothing ==
  ASSUME EnsureInv, Stages, NEW c \in Callers, NEW result \in Results \ Outcome,
         Leave(c, result), UNCHANGED <<net, quiet>>
  PROVE  Stages'
<1> DEFINE s == [caller[c] EXCEPT !.pc = "idle", !.result = result]
<1>1. Becomes(c, s)
  BY Leaves
<1>2. s \in CallerState /\ s.pc = "idle" /\ s.result = result
  BY CallersTyped DEF CallerState, Pcs
<1> HIDE DEF s
<1> QED
  BY <1>1, <1>2, SameNet, NothingClaimed, StagesFollow

LEMMA GoingOn ==
  ASSUME EnsureInv, Stages, NetGrows, NEW c \in Callers, NEW pc \in Locked,
         caller[c].pc \in Locked, Go(c, pc), UNCHANGED <<lock, quiet>>,
         quiet[c] => Real([caller[c] EXCEPT !.pc = pc], net')
  PROVE  Stages'
<1> DEFINE s == [caller[c] EXCEPT !.pc = pc]
<1>1. Becomes(c, s)
  BY Goes
<1>2. s \in CallerState
  BY CallersTyped DEF CallerState, Pcs
<1> HIDE DEF s
<1> QED
  BY <1>1, <1>2, StagesFollow DEF s

\* What the caller claims at another place.
LEMMA ClaimAt ==
  ASSUME EnsureInv, NEW c \in Callers, NEW pc \in Locked
  PROVE  /\ [caller[c] EXCEPT !.pc = pc].pc = pc
         /\ [caller[c] EXCEPT !.pc = pc].target = caller[c].target
  BY CallersTyped DEF CallerState

LEMMA LookStages ==
  ASSUME EnsureInv, Stages, NEW c \in Callers, NEW known \in BOOLEAN,
         NEW listed \in SUBSET Ifaces, NEW reads \in BOOLEAN, Look(c, known, listed, reads)
  PROVE  Stages'
<1>1. UNCHANGED net /\ \A d \in Callers \ {c} : quiet'[d] = quiet[d]
  BY DEF Look, EnsureInv, TypeOK
<1>2. CASE caller[c].dry
  <2>1. PICK probed \in BOOLEAN : \E target \in Targets(known, listed, probed) :
          \E outcome \in Outcome :
            caller' = [caller EXCEPT ![c].pc = "idle", ![c].target = target,
                                     ![c].result = outcome]
    BY <1>2 DEF Look
  <2>2. PICK target \in Targets(known, listed, probed), outcome \in Outcome :
          caller' = [caller EXCEPT ![c].pc = "idle", ![c].target = target,
                                   ![c].result = outcome]
    BY <2>1
  <2> DEFINE s == [caller[c] EXCEPT !.pc = "idle", !.target = target, !.result = outcome]
  <2>3. target \in Ifaces
    BY TargetsAreIfaces
  <2>4. s \in CallerState /\ s.pc = "idle" /\ s.dry
    BY <1>2, <2>3, CallersTyped DEF CallerState, Pcs, Outcome, Results
  <2>5. Becomes(c, s)
    BY <2>2, CallersTyped DEF Becomes
  <2> HIDE DEF s
  <2> QED
    BY <1>1, <2>4, <2>5, SameNet, NothingClaimed, StagesFollow
<1>3. CASE ~caller[c].dry
  <2>1. PICK target \in Ifaces, pc \in {"router", "check"} :
          /\ Becomes(c, [caller[c] EXCEPT !.pc = pc, !.target = target])
          /\ pc = "router" => Done(net[target])
    BY <1>3, Looks
  <2> DEFINE s == [caller[c] EXCEPT !.pc = pc, !.target = target]
  <2>2. s \in CallerState /\ s.pc = pc /\ s.target = target
    BY CallersTyped DEF CallerState, Pcs, Locked
  <2>3. Becomes(c, s)
    BY <2>1
  <2> HIDE DEF s
  <2>4. Real(s, net')
    <3>1. CASE pc = "router"
      BY <1>1, <2>1, <2>2, <3>1 DEF Real, Done, Configured, Serves
    <3>2. CASE pc = "check"
      BY <2>2, <3>2, NothingClaimed
    <3> QED
      BY <3>1, <3>2
  <2> QED
    BY <1>1, <2>2, <2>3, <2>4, SameNet, StagesFollow
<1> QED
  BY <1>2, <1>3

LEMMA ApplyStages ==
  ASSUME EnsureInv, Stages, NEW c \in Callers,
         \/ Check(c) \/ CheckMisled(c) \/ Create(c) \/ Up(c) \/ Show(c) \/ ShowsNothing(c)
         \/ Add(c) \/ Router(c) \/ RouterMissed(c)
  PROVE  Stages'
<1> USE DEF At, Locked
<1> DEFINE i == caller[c].target
           s(pc) == [caller[c] EXCEPT !.pc = pc]
<1>0. quiet[c] => Real(caller[c], net)
  BY DEF Stages
<1>1. \A pc \in Locked : s(pc).pc = pc /\ s(pc).target = i
  BY ClaimAt
<1> HIDE DEF s
<1>2. CASE Check(c) \/ CheckMisled(c)
  <2>1. PICK pc \in {"up", "create"} : Go(c, pc) /\ (pc = "up" => net[i].exists)
    BY <1>2 DEF Check, CheckMisled, Target
  <2>2. Real(s(pc), net)
    BY <1>1, <2>1 DEF Real
  <2> QED
    BY <1>2, <2>1, <2>2, SameNet, GoingOn DEF Check, CheckMisled, s
<1>3. CASE Create(c)
  <2>1. Real(s("up"), net')
    BY <1>1, <1>3, CreateGrows DEF Real
  <2> QED
    BY <1>3, <2>1, CreateGrows, GoingOn DEF Create, s
<1>4. CASE Up(c)
  <2>1. Real(s("show"), net')
    BY <1>1, <1>4, UpGrows DEF Real
  <2> QED
    BY <1>4, <2>1, UpGrows, GoingOn DEF Up, s
<1>5. CASE Show(c) \/ ShowsNothing(c)
  <2>1. PICK pc \in {"router", "add"} : Go(c, pc) /\ (pc = "router" => Serves(net[i]))
    BY <1>5 DEF Show, ShowsNothing, Shows, Serves, Target
  <2>2. quiet[c] => Real(s(pc), net)
    BY <1>0, <1>1, <1>5, <2>1 DEF Real, Configured, Show, ShowsNothing
  <2> QED
    BY <1>5, <2>1, <2>2, SameNet, GoingOn DEF Show, ShowsNothing, s
<1>6. CASE Add(c)
  <2>1. i \in Ifaces
    BY CallersTyped DEF CallerState
  <2>2. quiet[c] => Real(s("router"), net')
    BY <1>0, <1>1, <1>6, <2>1, AddGrows DEF Real, Configured, Add, NetGrows
  <2> QED
    BY <1>6, <2>2, AddGrows, GoingOn DEF Add, s
<1>7. CASE Router(c) \/ RouterMissed(c)
  <2>1. quiet[c] => Real(s("order"), net)
    BY <1>0, <1>1, <1>7 DEF Real, Router, RouterMissed
  <2> QED
    BY <1>7, <2>1, SameNet, GoingOn DEF Router, RouterMissed, s
<1> QED
  BY <1>2, <1>3, <1>4, <1>5, <1>6, <1>7

\* An ensure that came through has found or made its target configured.
LEMMA ReportStages ==
  ASSUME EnsureInv, Stages, NEW c \in Callers, caller[c].pc \in {"router", "order"},
         Report(c), UNCHANGED <<net, quiet>>
  PROVE  Stages'
<1>1. PICK outcome \in Outcome : Leave(c, outcome)
  BY DEF Report
<1> DEFINE s == [caller[c] EXCEPT !.pc = "idle", !.result = outcome]
<1>2. outcome \in Results
  BY DEF Outcome, Results
<1>3. s \in CallerState /\ s.pc = "idle" /\ s.target = caller[c].target
  BY <1>2, CallersTyped DEF CallerState, Pcs
<1>4. Becomes(c, s)
  BY <1>1, <1>2, Leaves
<1> HIDE DEF s
<1>5. quiet[c] => Real(s, net)
  BY <1>3 DEF Stages, Real
<1> QED
  BY <1>3, <1>4, <1>5, SameNet, StagesFollow

LEMMA StepStages ==
  ASSUME EnsureInv, Stages, NEW c \in Callers, EnsureStep(c)
  PROVE  Stages'
<1>1. CASE Acquire(c)
  <2> DEFINE s == [caller[c] EXCEPT !.pc = "observe"]
  <2>1. s \in CallerState /\ s.pc = "observe"
    BY CallersTyped DEF CallerState, Pcs, Locked
  <2>2. Becomes(c, s)
    BY <1>1, CallersTyped DEF Acquire, Go, Becomes
  <2> HIDE DEF s
  <2> QED
    BY <1>1, <2>1, <2>2, SameNet, NothingClaimed, StagesFollow DEF Acquire
<1>2. CASE Unconfigured(c) \/ LockBusy(c) \/ Unresolved(c) \/ CommandFails(c)
  <2>1. {"usage", "failed"} \subseteq Results \ Outcome
    BY DEF Results, Outcome
  <2> QED
    BY <1>2, <2>1, FailuresClaimNothing DEF Unconfigured, LockBusy, Unresolved, CommandFails
<1>3. CASE Observe(c) \/ Misread(c)
  <2>1. Existing \in SUBSET Ifaces /\ {} \in SUBSET Ifaces
    BY DEF Existing
  <2> QED
    BY <1>3, <2>1, LookStages DEF Observe, Misread
<1>4. CASE RouterDenied(c) \/ Order(c) \/ OrderMissed(c)
  BY <1>4, ReportStages DEF RouterDenied, Order, OrderMissed, At
<1> QED
  BY <1>1, <1>2, <1>3, <1>4, ApplyStages DEF EnsureStep, Succeeds, Fails

LEMMA StagesStart == Init => Stages
  BY DEF Init, Stages

LEMMA StagesKept == EnsureInv /\ Stages /\ [Next]_vars => Stages'
<1> SUFFICES ASSUME EnsureInv, Stages, [Next]_vars PROVE Stages'
  OBVIOUS
<1>1. CASE UNCHANGED vars
  BY <1>1 DEF vars, Stages
<1>2. ASSUME NEW c \in Callers, NEW dry \in BOOLEAN, Begin(c, dry) PROVE Stages'
  <2> DEFINE s == [caller[c] EXCEPT !.pc = "wait", !.dry = dry, !.result = "none"]
  <2>1. s \in CallerState /\ s.pc = "wait"
    BY CallersTyped DEF CallerState, Pcs, Results
  <2>2. Becomes(c, s)
    BY <1>2, Begins
  <2> HIDE DEF s
  <2> QED
    BY <1>2, <2>1, <2>2, SameNet, NothingClaimed, StagesFollow DEF Begin
<1>3. ASSUME NEW c \in Callers, EnsureStep(c) PROVE Stages'
  BY <1>3, StepStages
<1>4. ASSUME NEW c \in Callers, Dies(c) PROVE Stages'
  <2>1. "killed" \in Results \ Outcome
    BY DEF Results, Outcome
  <2> QED
    BY <1>4, <2>1, DeathsEnd, FailuresClaimNothing DEF Dies
<1>5. CASE IfaceChanges \/ PrefsChange
  BY <1>5 DEF IfaceChanges, PrefsChange, Disturbed, Stages
<1> QED
  BY <1>1, <1>2, <1>3, <1>4, <1>5 DEF Next

LEMMA StagesMeanReal == EnsureInv /\ Stages => SuccessIsReal
<1> SUFFICES ASSUME EnsureInv, Stages, NEW c \in Callers, caller[c].result \in {"ok", "degraded"},
                    ~caller[c].dry, quiet[c]
             PROVE  LET i == net[caller[c].target]
                    IN  i.exists /\ i.up /\ (Own \in i.addrs \/ i.addrs \cap Lookalike # {})
  BY DEF SuccessIsReal
<1>1. caller[c].pc = "idle"
  BY DEF EnsureInv, Holds
<1>2. Configured(net[caller[c].target])
  BY <1>1 DEF Stages, Real, Outcome
<1> QED
  BY <1>2 DEF Configured, Serves

(* What an ensure reports as done is there, for any number of callers that *)
(* run ensures of their own, fail and die, until somebody else touches the *)
(* network (or a lookalike address hides that its own is missing).         *)
THEOREM EnsureSuccessIsReal == Spec => []SuccessIsReal
<1>1. Init => EnsureInv /\ Stages
  BY EnsureStarts, StagesStart
<1>2. EnsureInv /\ Stages /\ [Next]_vars => (EnsureInv /\ Stages)'
  BY EnsureKept, StagesKept
<1> QED
  BY <1>1, <1>2, StagesMeanReal, PTL DEF Spec
=============================================================================
