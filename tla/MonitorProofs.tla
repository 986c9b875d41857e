---------------------------- MODULE MonitorProofs ----------------------------
(* What `status` and `monitor` show is so: the rates of the interfaces,    *)
(* the ports of the peers and the doctor's word on the pinned ids, for any *)
(* number of viewers, ports, peers and changes.                            *)
EXTENDS Monitor, TLAPS, FiniteSetTheorems, WellFoundedInduction

-----------------------------------------------------------------------------
(* The traffic cache.                                                      *)

\* A look at interface i: not from the future, and while the interface is the same,
\* what it had not counted then it has not counted now.
Look(i, s) ==
  /\ s.time <= now /\ s.made <= iface[i].made
  /\ s.made = iface[i].made => s.all - s.bytes = iface[i].all - iface[i].bytes

\* A saved look tells its time as long as the clock has not been set since.
SavedLook(i, s) ==
  /\ Look(i, s) /\ s.jumps <= jumps
  /\ s.jumps = jumps => s.wall - s.time = ahead

FileTrue(file) ==
  file # NoFile /\ file.state = "whole" => \A i \in DOMAIN file.rows : SavedLook(i, file.rows[i])

Counters == \A i \in Ifaces : iface[i].bytes <= iface[i].all /\ iface[i].all <= now

Looks ==
  \A v \in site.viewers :
    /\ \A i \in DOMAIN prev[v] : Look(i, prev[v][i]) /\ (prev[v][i].sure => prev[v][i].at = prev[v][i].time)
    /\ \A i \in DOMAIN payload[v] : SavedLook(i, payload[v][i])

TrafficTypes ==
  /\ TrafficTypeOK(site.viewers)
  /\ prev = [v \in site.viewers |-> prev[v]] /\ payload = [v \in site.viewers |-> payload[v]]

TrafficInv == TrafficTypes /\ Counters /\ Looks /\ FileTrue(cache) /\ FileTrue(temp)

LEMMA TrafficStarts == Init => TrafficInv
<1> SUFFICES ASSUME Init PROVE TrafficInv
  OBVIOUS
<1>1. TrafficTypes
  BY TrafficAssumption DEF Init, TrafficInit, TrafficTypes, TrafficTypeOK, IsText, Partial, Counter
<1>2. Counters /\ Looks
  BY DEF Init, TrafficInit, Counters, Looks
<1>3. FileTrue(cache) /\ FileTrue(temp)
  BY DEF Init, TrafficInit, FileTrue
<1> QED
  BY <1>1, <1>2, <1>3 DEF TrafficInv

\* Clocks and counters go forward, and a wall clock that was set is known to be set.
Onward ==
  /\ now \in 0..Horizon /\ now' \in 0..Horizon /\ now <= now'
  /\ ahead \in -MaxStep..MaxStep /\ ahead' \in -MaxStep..MaxStep
  /\ jumps \in Nat /\ jumps' \in Nat /\ jumps <= jumps' /\ (jumps' = jumps => ahead' = ahead)
  /\ iface' \in [Ifaces -> Counter]
  /\ \A i \in Ifaces :
       /\ iface'[i].bytes <= iface'[i].all /\ iface'[i].all <= now'
       /\ iface[i].made <= iface'[i].made
       /\ iface'[i].made = iface[i].made => iface'[i].all - iface'[i].bytes = iface[i].all - iface[i].bytes
  /\ UNCHANGED <<site, cache, temp, handle, prev, payload>>

LEMMA CounterFacts ==
  ASSUME TrafficInv
  PROVE  /\ now \in 0..Horizon /\ ahead \in -MaxStep..MaxStep /\ jumps \in Nat
         /\ iface \in [Ifaces -> Counter]
         /\ \A i \in Ifaces : iface[i].bytes <= iface[i].all /\ iface[i].all <= now
BY DEF TrafficInv, TrafficTypes, TrafficTypeOK, Counters

LEMMA TickOnward ==
  ASSUME TrafficInv, Tick, UNCHANGED site
  PROVE  Onward
<1>1. PICK busy \in SUBSET Ifaces :
        iface' = [i \in Ifaces |-> IF i \in busy THEN Counted(iface[i]) ELSE iface[i]]
  BY DEF Tick
<1>2. /\ now' = now + 1 /\ now' \in 0..Horizon /\ now \in 0..Horizon
      /\ UNCHANGED <<ahead, jumps, cache, temp, handle, prev, payload>>
  BY CounterFacts, TrafficAssumption DEF Tick
<1>3. ASSUME NEW i \in Ifaces
      PROVE  /\ iface'[i] \in Counter
             /\ iface'[i].bytes <= iface'[i].all /\ iface'[i].all <= now'
             /\ iface'[i].made = iface[i].made
             /\ iface'[i].all - iface'[i].bytes = iface[i].all - iface[i].bytes
  <2>1. /\ iface[i] \in Counter /\ iface[i].bytes <= iface[i].all /\ iface[i].all <= now
    BY CounterFacts
  <2>2. CASE i \in busy
    <3>1. iface'[i] = [bytes |-> iface[i].bytes + 1, all |-> iface[i].all + 1, made |-> iface[i].made]
      BY <1>1, <2>1, <2>2 DEF Counter, Counted
    <3> QED
      BY <1>2, <2>1, <3>1, TrafficAssumption DEF Counter
  <2>3. CASE i \notin busy
    <3>1. iface'[i] = iface[i]
      BY <1>1, <2>3
    <3> QED
      BY <1>2, <2>1, <3>1, TrafficAssumption DEF Counter
  <2> QED
    BY <2>2, <2>3
<1>4. iface' \in [Ifaces -> Counter] /\ \A i \in Ifaces : iface[i].made \in Int
  BY <1>1, <1>3, CounterFacts DEF Counter
<1> QED
  BY <1>2, <1>3, <1>4, CounterFacts DEF Onward

LEMMA JumpOnward ==
  ASSUME TrafficInv, WallJumps, UNCHANGED site
  PROVE  Onward
BY CounterFacts, TrafficAssumption DEF WallJumps, Onward, Counter

LEMMA RecreationOnward ==
  ASSUME TrafficInv, NEW j \in Ifaces, Recreated(j), UNCHANGED site
  PROVE  Onward
<1>1. iface \in [Ifaces -> Counter] /\ iface[j] \in Counter
  BY CounterFacts
<1>2. /\ iface'[j] = [bytes |-> 0, all |-> iface[j].all, made |-> iface[j].made + 1]
      /\ iface[j].made + 1 \in 0..Horizon
      /\ \A i \in Ifaces \ {j} : iface'[i] = iface[i]
      /\ DOMAIN iface' = Ifaces /\ iface' = [i \in Ifaces |-> iface'[i]]
  BY <1>1, TrafficAssumption DEF Recreated, Counter
<1>3. UNCHANGED <<now, ahead, jumps, cache, temp, handle, prev, payload>>
  BY DEF Recreated
<1>4. iface'[j] \in Counter /\ iface'[j].made = iface[j].made + 1 /\ iface'[j].bytes = 0
      /\ iface'[j].all = iface[j].all
  BY <1>1, <1>2, TrafficAssumption DEF Counter
<1>5. iface' \in [Ifaces -> Counter]
  BY <1>1, <1>2, <1>4
<1>6. ASSUME NEW i \in Ifaces
      PROVE  /\ iface'[i].bytes <= iface'[i].all /\ iface'[i].all <= now
             /\ iface[i].made <= iface'[i].made
             /\ iface'[i].made = iface[i].made => iface'[i].all - iface'[i].bytes = iface[i].all - iface[i].bytes
  <2>1. /\ iface[i].bytes \in Nat /\ iface[i].all \in Nat /\ iface[i].made \in Nat
        /\ iface[i].bytes <= iface[i].all /\ iface[i].all <= now
    BY CounterFacts, TrafficAssumption DEF Counter
  <2>2. CASE i = j
    BY <1>4, <2>1, <2>2
  <2>3. CASE i # j
    BY <1>2, <2>1, <2>3
  <2> QED
    BY <2>2, <2>3
<1> QED
  BY <1>3, <1>5, <1>6, CounterFacts, TrafficAssumption DEF Onward

(* A look stays true when time goes on, as do the counters.                *)
LEMMA OnwardKeeps ==
  ASSUME TrafficInv, Onward
  PROVE  TrafficInv'
<1>3. UNCHANGED <<site, cache, temp, handle, prev, payload>>
  BY DEF Onward
<1>4. TrafficTypes' /\ Counters'
  BY <1>3 DEF Onward, TrafficInv, TrafficTypes, TrafficTypeOK, IsText, Counters
<1>5. ASSUME NEW i \in Ifaces, NEW s, Look(i, s),
             s.time \in Int, s.made \in Int, s.all \in Int, s.bytes \in Int
      PROVE  Look(i, s)'
  <2>1. /\ now <= now' /\ now \in Int /\ now' \in Int
        /\ iface[i].made \in Int /\ iface'[i].made \in Int /\ iface[i].made <= iface'[i].made
        /\ iface'[i].made = iface[i].made => iface'[i].all - iface'[i].bytes = iface[i].all - iface[i].bytes
    BY CounterFacts DEF Onward, Counter
  <2> QED
    BY <1>5, <2>1 DEF Look
<1>6. ASSUME NEW i \in Ifaces, NEW s \in Saved, SavedLook(i, s) PROVE SavedLook(i, s)'
  <2>1. /\ s.time \in Int /\ s.made \in Int /\ s.all \in Int /\ s.bytes \in Int /\ s.jumps \in Nat
    BY TrafficAssumption DEF Saved
  <2>2. Look(i, s)'
    BY <1>5, <1>6, <2>1 DEF SavedLook
  <2> QED
    BY <1>6, <2>1, <2>2 DEF SavedLook, Onward
<1>7. Looks'
  <2>1. ASSUME NEW v \in site.viewers, NEW i \in DOMAIN prev[v]
        PROVE  Look(i, prev[v][i])' /\ (prev[v][i].sure => prev[v][i].at = prev[v][i].time)
    <3>1. i \in Ifaces /\ prev[v][i] \in Sample
      BY DEF TrafficInv, TrafficTypes, TrafficTypeOK, Partial
    <3>2. /\ Look(i, prev[v][i]) /\ (prev[v][i].sure => prev[v][i].at = prev[v][i].time)
      BY DEF TrafficInv, Looks
    <3> QED
      BY <1>3, <1>5, <3>1, <3>2 DEF Sample
  <2>2. ASSUME NEW v \in site.viewers, NEW i \in DOMAIN payload[v]
        PROVE  SavedLook(i, payload[v][i])'
    <3>1. i \in Ifaces /\ payload[v][i] \in Saved
      BY DEF TrafficInv, TrafficTypes, TrafficTypeOK, Partial
    <3>2. SavedLook(i, payload[v][i])
      BY DEF TrafficInv, Looks
    <3> QED
      BY <1>3, <1>6, <3>1, <3>2
  <2> QED
    BY <1>3, <2>1, <2>2 DEF Looks
<1>8. ASSUME NEW file, IsText(file), FileTrue(file) PROVE FileTrue(file)'
  BY <1>6, <1>8 DEF FileTrue, IsText, Partial, Empty, Garbled
<1> QED
  BY <1>3, <1>4, <1>7, <1>8 DEF TrafficInv, TrafficTypes, TrafficTypeOK

(* A new viewer recalls what was saved, or nothing.                        *)
LEMMA LoadsKeeps ==
  ASSUME TrafficInv, NEW v \in site.viewers, Loads(v), UNCHANGED site
  PROVE  TrafficInv'
<1>1. UNCHANGED <<site, now, ahead, jumps, iface, cache, temp, handle, payload>>
  BY DEF Loads
<1> DEFINE rows == IF cache = NoFile \/ cache.state # "whole" THEN <<>>
                   ELSE [i \in DOMAIN cache.rows |-> Recalled(cache.rows[i])]
<1>2. prev' = [prev EXCEPT ![v] = rows]
  BY DEF Loads
<1>3. /\ Partial(rows, Sample)
      /\ \A i \in DOMAIN rows : Look(i, rows[i]) /\ (rows[i].sure => rows[i].at = rows[i].time)
  <2>1. CASE cache = NoFile \/ cache.state # "whole"
    <3>1. rows = <<>>
      BY <2>1
    <3> HIDE DEF rows
    <3> QED
      BY <3>1 DEF Partial
  <2>2. CASE ~(cache = NoFile \/ cache.state # "whole")
    <3>1. cache.state = "whole" /\ Partial(cache.rows, Saved)
      BY <2>2 DEF TrafficInv, TrafficTypes, TrafficTypeOK, IsText, Empty, Garbled
    <3>2. /\ DOMAIN rows = DOMAIN cache.rows
          /\ \A i \in DOMAIN rows : rows[i] = Recalled(cache.rows[i])
      BY <2>2
    <3> HIDE DEF rows
    <3>3. ASSUME NEW i \in DOMAIN rows
          PROVE  /\ i \in Ifaces /\ rows[i] \in Sample
                 /\ Look(i, rows[i]) /\ (rows[i].sure => rows[i].at = rows[i].time)
      <4> DEFINE s == cache.rows[i]
      <4>1. i \in Ifaces /\ s \in Saved /\ SavedLook(i, s) /\ rows[i] = Recalled(s)
        BY <2>2, <3>1, <3>2 DEF Partial, TrafficInv, FileTrue
      <4> HIDE DEF s
      <4>2. /\ s.bytes \in 0..Horizon /\ s.all \in 0..Horizon /\ s.made \in 0..Horizon
            /\ s.time \in 0..Horizon /\ s.wall \in -MaxStep..Horizon + MaxStep /\ s.jumps \in Nat
        BY <4>1 DEF Saved
      <4>3. /\ rows[i].bytes = s.bytes /\ rows[i].all = s.all /\ rows[i].made = s.made
            /\ rows[i].time = s.time /\ rows[i].at = now - Age(s)
            /\ rows[i].sure = (s.jumps = jumps)
        BY <4>1 DEF Recalled
      <4>4. Look(i, rows[i])
        BY <4>1, <4>3 DEF SavedLook, Look
      <4>5. now - Age(s) \in -(Horizon + 2 * MaxStep)..Horizon
        BY <4>2, CounterFacts, TrafficAssumption DEF Age, Wall
      <4>6. s.jumps = jumps => now - Age(s) = s.time
        BY <4>1, <4>2, CounterFacts, TrafficAssumption DEF SavedLook, Look, Age, Wall
      <4>7. rows[i] \in Sample
        BY <4>1, <4>2, <4>3, <4>5 DEF Recalled, Sample
      <4> QED
        BY <4>1, <4>3, <4>4, <4>6, <4>7
    <3> QED
      BY <3>3 DEF Partial
  <2> QED
    BY <2>1, <2>2
<1> HIDE DEF rows
<1>4. DOMAIN prev = site.viewers /\ prev = [w \in site.viewers |-> prev[w]]
  BY DEF TrafficInv, TrafficTypes, TrafficTypeOK
<1>5. /\ prev' = [w \in site.viewers |-> IF w = v THEN rows ELSE prev[w]]
      /\ prev'[v] = rows /\ \A w \in site.viewers \ {v} : prev'[w] = prev[w]
  BY <1>2, <1>4
<1>6. TrafficTypes'
  BY <1>1, <1>3, <1>5 DEF TrafficInv, TrafficTypes, TrafficTypeOK, IsText
<1>7. Looks'
  BY <1>1, <1>3, <1>5 DEF TrafficInv, Looks, Look, SavedLook
<1> QED
  BY <1>1, <1>6, <1>7 DEF TrafficInv, Counters, FileTrue, SavedLook, Look

(* A look at the interfaces is true, and so is what will be saved of it.   *)
LEMMA ObservesKeeps ==
  ASSUME TrafficInv, NEW v \in site.viewers, NEW listed \in SUBSET Ifaces,
         Observes(v, listed), UNCHANGED site
  PROVE  TrafficInv'
<1>1. UNCHANGED <<site, now, ahead, jumps, iface, cache, temp, handle>>
  BY DEF Observes
<1> DEFINE seen(i) == [bytes |-> iface[i].bytes, all |-> iface[i].all, made |-> iface[i].made,
                       time |-> now, at |-> now, sure |-> TRUE]
           kept(i) == [bytes |-> iface[i].bytes, all |-> iface[i].all, made |-> iface[i].made,
                       time |-> now, wall |-> Wall, jumps |-> jumps]
<1>2. /\ prev' = [prev EXCEPT ![v] = [i \in listed |-> seen(i)]]
      /\ payload' = [payload EXCEPT ![v] = [i \in listed |-> kept(i)]]
  BY DEF Observes
<1>3. ASSUME NEW i \in listed
      PROVE  /\ seen(i) \in Sample /\ Look(i, seen(i)) /\ seen(i).at = seen(i).time
             /\ kept(i) \in Saved /\ SavedLook(i, kept(i))
  <2>1. /\ iface[i].bytes \in 0..Horizon /\ iface[i].all \in 0..Horizon /\ iface[i].made \in 0..Horizon
        /\ now \in 0..Horizon /\ now \in -(Horizon + 2 * MaxStep)..Horizon
        /\ Wall \in -MaxStep..Horizon + MaxStep /\ jumps \in Nat /\ Wall - now = ahead
    BY CounterFacts, TrafficAssumption DEF Counter, Wall
  <2> QED
    BY <2>1, TrafficAssumption DEF Sample, Saved, Look, SavedLook
<1> HIDE DEF seen, kept
<1>4. /\ prev = [w \in site.viewers |-> prev[w]] /\ payload = [w \in site.viewers |-> payload[w]]
  BY DEF TrafficInv, TrafficTypes
<1>5. /\ prev' = [w \in site.viewers |-> IF w = v THEN [i \in listed |-> seen(i)] ELSE prev[w]]
      /\ payload' = [w \in site.viewers |-> IF w = v THEN [i \in listed |-> kept(i)] ELSE payload[w]]
  BY <1>2, <1>4
<1>6. Partial([i \in listed |-> seen(i)], Sample) /\ Partial([i \in listed |-> kept(i)], Saved)
  BY <1>3 DEF Partial
<1>7. TrafficTypes'
  BY <1>1, <1>5, <1>6 DEF TrafficInv, TrafficTypes, TrafficTypeOK, IsText
<1>8. Looks'
  BY <1>1, <1>3, <1>5 DEF TrafficInv, Looks, Look, SavedLook
<1> QED
  BY <1>1, <1>7, <1>8 DEF TrafficInv, Counters, FileTrue, SavedLook, Look

(* Whatever two writers make of the files: whole texts are true.           *)
LEMMA FilesKeep ==
  ASSUME TrafficInv, UNCHANGED <<site, now, ahead, jumps, iface, prev>>,
         IsText(cache'), IsText(temp'),
         FileTrue(cache'), FileTrue(temp'),
         handle' \in [site.viewers -> {"none", "temp", "cache", "gone"}],
         \/ UNCHANGED payload
         \/ \E v \in site.viewers : payload' = [payload EXCEPT ![v] = <<>>]
  PROVE  TrafficInv'
<1>1. /\ payload' = [w \in site.viewers |-> payload'[w]]
      /\ \A w \in site.viewers : payload'[w] = payload[w] \/ payload'[w] = <<>>
  BY DEF TrafficInv, TrafficTypes
<1>2. DOMAIN payload' = site.viewers
  BY <1>1
<1>5. ASSUME NEW w \in site.viewers
      PROVE  /\ Partial(payload'[w], Saved)
             /\ \A i \in DOMAIN payload'[w] : SavedLook(i, payload'[w][i])
  <2>1. CASE payload'[w] = payload[w]
    BY <2>1 DEF TrafficInv, TrafficTypes, TrafficTypeOK, Looks
  <2>2. CASE payload'[w] = <<>>
    BY <2>2 DEF Partial
  <2> QED
    BY <1>1, <2>1, <2>2
<1>3. TrafficTypes'
  BY <1>1, <1>2, <1>5 DEF TrafficInv, TrafficTypes, TrafficTypeOK, IsText
<1>4. Looks'
  BY <1>5 DEF TrafficInv, Looks, Look, SavedLook
<1> QED
  BY <1>3, <1>4 DEF TrafficInv, Counters, FileTrue, SavedLook, Look

(* An empty file tells nothing, an overwritten one is whole or garbled.    *)
LEMMA TextFacts ==
  ASSUME TrafficInv
  PROVE  /\ \A file \in {NoFile, Empty, Garbled} : IsText(file) /\ FileTrue(file)
         /\ \A v \in site.viewers : \A file : \A text \in Filled(file, v) :
              IsText(text) /\ FileTrue(text)
         /\ IsText(cache) /\ IsText(temp) /\ FileTrue(cache) /\ FileTrue(temp)
         /\ handle \in [site.viewers -> {"none", "temp", "cache", "gone"}]
<1>1. \A v \in site.viewers : IsText(Text(payload[v])) /\ FileTrue(Text(payload[v]))
  BY DEF TrafficInv, TrafficTypes, TrafficTypeOK, IsText, Text, FileTrue, Looks
<1>2. \A file \in {NoFile, Empty, Garbled} : IsText(file) /\ FileTrue(file)
  BY DEF IsText, FileTrue, Empty, Garbled
<1> QED
  BY <1>1, <1>2 DEF Filled, TrafficInv, TrafficTypes, TrafficTypeOK

(* Opening, filling and renaming the temporary file, in any interleaving.  *)
LEMMA SavesKeep ==
  ASSUME TrafficInv, NEW v \in site.viewers, Opens(v) \/ Fills(v) \/ Replaces(v), UNCHANGED site
  PROVE  TrafficInv'
<1>1. CASE Opens(v)
  BY <1>1, TextFacts, FilesKeep DEF Opens
<1>2. CASE Fills(v)
  <2>1. /\ IsText(temp') /\ FileTrue(temp') /\ IsText(cache') /\ FileTrue(cache')
    BY <1>2, TextFacts DEF Fills
  <2> QED
    BY <1>2, <2>1, TextFacts, FilesKeep DEF Fills
<1>3. CASE Replaces(v)
  <2>1. Renamed \in [site.viewers -> {"none", "temp", "cache", "gone"}]
    BY TextFacts DEF Renamed
  <2>2. /\ IsText(temp') /\ FileTrue(temp') /\ IsText(cache') /\ FileTrue(cache')
        /\ handle' \in [site.viewers -> {"none", "temp", "cache", "gone"}]
    BY <1>3, <2>1, TextFacts DEF Replaces
  <2> QED
    BY <1>3, <2>2, FilesKeep DEF Replaces
<1> QED
  BY <1>1, <1>2, <1>3

(* A viewer that ends, or gives up saving, takes nothing along.            *)
LEMMA ClosesKeeps ==
  ASSUME TrafficInv, NEW v \in site.viewers, UNCHANGED <<site, now, ahead, jumps, iface, cache, temp>>,
         handle' = [handle EXCEPT ![v] = "none"], payload' = [payload EXCEPT ![v] = <<>>],
         prev' = prev \/ prev' = [prev EXCEPT ![v] = <<>>]
  PROVE  TrafficInv'
<1>1. handle' \in [site.viewers -> {"none", "temp", "cache", "gone"}]
  BY TextFacts
<1>2. CASE prev' = prev
  BY <1>1, <1>2, TextFacts, FilesKeep
<1>3. CASE prev' = [prev EXCEPT ![v] = <<>>]
  <2>1. /\ prev = [w \in site.viewers |-> prev[w]] /\ payload = [w \in site.viewers |-> payload[w]]
    BY DEF TrafficInv, TrafficTypes
  <2>2. /\ prev' = [w \in site.viewers |-> IF w = v THEN <<>> ELSE prev[w]]
        /\ payload' = [w \in site.viewers |-> IF w = v THEN <<>> ELSE payload[w]]
    BY <1>3, <2>1
  <2>3. Partial(<<>>, Sample) /\ Partial(<<>>, Saved)
    BY DEF Partial
  <2>4. TrafficTypes'
    BY <1>1, <2>2, <2>3 DEF TrafficInv, TrafficTypes, TrafficTypeOK, IsText
  <2>5. ASSUME NEW w \in site.viewers
        PROVE  /\ \A i \in DOMAIN prev'[w] :
                    Look(i, prev'[w][i]) /\ (prev'[w][i].sure => prev'[w][i].at = prev'[w][i].time)
               /\ \A i \in DOMAIN payload'[w] : SavedLook(i, payload'[w][i])
    <3>1. CASE w = v
      BY <2>2, <3>1
    <3>2. CASE w # v
      BY <2>2, <3>2 DEF TrafficInv, Looks
    <3> QED
      BY <3>1, <3>2
  <2>6. Looks'
    BY <2>5 DEF Looks, Look, SavedLook
  <2> QED
    BY <2>4, <2>6 DEF TrafficInv, Counters, FileTrue, SavedLook, Look
<1> QED
  BY <1>2, <1>3

(* The rate shown is real: the cached look took place when it says, and    *)
(* what the counter of the same interface gained since is what went by.    *)
LEMMA TrueLooksRate == TrafficInv => RateReal
<1> SUFFICES ASSUME TrafficInv PROVE RateReal
  OBVIOUS
<1>1. ASSUME NEW v \in DOMAIN prev, NEW i \in DOMAIN prev[v],
             prev[v][i].sure, iface[i].made = prev[v][i].made
      PROVE  /\ iface[i].bytes - prev[v][i].bytes = iface[i].all - prev[v][i].all
             /\ now - prev[v][i].at = now - prev[v][i].time
  <2>1. v \in site.viewers /\ i \in Ifaces /\ prev[v][i] \in Sample
    BY DEF TrafficInv, TrafficTypes, TrafficTypeOK, Partial
  <2>2. /\ iface[i].bytes \in Int /\ iface[i].all \in Int
        /\ prev[v][i].bytes \in Int /\ prev[v][i].all \in Int
    BY <2>1, CounterFacts, TrafficAssumption DEF Counter, Sample
  <2>3. Look(i, prev[v][i]) /\ prev[v][i].at = prev[v][i].time
    BY <1>1, <2>1 DEF TrafficInv, Looks
  <2> QED
    BY <1>1, <2>2, <2>3 DEF Look
<1> QED
  BY <1>1 DEF RateReal

-----------------------------------------------------------------------------
(* Smallest and largest numbers.                                           *)

LEMMA SmallestIsIn ==
  ASSUME NEW S \in SUBSET Nat, S # {}
  PROVE  Min(S) \in S /\ \A y \in S : Min(S) <= y
<1> DEFINE less == {ss \in Nat \X Nat : ss[1] < ss[2]}
<1>3. IsWellFoundedOn(less, Nat)
  BY NatLessThanWellFounded, Zenon DEF OpToRel
<1>4. \A x, y \in Nat : <<y, x>> \notin less => x <= y
  OBVIOUS
<1> HIDE DEF less
<1>1. PICK x \in S : \A y \in S : <<y, x>> \notin less
  BY <1>3, WFMin, Zenon
<1>2. \A y \in S : x <= y
  BY <1>1, <1>4
<1> QED
  BY <1>2 DEF Min

LEMMA LargestIsIn ==
  ASSUME NEW S \in SUBSET Nat, S # {}, IsFiniteSet(S)
  PROVE  Max(S) \in S /\ \A y \in S : y <= Max(S)
<1> DEFINE Above(x) == {y \in S : x < y}
           Counts == {Cardinality(Above(x)) : x \in S}
<1>1. \A x \in S : IsFiniteSet(Above(x)) /\ Cardinality(Above(x)) \in Nat
  BY FS_Subset, FS_CardinalityType
<1>2. Counts \in SUBSET Nat /\ Counts # {}
  BY <1>1
<1>3. PICK x \in S : \A y \in S : Cardinality(Above(x)) <= Cardinality(Above(y))
  <2> HIDE DEF Above
  <2>1. Min(Counts) \in Counts /\ \A k \in Counts : Min(Counts) <= k
    BY <1>2, SmallestIsIn
  <2> QED
    BY <2>1
<1>4. ASSUME NEW y \in S, x < y PROVE FALSE
  <2>1. Above(y) \in SUBSET Above(x)
    <3>1. \A z \in S : y < z => x < z
      BY <1>4
    <3> QED
      BY <3>1, Zenon
  <2>2. y \in Above(x) /\ y \notin Above(y)
    BY <1>4
  <2>3. Cardinality(Above(y)) <= Cardinality(Above(x)) /\ Cardinality(Above(y)) # Cardinality(Above(x))
    BY <1>1, <2>1, <2>2, FS_Subset
  <2> QED
    BY <1>1, <1>3, <2>3
<1>5. \A y \in S : x >= y
  BY <1>4
<1> QED
  BY <1>5 DEF Max

(* The best rate of a peer's ports is that of one of them, and none's is   *)
(* better.                                                                 *)
LEMMA BestRate ==
  ASSUME NEW ports, IsFiniteSet(ports), \A p \in ports : p.rate \in Nat
  PROVE  /\ Rate(ports) \in Nat
         /\ Rate(ports) # 0 => \E p \in ports : Rate(ports) = p.rate
         /\ \A p \in ports : p.rate <= Rate(ports)
<1> DEFINE rates == {p.rate : p \in ports}
           rated == {0} \cup rates
           rateOf == [p \in ports |-> p.rate]
<1>1. IsFiniteSet(rates)
  <2>1. rateOf \in Surjection(ports, rates)
    BY DEF Surjection
  <2> QED
    BY <2>1, FS_Surjection
<1>2. rated \in SUBSET Nat /\ rated # {} /\ IsFiniteSet(rated)
  BY <1>1, FS_AddElement
<1>3. Rate(ports) = Max(rated)
  BY DEF Rate
<1>4. Max(rated) \in rated /\ \A k \in rated : k <= Max(rated)
  <2> HIDE DEF rated
  <2> QED
    BY <1>2, LargestIsIn
<1> QED
  BY <1>2, <1>3, <1>4

-----------------------------------------------------------------------------
(* Cables, Macs and cluster.toml.                                          *)

\* What cluster.toml says of node m: nothing, or the ids of one of its starts, where
\* the controller UID may be missing.
Pinned(m, ids) ==
  \/ ids = Unpinned
  \/ \E k \in Nat : \E j \in Nat :
       /\ ids.uuids = {<<m, k, j>>}
       /\ ids.uids = {} \/ ids.uids = {<<m, k>>}

Ids == [uids : SUBSET (site.nodes \X Nat), uuids : SUBSET (site.nodes \X Nat \X Nat)]
Entries == {t \in [site.nodes -> Ids] : \A m \in site.nodes : Pinned(m, t[m])}

WorldInv ==
  /\ site \in Sites
  /\ cable \in [Ports -> site.devices \cup {Unknown}]
  /\ body \in [site.nodes -> Nat \X Nat]
  /\ toml \in [site.nodes -> Entries]
  /\ ways \in [Peers -> SUBSET {"ping", "tcp", "ssh"}]
  /\ unrest \in 0..site.unrest

LEMMA WorldStarts == Init => WorldInv
<1> SUFFICES ASSUME Init PROVE WorldInv
  OBVIOUS
<1>1. site \in Sites /\ site.unrest \in Nat /\ site.nodes \subseteq Nodes
  BY MonitorAssumption DEF Init
<1>2. cable \in [Ports -> site.devices \cup {Unknown}]
  BY <1>1, MonitorAssumption DEF Init, Ports
<1>3. body \in [site.nodes -> Nat \X Nat]
  BY DEF Init
<1>4. toml \in [site.nodes -> Entries]
  <2> DEFINE first == [m \in site.nodes |->
               IF m \in site.pinned THEN [uids |-> {<<m, 0>>}, uuids |-> {<<m, 0, 0>>}] ELSE Unpinned]
  <2>1. ASSUME NEW m \in site.nodes PROVE first[m] \in Ids /\ Pinned(m, first[m])
    BY DEF Ids, Pinned, Unpinned
  <2>2. first \in [site.nodes -> Ids]
    BY <2>1
  <2> QED
    BY <2>1, <2>2 DEF Init, Entries
<1>5. ways \in [Peers -> SUBSET {"ping", "tcp", "ssh"}]
  BY DEF Init
<1>6. unrest \in 0..site.unrest
  BY <1>1 DEF Init
<1> QED
  BY <1>1, <1>2, <1>3, <1>4, <1>5, <1>6 DEF WorldInv

\* Something has changed at a port or in the cluster, and no viewer had a part in it.
WorldMoves ==
  \/ Recabled \/ WaysChange
  \/ \E n \in site.nodes : Reboots(n) \/ Replaced(n) \/ Refreshes(n)
  \/ \E a, b \in site.nodes : Carried(a, b)

LEMMA LiveIds ==
  ASSUME WorldInv, NEW n \in site.nodes, NEW ids \in Found(n)
  PROVE  ids \in Ids /\ Pinned(n, ids)
<1>1. body[n][1] \in Nat /\ body[n][2] \in Nat
  BY DEF WorldInv
<1>2. Uid(n) = <<n, body[n][1]>> /\ Uuid(n) = <<n, body[n][1], body[n][2]>>
  BY DEF Uid, Uuid
<1>3. /\ ids.uuids = {Uuid(n)} /\ (ids.uids = {} \/ ids.uids = {Uid(n)})
      /\ ids = [uids |-> ids.uids, uuids |-> ids.uuids]
  BY DEF Found, Live
<1>4. ids \in Ids
  BY <1>1, <1>2, <1>3 DEF Ids
<1> QED
  BY <1>1, <1>2, <1>3, <1>4 DEF Pinned

LEMMA WorldKeeps ==
  ASSUME WorldInv, WorldMoves
  PROVE  WorldInv' /\ UNCHANGED <<trafficVars, site, view>> /\ still' = [v \in site.viewers |-> FALSE]
<1>1. /\ UNCHANGED <<trafficVars, site, view>> /\ still' = [v \in site.viewers |-> FALSE]
      /\ unrest < site.unrest /\ unrest' = unrest + 1
  BY DEF WorldMoves, Recabled, WaysChange, Reboots, Replaced, Refreshes, Carried, LinksOnly, NoTraffic, Disturbed
<1>2. site' \in Sites /\ unrest' \in 0..site.unrest
  BY <1>1, MonitorAssumption DEF WorldInv
<1>3. CASE Recabled
  <2>1. cable' \in [Ports -> site.devices \cup {Unknown}] /\ UNCHANGED <<body, toml, ways>>
    BY <1>3 DEF Recabled, WorldInv
  <2> QED
    BY <1>1, <1>2, <2>1 DEF WorldInv, Ports, Peers, Entries, Ids
<1>4. CASE WaysChange
  <2>1. ways' \in [Peers -> SUBSET {"ping", "tcp", "ssh"}] /\ UNCHANGED <<body, toml, cable>>
    BY <1>4 DEF WaysChange, WorldInv
  <2> QED
    BY <1>1, <1>2, <2>1 DEF WorldInv, Ports, Peers, Entries, Ids
<1>5. ASSUME NEW n \in site.nodes, Reboots(n) \/ Replaced(n)
      PROVE  WorldInv'
  <2>1. PICK k \in Nat, j \in Nat : body[n] = <<k, j>>
    BY DEF WorldInv
  <2>2. body' = [body EXCEPT ![n] = <<k, j + 1>>] \/ body' = [body EXCEPT ![n] = <<k + 1, 0>>]
    BY <1>5, <2>1 DEF Reboots, Replaced
  <2>3. body' \in [site.nodes -> Nat \X Nat] /\ UNCHANGED <<cable, toml, ways>>
    BY <1>5, <2>2 DEF WorldInv, Reboots, Replaced
  <2> QED
    BY <1>1, <1>2, <2>3 DEF WorldInv, Ports, Peers, Entries, Ids
<1>6. ASSUME NEW n \in site.nodes, Refreshes(n)
      PROVE  WorldInv'
  <2>1. PICK ids \in Found(n) : toml' = [toml EXCEPT ![n][n] = ids]
    BY <1>6 DEF Refreshes
  <2>2. ids \in Ids /\ Pinned(n, ids)
    BY LiveIds
  <2>3. [toml[n] EXCEPT ![n] = ids] \in Entries
    BY <2>2 DEF WorldInv, Entries
  <2>4. toml' \in [site.nodes -> Entries] /\ UNCHANGED <<cable, body, ways>>
    BY <1>6, <2>1, <2>3 DEF WorldInv, Refreshes
  <2> QED
    BY <1>1, <1>2, <2>4 DEF WorldInv, Ports, Peers, Entries, Ids
<1>7. ASSUME NEW a \in site.nodes, NEW b \in site.nodes, Carried(a, b)
      PROVE  WorldInv'
  <2>1. toml' \in [site.nodes -> Entries] /\ UNCHANGED <<cable, body, ways>>
    BY <1>7 DEF WorldInv, Carried
  <2> QED
    BY <1>1, <1>2, <2>1 DEF WorldInv, Ports, Peers, Entries, Ids
<1> QED
  BY <1>1, <1>3, <1>4, <1>5, <1>6, <1>7 DEF WorldMoves

(* The doctor: ids of one start tell a restart from other hardware.        *)
LEMMA PinnedTells == WorldInv => DoctorTells
<1> SUFFICES ASSUME WorldInv PROVE DoctorTells
  OBVIOUS
<1> DEFINE entry   == toml[Me][Me]
           verdict == Verdict(entry, Live(Me))
           mine    == {u \in entry.uuids : u[1] = Me /\ u[2] = body[Me][1]}
<1>1. Me \in site.nodes
  BY MonitorAssumption DEF WorldInv
<1>2. Pinned(Me, entry)
  BY <1>1 DEF WorldInv, Entries
<1>3. Live(Me).uids = {<<Me, body[Me][1]>>} /\ Live(Me).uuids = {Uuid(Me)}
  BY <1>1 DEF Live, Uid
<1>4. verdict = "current" => Uuid(Me) \in entry.uuids
  BY <1>3 DEF Verdict
<1>5. verdict = "stale" => mine # {} /\ Uuid(Me) \notin entry.uuids
  BY <1>2, <1>3 DEF Verdict, Pinned, Unpinned
<1>6. verdict = "mismatch" => mine = {}
  BY <1>2, <1>3 DEF Verdict, Pinned, Unpinned
<1> QED
  BY <1>4, <1>5, <1>6 DEF DoctorTells

-----------------------------------------------------------------------------
(* What a viewer has seen.                                                 *)

KnownOf(t) ==
  [n \in site.nodes |-> [uids |-> t[n].uids, uuids |-> t[n].uuids, names |-> site.hosts[n]]]

ShownPorts ==
  [at : Ports, rate : Nat, mac : BOOLEAN,
   uid : {Unknown} \cup (site.devices \X Nat), uuid : {Unknown} \cup (site.devices \X Nat \X Nat),
   name : {Unknown} \cup {site.name[d] : d \in site.devices}]

Views ==
  [pc : Steps, known : {<<>>} \cup {KnownOf(t) : t \in Entries}, ports : SUBSET ShownPorts,
   todo : SUBSET Peers, up : SUBSET Peers,
   rows : {<<>>} \cup [Peers -> [link : BOOLEAN, rate : Nat, up : BOOLEAN]],
   exit : {0, 3}, mesh : {"single", "ok", "isolated", "partial"}]

Links == SUBSET (Ports \X (site.devices \cup {Unknown}))

\* What is said of a port is said of the device d.
Tells(p, d) ==
  /\ p.rate \in {0, site.rate[p.at]}
  /\ p.mac => d \in site.nodes \cup site.macs
  /\ p.uid # Unknown => p.uid[1] = d
  /\ p.uuid # Unknown => p.uuid[1] = d
  /\ p.name # Unknown => p.name = site.name[d]

\* Every port was in use when it was looked at, by the device that it tells of.
PortsSeen(s, links) ==
  \A p \in s.ports : \E d \in site.devices : <<p.at, d>> \in links /\ Tells(p, d)

SeenTrue(s, links, quiet) ==
  /\ s.pc # "idle" => AtPorts \subseteq links /\ \E t \in Entries : s.known = KnownOf(t)
  /\ s.pc # "idle" /\ quiet => s.known = KnownOf(toml[Me])
  /\ IsFiniteSet(s.ports) /\ PortsSeen(s, links)
  /\ s.todo \cap s.up = {}
  /\ s.pc = "shown" => s.todo = {} /\ s.rows = [n \in Peers |-> Row(s, n)]

ViewInv ==
  /\ view \in [site.viewers -> Views]
  /\ linked \in [site.viewers -> Links] /\ still \in [site.viewers -> BOOLEAN]
  /\ \A v \in site.viewers : SeenTrue(view[v], linked[v], still[v])
  /\ \A v \in site.viewers : handle[v] # "none" => view[v].pc = "fill"

LEMMA NoViewTrue ==
  ASSUME NEW links, NEW quiet
  PROVE  NoView \in Views /\ SeenTrue(NoView, links, quiet)
<1>1. NoView \in Views
  BY DEF NoView, Views, Steps
<1> QED
  BY <1>1, FS_EmptySet DEF NoView, SeenTrue, PortsSeen

LEMMA ViewStarts == Init => ViewInv
<1> SUFFICES ASSUME Init PROVE ViewInv
  OBVIOUS
<1>1. view \in [site.viewers -> Views] /\ \A v \in site.viewers : SeenTrue(view[v], linked[v], still[v])
  BY NoViewTrue DEF Init
<1>2. linked \in [site.viewers -> Links] /\ still \in [site.viewers -> BOOLEAN]
  BY DEF Init, Links
<1> QED
  BY <1>1, <1>2 DEF Init, TrafficInit, ViewInv

(* What was seen is not affected by traffic.                               *)
LEMMA SeenStays ==
  ASSUME NEW s, NEW links, NEW quiet, SeenTrue(s, links, quiet), UNCHANGED <<site, cable, toml>>
  PROVE  SeenTrue(s, links, quiet)'
<1>1. AtPorts' = AtPorts /\ Peers' = Peers /\ Entries' = Entries /\ toml'[Me] = toml[Me]
  BY DEF AtPorts, Ports, Peers, Entries, Ids
<1>2. ASSUME NEW t PROVE KnownOf(t)' = KnownOf(t)
  BY DEF KnownOf
<1>3. KnownOf(toml[Me])' = KnownOf(toml[Me])
  BY DEF KnownOf
<1>4. ASSUME NEW n PROVE Row(s, n)' = Row(s, n)
  BY DEF Row, Peers
<1>5. [n \in Peers |-> Row(s, n)]' = [n \in Peers |-> Row(s, n)]
  BY <1>1, <1>4
<1>6. PortsSeen(s, links)' = PortsSeen(s, links)
  BY DEF PortsSeen, Tells
<1> QED
  BY <1>1, <1>2, <1>3, <1>5, <1>6 DEF SeenTrue

LEMMA OthersSeeTheSame ==
  ASSUME NEW w \in site.viewers, SeenTrue(view[w], linked[w], still[w]), UNCHANGED <<site, cable, toml>>,
         view'[w] = view[w], linked'[w] = linked[w], still'[w] = still[w]
  PROVE  SeenTrue(view[w], linked[w], still[w])'
<1>1. AtPorts' = AtPorts /\ Peers' = Peers /\ Entries' = Entries
  BY DEF AtPorts, Ports, Peers, Entries, Ids
<1>2. ASSUME NEW t PROVE KnownOf(t)' = KnownOf(t)
  BY DEF KnownOf
<1>3. KnownOf(toml[Me])' = KnownOf(toml[Me])
  BY DEF KnownOf
<1>4. [n \in Peers |-> Row(view[w], n)]' = [n \in Peers |-> Row(view[w], n)]
  BY <1>1 DEF Row
<1>5. PortsSeen(view[w], linked[w])' = PortsSeen(view[w], linked[w])
  BY DEF PortsSeen, Tells
<1> QED
  BY <1>1, <1>2, <1>3, <1>4, <1>5 DEF SeenTrue

LEMMA TrafficShowsNothing ==
  ASSUME ViewInv, UNCHANGED <<site, linkVars, view, linked, still>>,
         \A v \in site.viewers : handle'[v] # "none" => handle[v] # "none"
  PROVE  ViewInv'
<1>1. /\ Views' = Views /\ Links' = Links
  BY DEF Views, Links, Ports, Peers, Entries, Ids, KnownOf, ShownPorts
<1>2. \A v \in site.viewers : SeenTrue(view[v], linked[v], still[v])'
  BY SeenStays DEF ViewInv, linkVars
<1> QED
  BY <1>1, <1>2 DEF ViewInv

(* A change of cables is seen, any other change ends the quiet.            *)
LEMMA WorldShowsNothing ==
  ASSUME ViewInv, WorldInv, WorldMoves
  PROVE  ViewInv'
<1>1. /\ UNCHANGED <<trafficVars, site, view>> /\ still' = [v \in site.viewers |-> FALSE]
      /\ WorldInv'
  BY WorldKeeps
<1>2. /\ Views' = Views /\ Links' = Links /\ Peers' = Peers /\ Entries' = Entries
  BY <1>1 DEF Views, Links, Ports, Peers, Entries, Ids, KnownOf, ShownPorts
<1>3. /\ linked' \in [site.viewers -> Links]
      /\ \A v \in site.viewers : linked[v] \subseteq linked'[v] /\ (AtPorts \subseteq linked[v] => AtPorts' \subseteq linked'[v])
  <2>1. CASE Recabled
    <3>1. linked' = [v \in site.viewers |-> linked[v] \cup AtPorts']
      BY <1>1, <2>1 DEF Recabled, AtPorts, Ports
    <3>2. AtPorts' \in Links
      BY <1>1 DEF AtPorts, Links, WorldInv, Ports
    <3> QED
      BY <3>1, <3>2 DEF ViewInv, Links
  <2>2. CASE ~Recabled
    <3>1. linked' = linked /\ cable' = cable
      BY <2>2 DEF WorldMoves, WaysChange, Reboots, Replaced, Refreshes, Carried
    <3> QED
      BY <1>1, <3>1 DEF ViewInv, AtPorts, Ports
  <2> QED
    BY <2>1, <2>2
<1>4. ASSUME NEW v \in site.viewers
      PROVE  SeenTrue(view[v], linked[v], still[v])'
  <2> DEFINE s == view[v]
  <2>1. SeenTrue(s, linked[v], still[v]) /\ s' = s /\ ~still'[v]
    BY <1>1 DEF ViewInv
  <2>2. s.pc # "idle" => AtPorts' \subseteq linked'[v]
    BY <1>3, <2>1 DEF SeenTrue
  <2>3. PortsSeen(s, linked[v])'
    <3>1. PortsSeen(s, linked[v])
      BY <2>1 DEF SeenTrue
    <3> QED
      BY <1>1, <1>3, <2>1, <3>1 DEF PortsSeen, Tells
  <2>4. \A t : KnownOf(t)' = KnownOf(t)
    BY <1>1 DEF KnownOf
  <2>5. [n \in Peers |-> Row(s, n)]' = [n \in Peers |-> Row(s, n)]
    BY <1>1, <1>2 DEF Row
  <2> QED
    BY <1>2, <2>1, <2>2, <2>3, <2>4, <2>5 DEF SeenTrue
<1>5. \A v \in site.viewers : still'[v] \in BOOLEAN
  BY <1>1
<1> QED
  BY <1>1, <1>2, <1>3, <1>4, <1>5 DEF ViewInv, trafficVars

(* One viewer goes on, and what it has now seen is true.                   *)
LEMMA OneGoesOn ==
  ASSUME ViewInv, NEW v \in site.viewers, NEW s \in Views, view' = [view EXCEPT ![v] = s],
         SeenTrue(s, linked[v], still[v]), UNCHANGED <<site, linkVars, linked, still>>,
         \A w \in site.viewers \ {v} : handle'[w] # "none" => handle[w] # "none",
         handle'[v] # "none" => s.pc = "fill"
  PROVE  ViewInv'
<1>1. /\ Views' = Views /\ Links' = Links
  BY DEF Views, Links, Ports, Peers, Entries, Ids, KnownOf, ShownPorts
<1>2. view' \in [site.viewers -> Views] /\ view'[v] = s
      /\ \A w \in site.viewers \ {v} : view'[w] = view[w]
  BY DEF ViewInv
<1>3. SeenTrue(s, linked[v], still[v])'
  BY SeenStays DEF linkVars
<1>4. ASSUME NEW w \in site.viewers PROVE SeenTrue(view[w], linked[w], still[w])'
  <2>1. CASE w = v
    BY <1>2, <1>3, <2>1 DEF SeenTrue, PortsSeen, Tells, Row
  <2>2. CASE w # v
    <3>1. SeenTrue(view[w], linked[w], still[w])
      BY DEF ViewInv
    <3>2. SeenTrue(view[w], linked[w], still[w])'
      BY <1>2, <2>2, <3>1, SeenStays DEF linkVars
    <3> QED
      BY <3>2
  <2> QED
    BY <2>1, <2>2
<1>5. ASSUME NEW w \in site.viewers, handle'[w] # "none" PROVE view'[w].pc = "fill"
  BY <1>2, <1>5 DEF ViewInv
<1> QED
  BY <1>1, <1>2, <1>4, <1>5 DEF ViewInv

(* A snapshot begins with what cluster.toml says now.                      *)
LEMMA StartsKeeps ==
  ASSUME ViewInv, WorldInv, TrafficInv, NEW v \in site.viewers, Starts(v)
  PROVE  ViewInv'
<1> DEFINE s == [NoView EXCEPT !.pc = "probe", !.todo = Peers, !.known = KnownOf(toml[Me])]
<1>1. /\ view' = [view EXCEPT ![v] = s] /\ linked' = [linked EXCEPT ![v] = AtPorts]
      /\ still' = [still EXCEPT ![v] = TRUE] /\ UNCHANGED <<site, linkVars, unrest, handle>>
  BY DEF Starts, Rest, KnownOf, Loads, NoTraffic, trafficVars
<1>2. Me \in site.nodes /\ toml[Me] \in Entries
  BY MonitorAssumption DEF WorldInv
<1>3. s \in Views /\ s.pc = "probe" /\ s.todo = Peers /\ s.known = KnownOf(toml[Me])
      /\ s.ports = {} /\ s.up = {}
  BY <1>2 DEF NoView, Views, Steps
<1> HIDE DEF s
<1>4. SeenTrue(s, AtPorts, TRUE)
  BY <1>2, <1>3, FS_EmptySet DEF SeenTrue, PortsSeen
<1>5. AtPorts \in Links
  BY DEF AtPorts, Links, WorldInv, Ports
<1>6. /\ Views' = Views /\ Links' = Links
  BY <1>1 DEF Views, Links, Ports, Peers, Entries, Ids, KnownOf, ShownPorts, linkVars
<1>7. /\ view' \in [site.viewers -> Views] /\ linked' \in [site.viewers -> Links]
      /\ still' \in [site.viewers -> BOOLEAN]
      /\ view'[v] = s /\ linked'[v] = AtPorts /\ still'[v] = TRUE
      /\ \A w \in site.viewers \ {v} :
           view'[w] = view[w] /\ linked'[w] = linked[w] /\ still'[w] = still[w]
  BY <1>1, <1>3, <1>5 DEF ViewInv
<1>8. ASSUME NEW w \in site.viewers PROVE SeenTrue(view[w], linked[w], still[w])'
  <2>1. AtPorts' = AtPorts /\ Entries' = Entries /\ Peers' = Peers
    BY <1>1 DEF AtPorts, Ports, Peers, Entries, Ids, linkVars
  <2>2. CASE w = v
    <3>1. /\ view'[w].pc = "probe" /\ view'[w].todo = Peers /\ view'[w].ports = {} /\ view'[w].up = {}
          /\ view'[w].known = KnownOf(toml[Me]) /\ linked'[w] = AtPorts
      BY <1>3, <1>7, <2>2
    <3>2. \A t : KnownOf(t)' = KnownOf(t)
      BY <1>1 DEF KnownOf
    <3>3. KnownOf(toml[Me])' = KnownOf(toml[Me])
      BY <1>1 DEF KnownOf, linkVars
    <3> QED
      BY <1>2, <2>1, <3>1, <3>2, <3>3, FS_EmptySet DEF SeenTrue, PortsSeen
  <2>3. CASE w # v
    <3>1. SeenTrue(view[w], linked[w], still[w])
      BY DEF ViewInv
    <3>2. SeenTrue(view[w], linked[w], still[w])'
      BY <1>1, <1>7, <2>3, <3>1, OthersSeeTheSame DEF linkVars
    <3> QED
      BY <3>2
  <2> QED
    BY <2>2, <2>3
<1>9. ASSUME NEW w \in site.viewers, handle'[w] # "none" PROVE view'[w].pc = "fill"
  <2>1. view[w].pc = "fill"
    BY <1>1, <1>9 DEF ViewInv
  <2>2. w # v
    BY <2>1 DEF Starts
  <2> QED
    BY <1>7, <2>1, <2>2
<1> QED
  BY <1>1, <1>6, <1>7, <1>8, <1>9 DEF ViewInv

(* What is seen of a port is of the device that is there.                  *)
LEMMA PortFacts ==
  ASSUME WorldInv, NEW p \in Ports, cable[p] \in site.devices
  PROVE  /\ Port(p) \in ShownPorts /\ Bare(p) \in ShownPorts
         /\ Tells(Port(p), cable[p]) /\ Tells(Bare(p), cable[p])
         /\ Port(p).at = p /\ Bare(p).at = p
<1> DEFINE d == cable[p]
           mac == d \in site.nodes \cup site.macs
<1>1. site.rate[p] \in Nat /\ site.nodes \subseteq Nodes
  BY MonitorAssumption DEF WorldInv, Ports
<1>2. Uid(d) \in site.devices \X Nat /\ Uid(d)[1] = d
  BY DEF WorldInv, Uid
<1>3. Uuid(d) \in site.devices \X Nat \X Nat /\ Uuid(d)[1] = d
  BY DEF WorldInv, Uuid
<1>4. Port(p) = [at |-> p, rate |-> site.rate[p], mac |-> mac,
                 uid |-> IF d \in site.exposes THEN Uid(d) ELSE Unknown,
                 uuid |-> Uuid(d), name |-> site.name[d]]
  BY DEF Port
<1> HIDE DEF d, mac
<1>9. Port(p).mac = mac /\ mac \in BOOLEAN
  BY <1>4 DEF mac
<1>5. d \in site.devices
  BY DEF d
<1>6. Port(p) \in ShownPorts
  BY <1>1, <1>2, <1>3, <1>4, <1>5, <1>9 DEF ShownPorts
<1>7. Tells(Port(p), d)
  <2>1. Port(p).rate = site.rate[p] /\ Port(p).at = p /\ Port(p).name = site.name[d]
        /\ Port(p).uuid = Uuid(d) /\ Port(p).uid \in {Uid(d), Unknown}
    BY <1>4
  <2>2. Port(p).mac => d \in site.nodes \cup site.macs
    BY <1>9 DEF mac
  <2> QED
    BY <1>2, <1>3, <2>1, <2>2 DEF Tells
<1>8. Bare(p) \in ShownPorts /\ Tells(Bare(p), d)
  BY DEF Bare, ShownPorts, Tells
<1> QED
  BY <1>4, <1>6, <1>7, <1>8 DEF Bare, d

LEMMA ProbeKeeps ==
  ASSUME ViewInv, WorldInv, TrafficInv, NEW v \in site.viewers, Probes(v) \/ ProbeFails(v)
  PROVE  ViewInv'
<1> DEFINE shown == {Port(p) : p \in InUse}
           bare  == {Bare(p) : p \in InUse}
<1>1. PICK ports \in {shown, bare, {}} : Probe(v, ports)
  BY DEF Probes, ProbeFails
<1>2. IsFiniteSet(InUse)
  <2>1. IsFiniteSet(Ports)
    BY MonitorAssumption DEF WorldInv, Ports
  <2> QED
    BY <2>1, FS_Subset DEF InUse
<1>3. IsFiniteSet(shown)
  <2>1. [p \in InUse |-> Port(p)] \in Surjection(InUse, shown)
    BY DEF Surjection
  <2> QED
    BY <1>2, <2>1, FS_Surjection
<1>4. IsFiniteSet(bare)
  <2>1. [p \in InUse |-> Bare(p)] \in Surjection(InUse, bare)
    BY DEF Surjection
  <2> QED
    BY <1>2, <2>1, FS_Surjection
<1>5. \A p \in InUse : p \in Ports /\ cable[p] \in site.devices /\ <<p, cable[p]>> \in AtPorts
  BY DEF InUse, WorldInv, AtPorts
<1>6. /\ ports \in SUBSET ShownPorts /\ IsFiniteSet(ports)
      /\ \A q \in ports : \E d \in site.devices : <<q.at, d>> \in AtPorts /\ Tells(q, d)
  <2>1. IsFiniteSet(ports)
    BY <1>3, <1>4, FS_EmptySet
  <2>2. ASSUME NEW q \in ports
        PROVE  q \in ShownPorts /\ \E d \in site.devices : <<q.at, d>> \in AtPorts /\ Tells(q, d)
    <3>1. PICK p \in InUse : q = Port(p) \/ q = Bare(p)
      OBVIOUS
    <3>2. p \in Ports /\ cable[p] \in site.devices /\ <<p, cable[p]>> \in AtPorts
      BY <1>5
    <3>3. q.at = p /\ q \in ShownPorts /\ Tells(q, cable[p])
      BY <3>1, <3>2, PortFacts
    <3> QED
      BY <3>2, <3>3
  <2> QED
    BY <2>1, <2>2
<1> HIDE DEF shown, bare
<1> DEFINE pc == IF v \in site.monitors THEN "sample" ELSE "load"
           s == [view[v] EXCEPT !.ports = ports, !.pc = pc]
<1>7. /\ view[v] \in Views /\ view[v].pc = "probe" /\ SeenTrue(view[v], linked[v], still[v])
      /\ view' = [view EXCEPT ![v] = s] /\ UNCHANGED <<site, linkVars, linked, still, handle>>
  BY <1>1 DEF Probe, At, ViewInv, NoTraffic, NoLinks, trafficVars
<1>8. /\ s \in Views /\ s.pc = pc /\ s.ports = ports /\ s.known = view[v].known
      /\ s.todo = view[v].todo /\ s.up = view[v].up
  BY <1>6, <1>7 DEF Views, Steps
<1>9. pc \in {"sample", "load"}
  OBVIOUS
<1> HIDE DEF s, pc
<1>10. SeenTrue(s, linked[v], still[v])
  BY <1>6, <1>7, <1>8, <1>9 DEF SeenTrue, PortsSeen
<1>11. handle'[v] = "none"
  BY <1>7 DEF ViewInv
<1> QED
  BY <1>7, <1>8, <1>10, <1>11, OneGoesOn

(* The steps of the sampler and of saving see nothing new.                 *)
LEMMA GoKeeps ==
  ASSUME ViewInv, NEW v \in site.viewers, NEW pc \in Steps \ {"idle", "shown"}, Go(v, pc),
         view[v].pc # "idle", UNCHANGED <<site, linkVars, linked, still>>,
         \A w \in site.viewers \ {v} : handle'[w] # "none" => handle[w] # "none",
         handle'[v] # "none" => pc = "fill"
  PROVE  ViewInv'
<1> DEFINE s == [view[v] EXCEPT !.pc = pc]
<1>1. /\ view[v] \in Views /\ SeenTrue(view[v], linked[v], still[v])
      /\ view' = [view EXCEPT ![v] = s]
  BY DEF ViewInv, Go
<1>2. /\ s \in Views /\ s.pc = pc /\ s.ports = view[v].ports /\ s.known = view[v].known
      /\ s.todo = view[v].todo /\ s.up = view[v].up
  BY <1>1 DEF Views
<1> HIDE DEF s
<1>3. SeenTrue(s, linked[v], still[v])
  BY <1>1, <1>2 DEF SeenTrue, PortsSeen
<1> QED
  BY <1>1, <1>2, <1>3, OneGoesOn

LEMMA SamplerKeeps ==
  ASSUME ViewInv, TrafficInv, NEW v \in site.viewers,
         Recalls(v) \/ Samples(v) \/ Saves(v) \/ SaveFails(v)
  PROVE  ViewInv'
<1>1. UNCHANGED <<site, linkVars, linked, still>>
  BY DEF Recalls, Samples, Saves, SaveFails, NoLinks
<1>2. handle \in [site.viewers -> {"none", "temp", "cache", "gone"}]
  BY TextFacts
<1>3. CASE Recalls(v)
  BY <1>1, <1>3, GoKeeps DEF Recalls, At, Loads, Steps, ViewInv
<1>4. CASE Samples(v)
  BY <1>1, <1>4, GoKeeps DEF Samples, At, Observes, Steps, ViewInv
<1>5. CASE At(v, "open") /\ Opens(v) /\ Go(v, "fill")
  BY <1>1, <1>2, <1>5, GoKeeps DEF At, Opens, Steps
<1>6. CASE At(v, "fill") /\ Fills(v) /\ Go(v, "replace")
  BY <1>1, <1>2, <1>6, GoKeeps DEF At, Fills, Steps
<1>7. CASE At(v, "replace") /\ Replaces(v) /\ Go(v, "ask")
  <2>1. \A w \in site.viewers : handle'[w] # "none" => handle[w] # "none"
    BY <1>2, <1>7 DEF Replaces, Renamed
  <2> QED
    BY <1>1, <1>7, <2>1, GoKeeps DEF At, Steps, ViewInv
<1>8. CASE SaveFails(v)
  BY <1>1, <1>2, <1>8, GoKeeps DEF SaveFails, Steps
<1> QED
  BY <1>3, <1>4, <1>5, <1>6, <1>7, <1>8 DEF Saves

LEMMA AsksKeeps ==
  ASSUME ViewInv, WorldInv, NEW v \in site.viewers, Asks(v)
  PROVE  ViewInv'
<1> DEFINE n == Earliest(view[v].todo)
           up == IF Reached(ways[n], site.ssh) THEN view[v].up \cup {n} ELSE view[v].up
           s == [view[v] EXCEPT !.todo = @ \ {n}, !.up = up]
<1>1. /\ view[v] \in Views /\ SeenTrue(view[v], linked[v], still[v]) /\ view[v].pc = "ask"
      /\ view[v].todo # {}
      /\ UNCHANGED <<site, linkVars, linked, still, handle>>
  BY DEF ViewInv, Asks, At, NoTraffic, NoLinks, trafficVars
<1>2. view' = [view EXCEPT ![v] = s]
  BY DEF Asks, ViewInv
<1>3. n \in view[v].todo /\ view[v].todo \subseteq Peers
  <2>1. view[v].todo \in SUBSET Peers /\ Peers \in SUBSET Nat
    BY <1>1, MonitorAssumption, LinkAssumption DEF Views, WorldInv, Peers
  <2> QED
    BY <1>1, <2>1, SmallestIsIn DEF Earliest
<1> HIDE DEF n
<1>4. /\ s.pc = "ask" /\ s.ports = view[v].ports /\ s.known = view[v].known
      /\ s.todo = view[v].todo \ {n} /\ s.up \in {view[v].up, view[v].up \cup {n}}
  BY <1>1 DEF Views
<1>5. up \subseteq Peers /\ view[v].todo \ {n} \subseteq Peers
  BY <1>1, <1>3 DEF Views
<1>6. s \in Views
  BY <1>1, <1>5 DEF Views
<1> HIDE DEF s, up
<1>7. SeenTrue(s, linked[v], still[v])
  BY <1>1, <1>4 DEF SeenTrue, PortsSeen
<1>8. handle'[v] = "none"
  BY <1>1 DEF ViewInv
<1> QED
  BY <1>1, <1>2, <1>6, <1>7, <1>8, OneGoesOn

(* The ports of a row are among those that were seen.                      *)
LEMMA RowPorts ==
  ASSUME NEW known, NEW nodes, NEW ports, NEW n, IsFiniteSet(ports)
  PROVE  PortsOf(known, nodes, ports, n) \subseteq ports /\ IsFiniteSet(PortsOf(known, nodes, ports, n))
<1>1. PortsOf(known, nodes, ports, n) \in SUBSET ports
  BY DEF PortsOf, Matched, LonePort, MacPorts
<1> QED
  BY <1>1, FS_Subset

LEMMA ShowsKeeps ==
  ASSUME ViewInv, WorldInv, NEW v \in site.viewers, Shows(v)
  PROVE  ViewInv'
<1> DEFINE rows == [n \in Peers |-> Row(view[v], n)]
           exit == Exit(Peers, view[v].up)
           mesh == Mesh(Peers, view[v].up)
           s == [view[v] EXCEPT !.pc = "shown", !.rows = rows, !.exit = exit, !.mesh = mesh]
<1>1. /\ view[v] \in Views /\ SeenTrue(view[v], linked[v], still[v]) /\ view[v].pc = "ask"
      /\ view[v].todo = {}
      /\ UNCHANGED <<site, linkVars, linked, still, handle>>
  BY DEF ViewInv, Shows, At, NoTraffic, NoLinks, trafficVars
<1>2. view' = [view EXCEPT ![v] = s]
  BY DEF Shows, ViewInv
<1>3. rows \in [Peers -> [link : BOOLEAN, rate : Nat, up : BOOLEAN]]
  <2>1. IsFiniteSet(view[v].ports) /\ \A p \in view[v].ports : p.rate \in Nat
    BY <1>1 DEF SeenTrue, Views, ShownPorts
  <2>2. ASSUME NEW n \in Peers PROVE Row(view[v], n) \in [link : BOOLEAN, rate : Nat, up : BOOLEAN]
    <3>1. Rate(PortsOf(view[v].known, Peers, view[v].ports, n)) \in Nat
      BY <2>1, RowPorts, BestRate
    <3> QED
      BY <3>1 DEF Row, Connected
  <2> QED
    BY <2>2
<1>4. exit \in {0, 3} /\ mesh \in {"single", "ok", "isolated", "partial"}
  BY DEF Exit, Mesh
<1> HIDE DEF rows, exit, mesh
<1>5. s \in Views
  BY <1>1, <1>3, <1>4 DEF Views, Steps
<1>6. /\ s.pc = "shown" /\ s.ports = view[v].ports /\ s.known = view[v].known
      /\ s.todo = {} /\ s.up = view[v].up /\ s.rows = rows
  BY <1>1 DEF Views
<1> HIDE DEF s
<1>7. rows = [n \in Peers |-> Row(s, n)]
  BY <1>6 DEF Row, rows
<1>8. SeenTrue(s, linked[v], still[v])
  BY <1>1, <1>6, <1>7 DEF SeenTrue, PortsSeen
<1>9. handle'[v] = "none"
  BY <1>1 DEF ViewInv
<1> QED
  BY <1>1, <1>2, <1>5, <1>8, <1>9, OneGoesOn

LEMMA EndsKeeps ==
  ASSUME ViewInv, TrafficInv, NEW v \in site.viewers, Ends(v)
  PROVE  ViewInv'
<1>1. /\ view' = [view EXCEPT ![v] = NoView] /\ linked' = [linked EXCEPT ![v] = {}]
      /\ still' = [still EXCEPT ![v] = FALSE] /\ handle' = [handle EXCEPT ![v] = "none"]
      /\ UNCHANGED <<site, linkVars>>
  BY DEF Ends, Closes, Rest
<1>2. /\ view' \in [site.viewers -> Views] /\ view'[v] = NoView
      /\ linked' \in [site.viewers -> Links] /\ still' \in [site.viewers -> BOOLEAN]
      /\ \A w \in site.viewers \ {v} :
           view'[w] = view[w] /\ linked'[w] = linked[w] /\ still'[w] = still[w]
  <2>1. NoView \in Views /\ {} \in Links
    BY NoViewTrue DEF Links
  <2> QED
    BY <1>1, <2>1 DEF ViewInv
<1>3. /\ Views' = Views /\ Links' = Links
  BY <1>1 DEF Views, Links, Ports, Peers, Entries, Ids, KnownOf, ShownPorts, linkVars
<1>4. ASSUME NEW w \in site.viewers PROVE SeenTrue(view[w], linked[w], still[w])'
  <2>1. CASE w = v
    <3>1. /\ view'[w].pc = "idle" /\ view'[w].ports = {} /\ view'[w].todo = {} /\ view'[w].up = {}
      BY <1>2, <2>1 DEF NoView
    <3> QED
      BY <3>1, FS_EmptySet DEF SeenTrue, PortsSeen
  <2>2. CASE w # v
    BY <1>1, <1>2, <2>2, OthersSeeTheSame DEF linkVars, ViewInv
  <2> QED
    BY <2>1, <2>2
<1>5. ASSUME NEW w \in site.viewers, handle'[w] # "none" PROVE view'[w].pc = "fill"
  <2>1. handle \in [site.viewers -> {"none", "temp", "cache", "gone"}]
    BY TextFacts
  <2>2. w # v /\ handle[w] # "none"
    BY <1>1, <1>5, <2>1
  <2> QED
    BY <1>2, <2>2 DEF ViewInv
<1> QED
  BY <1>1, <1>2, <1>3, <1>4, <1>5 DEF ViewInv

-----------------------------------------------------------------------------
(* The invariant.                                                          *)

MonitorInv == TrafficInv /\ WorldInv /\ ViewInv

LEMMA MonitorStarts == Init => MonitorInv
BY TrafficStarts, WorldStarts, ViewStarts DEF MonitorInv

LEMMA TrafficStays ==
  ASSUME TrafficInv, UNCHANGED <<site, trafficVars>>
  PROVE  TrafficInv'
BY DEF trafficVars, TrafficInv, TrafficTypes, TrafficTypeOK, IsText, Counters, Looks, FileTrue,
   SavedLook, Look

LEMMA WorldStays ==
  ASSUME WorldInv, UNCHANGED <<site, linkVars>>, unrest' \in 0..site.unrest
  PROVE  WorldInv'
<1>1. Entries' = Entries /\ Ports' = Ports /\ Peers' = Peers
  BY DEF Entries, Ids, Ports, Peers
<1> QED
  BY <1>1 DEF WorldInv, linkVars

LEMMA ViewStepKeeps ==
  ASSUME MonitorInv, NEW v \in site.viewers, ViewStep(v)
  PROVE  MonitorInv'
<1> USE DEF MonitorInv
<1>1. UNCHANGED <<site, linkVars, unrest>>
  BY DEF ViewStep, Starts, Probes, ProbeFails, Probe, Recalls, Samples, Saves, SaveFails,
         Asks, Shows, Ends, NoLinks, Rest
<1>2. WorldInv'
  BY <1>1, WorldStays DEF WorldInv
<1>3. CASE Starts(v)
  <2>1. TrafficInv'
    <3>1. Loads(v) \/ NoTraffic
      BY <1>3 DEF Starts
    <3> QED
      BY <1>1, <3>1, LoadsKeeps, TrafficStays DEF NoTraffic
  <2> QED
    BY <1>2, <1>3, <2>1, StartsKeeps
<1>4. CASE Probes(v) \/ ProbeFails(v) \/ Asks(v) \/ Shows(v)
  <2>1. NoTraffic
    BY <1>4 DEF Probes, ProbeFails, Probe, Asks, Shows
  <2>2. TrafficInv'
    BY <1>1, <2>1, TrafficStays DEF NoTraffic
  <2> QED
    BY <1>2, <1>4, <2>2, ProbeKeeps, AsksKeeps, ShowsKeeps
<1>5. CASE Recalls(v) \/ Samples(v) \/ Saves(v) \/ SaveFails(v)
  <2>1. Recalls(v) => TrafficInv'
    BY <1>1, LoadsKeeps DEF Recalls
  <2>2. Samples(v) => TrafficInv'
    <3>1. site.listings \subseteq SUBSET Ifaces
      BY MonitorAssumption DEF WorldInv
    <3> QED
      BY <1>1, <3>1, ObservesKeeps DEF Samples
  <2>3. Saves(v) => TrafficInv'
    BY <1>1, SavesKeep DEF Saves
  <2>4. SaveFails(v) => TrafficInv'
    <3> SUFFICES ASSUME SaveFails(v) PROVE TrafficInv'
      OBVIOUS
    <3>1. /\ UNCHANGED <<now, ahead, jumps, iface, cache, temp, prev>>
          /\ handle' = [handle EXCEPT ![v] = "none"] /\ payload' = [payload EXCEPT ![v] = <<>>]
      BY DEF SaveFails
    <3> QED
      BY <1>1, <3>1, ClosesKeeps
  <2> QED
    BY <1>2, <1>5, <2>1, <2>2, <2>3, <2>4, SamplerKeeps
<1>6. CASE Ends(v)
  <2>1. TrafficInv'
    BY <1>1, <1>6, ClosesKeeps DEF Ends, Closes
  <2> QED
    BY <1>2, <1>6, <2>1, EndsKeeps
<1> QED
  BY <1>3, <1>4, <1>5, <1>6 DEF ViewStep

LEMMA TrafficMovesKeeps ==
  ASSUME MonitorInv, TrafficMoves
  PROVE  MonitorInv'
<1> USE DEF MonitorInv
<1>1. UNCHANGED <<site, view, linkVars, linked, still>>
  BY DEF TrafficMoves
<1>2. Tick \/ WallJumps \/ \E i \in Ifaces : Recreated(i)
  BY DEF TrafficMoves
<1>3. TrafficInv' /\ UNCHANGED handle
  BY <1>1, <1>2, TickOnward, JumpOnward, RecreationOnward, OnwardKeeps DEF Onward
<1>4. unrest' \in 0..site.unrest
  <2>1. unrest \in 0..site.unrest /\ site.unrest \in Nat
    BY MonitorAssumption DEF WorldInv
  <2> QED
    BY <2>1 DEF TrafficMoves
<1> QED
  BY <1>1, <1>3, <1>4, WorldStays, TrafficShowsNothing

LEMMA MonitorStep == MonitorInv /\ [Next]_vars => MonitorInv'
<1> SUFFICES ASSUME MonitorInv, [Next]_vars PROVE MonitorInv'
  OBVIOUS
<1>1. ASSUME NEW v \in site.viewers, ViewStep(v) PROVE MonitorInv'
  BY <1>1, ViewStepKeeps
<1>2. CASE TrafficMoves
  BY <1>2, TrafficMovesKeeps
<1>3. CASE WorldMoves
  <2>1. WorldInv' /\ UNCHANGED <<trafficVars, site>>
    BY <1>3, WorldKeeps DEF MonitorInv
  <2>2. TrafficInv'
    BY <2>1, TrafficStays DEF MonitorInv
  <2> QED
    BY <1>3, <2>1, <2>2, WorldShowsNothing DEF MonitorInv
<1>4. CASE UNCHANGED vars
  <2>1. TrafficInv'
    BY <1>4, TrafficStays DEF vars, MonitorInv
  <2>2. WorldInv'
    BY <1>4, WorldStays DEF vars, MonitorInv, WorldInv
  <2>3. ViewInv'
    BY <1>4, TrafficShowsNothing DEF vars, MonitorInv, trafficVars
  <2> QED
    BY <2>1, <2>2, <2>3 DEF MonitorInv
<1> QED
  BY <1>1, <1>2, <1>3, <1>4 DEF Next, WorldMoves

LEMMA MonitorAlways == Spec => []MonitorInv
BY MonitorStarts, MonitorStep, PTL DEF Spec

-----------------------------------------------------------------------------
(* Matching ports and peers.                                               *)

LEMMA EarliestIsIn ==
  ASSUME WorldInv, NEW S \in SUBSET Peers
  PROVE  /\ S # {} => Earliest(S) \in S
         /\ S = {} => Earliest(S) \notin Peers
<1>1. Peers \in SUBSET Nat /\ Peers \subseteq Nodes
  BY MonitorAssumption, LinkAssumption DEF WorldInv, Peers
<1>2. S # {} => Earliest(S) \in S
  BY <1>1, SmallestIsIn DEF Earliest
<1>3. S = {} => Earliest(S) \notin Peers
  BY <1>1, LinkAssumption DEF Earliest
<1> QED
  BY <1>2, <1>3

\* The ids and names of a node are no other device's.
LEMMA OwnIds ==
  ASSUME WorldInv, NEW t \in Entries, NEW m \in Peers
  PROVE  /\ KnownOf(t)[m].uids = t[m].uids /\ KnownOf(t)[m].uuids = t[m].uuids
         /\ KnownOf(t)[m].names = site.hosts[m]
         /\ \A u \in t[m].uids : u[1] = m
         /\ \A u \in t[m].uuids : u[1] = m
<1>1. m \in site.nodes /\ Pinned(m, t[m])
  BY DEF Peers, Entries
<1> QED
  BY <1>1 DEF KnownOf, Pinned, Unpinned

(* A port that matches a peer leads to it: the id or name that matched is  *)
(* of the device at the port.                                              *)
LEMMA MatchIsRight ==
  ASSUME WorldInv, NEW t \in Entries, NEW d \in site.devices, NEW p, Tells(p, d),
         NEW n \in Peers, Match(KnownOf(t), Peers, p) = n
  PROVE  d = n
<1> DEFINE known == KnownOf(t)
<1>1. \A m \in ByUid(known, Peers, p) : m \in Peers /\ d = m
  BY OwnIds DEF ByUid, Tells
<1>2. \A m \in ByUuid(known, Peers, p) : m \in Peers /\ d = m
  BY OwnIds DEF ByUuid, Tells
<1>3. \A m \in ByName(known, Peers, p) : m \in Peers /\ d = m
  <2>1. site \in Sites /\ Peers \subseteq site.nodes
    BY DEF WorldInv, Peers
  <2>2. \A m \in Peers : site.name[d] \in site.hosts[m] => m = d
    BY <2>1, MonitorAssumption
  <2> QED
    BY <2>2, OwnIds DEF ByName, Tells
<1>4. \A S \in {ByUid(known, Peers, p), ByUuid(known, Peers, p), ByName(known, Peers, p)} :
        S \in SUBSET Peers /\ (Earliest(S) = n => n \in S)
  BY <1>1, <1>2, <1>3, EarliestIsIn
<1>5. \E S \in {ByUid(known, Peers, p), ByUuid(known, Peers, p), ByName(known, Peers, p)} :
        Earliest(S) = n
  BY DEF Match
<1> QED
  BY <1>1, <1>2, <1>3, <1>4, <1>5

(* And a port that shows a domain UUID of the peer's entry matches it.     *)
LEMMA MatchIsFound ==
  ASSUME WorldInv, NEW t \in Entries, NEW n \in Peers, NEW p, n \in site.devices, Tells(p, n),
         p.uuid # Unknown, p.uuid \in t[n].uuids
  PROVE  Match(KnownOf(t), Peers, p) = n
<1> DEFINE known == KnownOf(t)
<1>1. \A m \in ByUid(known, Peers, p) : m \in Peers /\ n = m
  BY OwnIds DEF ByUid, Tells
<1>2. \A m \in ByUuid(known, Peers, p) : m \in Peers /\ n = m
  BY OwnIds DEF ByUuid, Tells
<1>3. n \in ByUuid(known, Peers, p)
  BY OwnIds DEF ByUuid
<1>4. Earliest(ByUuid(known, Peers, p)) = n
  BY <1>2, <1>3, EarliestIsIn
<1>5. ByUid(known, Peers, p) # {} => Earliest(ByUid(known, Peers, p)) = n
  BY <1>1, EarliestIsIn
<1> QED
  BY <1>3, <1>4, <1>5 DEF Match

(* A row of a snapshot, and where its rate comes from.                     *)
LEMMA ShownRow ==
  ASSUME MonitorInv, NEW v \in site.viewers, At(v, "shown"), NEW n \in Peers
  PROVE  LET s == view[v]
         IN  /\ s.rows[n] = Row(s, n) /\ IsFiniteSet(s.ports) /\ PortsSeen(s, linked[v])
             /\ \A p \in s.ports : p.rate \in Nat /\ p.at \in Ports
             /\ \E t \in Entries : s.known = KnownOf(t)
             /\ still[v] => s.known = KnownOf(toml[Me])
<1>1. SeenTrue(view[v], linked[v], still[v]) /\ view[v].pc = "shown" /\ view[v].ports \in SUBSET ShownPorts
  BY DEF MonitorInv, ViewInv, Views, At
<1>2. \A p \in view[v].ports : p.rate \in Nat /\ p.at \in Ports
  BY <1>1 DEF ShownPorts
<1> QED
  BY <1>1, <1>2 DEF SeenTrue

-----------------------------------------------------------------------------
(* The theorems.                                                           *)

(* Whatever is recabled, restarted, carried, sampled or broken off, views, *)
(* entries, samples and files keep their types.                            *)
THEOREM MonitorTypeOK == Spec => []TypeOK
<1>1. MonitorInv => TypeOK
  <2> SUFFICES ASSUME MonitorInv PROVE TypeOK
    OBVIOUS
  <2> USE DEF MonitorInv
  <2>1. site \in Sites /\ TrafficTypeOK(site.viewers)
    BY DEF WorldInv, TrafficInv, TrafficTypes
  <2>2. DOMAIN view = site.viewers
    BY DEF ViewInv
  <2>3. ASSUME NEW v \in site.viewers
        PROVE  /\ view[v].pc \in Steps /\ {view[v].todo, view[v].up} \subseteq SUBSET Peers
               /\ view[v].todo \cap view[v].up = {}
               /\ view[v].pc = "shown" => view[v].todo = {} /\ DOMAIN view[v].rows = Peers
               /\ view[v].exit \in {0, 3} /\ view[v].mesh \in {"single", "ok", "isolated", "partial"}
               /\ \A p \in view[v].ports : p.at \in Ports /\ p.rate \in Nat
               /\ view[v].pc \notin {"fill", "replace"} => handle[v] = "none"
    <3>1. view[v] \in Views /\ SeenTrue(view[v], linked[v], still[v])
          /\ (handle[v] # "none" => view[v].pc = "fill")
      BY DEF ViewInv
    <3> QED
      BY <3>1 DEF SeenTrue, Views, ShownPorts
  <2>4. /\ cable \in [Ports -> site.devices \cup {Unknown}] /\ body \in [site.nodes -> Nat \X Nat]
        /\ ways \in [Peers -> SUBSET {"ping", "tcp", "ssh"}] /\ unrest \in 0..site.unrest
    BY DEF WorldInv
  <2>5. /\ DOMAIN toml = site.nodes
        /\ \A n \in site.nodes : DOMAIN toml[n] = site.nodes
             /\ \A m \in site.nodes : toml[n][m].uids \subseteq site.nodes \X Nat
                                      /\ toml[n][m].uuids \subseteq site.nodes \X Nat \X Nat
    BY DEF WorldInv, Entries, Ids
  <2> QED
    BY <2>1, <2>2, <2>3, <2>4, <2>5 DEF TypeOK
<1> QED
  BY <1>1, MonitorAlways, PTL

(* The rate a viewer shows is what went through the interface since its    *)
(* last sample, over the time since then, whichever process took that      *)
(* sample and however the writers of the cache overlapped.                 *)
THEOREM MonitorRateReal == Spec => []RateReal
<1>1. MonitorInv => RateReal
  BY TrueLooksRate DEF MonitorInv
<1> QED
  BY <1>1, MonitorAlways, PTL

(* A row never shows the rate of a link to another peer.                   *)
THEOREM MonitorOwnLinkRate == Spec => []OwnLinkRate
<1>1. ASSUME MonitorInv, NEW v \in site.viewers, At(v, "shown"), NEW n \in Peers,
             view[v].rows[n].rate # 0
      PROVE  LET p == PortOfRate(view[v].rows[n].rate)
             IN  \/ <<p, n>> \in linked[v]
                 \/ Peers = {n} /\ \E d \in Strangers : <<p, d>> \in linked[v]
  <2> DEFINE s == view[v]
             rate == s.rows[n].rate
             ports == PortsOf(s.known, Peers, s.ports, n)
  <2>1. /\ s.rows[n] = Row(s, n) /\ IsFiniteSet(s.ports) /\ PortsSeen(s, linked[v])
        /\ \A p \in s.ports : p.rate \in Nat /\ p.at \in Ports
        /\ \E t \in Entries : s.known = KnownOf(t)
    BY <1>1, ShownRow
  <2>2. rate = Rate(ports)
    BY <2>1 DEF Row
  <2>3. ports \subseteq s.ports /\ IsFiniteSet(ports)
    BY <2>1, RowPorts
  <2>4. PICK p \in ports : p.rate = rate
    <3> HIDE DEF ports
    <3> QED
      BY <1>1, <2>1, <2>2, <2>3, BestRate
  <2>5. PICK d \in site.devices : <<p.at, d>> \in linked[v] /\ Tells(p, d)
    BY <2>1, <2>3 DEF PortsSeen
  <2>6. rate = site.rate[p.at] /\ p.at \in Ports
    BY <1>1, <2>1, <2>3, <2>4, <2>5 DEF Tells
  <2>7. PortOfRate(rate) = p.at
    <3>1. \A q \in Ports : site.rate[q] = site.rate[p.at] => q = p.at
      BY <1>1, <2>6, MonitorAssumption DEF MonitorInv, WorldInv, Ports
    <3> HIDE DEF rate
    <3> QED
      BY <2>6, <3>1 DEF PortOfRate
  <2>8. CASE p \in Matched(s.known, Peers, s.ports, n)
    BY <1>1, <2>1, <2>5, <2>7, <2>8, MatchIsRight DEF Matched, MonitorInv
  <2>9. CASE p \notin Matched(s.known, Peers, s.ports, n)
    <3>1. p \in LonePort(s.known, Peers, s.ports)
      BY <2>4, <2>9 DEF PortsOf
    <3>2. Cardinality(Peers) = 1 /\ p.mac
      BY <3>1 DEF LonePort, MacPorts
    <3>3. Peers = {n}
      <4>1. IsFiniteSet(Peers)
        BY <1>1, MonitorAssumption, LinkAssumption, FS_Subset DEF MonitorInv, WorldInv, Peers
      <4> QED
        BY <3>2, <4>1, FS_Singleton
    <3>4. d \in Peers \cup Strangers
      BY <1>1, MonitorAssumption DEF MonitorInv, WorldInv, Peers
    <3> QED
      BY <2>5, <2>7, <3>3, <3>4
  <2> QED
    BY <2>8, <2>9
<1>2. MonitorInv => OwnLinkRate
  BY <1>1 DEF OwnLinkRate
<1> QED
  BY <1>2, MonitorAlways, PTL

(* In a quiet time every peer whose current ids are in cluster.toml is     *)
(* shown with the best of its own links.                                   *)
THEOREM MonitorLinkFound == Spec => []LinkFound
<1>1. ASSUME MonitorInv, NEW v \in site.viewers, At(v, "shown"), still[v],
             view[v].ports = {Port(p) : p \in InUse}, NEW n \in Peers,
             NEW own, own = {p \in Ports : cable[p] = n}, own # {}, Uuid(n) \in toml[Me][n].uuids
      PROVE  /\ view[v].rows[n].link
             /\ view[v].rows[n].rate = Max({site.rate[p] : p \in own})
  <2> DEFINE s == view[v]
             t == toml[Me]
             matched == Matched(s.known, Peers, s.ports, n)
  <2>1. WorldInv /\ t \in Entries /\ n \in site.nodes /\ n # Unknown
    BY <1>1, MonitorAssumption, LinkAssumption DEF MonitorInv, WorldInv, Peers
  <2>2. /\ s.rows[n] = Row(s, n) /\ IsFiniteSet(s.ports) /\ s.known = KnownOf(t)
    BY <1>1, ShownRow
  <2>3. \A p \in own : p \in InUse /\ n \in site.devices
    BY <1>1, <2>1 DEF InUse, WorldInv
  <2>4. ASSUME NEW p \in InUse
        PROVE  /\ p \in Ports /\ cable[p] \in site.devices /\ Tells(Port(p), cable[p])
               /\ Port(p).uuid = Uuid(cable[p]) /\ Port(p).rate = site.rate[p]
    <3>1. p \in Ports /\ cable[p] \in site.devices
      BY <2>1 DEF InUse, WorldInv
    <3> QED
      BY <2>1, <3>1, PortFacts DEF Port
  <2>5. Uuid(n) # Unknown
    <3>1. n \in Nodes /\ body[n][1] \in Nat /\ body[n][2] \in Nat
      BY <2>1, MonitorAssumption DEF WorldInv
    <3> QED
      BY <2>1, <3>1, LinkAssumption DEF Uuid
  <2>6. ASSUME NEW p \in InUse
        PROVE  Match(s.known, Peers, Port(p)) = n <=> p \in own
    <3>1. ASSUME p \in own PROVE Match(s.known, Peers, Port(p)) = n
      BY <1>1, <2>1, <2>2, <2>3, <2>4, <2>5, <3>1, MatchIsFound
    <3>2. ASSUME Match(s.known, Peers, Port(p)) = n PROVE p \in own
      BY <1>1, <2>1, <2>2, <2>4, <3>2, MatchIsRight
    <3> QED
      BY <3>1, <3>2
  <2>7. matched = {Port(p) : p \in own}
    BY <1>1, <2>3, <2>6 DEF Matched
  <2>8. PortsOf(s.known, Peers, s.ports, n) = matched /\ matched # {}
    <3>1. matched # {}
      BY <1>1, <2>7
    <3> QED
      BY <3>1 DEF PortsOf
  <2>9. {p.rate : p \in matched} = {site.rate[p] : p \in own}
    BY <2>3, <2>4, <2>7
  <2>10. view[v].rows[n].link
    <3> DEFINE connected == Connected(s.known, Peers, s.ports, n, s.up)
    <3>1. connected /\ connected \in BOOLEAN
      BY <2>8 DEF Connected
    <3> HIDE DEF connected
    <3>2. s.rows[n].link = connected
      BY <2>2 DEF Row, connected
    <3> QED
      BY <3>1, <3>2
  <2> DEFINE R == {site.rate[p] : p \in own}
  <2>11. view[v].rows[n].rate = Max({0} \cup R)
    <3>1. view[v].rows[n].rate = Rate(PortsOf(s.known, Peers, s.ports, n))
      BY <2>2 DEF Row
    <3>2. Rate(matched) = Max({0} \cup R)
      <4> HIDE DEF matched, R
      <4>1. {p.rate : p \in matched} = R
        BY <2>9 DEF R
      <4> QED
        BY <4>1 DEF Rate
    <3> QED
      BY <2>8, <3>1, <3>2
  <2>12. Max({0} \cup R) = Max(R)
    <3>1. \A k \in R : k \in Nat \ {0}
      BY <1>1, <2>1, MonitorAssumption DEF WorldInv, Ports
    <3>2. R # {} /\ IsFiniteSet(R)
      <4>1. IsFiniteSet(own)
        BY <1>1, <2>1, MonitorAssumption, FS_Subset DEF WorldInv, Ports
      <4>2. [p \in own |-> site.rate[p]] \in Surjection(own, R)
        BY DEF Surjection
      <4> QED
        BY <1>1, <4>1, <4>2, FS_Surjection
    <3> HIDE DEF R
    <3>3. IsFiniteSet({0} \cup R) /\ {0} \cup R \in SUBSET Nat /\ R \in SUBSET Nat
      BY <3>1, <3>2, FS_AddElement
    <3>4. /\ Max(R) \in R /\ \A k \in R : k <= Max(R)
          /\ Max({0} \cup R) \in {0} \cup R /\ \A k \in {0} \cup R : k <= Max({0} \cup R)
      BY <3>2, <3>3, LargestIsIn
    <3>5. Max(R) <= Max({0} \cup R) /\ Max(R) \in Nat \ {0} /\ Max({0} \cup R) \in Nat
      BY <3>1, <3>3, <3>4
    <3>6. Max({0} \cup R) \in R
      BY <3>4, <3>5
    <3>7. Max({0} \cup R) <= Max(R)
      BY <3>4, <3>6
    <3> QED
      BY <3>5, <3>7
  <2> QED
    BY <2>10, <2>11, <2>12
<1>2. MonitorInv => LinkFound
  BY <1>1 DEF LinkFound
<1> QED
  BY <1>2, MonitorAlways, PTL

(* The doctor tells a restart from a wrong Mac.                            *)
THEOREM MonitorDoctorTells == Spec => []DoctorTells
<1>1. MonitorInv => DoctorTells
  BY PinnedTells DEF MonitorInv
<1> QED
  BY <1>1, MonitorAlways, PTL
=============================================================================
