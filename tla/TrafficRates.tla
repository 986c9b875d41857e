---------------------------- MODULE TrafficRates ----------------------------
(***************************************************************************)
(* TX/RX rates of `status` and `monitor` (health/traffic.py): byte         *)
(* counters of the interfaces, the last sample of every viewer, and the    *)
(* sample that viewers leave for each other in traffic_sample.json, under  *)
(* one temporary name for all of them.                                     *)
(***************************************************************************)
EXTENDS Integers, FiniteSets

CONSTANTS
  Viewers,   \* processes that run `status` or `monitor`
  Ifaces,    \* the bridge and its members
  MinGap,    \* TRAFFIC_MIN_DT_S, in ticks
  MaxGap,    \* TRAFFIC_MAX_DT_S
  NoFile,    \* there is no such file
  Horizon,   \* bound: ticks
  MaxStep    \* bound: how far the wall clock may be from where it was

ASSUME TrafficAssumption ==
  /\ {MinGap, MaxGap, Horizon, MaxStep} \subseteq Nat /\ 0 < MinGap /\ MinGap <= MaxGap

VARIABLES
  now,      \* the monotonic clock
  ahead,    \* how far the wall clock is ahead of it
  jumps,    \* ghost: how often the wall clock was set
  iface,    \* iface[i]: its byte counter; ghost: all bytes ever, and how often it was created
  cache,    \* traffic_sample.json
  temp,     \* the temporary file
  handle,   \* handle[v]: the file that the viewer is writing is "temp", "cache", or "gone"
  prev,     \* prev[v]: the last sample of every interface the viewer knows
  payload   \* payload[v]: what the viewer is about to save

trafficVars == <<now, ahead, jumps, iface, cache, temp, handle, prev, payload>>

Wall == now + ahead

\* The text of a file, or what two writers made of it.
Empty == [state |-> "empty", rows |-> <<>>]
Garbled == [state |-> "garbled", rows |-> <<>>]
Text(rows) == [state |-> "whole", rows |-> rows]

Partial(rows, values) == DOMAIN rows \subseteq Ifaces /\ \A i \in DOMAIN rows : rows[i] \in values

Counter == [bytes : 0..Horizon, all : 0..Horizon, made : 0..Horizon]
Sample == [bytes : 0..Horizon, all : 0..Horizon, made : 0..Horizon, time : 0..Horizon,
           at : -(Horizon + 2 * MaxStep)..Horizon, sure : BOOLEAN]
Saved == [bytes : 0..Horizon, all : 0..Horizon, made : 0..Horizon, time : 0..Horizon,
          wall : -MaxStep..Horizon + MaxStep, jumps : Nat]

IsText(file) ==
  file \in {NoFile, Empty, Garbled} \/ (file.state = "whole" /\ Partial(file.rows, Saved))

TrafficTypeOK(viewers) ==
  /\ now \in 0..Horizon /\ ahead \in -MaxStep..MaxStep /\ jumps \in Nat
  /\ iface \in [Ifaces -> Counter]
  /\ IsText(cache) /\ IsText(temp)
  /\ handle \in [viewers -> {"none", "temp", "cache", "gone"}]
  /\ DOMAIN prev = viewers /\ DOMAIN payload = viewers
  /\ \A v \in viewers : Partial(prev[v], Sample) /\ Partial(payload[v], Saved)

TrafficInit(viewers) ==
  /\ now = 0 /\ ahead = 0 /\ jumps = 0
  /\ iface = [i \in Ifaces |-> [bytes |-> 0, all |-> 0, made |-> 0]]
  /\ cache = NoFile /\ temp = NoFile
  /\ handle = [v \in viewers |-> "none"]
  /\ prev = [v \in viewers |-> <<>>] /\ payload = prev

-----------------------------------------------------------------------------
(* Time and traffic.                                                       *)

Counted(counter) == [counter EXCEPT !.bytes = @ + 1, !.all = @ + 1]

Tick ==
  /\ now < Horizon /\ now' = now + 1
  /\ \E busy \in SUBSET Ifaces :
       iface' = [i \in Ifaces |-> IF i \in busy THEN Counted(iface[i]) ELSE iface[i]]
  /\ UNCHANGED <<ahead, jumps, cache, temp, handle, prev, payload>>

\* The bridge is taken down and made again: its counter begins at zero.
Recreated(i) ==
  /\ iface[i].made < Horizon
  /\ iface' = [iface EXCEPT ![i].bytes = 0, ![i].made = @ + 1]
  /\ UNCHANGED <<now, ahead, jumps, cache, temp, handle, prev, payload>>

\* The wall clock is set, or the Mac slept and only the wall clock went on.
WallJumps ==
  /\ ahead' \in -MaxStep..MaxStep \ {ahead} /\ jumps' = jumps + 1
  /\ UNCHANGED <<now, iface, cache, temp, handle, prev, payload>>

-----------------------------------------------------------------------------
(* TrafficSampler.                                                         *)

\* Seeded fault: a sample from the file is as old as the process that reads it.
Age_None(saved) == 0

\* A sample from the future is new.
Age(saved) == IF Wall >= saved.wall THEN Wall - saved.wall ELSE 0

Recalled(saved) ==
  [bytes |-> saved.bytes, all |-> saved.all, made |-> saved.made, time |-> saved.time,
   at |-> now - Age(saved), sure |-> saved.jumps = jumps]

(* A new process starts from the file, if there is one that parses.        *)
Loads(v) ==
  /\ prev' = [prev EXCEPT ![v] =
       IF cache = NoFile \/ cache.state # "whole" THEN <<>>
       ELSE [i \in DOMAIN cache.rows |-> Recalled(cache.rows[i])]]
  /\ UNCHANGED <<now, ahead, jumps, iface, cache, temp, handle, payload>>

(* One look at all interfaces that netstat lists; this look is the next    *)
(* one's predecessor.                                                      *)
Observes(v, listed) ==
  /\ prev' = [prev EXCEPT ![v] = [i \in listed |->
       [bytes |-> iface[i].bytes, all |-> iface[i].all, made |-> iface[i].made,
        time |-> now, at |-> now, sure |-> TRUE]]]
  /\ payload' = [payload EXCEPT ![v] = [i \in listed |->
       [bytes |-> iface[i].bytes, all |-> iface[i].all, made |-> iface[i].made,
        time |-> now, wall |-> Wall, jumps |-> jumps]]]
  /\ UNCHANGED <<now, ahead, jumps, iface, cache, temp, handle>>

-----------------------------------------------------------------------------
(* save_counter_cache: write_text empties and fills the temporary file,    *)
(* replace renames it.  Every error is swallowed.                          *)

Opens(v) ==
  /\ temp' = Empty
  /\ handle' = [handle EXCEPT ![v] = "temp"]
  /\ UNCHANGED <<now, ahead, jumps, iface, cache, prev, payload>>

\* Over an empty file, or over another viewer's text, which may be longer.
Filled(file, v) ==
  IF file = Empty THEN {Text(payload[v])} ELSE {Text(payload[v]), Garbled}

Fills(v) ==
  /\ IF handle[v] = "temp" THEN temp' \in Filled(temp, v) ELSE UNCHANGED temp
  /\ IF handle[v] = "cache" THEN cache' \in Filled(cache, v) ELSE UNCHANGED cache
  /\ handle' = [handle EXCEPT ![v] = "none"]
  /\ UNCHANGED <<now, ahead, jumps, iface, prev, payload>>

\* The file a viewer writes keeps its writer when it is renamed.
Renamed == [v \in DOMAIN handle |->
  CASE handle[v] = "cache" -> "gone" [] handle[v] = "temp" -> "cache" [] OTHER -> handle[v]]

Replaces(v) ==
  /\ IF temp = NoFile THEN UNCHANGED <<cache, temp, handle>>
     ELSE cache' = temp /\ temp' = NoFile /\ handle' = Renamed
  /\ payload' = [payload EXCEPT ![v] = <<>>]
  /\ UNCHANGED <<now, ahead, jumps, iface, prev>>

\* The viewer ends, or writes no further; a new one in its place knows nothing.
Closes(v) ==
  /\ handle' = [handle EXCEPT ![v] = "none"]
  /\ prev' = [prev EXCEPT ![v] = <<>>] /\ payload' = [payload EXCEPT ![v] = <<>>]
  /\ UNCHANGED <<now, ahead, jumps, iface, cache, temp>>

-----------------------------------------------------------------------------
(* compute_traffic.                                                        *)

WentBack(i, before) == iface[i].bytes < before.bytes

Shown(i, before) == now - before.at \in MinGap..MaxGap /\ ~WentBack(i, before)

(* The rate a viewer shows is what went through the interface since its    *)
(* last sample, over the time since then, whichever process took that      *)
(* sample and however the writers of the cache overlapped.  It is wrong    *)
(* only if the wall clock was set in between, or a new interface has       *)
(* already counted more than the old one had (traffic.py:117).             *)
RateReal ==
  \A v \in DOMAIN prev : \A i \in DOMAIN prev[v] :
    LET before == prev[v][i]
    IN  Shown(i, before) /\ before.sure /\ iface[i].made = before.made =>
          /\ iface[i].bytes - before.bytes = iface[i].all - before.all
          /\ now - before.at = now - before.time
=============================================================================
