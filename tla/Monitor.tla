------------------------------- MODULE Monitor -------------------------------
(***************************************************************************)
(* `status` and `monitor` (services/status_service.py): a snapshot put     *)
(* together from probes made one after the other, while cables are moved,  *)
(* Macs restart or are replaced, `config refresh-tb` runs on one of them,  *)
(* cluster.toml is carried from one to another, and other viewers use the  *)
(* same traffic cache.                                                     *)
(***************************************************************************)
EXTENDS TrafficRates, PeerLinks

CONSTANTS
  Sites,   \* viewers, ports, devices, names and what may happen
  Me       \* the node at which all this is looked at

VARIABLES
  site,    \* the setting at hand; it never changes
  view,    \* view[v]: where the viewer is and what it has seen
  cable,   \* cable[r]: the device at the other end of the port, or Unknown
  body,    \* body[n]: which piece of hardware the node is and how often it was started
  toml,    \* toml[n][m]: the ids of node m in the cluster.toml of node n
  ways,    \* ways[n]: how the node can be reached
  linked,  \* ghost: linked[v], what was at the ports at some time of the collection
  still,   \* ghost: still[v], nothing has changed since the collection began
  unrest   \* changes so far

linkVars == <<cable, body, toml, ways>>
vars == <<trafficVars, site, view, linkVars, linked, still, unrest>>

Peers == site.nodes \ {Me}
Ports == DOMAIN site.rate

ASSUME MonitorAssumption ==
  /\ Me \in Nodes
  /\ \A s \in Sites :
       /\ s.viewers \subseteq Viewers /\ s.monitors \subseteq s.viewers
       /\ Me \in s.nodes /\ s.nodes \subseteq Nodes /\ s.unrest \in Nat
       /\ s.devices \subseteq (s.nodes \ {Me}) \cup Strangers
       /\ IsFiniteSet(DOMAIN s.rate) /\ s.cables \subseteq [DOMAIN s.rate -> s.devices \cup {Unknown}]
       /\ DOMAIN s.name = s.devices /\ DOMAIN s.hosts = s.nodes
       /\ s.listings \subseteq SUBSET Ifaces
       \* no node lists the name of a device that is not this node
       /\ \A n \in s.nodes, d \in s.devices : s.name[d] \in s.hosts[n] => n = d
       \* two ports do not train at the same rate: a rate tells its port
       /\ \A p, q \in DOMAIN s.rate : s.rate[p] \in Nat \ {0} /\ (s.rate[p] = s.rate[q] => p = q)

Steps == {"idle", "probe", "load", "sample", "open", "fill", "replace", "ask", "shown"}

NoView == [pc |-> "idle", known |-> <<>>, ports |-> {}, todo |-> {}, up |-> {}, rows |-> <<>>,
           exit |-> 0, mesh |-> "single"]

TypeOK ==
  /\ site \in Sites
  /\ TrafficTypeOK(site.viewers)
  /\ DOMAIN view = site.viewers
  /\ \A v \in site.viewers :
       /\ view[v].pc \in Steps /\ {view[v].todo, view[v].up} \subseteq SUBSET Peers
       /\ view[v].todo \cap view[v].up = {}
       /\ view[v].pc = "shown" => view[v].todo = {} /\ DOMAIN view[v].rows = Peers
       /\ view[v].exit \in {0, 3} /\ view[v].mesh \in {"single", "ok", "isolated", "partial"}
       /\ \A p \in view[v].ports : p.at \in Ports /\ p.rate \in Nat
       /\ view[v].pc \notin {"fill", "replace"} => handle[v] = "none"
  /\ cable \in [Ports -> site.devices \cup {Unknown}]
  /\ body \in [site.nodes -> Nat \X Nat]
  /\ DOMAIN toml = site.nodes
  /\ \A n \in site.nodes : DOMAIN toml[n] = site.nodes
       /\ \A m \in site.nodes : toml[n][m].uids \subseteq site.nodes \X Nat
                                /\ toml[n][m].uuids \subseteq site.nodes \X Nat \X Nat
  /\ ways \in [Peers -> SUBSET {"ping", "tcp", "ssh"}]
  /\ unrest \in 0..site.unrest

Uid(d) == IF d \in site.nodes THEN <<d, body[d][1]>> ELSE <<d, 0>>
Uuid(d) == IF d \in site.nodes THEN <<d, body[d][1], body[d][2]>> ELSE <<d, 0, 0>>
Live(n) == [uids |-> {Uid(n)}, uuids |-> {Uuid(n)}]
Unpinned == [uids |-> {}, uuids |-> {}]

Init ==
  /\ site \in Sites
  /\ TrafficInit(site.viewers)
  /\ view = [v \in site.viewers |-> NoView]
  /\ cable \in site.cables
  /\ body = [n \in site.nodes |-> <<0, 0>>]
  /\ toml = [n \in site.nodes |-> [m \in site.nodes |->
       IF m \in site.pinned THEN [uids |-> {<<m, 0>>}, uuids |-> {<<m, 0, 0>>}] ELSE Unpinned]]
  /\ ways = [n \in Peers |-> {"ping"}]
  /\ linked = [v \in site.viewers |-> {}] /\ still = [v \in site.viewers |-> FALSE]
  /\ unrest = 0

-----------------------------------------------------------------------------
(* collect_status.                                                         *)

At(v, pc) == view[v].pc = pc
Go(v, pc) == view' = [view EXCEPT ![v].pc = pc]

NoTraffic == UNCHANGED trafficVars
NoLinks == UNCHANGED <<linkVars, linked, still, unrest>>
Rest == UNCHANGED <<site, unrest>>

AtPorts == {<<p, cable[p]>> : p \in Ports}

(* cluster.toml is read anew for every snapshot; a monitor recalls the     *)
(* cached sample before its first one.                                     *)
Starts(v) ==
  /\ view[v].pc \in {"idle", "shown"}
  /\ view' = [view EXCEPT ![v] = [NoView EXCEPT !.pc = "probe", !.todo = Peers,
       !.known = [n \in site.nodes |-> [uids |-> toml[Me][n].uids, uuids |-> toml[Me][n].uuids,
                                        names |-> site.hosts[n]]]]]
  /\ linked' = [linked EXCEPT ![v] = AtPorts] /\ still' = [still EXCEPT ![v] = TRUE]
  /\ IF v \in site.monitors /\ At(v, "idle") THEN Loads(v) ELSE NoTraffic
  /\ UNCHANGED linkVars /\ Rest

\* What system_profiler shows of a connected port.
Port(p) ==
  LET d == cable[p]
  IN  [at |-> p, rate |-> site.rate[p], mac |-> d \in site.nodes \cup site.macs,
       uid |-> IF d \in site.exposes THEN Uid(d) ELSE Unknown,
       uuid |-> Uuid(d), name |-> site.name[d]]

\* Seeded fault: a port without a trained rate is ranked with the others.
Bare_Ranked(p) ==
  [at |-> p, rate |-> -1, mac |-> FALSE, uid |-> Unknown, uuid |-> Unknown, name |-> Unknown]

\* ioreg knows that the port is connected, and no more.
Bare(p) == [at |-> p, rate |-> 0, mac |-> FALSE, uid |-> Unknown, uuid |-> Unknown, name |-> Unknown]

InUse == {p \in Ports : cable[p] # Unknown}

Probe(v, ports) ==
  /\ At(v, "probe")
  /\ view' = [view EXCEPT ![v].ports = ports,
                          ![v].pc = IF v \in site.monitors THEN "sample" ELSE "load"]
  /\ NoTraffic /\ NoLinks /\ UNCHANGED site

Probes(v) == Probe(v, {Port(p) : p \in InUse})

(* system_profiler fails or shows nothing; ioreg may fail as well.         *)
ProbeFails(v) ==
  /\ site.mayfail
  /\ Probe(v, {Bare(p) : p \in InUse}) \/ Probe(v, {})

(* collect_traffic: the sampler of this process; netstat may list nothing. *)
Recalls(v) ==
  /\ At(v, "load") /\ Loads(v) /\ Go(v, "sample")
  /\ NoLinks /\ UNCHANGED site

Samples(v) ==
  /\ At(v, "sample")
  /\ \E listed \in site.listings : Observes(v, listed)
  /\ Go(v, "open")
  /\ NoLinks /\ UNCHANGED site

Saves(v) ==
  /\ \/ At(v, "open") /\ Opens(v) /\ Go(v, "fill")
     \/ At(v, "fill") /\ Fills(v) /\ Go(v, "replace")
     \/ At(v, "replace") /\ Replaces(v) /\ Go(v, "ask")
  /\ NoLinks /\ UNCHANGED site

\* Without a cache directory, or on a full disk.
SaveFails(v) ==
  /\ site.mayfail /\ view[v].pc \in {"open", "fill"}
  /\ handle' = [handle EXCEPT ![v] = "none"] /\ payload' = [payload EXCEPT ![v] = <<>>]
  /\ Go(v, "ask")
  /\ UNCHANGED <<now, ahead, jumps, iface, cache, temp, prev>>
  /\ NoLinks /\ UNCHANGED site

(* probe_peer, one peer after the other.                                   *)
Asks(v) ==
  /\ At(v, "ask") /\ view[v].todo # {}
  /\ LET n == Earliest(view[v].todo)
     IN  view' = [view EXCEPT ![v].todo = @ \ {n},
                              ![v].up = IF Reached(ways[n], site.ssh) THEN @ \cup {n} ELSE @]
  /\ NoTraffic /\ NoLinks /\ UNCHANGED site

Row(s, n) ==
  [link |-> Connected(s.known, Peers, s.ports, n, s.up),
   rate |-> Rate(PortsOf(s.known, Peers, s.ports, n)), up |-> n \in s.up]

(* The rows, the exit code and the verdict on the mesh.                    *)
Shows(v) ==
  /\ At(v, "ask") /\ view[v].todo = {}
  /\ view' = [view EXCEPT ![v].pc = "shown", ![v].rows = [n \in Peers |-> Row(view[v], n)],
                          ![v].exit = Exit(Peers, view[v].up), ![v].mesh = Mesh(Peers, view[v].up)]
  /\ NoTraffic /\ NoLinks /\ UNCHANGED site

(* A status command is over; any viewer may be ended at any time.          *)
Ends(v) ==
  /\ view[v].pc # "idle" /\ Closes(v)
  /\ view' = [view EXCEPT ![v] = NoView]
  /\ linked' = [linked EXCEPT ![v] = {}] /\ still' = [still EXCEPT ![v] = FALSE]
  /\ UNCHANGED linkVars /\ Rest

ViewStep(v) ==
  \/ Starts(v) \/ Probes(v) \/ ProbeFails(v) \/ Recalls(v) \/ Samples(v) \/ Saves(v)
  \/ SaveFails(v) \/ Asks(v) \/ Shows(v) \/ Ends(v)

-----------------------------------------------------------------------------
(* What goes on meanwhile.                                                 *)

Disturbed ==
  /\ unrest < site.unrest /\ unrest' = unrest + 1
  /\ still' = [v \in site.viewers |-> FALSE]

LinksOnly == NoTraffic /\ UNCHANGED <<site, view>>

Recabled ==
  /\ \E p \in Ports : \E d \in site.devices \cup {Unknown} : cable' = [cable EXCEPT ![p] = d]
  /\ linked' = [v \in site.viewers |-> linked[v] \cup {<<p, cable'[p]>> : p \in Ports}]
  /\ Disturbed /\ LinksOnly /\ UNCHANGED <<body, toml, ways>>

\* New domain UUIDs.  A restart of this Mac ends its viewers, which Ends stands for.
Reboots(n) ==
  /\ body' = [body EXCEPT ![n][2] = @ + 1]
  /\ Disturbed /\ LinksOnly /\ UNCHANGED <<cable, toml, ways, linked>>

\* Another Mac takes the place of the node, with the node's cluster.toml.
Replaced(n) ==
  /\ body' = [body EXCEPT ![n] = <<@[1] + 1, 0>>]
  /\ Disturbed /\ LinksOnly /\ UNCHANGED <<cable, toml, ways, linked>>

\* What `config refresh-tb` finds: ids from system_profiler, or only UUIDs from ioreg.
Found(n) == {Live(n)} \cup (IF site.mayfail THEN {[Live(n) EXCEPT !.uids = {}]} ELSE {})

(* config refresh-tb --apply on that node: the entry of the node itself.   *)
Refreshes(n) ==
  /\ \E ids \in Found(n) : toml' = [toml EXCEPT ![n][n] = ids]
  /\ Disturbed /\ LinksOnly /\ UNCHANGED <<cable, body, ways, linked>>

(* keychain push-peer or a remote install: the whole file, in place.       *)
Carried(a, b) ==
  /\ toml[a] # toml[b] /\ toml' = [toml EXCEPT ![b] = toml[a]]
  /\ Disturbed /\ LinksOnly /\ UNCHANGED <<cable, body, ways, linked>>

WaysChange ==
  /\ \E n \in Peers : \E w \in {{}, {"ping"}, {"tcp"}, {"ssh"}} : ways' = [ways EXCEPT ![n] = w]
  /\ Disturbed /\ LinksOnly /\ UNCHANGED <<cable, body, toml, linked>>

TrafficMoves ==
  /\ "time" \in site.moves
  /\ \/ Tick /\ UNCHANGED unrest
     \/ /\ unrest < site.unrest /\ unrest' = unrest + 1
        /\ WallJumps \/ \E i \in Ifaces : Recreated(i)
  /\ UNCHANGED <<site, view, linkVars, linked, still>>

Next ==
  \/ \E v \in site.viewers : ViewStep(v)
  \/ TrafficMoves
  \/ "cable" \in site.moves /\ Recabled
  \/ "ways" \in site.moves /\ WaysChange
  \/ \E n \in site.nodes : \/ "boot" \in site.moves /\ Reboots(n)
                           \/ "unit" \in site.moves /\ Replaced(n)
                           \/ "refresh" \in site.moves /\ Refreshes(n)
  \/ "carry" \in site.moves /\ \E a, b \in site.nodes : Carried(a, b)

Spec == Init /\ [][Next]_vars

-----------------------------------------------------------------------------
(* Properties.                                                             *)

\* Port p was where the row's rate comes from.
PortOfRate(rate) == CHOOSE p \in Ports : site.rate[p] = rate

(* A row shows a rate only of a link to its own peer, as of some time      *)
(* during the collection, never that of another peer: a missing rate is    *)
(* better (topology/match.py:53).  If it is the only peer, the rate may be *)
(* that of a Mac outside the cluster.                                      *)
OwnLinkRate ==
  \A v \in site.viewers : At(v, "shown") =>
    \A n \in Peers :
      LET rate == view[v].rows[n].rate
          p    == PortOfRate(rate)
      IN  rate # 0 =>
            \/ <<p, n>> \in linked[v]
            \/ Peers = {n} /\ \E d \in Strangers : <<p, d>> \in linked[v]

(* A snapshot in a quiet time shows every peer whose current ids are in    *)
(* cluster.toml with the best of its own links, if system_profiler works:  *)
(* restarts, replaced Macs and files carried around in any order leave     *)
(* nothing behind once refresh-tb has run and its file has come here.      *)
LinkFound ==
  \A v \in site.viewers : At(v, "shown") /\ still[v] /\ view[v].ports = {Port(p) : p \in InUse} =>
    \A n \in Peers :
      LET own == {p \in Ports : cable[p] = n}
      IN  own # {} /\ Uuid(n) \in toml[Me][n].uuids =>
            /\ view[v].rows[n].link
            /\ view[v].rows[n].rate = Max({site.rate[p] : p \in own})

(* The doctor tells a restart from a wrong Mac: "stale" is said of the     *)
(* same hardware started anew, "mismatch" of other hardware, and "current" *)
(* of ids from this start (tb_identity.py:200).  Only where ioreg shows no *)
(* controller UIDs may it take a restart for a wrong Mac.                  *)
DoctorTells ==
  LET entry   == toml[Me][Me]
      verdict == Verdict(entry, Live(Me))
      mine    == {u \in entry.uuids : u[1] = Me /\ u[2] = body[Me][1]}
  IN  /\ verdict = "current" => Uuid(Me) \in entry.uuids
      /\ verdict = "stale" => mine # {} /\ Uuid(Me) \notin entry.uuids
      /\ verdict = "mismatch" => mine = {}
=============================================================================
