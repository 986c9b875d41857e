------------------------------ MODULE PeerLinks ------------------------------
(***************************************************************************)
(* Which Thunderbolt port leads to which node: what a probe shows of a     *)
(* port, what cluster.toml says of a node, and what status, topo and       *)
(* doctor conclude (mapping/, topology/, health/).                         *)
(*                                                                         *)
(* A device is told by its controller UID, which it keeps, by a domain     *)
(* UUID, which it gets anew with every boot, or by its name, which is a    *)
(* model code that several devices share.                                  *)
(***************************************************************************)
EXTENDS FiniteSets, FiniteSetsExt, Integers

CONSTANTS
  Nodes,      \* the nodes of cluster.toml, numbered in its order
  Strangers,  \* other devices: a Mac that is no node, a display
  Unknown     \* no uid, uuid, name, node or rate

ASSUME LinkAssumption ==
  /\ Nodes \subseteq Nat \ {0} /\ IsFiniteSet(Nodes) /\ Nodes \cap Strangers = {}
  /\ Unknown \notin Nodes \cup Strangers \cup (Nodes \X Nat \X Nat)

-----------------------------------------------------------------------------
(* match_node: controller UID, then domain UUID, then name.                *)

Earliest(nodes) == IF nodes = {} THEN Unknown ELSE Min(nodes)

\* known[n]: the ids and names that cluster.toml has for the node.
ByUid(known, nodes, port) == {n \in nodes : port.uid # Unknown /\ port.uid \in known[n].uids}
\* Seeded fault: the UUID counts only for a node without a pinned UID.
ByUuid_Unpinned(known, nodes, port) ==
  {n \in nodes : known[n].uids = {} /\ port.uuid # Unknown /\ port.uuid \in known[n].uuids}

ByUuid(known, nodes, port) == {n \in nodes : port.uuid # Unknown /\ port.uuid \in known[n].uuids}
ByName(known, nodes, port) == {n \in nodes : port.name # Unknown /\ port.name \in known[n].names}

Match(known, nodes, port) ==
  IF ByUid(known, nodes, port) # {} THEN Earliest(ByUid(known, nodes, port))
  ELSE IF ByUuid(known, nodes, port) # {} THEN Earliest(ByUuid(known, nodes, port))
  ELSE Earliest(ByName(known, nodes, port))

-----------------------------------------------------------------------------
(* ports_by_peer.                                                          *)

Matched(known, peers, ports, n) == {p \in ports : Match(known, peers, p) = n}
AnyMatched(known, peers, ports) == \E p \in ports : Match(known, peers, p) # Unknown
MacPorts(ports) == {p \in ports : p.mac}

\* Seeded fault: a row without a link of its own shows the machine's only Mac link.
LonePort_Any(known, peers, ports) ==
  IF Cardinality(MacPorts(ports)) = 1 THEN MacPorts(ports) ELSE {}

\* One peer, one port with a Mac behind it, and no match at all: they belong together.
LonePort(known, peers, ports) ==
  IF /\ ~AnyMatched(known, peers, ports)
     /\ Cardinality(peers) = 1 /\ Cardinality(MacPorts(ports)) = 1
    THEN MacPorts(ports) ELSE {}

PortsOf(known, peers, ports, n) ==
  IF Matched(known, peers, ports, n) # {} THEN Matched(known, peers, ports, n)
  ELSE LonePort(known, peers, ports)

\* best_link_speed: the highest trained rate of one peer's ports, 0 if none is known.
Rate(ports) == Max({0} \cup {p.rate : p \in ports})

-----------------------------------------------------------------------------
(* check_tb_identity: the ids in cluster.toml against the live ones.       *)

\* Seeded fault: a UUID that is not the live one is put down to a reboot.
Verdict_Rebooted(entry, live) ==
  IF live.uuids \cap entry.uuids # {} THEN "current"
  ELSE IF entry.uuids # {} THEN "stale"
  ELSE "unpinned"

Verdict(entry, live) ==
  IF live.uuids = {} /\ live.uids = {} THEN "unprobed"
  ELSE IF live.uuids \cap entry.uuids # {} THEN "current"
  ELSE IF entry.uuids = {} /\ entry.uids = {} THEN "unpinned"
  ELSE IF entry.uuids # {} /\ live.uids \cap entry.uids # {} THEN "stale"
  ELSE IF entry.uuids # {} /\ entry.uids = {} THEN "unverified"
  ELSE IF live.uids \cap entry.uids # {} THEN "uids only"
  ELSE "mismatch"

-----------------------------------------------------------------------------
(* Reachability and what is made of it.                                    *)

\* ping from the cluster address, then ssh's port, then ssh if it is enabled.
Reached(answers, sshProbes) ==
  "ping" \in answers \/ "tcp" \in answers \/ (sshProbes /\ "ssh" \in answers)

\* A link of its own, or the peer answers and some Mac is linked.
Connected(known, peers, ports, n, up) ==
  PortsOf(known, peers, ports, n) # {} \/ (n \in up /\ MacPorts(ports) # {})

\* The exit code of `status`.
Exit(peers, up) == IF peers \ up # {} THEN 3 ELSE 0

\* The verdict on the mesh.
Mesh(peers, up) ==
  IF peers = {} THEN "single" ELSE IF peers \subseteq up THEN "ok"
  ELSE IF up = {} THEN "isolated" ELSE "partial"
=============================================================================
