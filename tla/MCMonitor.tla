------------------------------ MODULE MCMonitor ------------------------------
(* Monitor with two viewers and no peers, and with one viewer and peers.   *)
EXTENDS Monitor, TLC

CONSTANTS mon, st, guest, display, model, brand

\* A monitor and a status command share the traffic cache.
Shared ==
  [viewers |-> {mon, st}, monitors |-> {mon}, nodes |-> {1}, devices |-> {}, macs |-> {},
   rate |-> <<>>, name |-> <<>>, hosts |-> <<{}>>, cables |-> {<<>>}, pinned |-> {1},
   exposes |-> {}, ssh |-> FALSE, mayfail |-> FALSE, listings |-> {Ifaces, {}},
   moves |-> {"time"}, unrest |-> 1]

\* Two peers of one model, and a Mac that is no node.
Trio ==
  [Shared EXCEPT !.viewers = {st}, !.monitors = {}, !.nodes = {1, 2, 3},
     !.devices = {2, 3, guest}, !.macs = {guest}, !.rate = <<1, 2>>,
     !.name = 2 :> model @@ 3 :> model @@ guest :> model, !.hosts = <<{}, {}, {}>>,
     !.cables = {<<2, 3>>, <<2, 2>>, <<3, Unknown>>}, !.pinned = {1, 2, 3},
     !.listings = {{}},
     !.moves = {"cable", "boot", "refresh", "carry"}, !.unrest = 3]

\* One peer, known by name only, a display with ids of its own, and a guest.
Pair ==
  [Trio EXCEPT !.nodes = {1, 2}, !.devices = {2, guest, display},
     !.name = 2 :> brand @@ guest :> model @@ display :> model, !.hosts = <<{}, {brand}>>,
     !.cables = {<<2, display>>, <<guest, Unknown>>}, !.pinned = {1},
     !.exposes = {display}, !.ssh = TRUE, !.mayfail = TRUE,
     !.moves = @ \cup {"unit", "ways"}, !.unrest = 2]

AllSites == {Shared, Trio, Pair}
=============================================================================
