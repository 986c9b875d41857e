------------------------ MODULE MCTransportLadder -------------------------
(* TransportLadder on three files with every kind of file among them.      *)
EXTENDS TransportLadder

Default == [policy |-> "newer", push_only |-> FALSE, pull_only |-> FALSE, dry_run |-> FALSE,
            via |-> "tb", override |-> NoOverride, usable |-> RungNames, root_is_home |-> TRUE,
            rank |-> [n \in RungNames |-> CASE n = "rdma" -> 1 [] n = "tb" -> 2 [] OTHER -> 3]]

\* Every policy, every direction, and every way to choose the rungs.
MCOptions ==
  {[Default EXCEPT !.policy = p] : p \in Policies}
    \cup {[Default EXCEPT !.push_only = b, !.pull_only = ~b] : b \in BOOLEAN}
    \cup {[Default EXCEPT !.root_is_home = FALSE, !.override = o] : o \in {NoOverride, "rdma"}}
    \cup {[Default EXCEPT !.usable = {"tb"}], [Default EXCEPT !.override = "rdma"],
          [Default EXCEPT !.via = "wifi"], [Default EXCEPT !.dry_run = TRUE],
          [Default EXCEPT !.rank = [n \in RungNames |->
             CASE n = "wifi" -> 1 [] n = "rdma" -> 2 [] OTHER -> 3]]}

\* Only the two ssh rungs.
SshOnly == {[Default EXCEPT !.root_is_home = FALSE]}
=============================================================================
