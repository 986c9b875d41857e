---------------------------- MODULE MCLocalSetup ----------------------------
(* LocalSetup on one Mac with two processes, and on two Macs with one.     *)
EXTENDS LocalSetup, TLC

CONSTANTS a, b, tmpl, mine, p1, p2

Cmd(kind, mac, to, force, nokc) ==
  [kind |-> kind, mac |-> mac, to |-> to, force |-> force, nokc |-> nokc]
Plain(kinds, mac) == {Cmd(k, mac, mac, FALSE, FALSE) : k \in kinds}
Text0(base) == [base |-> base, edits |-> {}]

\* One process, one command after the other, on two Macs.
Sequence ==
  [macs |-> {a, b}, procs |-> {p1}, count |-> 3, faults |-> 1,
   disk |-> (a :> [base |-> mine, edits |-> {"own"}] @@ b :> Absent),
   kc |-> (a :> Absent @@ b :> Absent), bak |-> (a :> Text0(tmpl) @@ b :> Absent),
   commands |-> Plain({"init", "pull", "push", "refresh", "service", "unservice"}, a)
     \cup {Cmd("init", a, a, TRUE, FALSE), Cmd("init", a, a, TRUE, TRUE), Cmd("pull", a, a, TRUE, FALSE)}
     \cup {Cmd(k, a, b, f, FALSE) : k \in {"plant", "deliver"}, f \in BOOLEAN}]

\* Two at a time on one Mac, which has a configuration in its keychain.
Overlap ==
  [macs |-> {a}, procs |-> {p1, p2}, count |-> 2, faults |-> 1,
   disk |-> a :> Text0(mine), kc |-> a :> Text0(tmpl), bak |-> a :> Absent,
   commands |-> Plain({"init", "push", "refresh", "service", "unservice"}, a)
     \cup {Cmd("init", a, a, TRUE, FALSE), Cmd("pull", a, a, TRUE, FALSE)}]

\* Two Macs that push to each other and install each other.
Crossed ==
  [macs |-> {a, b}, procs |-> {p1, p2}, count |-> 2, faults |-> 1,
   disk |-> (a :> Text0(mine) @@ b :> Text0(tmpl)), kc |-> (a :> Absent @@ b :> Text0(mine)),
   bak |-> (a :> Absent @@ b :> Absent),
   commands |-> {Cmd(k, a, b, f, FALSE) : k \in {"plant", "deliver"}, f \in BOOLEAN}
     \cup {Cmd("plant", b, a, TRUE, FALSE), Cmd("deliver", b, a, TRUE, FALSE)}
     \cup Plain({"init", "refresh"}, b) \cup {Cmd("init", b, b, TRUE, FALSE)}]

\* An install, a push-peer and an init of one Mac that has nothing but a torn backup.
Fresh ==
  [macs |-> {a, b}, procs |-> {p1, p2}, count |-> 3, faults |-> 1,
   disk |-> (a :> Text0(mine) @@ b :> Absent), kc |-> (a :> Absent @@ b :> Absent),
   bak |-> (a :> Absent @@ b :> Torn),
   commands |-> {Cmd("plant", a, b, FALSE, FALSE), Cmd("deliver", a, b, TRUE, FALSE)}
     \cup Plain({"refresh"}, a) \cup {Cmd("init", b, b, FALSE, TRUE)}]

\* Installs of two definitions of the agent overlap: between them the template replaces the file.
Reinstalls ==
  [macs |-> {a}, procs |-> {p1, p2}, count |-> 3, faults |-> 0,
   disk |-> a :> Text0(mine), kc |-> a :> Absent, bak |-> a :> Absent,
   commands |-> {Cmd("init", a, a, TRUE, TRUE), Cmd("service", a, a, FALSE, FALSE)}]

AllSites == {Sequence, Overlap, Crossed, Fresh, Reinstalls}
=============================================================================
