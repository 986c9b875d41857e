---------------------------- MODULE MCAutomation ----------------------------
(* Automation on a few clusters.                                           *)
EXTENDS Automation, TLC

CONSTANTS sched, other

MCVersion == [w \in {1, 2} |-> 5]    \* two builds that say the same version

Cmd(kind, no_update, sync, peers) ==
  [kind |-> kind, no_update |-> no_update, sync |-> sync, peers |-> peers]
Rollout(peers) == Cmd("automation", FALSE, FALSE, peers)
Update == Cmd("update", FALSE, FALSE, {})

\* One coordinator, two peers.
Fleet == [macs |-> {1, 2, 3}, home |-> sched :> 1, maintained |-> {}, faults |-> 2,
          commands |-> {Rollout({2, 3})}]

\* Without update, or with a sync.
Variants == [macs |-> {1, 2}, home |-> sched :> 1, maintained |-> {}, faults |-> 1,
             commands |-> {Cmd("automation", TRUE, TRUE, {2}), Cmd("automation", FALSE, TRUE, {2})}]

\* Two runs on one Mac that has updated itself before.
TwoRuns == [macs |-> {1}, home |-> (sched :> 1 @@ other :> 1), maintained |-> {1}, faults |-> 2,
            commands |-> {Rollout({}), Update}]

\* Two Macs that maintain each other, and themselves.
TwoSides == [macs |-> {1, 2}, home |-> (sched :> 1 @@ other :> 2), maintained |-> {2}, faults |-> 2,
             commands |-> {Rollout({1}), Rollout({2}), Update}]

AllSites == {Fleet, Variants, TwoRuns, TwoSides}
=============================================================================
