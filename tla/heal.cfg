SPECIFICATION Spec
CONSTANTS
  Nobody = nobody
  Agent = agent
  Callers = {agent, user}
  Intervals = {1, 2}
  Floor = 1
  Period = 2
  Longest = 3
  Unrest = 2
INVARIANTS OneMutator
PROPERTIES HealthyLoopSpared HungLoopRestarted AgentFinishes
