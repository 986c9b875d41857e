SPECIFICATION SetupSpec
CONSTANTS
  a = a
  b = b
  tmpl = tmpl
  mine = mine
  p1 = p1
  p2 = p2
  Bases = {tmpl, mine}
  Template = tmpl
  Absent = absent
  Torn = torn
  Default = default
  Idle = idle
  MaxSecond = 1
  Procs = {p1, p2}
  Sites <- AllSites
INVARIANTS Recoverable AgentFresh
PROPERTIES KeychainAgrees 
CHECK_DEADLOCK FALSE
