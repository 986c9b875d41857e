SPECIFICATION Spec
CONSTANTS
  sched = sched
  other = other
  Runners = {sched, other}
  Stray = stray
  Wheels = {1, 2}
  Version <- MCVersion
  Broken = broken
  None = none
  First = 1
  Sites <- AllSites
INVARIANTS OnlyOrphansOverlap BlastRadius OkMeansInstalled
PROPERTIES ReportOfHolder RunsEnd
CHECK_DEADLOCK FALSE
