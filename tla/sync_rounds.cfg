SPECIFICATION Spec
CONSTANTS
  NoLimit = NoLimit
  Paths <- MCPaths
  Times <- MCTimes
  Sizes <- MCSizes
  FileLimits = {NoLimit, 1}
  ByteLimits = {NoLimit, 1}
INVARIANTS BatchMakesProgress OneDirection SettledMeansEqual
PROPERTIES PolicyHonoured RoundsSettle
