SPECIFICATION Spec
CONSTANTS
  NoLimit = NoLimit
  Paths = {1, 2, 3}
  Large = {2}
  Denied = {1}
  Empty = {3}
  Unreadable = {3}
  ChunkFiles = 1
  Options <- MCOptions
  RestatMayFail = TRUE
INVARIANTS OkMeansDelivered ResendOnlyWhenBlind
PROPERTIES SourceIntact ImplementsPeerTransfer Ends
CHECK_DEADLOCK FALSE
