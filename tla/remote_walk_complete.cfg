SPECIFICATION Spec
CONSTANTS
  docs = docs
  sub = sub
  dot = dot
  dev = dev
  top = top
  NoLimit = NoLimit
  Nil = nil
  Sites <- HomeOnly
INVARIANTS CompleteMeansWalked
CHECK_DEADLOCK FALSE
