SPECIFICATION Spec
CONSTANTS
  docs = docs
  sub = sub
  dot = dot
  dev = dev
  top = top
  NoLimit = NoLimit
  Nil = nil
  Sites <- DevOnly
INVARIANTS NewestKeptInDev
CHECK_DEADLOCK FALSE
