SPECIFICATION Spec
CONSTANTS
  docs = docs
  sub = sub
  dot = dot
  dev = dev
  top = top
  NoLimit = NoLimit
  Nil = nil
  Sites <- AllSites
INVARIANTS TypeOK NoneDropped FlagTells NewestKept
PROPERTIES WalkEnds
CHECK_DEADLOCK FALSE
