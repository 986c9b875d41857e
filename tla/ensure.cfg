SPECIFICATION Spec
CONSTANTS
  Nobody = nobody
  Callers = {loop, other}
  Loop = loop
  Ifaces = {bridge, port}
  Bridge = bridge
  Default = bridge
  Mapped = {port}
  Addrs = {own, near}
  Own = own
  Lookalike = {near}
  Unrest = 2
INVARIANTS SuccessIsReal
PROPERTIES EnsurePromise Converges
