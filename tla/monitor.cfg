SPECIFICATION Spec
CONSTANTS
  mon = mon
  st = st
  guest = guest
  display = display
  model = model
  brand = brand
  Viewers = {mon, st}
  Ifaces = {bridge}
  MinGap = 1
  MaxGap = 1
  NoFile = nofile
  Horizon = 2
  MaxStep = 1
  Nodes = {1, 2, 3}
  Strangers = {guest, display}
  Unknown = unknown
  Me = 1
  Sites <- AllSites
INVARIANTS TypeOK RateReal OwnLinkRate LinkFound DoctorTells
