SPECIFICATION ServerSpec
CONSTANTS
  Addresses = {a1, a2}
  Clients = {k1, k2}
  NoAddress = NoAddress
  Operations = {o1, o2, o3}
  Backlog = 2
INVARIANTS
  TypesOK
  FlagsTruthful
  NotDeaf
PROPERTIES
  NewAddress
  Served
CHECK_DEADLOCK FALSE
