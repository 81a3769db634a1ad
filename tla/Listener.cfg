SPECIFICATION FairSpec
CONSTANTS
  Addresses = {a1, a2}
  Clients = {k1, k2}
  NoAddress = NoAddress
INVARIANTS
  TypeOK
  FlagsTruthful
PROPERTIES
  NewAddress
  Served
CHECK_DEADLOCK FALSE
