SPECIFICATION FairSpec
CONSTANTS
  Clients = {c1, c2}
  Descriptors = {d1, d2}
  NoDescriptor = NoDescriptor
INVARIANTS
  TypeOK
  SocketsOwned
  EntriesCurrent
  NothingLeftPending
PROPERTIES
  WaitReturns
CHECK_DEADLOCK FALSE
