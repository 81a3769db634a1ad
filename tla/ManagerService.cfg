CONSTANTS
  Connections = {c1, c2}
  Threads = {t1, t2}
  MaxConnections = 1
  Dispatcher = Dispatcher
  Manager = Manager
SPECIFICATION FairSpec
INVARIANTS
  TypeOK
  ReferencesAccounted
  DestroyedIsUnregistered
  LeavingIsListed
  NoLostWakeup
PROPERTIES
  ImplementsRegistry
  ClosedLeaves
  AbortDrains
  WaitReturns
