CONSTANTS
  Connections = {c1, c2, c3}
  Threads = {t1, t2}
  MaxConnections = 2
  Dispatcher = Dispatcher
  Manager = Manager
SPECIFICATION Spec
SYMMETRY Symmetry
INVARIANTS
  TypeOK
  ReferencesAccounted
  HeldIsAlive
  DestroyedIsUnregistered
  LeavingIsListed
  NoLostWakeup
