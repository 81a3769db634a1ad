SPECIFICATION Spec
CONSTANTS
  Users = {u1, u2}
  Worker = worker
  MaxWrites = 3
  PartialWrites = FALSE
  ConcurrentDispatch = FALSE
INVARIANTS
  TypeOK
  ReferencesAccounted
  NoUseAfterDelete
  OpenAssertion
  IdleMeansWritten
PROPERTIES
  WritesKeepSocket
  ImplementsRegistry
CHECK_DEADLOCK FALSE
