SPECIFICATION FairSpec
CONSTANTS
  Users = {u1}
  Worker = worker
  Notified = {n1, n2}
  Reader = reader
  Connector = connector
  MaxNotifications = 1
  ConcurrentDispatch = FALSE
INVARIANTS
  TypeOK
  NoUseAfterDelete
PROPERTIES
  ImplementsRegistry
  ClosedLeaves
  FailedIsReclaimed
CHECK_DEADLOCK FALSE
