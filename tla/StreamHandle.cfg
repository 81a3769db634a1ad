SPECIFICATION Spec
CONSTANTS
  Users = {}
  Worker = worker
  Notified = {}
  Reader = reader
  Connector = connector
  MaxNotifications = 0
  ConcurrentDispatch = FALSE
INVARIANTS
  HandleRetained
CHECK_DEADLOCK FALSE
