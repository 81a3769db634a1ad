SPECIFICATION Spec
CONSTANTS
  Users = {}
  Worker = worker
  Notified = {n1}
  Reader = reader
  Connector = connector
  MaxNotifications = 1
  ConcurrentDispatch = FALSE
INVARIANTS
  Reclaimed
CHECK_DEADLOCK FALSE
