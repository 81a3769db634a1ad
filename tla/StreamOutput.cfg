SPECIFICATION Spec
CONSTANTS
  Users = {}
  Worker = worker
  Notified = {n1}
  Reader = reader
  Connector = connector
  MaxNotifications = 1
  ConcurrentDispatch = FALSE
INVARIANTS
  OutputKeepsConnection
CHECK_DEADLOCK FALSE
