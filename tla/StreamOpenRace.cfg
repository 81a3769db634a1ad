SPECIFICATION Spec
CONSTANTS
  Users = {}
  Worker = worker
  Notified = {}
  Reader = reader
  Connector = connector
  MaxNotifications = 0
  ConcurrentDispatch = TRUE
INVARIANTS
  NoUseAfterDelete
CHECK_DEADLOCK FALSE
