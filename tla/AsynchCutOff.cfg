SPECIFICATION Spec
CONSTANTS
  Users = {u1, u2}
  Worker = worker
  MaxWrites = 3
  PartialWrites = FALSE
  ConcurrentDispatch = FALSE
PROPERTIES
  OutputFlushed
CHECK_DEADLOCK FALSE
