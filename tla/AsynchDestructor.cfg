SPECIFICATION Spec
CONSTANTS
  Users = {}
  Worker = worker
  MaxWrites = 1
  PartialWrites = FALSE
  ConcurrentDispatch = FALSE
INVARIANTS
  SocketReleased
CHECK_DEADLOCK FALSE
