SPECIFICATION FairSpec
CONSTANTS
  Users = {u1, u2}
  Worker = worker
  MaxWrites = 2
  PartialWrites = TRUE
  ConcurrentDispatch = TRUE
PROPERTIES
  ClosedIsReclaimed
CHECK_DEADLOCK FALSE
