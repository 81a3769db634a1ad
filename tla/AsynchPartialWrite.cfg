SPECIFICATION Spec
CONSTANTS
  Users = {u1, u2}
  Worker = worker
  MaxWrites = 3
  PartialWrites = TRUE
  ConcurrentDispatch = FALSE
INVARIANTS
  ReferencesAccounted
CHECK_DEADLOCK FALSE
