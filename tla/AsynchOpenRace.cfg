SPECIFICATION Spec
CONSTANTS
  Users = {u1, u2}
  Worker = worker
  MaxWrites = 3
  PartialWrites = FALSE
  ConcurrentDispatch = TRUE
INVARIANTS
  OpenAssertion
CHECK_DEADLOCK FALSE
