SPECIFICATION Spec
CONSTANT StreamLength = 8
INVARIANTS
  SessionsIndependent
CHECK_DEADLOCK FALSE
