SPECIFICATION Spec
CONSTANT StreamLength = 8
INVARIANTS
  LengthsAgree
CHECK_DEADLOCK FALSE
