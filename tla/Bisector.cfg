SPECIFICATION Spec
CONSTANT StreamLength = 8
INVARIANTS
  TypeOK
  FramesAreMessages
  NothingWithheld
CHECK_DEADLOCK FALSE
