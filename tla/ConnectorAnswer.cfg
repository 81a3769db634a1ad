SPECIFICATION Spec
CONSTANTS
  Clients = {c1}
  Descriptors = {d1, d2}
  NoDescriptor = NoDescriptor
INVARIANTS
  AnswerIsOwn
CHECK_DEADLOCK FALSE
