SPECIFICATION Spec
CONSTANTS
  Clients = {c1, c2}
  Descriptors = {d1, d2}
  NoDescriptor = NoDescriptor
INVARIANTS
  IteratorStays
CHECK_DEADLOCK FALSE
