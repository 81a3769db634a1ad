SPECIFICATION FairSpec
CONSTANTS
  Clients = {c1, c2}
  Descriptors = {d1, d2}
  NoDescriptor = NoDescriptor
PROPERTIES
  WaitLearns
CHECK_DEADLOCK FALSE
