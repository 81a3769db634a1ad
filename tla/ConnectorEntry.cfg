SPECIFICATION Spec
CONSTANTS
  Clients = {c1, c2}
  Descriptors = {d1, d2}
  NoDescriptor = NoDescriptor
INVARIANTS
  EntryKept
CHECK_DEADLOCK FALSE
