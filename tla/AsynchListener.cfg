SPECIFICATION Spec
CONSTANTS
  Operations = {o1, o2, o3, o4}
  Backlog = 2
INVARIANTS
  TypeOK
  IInv
  NotDeaf
CHECK_DEADLOCK FALSE
