SPECIFICATION Spec
CONSTANTS
  Sessions = {s1}
  Numbers = {1, 2}
  Users = {u1, u2}
  Calls = {"stop", "wait"}
  RequestsFail = FALSE
  NoOne = NoOne
INVARIANTS
  WaitersAwakened
CHECK_DEADLOCK FALSE
