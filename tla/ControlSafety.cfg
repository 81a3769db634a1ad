SPECIFICATION Spec
CONSTANTS
  Sessions = {s1, s2}
  Numbers = {1, 2}
  Users = {u1}
  Calls = {"stop", "stop_and_wait", "wait", "close", "close_and_wait"}
  RequestsFail = TRUE
  NoOne = NoOne
INVARIANTS
  TypeOK
  CancelledIsUnused
CHECK_DEADLOCK FALSE
