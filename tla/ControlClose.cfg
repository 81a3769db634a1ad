SPECIFICATION FairSpec
CONSTANTS
  Sessions = {s1}
  Numbers = {1, 2}
  Users = {u1}
  Calls = {"close_and_wait"}
  RequestsFail = FALSE
  NoOne = NoOne
PROPERTIES
  CloseReturns
CHECK_DEADLOCK FALSE
