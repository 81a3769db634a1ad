SPECIFICATION FairSpec
CONSTANTS
  Sessions = {s1}
  Numbers = {1, 2}
  Users = {u1}
  Calls = {"stop"}
  RequestsFail = FALSE
  NoOne = NoOne
PROPERTIES
  StopReturns
CHECK_DEADLOCK FALSE
