SPECIFICATION FairSpec
CONSTANTS
  Sessions = {s1}
  Numbers = {1, 2, 3}
  Users = {u1}
  Calls = {"wait", "close"}
  RequestsFail = FALSE
  NoOne = NoOne
INVARIANTS
  WaitersAwakened
PROPERTIES
  SessionEnds
  WaitReturns
CHECK_DEADLOCK FALSE
