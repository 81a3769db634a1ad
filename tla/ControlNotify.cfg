SPECIFICATION Spec
CONSTANTS
  Sessions = {s1}
  Numbers = {1, 2}
  Users = {}
  Calls = {}
  RequestsFail = FALSE
  NoOne = NoOne
PROPERTIES
  NotifyFinds
CHECK_DEADLOCK FALSE
