CONSTANTS
  Connections = {c1, c2}
  Threads = {t1}
  MaxConnections = 2
  Dispatcher = Dispatcher
  Manager = Manager
SPECIFICATION Spec
PROPERTIES
  GetReturnsRequested
