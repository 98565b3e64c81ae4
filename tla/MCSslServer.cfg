SPECIFICATION Spec
CONSTANTS
  Clients = {c1, c2, c3}
  Messages = {"hello", "part", "line", "quit", "junk"}
  MaxFd = 6
  SendBuf = 1
  MaxConnection = 3
  MayFail = TRUE
  Eager = {c1}
  MaxInbox = 2
INVARIANTS TablesAgree NoStaleRead SurvivesItsClients
PROPERTIES NeverForgets ImplementsEventLoop
SYMMETRY Symmetry
CHECK_DEADLOCK FALSE
