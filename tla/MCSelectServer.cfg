SPECIFICATION Spec
CONSTANTS
  Clients = {c1, c2, c3}
  MaxFd = 6
  SendBuf = 1
  Eager = {c1}
  Messages = {"time", "quit"}
  MaxInbox = 1
  MaxConnection = 2
  MayFail = TRUE
INVARIANTS TablesAgree LoopGoesOn
PROPERTIES ImplementsEventLoop
SYMMETRY Symmetry
CHECK_DEADLOCK FALSE
