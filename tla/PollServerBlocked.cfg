SPECIFICATION Spec
CONSTANTS
  Clients = {c1, c2, c3}
  MaxFd = 6
  SendBuf = 1
  Eager = {}
  Messages = {"time", "quit"}
  MaxInbox = 1
  MaxConnection = 3
  MayFail = FALSE
INVARIANTS NoBlockedRecv
CHECK_DEADLOCK FALSE
