SPECIFICATION Spec
CONSTANTS
  Clients = {c1, c2}
  Messages = {"hello", "part", "line", "quit", "junk"}
  MaxFd = 5
  SendBuf = 1
  MaxConnection = 3
  MayFail = FALSE
  Eager = {}
  MaxInbox = 1
PROPERTIES OnlyLeaversDropped
CHECK_DEADLOCK FALSE
