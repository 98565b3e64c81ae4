SPECIFICATION FairSpec
CONSTANTS
  Clients = {c1, c2}
  Messages = {"time", "quit"}
  MaxFd = 4
  SendBuf = 1
  Eager = {}
  MaxInbox = 1
PROPERTIES PendingAreAccepted
CHECK_DEADLOCK FALSE
