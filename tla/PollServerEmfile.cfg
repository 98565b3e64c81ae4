SPECIFICATION FairSpec
CONSTANTS
  Clients = {c1, c2}
  MaxFd = 4
  SendBuf = 1
  Eager = {}
  Messages = {"time", "quit"}
  MaxInbox = 1
  MaxConnection = 3
  MayFail = FALSE
PROPERTIES AllMonitoredAreServed
CHECK_DEADLOCK FALSE
