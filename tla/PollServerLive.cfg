SPECIFICATION FairSpec
CONSTANTS
  Clients = {c1, c2, c3}
  MaxFd = 5
  SendBuf = 1
  Eager = {c1}
  Messages = {"time"}
  MaxInbox = 1
  MaxConnection = 3
  MayFail = FALSE
PROPERTIES MonitoredAreServed
CHECK_DEADLOCK FALSE
