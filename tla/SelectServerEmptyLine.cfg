SPECIFICATION FairSpec
CONSTANTS
  Clients = {c1, c2}
  MaxFd = 5
  SendBuf = 1
  Eager = {}
  Messages = {"time", ""}
  MaxInbox = 1
  MaxConnection = 2
  MayFail = FALSE
PROPERTIES WaitingEnds
CHECK_DEADLOCK FALSE
