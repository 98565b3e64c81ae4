SPECIFICATION Spec
CONSTANTS
  Clients = {c1, c2}
  MaxFd = 5
  SendBuf = 1
  Eager = {}
  Messages = {"time"}
  MaxInbox = 1
  MaxConnection = 1
  MayFail = FALSE
INVARIANTS AcceptedIsMonitored
CHECK_DEADLOCK FALSE
