SPECIFICATION LeaveSpec
CONSTANTS
  Clients = {c1, c2}
  Messages = {"time"}
  MaxFd = 4
  SendBuf = 1
  Eager = {}
  MaxInbox = 2
  Threads = {t1, t2}
  Cells = {x1, x2}
  MayFail = FALSE
PROPERTIES PendingAreAccepted
CHECK_DEADLOCK FALSE
