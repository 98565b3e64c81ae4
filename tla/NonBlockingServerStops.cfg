\* Both are violated: run TLC with -continue.
SPECIFICATION LeaveSpec
CONSTANTS
  Clients = {c1, c2}
  Messages = {"time"}
  MaxFd = 4
  SendBuf = 1
  Eager = {}
  MaxInbox = 1
  MayFail = FALSE
INVARIANTS KeepsRunning
PROPERTIES PendingAreAccepted
CHECK_DEADLOCK FALSE
