SPECIFICATION MCSpec
CONSTANTS
  Servers = {"threads"}
  Clients = {c1, c2}
  Messages = {"time", "quit"}
  MaxFd = 5
  SendBuf = 1
  Eager = {c1}
  MaxInbox = 2
  Threads = {t1, t2}
  Cells = {x1, x2}
  MayFail = TRUE
INVARIANTS OwnConnection CellsHaveOwners
PROPERTIES AskersAnswered
CHECK_DEADLOCK FALSE
