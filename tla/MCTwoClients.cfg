SPECIFICATION MCSpec
CONSTANTS
  Servers = {"nonblocking", "sequential", "select", "tls"}
  Clients = {c1, c2}
  Messages = {"time", "quit"}
  MaxFd = 5
  SendBuf = 1
  Eager = {c1}
  MaxInbox = 2
  Threads = {t1, t2}
  Cells = {x1, x2}
  MayFail = TRUE
INVARIANTS OneClientIn11 SendsIn11 LeftIn08
PROPERTIES AnsweredIn11 AcceptedIn08 AnsweredIn12 ReadInTls
CHECK_DEADLOCK FALSE
