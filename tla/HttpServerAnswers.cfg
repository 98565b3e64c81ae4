SPECIFICATION FairSpec
CONSTANTS
  Clients = {c1, c2}
  Messages <- OnePage
  MaxFd = 5
  SendBuf = 1
  MaxConnection = 3
  MayFail = FALSE
PROPERTIES RequestsAnswered
CHECK_DEADLOCK FALSE
