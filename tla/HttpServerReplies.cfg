\* All three are violated: run TLC with -continue.
SPECIFICATION Spec
CONSTANTS
  Clients = {c1, c2}
  Messages <- OneMissing
  MaxFd = 5
  SendBuf = 1
  MaxConnection = 2
  MayFail = FALSE
INVARIANTS EveryReplyFits OneContentLength KeepsListening
CHECK_DEADLOCK FALSE
