SPECIFICATION Spec
CONSTANTS
  Clients = {c1, c2, c3}
  Messages <- AllRequests
  MaxFd = 6
  SendBuf = 2
  MaxConnection = 3
  MayFail = TRUE
INVARIANTS SlotsOpen OneReplyThenClosed ReplyFitsRequest
PROPERTIES NeverForgets
SYMMETRY Symmetry
CHECK_DEADLOCK FALSE
