SPECIFICATION Spec
CONSTANTS
  Clients = {c1, c2, c3, c4}
  MaxFd = 6
  SendBuf = 1
  Eager = {}
  Messages = {"time", "quit"}
  MaxInbox = 1
  MaxConnection = 3
  MayFail = TRUE
INVARIANTS SlotsSound OneExchange SurvivesItsClients
PROPERTIES NeverForgets
SYMMETRY Symmetry
CHECK_DEADLOCK FALSE
