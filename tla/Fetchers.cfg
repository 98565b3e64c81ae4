SPECIFICATION MCSpec
CONSTANTS
  Kinds = {"client", "example"}
  Programs = {"send05", "receive06", "redirect07", "https"}
  RequestLen = 2
  BufferSize = 3
  ResponseLen = 4
  MaxRedirection = 2
  Pages = 2
  Urls = {u1, u2}
  Basic = u1
  Size = 2
  Clients = {c1}
  Lines = {"time", "exit", ""}
  MaxRounds = 2
  MayLose = TRUE
  MayStray = {}
  Hosts = {h1}
  SetupPrograms = {"main01"}
INVARIANTS LastHopIsReturned ConnectionsBounded FilesAreWhole LibraryOutlivesTransfers
PROPERTIES ImplementsExchange ClientsEnd ExamplesEnd
CHECK_DEADLOCK FALSE
