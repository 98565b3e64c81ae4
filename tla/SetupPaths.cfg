SPECIFICATION MCSpec
CONSTANTS
  Kinds = {"setup"}
  Programs = {"send05"}
  RequestLen = 1
  BufferSize = 1
  ResponseLen = 1
  MaxRedirection = 1
  Pages = 1
  Urls = {u1}
  Basic = u1
  Size = 1
  Clients = {c1}
  Lines = {"time"}
  MaxRounds = 1
  MayLose = FALSE
  MayStray = {}
  Hosts = {h1}
  SetupPrograms = {"main01", "main02", "server08", "client08", "server09", "client09", "server10",
                   "client10", "server11", "client11", "server12", "client12",
                   "server13", "client13", "setup_socket"}
INVARIANTS ReturnsClean ReleasedOnce
CHECK_DEADLOCK FALSE
