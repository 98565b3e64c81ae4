SPECIFICATION MCSpec
CONSTANTS
  Kinds = {"udp", "broadcast"}
  Programs = {"send05", "receive06", "redirect07", "https"}
  RequestLen = 2
  BufferSize = 3
  ResponseLen = 4
  MaxRedirection = 2
  Pages = 2
  Urls = {u1}
  Basic = u1
  Size = 2
  Clients = {c1, c2}
  Lines = {"time", "exit", ""}
  MaxRounds = 2
  MayLose = TRUE
  MayStray = {c1}
  Hosts = {h1, h2}
  SetupPrograms = {"main01"}
INVARIANTS DatagramsSound
PROPERTIES AskersAnswered PeersAreHeard QuitEnds
CHECK_DEADLOCK FALSE
