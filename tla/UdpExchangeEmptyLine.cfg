SPECIFICATION FairSpec
CONSTANTS
  Clients = {c1, c2}
  Lines = {"time", "exit", ""}
  MaxRounds = 2
  MayLose = FALSE
  MayStray = {}
PROPERTIES WaitingEnds
CHECK_DEADLOCK FALSE
