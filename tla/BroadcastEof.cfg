\* Violated: at the end of stdin the prompt of 14_broadcasting.c spins.
SPECIFICATION Spec
CONSTANTS
  Hosts = {h1}
PROPERTIES EofEnds
CHECK_DEADLOCK FALSE
