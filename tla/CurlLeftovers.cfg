\* Both are violated: run TLC with -continue -workers 1.
SPECIFICATION Spec
CONSTANTS
  Urls = {u1, u2}
  Basic = u1
  Size = 2
INVARIANTS EveryFileIsWhole HandlesReleased
CHECK_DEADLOCK FALSE
