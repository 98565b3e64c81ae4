\* All three are violated: run TLC with -continue.
SPECIFICATION Spec
CONSTANTS
  Programs = {"main04", "main05", "main06", "request07", "receiver14", "sender14",
              "ssl_client", "ssl_server", "https"}
INVARIANTS ReturnsClean ReleasedOnce ShutdownReachesPeer
CHECK_DEADLOCK FALSE
