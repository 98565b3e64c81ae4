\* Both are violated: run TLC with -continue.
SPECIFICATION Spec
CONSTANTS
  Programs = {"send05", "redirect07"}
  RequestLen = 2
  BufferSize = 3
  ResponseLen = 4
  MaxRedirection = 1
  Pages = 2
INVARIANTS RequestOnce PrintedIsFresh
CHECK_DEADLOCK FALSE
