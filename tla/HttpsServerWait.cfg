SPECIFICATION Spec
CONSTANTS
  NumThreads = 2
  MaxConns = 2
  MaxStarts = 2
  ProcessWaitExpires = FALSE
  ClientWaitExpires = TRUE
INVARIANT ClientsComplete
CHECK_DEADLOCK FALSE
