SPECIFICATION ProgramSpec
CONSTANTS
  NumThreads = 2
  MaxConns = 4
  MaxStarts = 2
  ProcessWaitExpires = FALSE
  ClientWaitExpires = FALSE
  Site <- MCSite
  Urls = {1, 2, 3, 5}
  Cuts = {1, 2, 3, 4, 6, 9, 20}
INVARIANT TypeOK
INVARIANT OwnSocket
INVARIANT ClosedOnce
INVARIANT StoppedIsQuiet
INVARIANT NothingLeaks
 
PROPERTY DownloadReturns
 
PROPERTY StopReturns
CHECK_DEADLOCK FALSE
