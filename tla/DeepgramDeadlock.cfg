CONSTANTS
  Cap = 2
  MaxTranscripts = 4
  Free = Free
  Finished = Finished
SPECIFICATION FairSpec
\* Where the lock cycle is closed nothing of the stream moves any more.
CHECK_DEADLOCK FALSE
PROPERTIES
  TrackCloseReturns
