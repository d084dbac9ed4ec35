SPECIFICATION FairSpec
CHECK_DEADLOCK FALSE
CONSTANTS
  QueueSize = 2
  MaxFrames = 4
  MaxStops = 1
  MaxConsecutiveErrors = 2
  LastResultsKeep = 2
  HasSink = FALSE
INVARIANTS
  FramesSound InOrder NoLostSentinel DrainsOnlyAfterStop NothingLeaks
PROPERTIES
  WorkerEnds
