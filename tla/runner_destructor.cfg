SPECIFICATION FairSpec
CHECK_DEADLOCK FALSE
CONSTANTS
  QueueSize = 1
  MaxFrames = 3
  MaxStops = 2
  MaxConsecutiveErrors = 2
  LastResultsKeep = 2
  HasSink = TRUE
PROPERTY
  DestructorReturns
