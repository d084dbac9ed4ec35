SPECIFICATION FairSpec
CHECK_DEADLOCK FALSE
CONSTANTS
  QueueSize = 2
  MaxFailures = 2
  MaxSent = 3
  Draw = TRUE
  HasZones = TRUE
  OwnsClients = TRUE
  HookMayStop = TRUE
INVARIANTS
  StopSound ResultsAccounted EndIsReachable
PROPERTIES
  CancelledStopReturns
