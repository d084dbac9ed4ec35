SPECIFICATION FairSpec
CONSTANTS
  Capacity = 2
  MaxFailures = 2
  MaxSent = 5
INVARIANTS
  StreamSound LossesCounted
PROPERTIES
  KeepsPromise CancelWakes
