SPECIFICATION Spec
CHECK_DEADLOCK FALSE
SYMMETRY Symmetry
CONSTANTS
  Threads = {t1, t2}
  MaxIds = 3
  MaxJobs = 2
  MaxCalls = 3
  MaxConns = 2
INVARIANTS
  IdsSound OneKeeper
PROPERTY
  BuffersOutliveJobs
