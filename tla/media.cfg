SPECIFICATION Spec
CHECK_DEADLOCK FALSE
CONSTANTS
  Pullers = {p1}
  Getters = {g1}
  Closer = closer
  Budget = 2
  Interval = 2
  MaxFrames = 2
  MaxConns = 3
  MaxCloses = 1
  MaxFaults = 1
INVARIANTS
  NoOrphan LoansSound
PROPERTY KeepsLending
