SPECIFICATION Spec
CHECK_DEADLOCK FALSE
SYMMETRY Symmetry
CONSTANTS
  Threads = {t1, t2, t3}
  MaxDispatches = 3
  MaxCalls = 3
  MaxChanges = 1
INVARIANTS
  RetiredExists
