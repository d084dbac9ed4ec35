SPECIFICATION FairSpec
CONSTANTS
  PoolDepth = 2
  MaxBatch = 3
  MaxWrites = 4
  Outcomes = {"ok", "refused", "lost"}
  Reports = TRUE
INVARIANTS
  PoolSound
PROPERTIES
  NoTearing AcquireEnds
