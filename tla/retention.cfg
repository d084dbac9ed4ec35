SPECIFICATION FairSpec
CHECK_DEADLOCK FALSE
CONSTANTS
  Holders = {h1, h2}
  Closer = closer
  MaxFrames = 2
  MaxCloses = 1
  MaxCopies = 1
INVARIANTS
  LedgerSound NoneForgotten
PROPERTIES
  Returns
