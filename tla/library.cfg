SPECIFICATION LibSpec
CHECK_DEADLOCK FALSE
SYMMETRY Symmetry
CONSTANTS
  EncReaders = {m1, m2}
  EncAttempts = 2
  EncMaxSeq = 3
  EncMaxLives = 2
  EncMaxCuts = 1
  EncQueue = 1
  AudThreads = {m1, m2}
  AudMaxConns = 3
  AudMaxCloses = 2
  EvSubs = {m1, m2}
  EvQueue = 1
  EvMaxEvents = 2
  EvBatch = 2
  EvMaxCloses = 1
  PlDocs = {"empty", "one", "two"}
  PlEmpty = "empty"
  PlUsers = {m1, m2}
  PlMaxClock = 3
  PlMaxWrites = 3
  IpPasses = {m1, m2}
  CtlClients = {m1, m2}
  CtlMaxCalls = 3
  CtlUnset = unset
  GeoSizes <- MCSizes
  GeoFormats = {"NV12", "NV21", "RGB", "YUYV"}
  GeoMaxSteps = 2
  OvW = 12
  OvH = 14
  OvShapes <- MCShapes
  OvMaxShapes = 2
  OvThickness = 1
  OvBatches = {1, 5, 64}
  OvMinDim = 6
  OvStrip = 7
  OvOffset = 3
  OvFloor = 4
  OvBelow = 3
  OvAscent = 4
  DetAnchors <- MCAnchors
  DetMaxAnchors = 3
  DetScore = 2
  DetIous <- MCIous
  DetSource <- MCSource
  DetOrigin = 1
  DetScale = 2
INVARIANTS
  SeqExact AudioWhole HandlerQuiet BatchWhole DiscoverySound InputReleasedOnce
  NoLostField SequencesRestore GeometrySound FragmentsSound DetectionsSound
