SPECIFICATION FairSpec
CONSTANTS
  Frames = {1, 2}
  Values = {1, 2}
  Sources = {1, 2}
  Oversized <- MCOversized
  Blocks = 1
  Batches = 1
  Disturbances = {"start", "stop", "reload", "edit", "key", "frame", "playback", "source", "mode", "removal", "bake", "failure"}
  MaxDisturbances = 3
INVARIANTS
  TypeOK
  CacheIsWhatItClaims
PROPERTIES
  BakeIsCoherent
  ConformantWorkerIsKept
  ShownFrameIsCurrent
  BakeEnds
  ExitIsReported
CHECK_DEADLOCK FALSE
