SPECIFICATION FairSpec
CONSTANTS
  Prologue <- MCPrologue
  Methods = {"shutdown"}
  StdinCloses = FALSE
  MaxRequests = 7
  MaxOperations = 1
  MaxRevision = 1
  ChunkSizes = {1}
  StreamCapacity = 2
  TrackCapacity = 2
  FramesPerCall = 1
  TrackRows = 1
  PreviewRows = {0}
  BatchRows = 1
PROPERTIES
  ShutdownCompletes
CHECK_DEADLOCK FALSE
