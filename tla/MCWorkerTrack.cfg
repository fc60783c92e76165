SPECIFICATION FairSpec
CONSTANTS
  Prologue <- MCPrologue
  Methods = {"stream_settings", "stream_end", "track_chunk", "track_prepare", "track_render", "cancel"}
  StdinCloses = FALSE
  MaxRequests = 8
  MaxOperations = 1
  MaxRevision = 2
  ChunkSizes = {1}
  StreamCapacity = 2
  TrackCapacity = 2
  FramesPerCall = 1
  TrackRows = 2
  PreviewRows = {0, 1, 3}
  BatchRows = 1
INVARIANTS
  TrackContract
PROPERTIES
  RequestsAreAnswered
  AcceptedCancelEnds
  LatestRenderSettles
CHECK_DEADLOCK FALSE
