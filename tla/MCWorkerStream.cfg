SPECIFICATION FairSpec
CONSTANTS
  Prologue <- MCPrologue
  Methods = {"stream_start", "stream_chunk", "stream_settings", "stream_end", "cancel", "shutdown"}
  StdinCloses = TRUE
  MaxRequests = 7
  MaxOperations = 2
  MaxRevision = 1
  ChunkSizes = {1}
  StreamCapacity = 2
  TrackCapacity = 2
  FramesPerCall = 1
  TrackRows = 1
  PreviewRows = {0}
  BatchRows = 1
INVARIANTS
  IInv
  TerminalIsLast
  CancelWins
  StreamContract
CHECK_DEADLOCK FALSE
