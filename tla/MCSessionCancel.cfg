SPECIFICATION FairSpec
CONSTANTS
  MaxOperations = 1
  MaxChunks = 1
  MaxFrames = 1
  Capacity = 2
  Disturbances = {"mode"}
  MaxDisturbances = 1
PROPERTIES
  CanceledIsReleased
