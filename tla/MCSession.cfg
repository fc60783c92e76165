SPECIFICATION FairSpec
CONSTANTS
  MaxOperations = 2
  MaxChunks = 2
  MaxFrames = 1
  Capacity = 2
  Disturbances = {"edit", "mode", "removal", "stop", "failure"}
  MaxDisturbances = 2
INVARIANTS
  TypeOK
  AudioInOrder
  OneCredit
  OneOwner
PROPERTIES
  ConformantWorkerIsKept
  StreamIsReleased
