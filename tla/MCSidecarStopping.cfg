SPECIFICATION FairSpec
CONSTANTS
  MaxWorkers = 1
  Limits <- MCInTime
  KillExpires = FALSE
PROPERTIES
  StoppingEnds
CHECK_DEADLOCK FALSE
