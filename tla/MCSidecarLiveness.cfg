SPECIFICATION FairSpec
CONSTANTS
  MaxWorkers = 1
  Limits <- MCOutlasting
  KillExpires = TRUE
PROPERTIES
  WorkerStops
  ExitReported
CHECK_DEADLOCK FALSE
