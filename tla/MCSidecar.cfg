SPECIFICATION Spec
CONSTANTS
  MaxWorkers = 2
  Limits <- MCLimits
  KillExpires = FALSE
INVARIANTS
  TypeOK
  Delivered
  StoppedMeansGone
CHECK_DEADLOCK FALSE
