SPECIFICATION FairSpec
CONSTANTS
  MaxRuns = 3
  MaxControllers = 2
  MaxFailures = 2
  Crashes = TRUE
INVARIANTS
  TypeOK
  PairNeverMixed
PROPERTIES
  StableUnderWorker
  OnlyCurrentRunMoves
  AtomicActivation
  OutcomeIsTrue
  CancelIsHonored
CHECK_DEADLOCK FALSE
