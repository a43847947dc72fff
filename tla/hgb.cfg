CONSTANTS
  W = 3
  Jobs <- MCJobs
  HistTarget = 4
  MaxBlocks = 3
  HistBudget = 3
  MIN_ROWS_PER_BLOCK = 2
  Cuts <- MCCuts
SPECIFICATION Spec
CHECK_DEADLOCK FALSE
INVARIANTS
  PhasesAreApart
  RowsAreSerial
  ModelIsSerial
  WithinAllocation
  PoisonedFitFails
PROPERTY
  FitEnds
