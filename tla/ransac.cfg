CONSTANTS
  NaN = NaN
  Period = 3
  Rows = 3
  Scores = {1, 2}
  DynamicTrials <- MCDynamicTrials
  Configs <- MCConfigs
SPECIFICATION Spec
CHECK_DEADLOCK FALSE
INVARIANTS
  IncumbentIsBest
PROPERTIES
  ImplementsLoop
  WithinBudget
