CONSTANTS
  N = 7
  Inf = 5
  Scale = 12
  Graphs <- MCGraphs
  MinSizes = {2, 3}
  Options <- MCOptions
SPECIFICATION Spec
CHECK_DEADLOCK FALSE
INVARIANT ExpectsHold
