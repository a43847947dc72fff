CONSTANTS
  w1 = w1
  w2 = w2
  w3 = w3
  Driver = Driver
  Workers <- MCWorkers
  MaxPasses = 3
SPECIFICATION Spec
INVARIANTS
  RunIsComplete
  SlotIsExclusive
  SamePass
PROPERTIES
  RunEnds
  DropEnds
