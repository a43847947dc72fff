CONSTANTS
  N = 5
  Inf = 4
  Units = 4
  Wrap = 2
  Graphs <- MCGraphs
SPECIFICATION Spec
INVARIANTS
  SameAsSerial
  SlotsAreQuiet
PROPERTIES
  ImplementsRendezvous
  Terminates
