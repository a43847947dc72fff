CONSTANTS
  u0 = u0
  u1 = u1
  u2 = u2
  Units <- MCUnits
  Nobody = Nobody
  Wrap = 2
  MaxArrived = 3
SPECIFICATION Spec
INVARIANTS
  NoLostWakeup
  CountMatchesRound
PROPERTIES
  ImplementsRendezvous
  NobodyHangs
