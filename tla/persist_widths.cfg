SPECIFICATION Spec
CONSTANTS
  t1 = t1
  t2 = t2
  t3 = t3
  p1 = p1
  Nobody = Nobody
  Threads = {t1, t2, t3}
  Processes = {p1}
  ProcessOf <- AllInOne
  Kinds <- MCKinds
  Capable = {p1}
  MaxSaves = 1
  MaxCrashes = 0
CHECK_DEADLOCK FALSE
SYMMETRY Symmetry
INVARIANT
  LoadsIntoTheSavedArm
