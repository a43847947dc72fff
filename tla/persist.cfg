SPECIFICATION Spec
CONSTANTS
  t1 = t1
  t2 = t2
  t3 = t3
  p1 = p1
  Nobody = Nobody
  Threads = {t1, t2, t3}
  Processes = {p1}
  ProcessOf <- AllInOne
  Kinds <- MCKinds
  Capable = {p1}
  MaxSaves = 3
  MaxCrashes = 1
CHECK_DEADLOCK FALSE
SYMMETRY Symmetry
INVARIANTS
  ExtrasBelong
  SavedIsStored
  LoadsAtTheFilesWidth
