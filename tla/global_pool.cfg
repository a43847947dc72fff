CONSTANTS
  t1 = t1
  t2 = t2
  b1 = b1
  b2 = b2
  b3 = b3
  Threads <- MCThreads
  Nobody = Nobody
  Buffers <- MCBuffers
  SizeOf <- MCSizeOf
  MaxLive = 2
  MaxViews = 1
  Kinds = {"detached", "getter", "bridged"}
  MaxCalls = 3
  MaxPanics = 1
SPECIFICATION FairSpec
CHECK_DEADLOCK FALSE
INVARIANTS
  LockTypeOK
  NoAlias
  FiledUnderTrueSize
  GateSound
  DeadlocksAreBridged
PROPERTIES
  Sequential
  EveryCallEnds
