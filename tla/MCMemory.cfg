CONSTANTS
  Tasks = {t1, t2, t3, t4, t5}
  NULL = NULL
  QTasks = {1, 2, 3, 4, 5}
  Base = 2
  Start = 3
  End = 12
  MaxOrder = 4
  SlabCpu = {c1, c2}
  NSlabs = 2
  NSlots = 2
  AsTask = {a1, a2}
  NFrames = 18
  DevBase = 100
  DevPages = 1
  Available = {7, 9, 10, 13, 16, 18}
  MaxCalls = 4
  Callers = {u1, u2}
  Blocks = {b1, b2, b3}
  NoBlock = NoBlock
  MaxCapacity = 2
SPECIFICATION MCSpec
VIEW View
SYMMETRY Symmetry
INVARIANTS
  PoolExact
  
  FramesAccounted
  SeesOwnMemory
  NoUpdateLost
  
PROPERTIES
  MutexSound
  QueueIsFifo
