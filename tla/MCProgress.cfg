CONSTANTS
  NumCpus = 2
  NumUsers = 3
  Proc = {p1, p2}
  MaxVer = 2
  Sig = {2, 9, 17}
  SIGKILL = 9
  NotFatal = {17}
  StackTop = 8
  MaxSends = 3
  MaxWork = 2
  FrameBytes = 2
  EvPipe = 4
  OutRing = 1
  MaxKeys = 2
  ArgvMax = 3
  StagesMax = 3
  MaxToks = 5
SPECIFICATION MCSpec
INVARIANTS
  UnmountClean
  ContextsIntact
  
  
PROPERTIES
  ImplementsMutex
  WaitersServed
  UmountDrains
  SignalsTaken
  EventsArrive
  PromptReturns
