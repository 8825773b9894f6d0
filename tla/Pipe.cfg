CONSTANTS
  Readers = {r1, r2}
  Writers = {w}
  BufSize = 2
  MaxSize = 3
  MaxBytes = 3
  NumPipes = 2
  MaxOpens = 4
SPECIFICATION FairSpec
INVARIANTS
  PipeSound
PROPERTIES
  CallsReturn
CHECK_DEADLOCK FALSE
