\* The terminal's event pipe is full of keys while the echo ring is full.
CONSTANTS
  FrameBytes = 2
  EvPipe = 4
  OutRing = 1
  MaxKeys = 2
SPECIFICATION LoopSpec
PROPERTY CtrlCDelivered
CHECK_DEADLOCK FALSE
