CONSTANTS
  Slave = {s1, s2}
  Render = render
  Pump = pump
  PtyBuf = 2
  ReadSizes = {1, 3}
  MaxInput = 5
  VtId = {1, 2}
  FirstVt = 1
  Rows = 2
  Cols = 3
  VtMaxParams = 2
  MaxBytes = 5
  FbTask = {t1, t2}
  Reader = {r1, r2}
  RingSize = 2
  TermSizes = {1, 2}
  ByteSpan = 2
  MaxTyped = 3
  MaxPackets = 2
  TRows = 2
  TCols = 2
  TLead = {"x"}
  LineCap = 4
  HistMax = 2
  PromptWidth = 1
  HistFiles <- HistFilesDef
  MaxStrokes = 6
SPECIFICATION MCSpec
INVARIANTS
  
  
  
  ScreenIsComposed
  EditorFaithful
CHECK_DEADLOCK FALSE
