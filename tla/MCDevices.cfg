CONSTANTS
  NumCpus = 3
  Page = {a, b}
  None = None
  Pollers = {p1, p2}
  BootTask = boot
  NULL = NULL
  NumSlots = 2
  MaxCmds = 2
SPECIFICATION MCSpec
INVARIANTS
  NoStaleEntry
  SlotsExact
PROPERTIES
  FlushReturns
  CommandReturns
CHECK_DEADLOCK FALSE
