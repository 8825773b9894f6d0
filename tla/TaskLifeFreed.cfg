CONSTANTS
  NumCpus = 2
  MaxPid = 2
  OrphansAllowed = FALSE
SPECIFICATION Spec
INVARIANT FreedNotRunning
CHECK_DEADLOCK FALSE
