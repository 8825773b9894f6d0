CONSTANTS
  NumCpus = 2
  NumUsers = 3
SPECIFICATION SpecWithWakeRegardless
INVARIANT MutualExclusion
CHECK_DEADLOCK FALSE
