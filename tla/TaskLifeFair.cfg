CONSTANTS
  NumCpus = 2
  MaxPid = 2
  OrphansAllowed = FALSE
SPECIFICATION FairSpec

  
PROPERTIES
  WaitReturns
