CONSTANTS
  NumCpus = 2
  MaxPid = 3
  OrphansAllowed = TRUE
SPECIFICATION SpecWithSpawn
INVARIANTS
  NoLostWakeup
  
CHECK_DEADLOCK FALSE
