SPECIFICATION FairSpec
CONSTANTS
  MaxBlks = 2
  Budget = 3
  Retries = 2
  WordMax = 7
  FaultSets <- StopFault
CHECK_DEADLOCK FALSE
PROPERTIES StopReturns
