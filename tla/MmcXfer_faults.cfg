SPECIFICATION FairSpec
CONSTANTS
  MaxBlks = 3
  Budget = 3
  Retries = 2
  WordMax = 7
  FaultSets <- Faults
CHECK_DEADLOCK FALSE
INVARIANTS NoStaleFlag SuccessMeansMoved InitMeansReady
PROPERTIES BufferLeftAlone CallReturns
