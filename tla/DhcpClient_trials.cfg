SPECIFICATION Spec
CONSTANTS
  Servers = {s1, s2}
  None = none
  Trials = 3
  MaxFault = 2
  MaxNak = 2
INVARIANT BoundIsGranted
PROPERTY GetsAddress
CHECK_DEADLOCK FALSE
