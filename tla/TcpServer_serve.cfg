SPECIFICATION Spec
CONSTANTS
  Wnd = 3
  SndBuf = 2
  Apps = {"http", "echo"}
  Pages = {1, 3}
  MaxSent = 3
CHECK_DEADLOCK FALSE
INVARIANTS StreamIntact EndMeansWholePage StateWhileReferred WindowWhole
PROPERTIES DroppedHasCause Answered
