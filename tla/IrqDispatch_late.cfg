SPECIFICATION Spec
CONSTANTS
  Line = {eth, uart}
  MaxProtect = 1
  MaxDepth = 2
  LateIrq = TRUE
INVARIANTS ModeRestored
