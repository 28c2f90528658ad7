SPECIFICATION FairSpec
CONSTANTS
  Line = {eth, uart}
  MaxProtect = 3
  MaxDepth = 4
  LateIrq = FALSE
INVARIANTS HandlersNeverNest MainGoesOn ProtectedIsExclusive
PROPERTIES IrqIsTaken
