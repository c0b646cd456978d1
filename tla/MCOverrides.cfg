SPECIFICATION Spec
CONSTANTS
  FileSettings <- MCFileSettings
  Wallets = {"w1"}
  tighten_only = TRUE
  max_rows = 1
  min_reapply = 1
  trigger <- MCTrigger
  window <- MCWindow
  Gates <- MCGates
  Exits <- MCExits
  Positions <- MCPositions
  Modes = {}
  Handwritten <- MCHandwritten
  Contexts <- MCContexts
  Day <- MCDay
  MaxTime = 1
  MaxExits = 2
  MaxHistory = 2
  MaxDisturbed = 1
INVARIANTS  TightenWithin BlockKept AuditedIsLive
CHECK_DEADLOCK FALSE
