SPECIFICATION Spec
CONSTANTS
  None = None
  Msg = {m1}
  Body = {b1, b2}
  MaxLog = 3
  MaxDrops = 0
  MaxCrashes = 0
  Overtake = FALSE
INVARIANTS
  ReplayEndsCurrent
CHECK_DEADLOCK FALSE
