SPECIFICATION Spec
CONSTANTS
  None = None
  Msg = {m1, m2}
  Body = {b1}
  MaxLog = 2
  MaxDrops = 1
  MaxCrashes = 0
  Overtake = TRUE
INVARIANTS
  CursorsAreRecoveryPoint
CHECK_DEADLOCK FALSE
