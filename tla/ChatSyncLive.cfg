SPECIFICATION FairSpec
CONSTANTS
  None = None
  Msg = {m1}
  Body = {b1}
  MaxLog = 2
  MaxDrops = 1
  MaxCrashes = 1
  Overtake = TRUE
PROPERTIES
  ConnectedClientSettles
CHECK_DEADLOCK FALSE
