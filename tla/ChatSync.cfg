SPECIFICATION Spec
CONSTANTS
  None = None
  Msg = {m1, m2}
  Body = {b1, b2}
  MaxLog = 3
  MaxDrops = 1
  MaxCrashes = 1
  Overtake = TRUE
SYMMETRY Perms
INVARIANTS
  TypeOK
  TableIsReplay
  NumbersIncrease
  Converges
  CursorsClaimWhatWasTaken
CHECK_DEADLOCK FALSE
