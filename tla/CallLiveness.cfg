SPECIFICATION FairSpec
CONSTANTS
  None = None
  User = {u1, u2}
  Conn = {c1, c2}
  Call = {k1}
  Blockable = {}
  MaxSending = 1
  MaxKicks = 1
INVARIANTS
  CallOutlivesUserOnlyBySwallow
PROPERTIES
  DeadConnectionLeaves
  ForcedLogoutEndsCall
CHECK_DEADLOCK FALSE
