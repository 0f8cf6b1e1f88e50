SPECIFICATION Spec
CONSTANTS
  None = None
  MaxGrant = 3
  MaxRefresh = 2
  MaxRestart = 2
INVARIANTS
  TypeOK
  TokensOfThisLogin
  DiskFollowsMemory
  KeptIsWhole
CHECK_DEADLOCK FALSE
