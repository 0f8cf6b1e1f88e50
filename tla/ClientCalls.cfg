SPECIFICATION Spec
CONSTANTS
  None = None
  User = {u1, u2}
  Call = {k1, k2}
  MaxFaults = 1
  MaxAhead = 1
  MaxBehind = 1
SYMMETRY Perms
INVARIANTS
  TypeOK
  ShownCallsAreLive
  LiveCallsAreShown
  UnansweredCallsEnd
CHECK_DEADLOCK FALSE
