SPECIFICATION FairSpec
CONSTANTS
  None = None
  Msg = {m1, m2}
  Call = {c1, c2}
  MaxAttempts = 2
  MaxFaults = 1
INVARIANTS
  TypeOK
  SentIsStored
  EveryPendingIsDriven
  AcknowledgedStaysSent
  OrderKept
PROPERTIES
  KeepsPromise
  SendingEnds
CHECK_DEADLOCK FALSE
