SPECIFICATION Spec
CONSTANTS
  None = None
  User = {u1, u2}
  Conn = {c1, c2, c3}
  Call = {k1, k2}
  Blockable <- BlockPairs
  MaxSending = 1
  MaxKicks = 0
SYMMETRY Perms
INVARIANTS
  TypeOK
  HubConsistent
  CallOutlivesUserOnlyBySwallow
  EndIsAnnounced
  RegistryConsistent
PROPERTIES
  ImplementsSlots
CHECK_DEADLOCK FALSE
