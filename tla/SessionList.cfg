SPECIFICATION Spec
CONSTANTS
  User = {me, peer}
  None = None
  Request = {q1, q2}
  Group = {g}
  Chat = chat
  Me = me
  Peer = peer
  MaxBefore = 4
  MaxEarly = 1
  MaxOps = 2
  MaxFaults = 1
  MaxActs = 1
INVARIANTS TypeOK BlockedAreStrangers FriendsAgreed OneOpenRequest GroupsIntact Converges
CHECK_DEADLOCK FALSE
