SPECIFICATION FairSpec
CONSTANTS
  u1 = u1
  u2 = u2
  s1 = s1
  s2 = s2
  Users <- MCUsers
  Sockets <- MCSockets
  SocketOwners <- MCOwners
  MaxFrames = 3
  MaxChanges = 2
CHECK_DEADLOCK FALSE
INVARIANTS BookkeepingAgrees FanOutIsFed
PROPERTIES RevocationReaches
