SPECIFICATION FairSpec
CONSTANTS
  u1 = u1
  e1 = e1
  e2 = e2
  e3 = e3
  p1 = p1
  p2 = p2
  Nobody = Nobody
  Users <- MCUsers
  Emojis <- MCEmojis
  Procs <- MCProcs
  MaxDistinct = 1
  MaxRequests = 4
CHECK_DEADLOCK FALSE
INVARIANTS CapOvershoot ClientsConverge
PROPERTIES EveryChangeIsARevision RequestsEnd
