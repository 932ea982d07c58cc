SPECIFICATION Spec
CONSTANTS
  u1 = u1
  u2 = u2
  d1 = d1
  d2 = d2
  Users <- MCUsers
  Devices <- MCDevices
  Gone = Gone
  Owners <- MCOwners
  MaxSeq = 1
  MaxFailures = 1
  MaxAttempts = 2
  MaxMoves = 2
SYMMETRY Symmetry
CHECK_DEADLOCK FALSE
INVARIANTS BuzzBudget NewsIsKept NobodyIsForgotten
PROPERTIES QuietOnceRead
