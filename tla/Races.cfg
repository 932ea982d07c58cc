SPECIFICATION Spec
CONSTANTS
  p1 = p1
  p2 = p2
  o = o
  m = m
  NoProc = NoProc
  NoOne = NoOne
  Users <- MCUsers
  Role <- MCRole
  Procs <- MCProcs
  MaxGroups = 1
  MaxRequests = 4
  MaxFaults = 1
SYMMETRY Symmetry
CHECK_DEADLOCK FALSE
INVARIANTS InchargeIsAboard CardsSettle
