SPECIFICATION Spec
CONSTANTS
  p1 = p1
  p2 = p2
  NoProc = NoProc
  Users <- MCUsers
  Roster <- MCRoster
  Procs <- MCProcs
  MaxAsks = 1
  MaxRequests = 2
SYMMETRY Symmetry
INVARIANTS OneOwner
CHECK_DEADLOCK FALSE
