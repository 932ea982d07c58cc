SPECIFICATION Spec
CONSTANTS
  p1 = p1
  p2 = p2
  NoProc = NoProc
  Users <- MCUsers
  Roster <- MCRoster
  Procs <- MCProcs
  MaxAsks = 1
  MaxRequests = 4
SYMMETRY Symmetry
CHECK_DEADLOCK FALSE
INVARIANTS OneOwnerUntilDeletion DecidedOnce LocksDrain
PROPERTIES OwnershipMoves BanIsDurable
