SPECIFICATION Spec
CONSTANTS
  u1 = u1
  u2 = u2
  o1 = o1
  o2 = o2
  p1 = p1
  p2 = p2
  w1 = w1
  w2 = w2
  Nobody = Nobody
  Users <- MCUsers
  Options <- MCOptions
  Procs <- MCProcs
  Workers <- MCWorkers
  MaxTaps = 4
  MaxMoves = 1
  MaxFaults = 1
SYMMETRY Symmetry
CHECK_DEADLOCK FALSE
INVARIANTS CountsAreVotes RemindedOnce CardFollowsPoll
