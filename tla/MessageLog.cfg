SPECIFICATION Spec
CONSTANTS
  u1 = u1
  k1 = k1
  k2 = k2
  p1 = p1
  p2 = p2
  Nobody = Nobody
  Users <- MCUsers
  Keys <- MCKeys
  Procs <- MCProcs
  MaxRev = 4
CHECK_DEADLOCK FALSE
INVARIANTS LogWellFormed AcksAgree CreatedEventsMirrorLog
PROPERTIES RevisionIsWatermark ImplementsChannelLog
