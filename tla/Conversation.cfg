SPECIFICATION Spec
CONSTANTS
  d1 = d1
  d2 = d2
  Devices <- MCDevices
  MaxSeq = 2
  MaxEvents = 3
SYMMETRY Symmetry
CHECK_DEADLOCK FALSE
INVARIANTS UnreadIsVisible ClearedStaysAway ReadsAreKept
