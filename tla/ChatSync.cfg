SPECIFICATION FairSpec
CONSTANTS
  f1 = f1
  f2 = f2
  Fetches <- MCFetches
  PageSize = 1
  MaxSeq = 3
  MaxRev = 3
  MaxFlight = 1
  MaxBreaks = 1
CHECK_DEADLOCK FALSE
INVARIANTS NothingSkipped
PROPERTIES EventuallyShown
