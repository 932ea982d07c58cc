SPECIFICATION FairSpec
CONSTANTS
  m1 = m1
  Messages <- MCMessages
  MaxAttempts = 2
  Retries = 2
  MaxSockets = 2
  MaxTrouble = 2
  MaxVisits = 1
CHECK_DEADLOCK FALSE
INVARIANTS KeptUntilAnswered ResolvedIsStored WakeUpIsComing
PROPERTIES SendsEndUnlessOvertaken
