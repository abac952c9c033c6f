CONSTANTS
  FailureThreshold = 2
  EnableFallback = TRUE
  AutoRecovery = TRUE
  MaxFailures = 3
  HasOperator = TRUE
SPECIFICATION FairSpec
INVARIANTS TypeOK NotOverdue
PROPERTIES RecoversEventually DetectsOutage GoroutinesStop
