CONSTANTS
  Callers = {c1, c2}
  c1 = c1
  c2 = c2
  FailureThreshold = 2
  EnableFallback = TRUE
  AutoRecovery = TRUE
  MaxFailures = 3
  HasOperator = FALSE
SPECIFICATION LimiterFairSpec
INVARIANTS FailOpenOnlyAfterFailures RecoveryOwnsFlag
PROPERTIES OutageFailsOpen
