CONSTANTS
  FailureThreshold = 2
  EnableFallback = TRUE
  AutoRecovery = TRUE
  MaxFailures = 3
  HasOperator = FALSE
SPECIFICATION Spec
PROPERTIES SwitchOnlyAfterConsecutive
