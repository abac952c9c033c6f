CONSTANTS
  Callers = {c1, c2}
  c1 = c1
  c2 = c2
  Args = {1}
  Limit = 1
  Foreign = Foreign
  Values <- CounterValues
  Missing = Missing
  Results <- CounterResults
  NoResult = NoResult
  Fn <- CounterFn
  MaxAttempts = 2
  CmdRetries = 1
  Faulty = TRUE
  KeyTTL = 500
SPECIFICATION Spec
INVARIANTS TTLApplied
