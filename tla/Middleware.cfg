CONSTANTS
  Callers = {c1, c2}
  c1 = c1
  c2 = c2
  Args = {1, 2}
  Limit = 2
  Foreign = Foreign
  Values <- CounterValues
  Missing = Missing
  Results <- CounterResults
  NoResult = NoResult
  Fn <- CounterFn
  TTLs = {0, 1}
  MaxTime = 3
  Absent = Absent
  KeyTTL = 1
  Operations = {read}
  read = read
  Direct = {c2}
  HasFailover = TRUE
SPECIFICATION Spec
INVARIANTS ChargesKept HandlerRunsIffCharged
PROPERTIES ImplementsAtomicStore ClosedGrantsNothing
