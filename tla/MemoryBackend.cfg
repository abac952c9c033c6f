CONSTANTS
  Callers = {c1}
  c1 = c1
  Args = {1}
  Limit = 1
  Foreign = Foreign
  Values <- CounterValues
  Missing = Missing
  Results <- CounterResults
  NoResult = NoResult
  Fn <- CounterFn
  Keys = {k1, k2}
  k1 = k1
  k2 = k2
  Key = k1
  TTLs = {0, 1}
  MaxCount = 1
  MaxTime = 3
  HasGC = TRUE
  Absent = Absent
SPECIFICATION FairSpec
INVARIANTS SizeBounded
PROPERTIES SweepUnobservable ImplementsAtomicStore ExpiredReclaimed CollectorStops
