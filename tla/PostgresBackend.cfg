CONSTANTS
  Callers = {c1, c2}
  c1 = c1
  c2 = c2
  Args = {1}
  Limit = 1
  Foreign = Foreign
  Values <- CounterValues
  Missing = Missing
  Results <- CounterResults
  NoResult = NoResult
  Fn <- CounterFn
  Nobody = Nobody
  Transactors = {t}
  t = t
  Number = Foreign
  HasTTL = TRUE
SPECIFICATION TxFairSpec
INVARIANTS RowUpdatesSerialised
PROPERTIES EveryUpdateReturns
