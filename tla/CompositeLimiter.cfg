CONSTANTS
  Callers = {c1, c2}
  c1 = c1
  c2 = c2
  Limits = {l1, l2}
  l1 = l1
  l2 = l2
  Configured = {l1, l2}
  Budget = 1
  HasFailover = TRUE
SPECIFICATION Spec
INVARIANTS EveryLimitAsked AdmittedWithinEveryLimit
SYMMETRY Symmetry
CHECK_DEADLOCK FALSE
