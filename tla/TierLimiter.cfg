SPECIFICATION Spec
CONSTANTS
  Nodes = {n1, n2}
  DynamicNodes = {n1}
  Keys = {k1}
  Tiers = {free, pro}
  Limits = {1}
  DefaultLimit = 0
  Callers = {c1}
  Operators = {o1}
  Configured <- FreeOnly
  DefaultTier = free
  NoTier = none
  Budget = 1
  Persist = TRUE
  Faulty = TRUE
  HasFailover = TRUE
  MaxEvents = 4
INVARIANTS
  TypeOK
  NeverDemoted
  AssignmentStands
CHECK_DEADLOCK FALSE
