SPECIFICATION Spec
CONSTANTS
  Nodes = {n1, n2}
  DynamicNodes = {}
  Keys = {k1}
  Tiers = {free, pro}
  Limits = {1}
  DefaultLimit = 0
  Callers = {c1}
  Operators = {o1}
  Configured <- FreeOnly
  DefaultTier = free
  NoTier = none
  Budget = 1
  Persist = TRUE
  Faulty = FALSE
  HasFailover = TRUE
  MaxEvents = 4
INVARIANT
  AssignedTierKnown
CHECK_DEADLOCK FALSE
