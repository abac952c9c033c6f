SPECIFICATION Spec
CONSTANTS
  Nodes = {n1}
  DynamicNodes = {}
  Keys = {k1}
  Tiers = {free, pro}
  Limits = {1, 2}
  DefaultLimit = 0
  Callers = {c1, c2}
  Operators = {}
  Configured <- FreeAndPro
  DefaultTier = free
  NoTier = none
  Budget = 2
  Persist = TRUE
  Faulty = FALSE
  HasFailover = TRUE
  MaxEvents = 0
INVARIANT
  LimitOfTierHolds
CHECK_DEADLOCK FALSE
