SPECIFICATION TenantSpec
CONSTANTS
  Nodes = {n1}
  DynamicNodes = {n1}
  Keys = {k1}
  Tiers = {free, pro}
  Limits = {1}
  DefaultLimit = 1
  Callers = {c1, c2}
  Operators = {o1}
  Configured <- BothTenants
  DefaultTier = free
  NoTier = none
  Budget = 1
  Persist = TRUE
  Faulty = FALSE
  HasFailover = TRUE
  MaxEvents = 2
  MaxDecisions = 2
INVARIANT
  StatsAddUp
SYMMETRY Symmetric
CHECK_DEADLOCK FALSE
