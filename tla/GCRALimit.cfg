CONSTANTS
  Algorithms = {"gcra"}
  Capacity = 3
  RefillRate = 3
  RefillPeriod = 2
  InitialTokens = 0
  LeakRate = 2
  LeakPeriod = 2
  Limit = 2
  Window = 3
  Period = 2
  BurstSize = 2
  MaxCost = 2
  Costs <- Pairs
  KeyTTL <- NoTTLs
  MaxSkew = 0
  Start = 3
  MaxTime = 11
  TicksPerSecond = 4
  NoState = NoState
SPECIFICATION Spec
INVARIANTS LimitPerPeriod
