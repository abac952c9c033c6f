CONSTANTS
  Algorithms = {"sliding_window"}
  Capacity = 3
  RefillRate = 3
  RefillPeriod = 2
  InitialTokens = 0
  LeakRate = 2
  LeakPeriod = 2
  Limit = 2
  Window = 4
  Period = 2
  BurstSize = 2
  MaxCost = 2
  Costs <- Single
  KeyTTL <- NoTTLs
  MaxSkew = 0
  Start = 4
  MaxTime = 12
  TicksPerSecond = 4
  NoState = NoState
SPECIFICATION Spec
INVARIANTS NeverOverLimitInWindow
