CONSTANTS
  Algorithms = {"token_bucket", "leaky_bucket", "fixed_window", "sliding_window", "gcra"}
  Capacity = 3
  RefillRate = 3
  RefillPeriod = 2
  InitialTokens = 0
  LeakRate = 2
  LeakPeriod = 2
  Limit = 2
  Window = 3
  Period = 2
  BurstSize = 2
  MaxCost = 2
  Costs <- SmallCosts
  KeyTTL <- ShortTTLs
  MaxSkew = 1
  Start = 3
  MaxTime = 11
  TicksPerSecond = 4
  NoState = NoState
SPECIFICATION Spec
INVARIANTS
  TypeOK AdmissionBound RetryAfterHonest ResetTimeHonest RemainingIsSpendable
  DenialIsFree ExpiryUnobservable MigrationKeepsCharge PreviousStillCounts LockoutBound
  HeadersHonest
