-------------------------- MODULE LimitedKeyProofs --------------------------
(***************************************************************************)
(* Every property of a rate-limited key that LimitedKey states, for every  *)
(* configuration, number of nodes, clock error, cost and time to live, and *)
(* under each of the five algorithms:                                      *)
(*   - what is stored is a state of the algorithm, as one lemma per        *)
(*     algorithm says of its decisions;                                    *)
(*   - from any moment on no more is granted than the algorithm promises   *)
(*     (KeyInv: every grant is paid for, as the state's own clock counts); *)
(*   - what a caller is told of retries, resets and the remaining budget   *)
(*     is true, also in the whole seconds of the headers;                  *)
(*   - an expired state decides as a fresh one (Dated: how old the state   *)
(*     of an entry is by its deadline).                                    *)
(* The first part is arithmetic of quotients and products.                 *)
(***************************************************************************)
EXTENDS RateLimitHeaders, FiniteSetTheorems, TLAPS

LEMMA MulMono ==
  ASSUME NEW k \in Nat, NEW x \in Int, NEW y \in Int, x <= y
  PROVE  k * x <= k * y
  OBVIOUS

LEMMA DivIsNat ==
  ASSUME NEW a \in Nat, NEW b \in Nat \ {0}
  PROVE  a \div b \in Nat
  OBVIOUS

LEMMA DivIsInt ==
  ASSUME NEW a \in Int, NEW b \in Nat \ {0}
  PROVE  a \div b \in Int
  OBVIOUS

LEMMA DivBounds ==
  ASSUME NEW a \in Int, NEW b \in Nat \ {0}
  PROVE  a \div b \in Int /\ b * (a \div b) <= a /\ a < b * (a \div b) + b
  OBVIOUS

(* The quotient is the only one with these bounds, is monotonic, and moves *)
(* by k when the dividend moves by k divisors.                             *)
LEMMA DivUnique ==
  ASSUME NEW a \in Int, NEW b \in Nat \ {0}, NEW q \in Int,
         b * q <= a, a < b * q + b
  PROVE  a \div b = q
<1> DEFINE d == a \div b
<1>1. d \in Int /\ b * d <= a /\ a < b * d + b
  BY DivBounds
<1> HIDE DEF d
<1>2. b * (d + 1) = b * d + b /\ b * (q + 1) = b * q + b /\ b * d \in Int /\ b * q \in Int
  BY <1>1
<1>3. ~(d + 1 <= q)
  <2>1. ASSUME d + 1 <= q PROVE FALSE
    <3>1. b * (d + 1) <= b * q
      BY <1>1, <2>1, MulMono
    <3>2. QED BY <1>1, <1>2, <3>1
  <2>2. QED BY <2>1
<1>4. ~(q + 1 <= d)
  <2>1. ASSUME q + 1 <= d PROVE FALSE
    <3>1. b * (q + 1) <= b * d
      BY <1>1, <2>1, MulMono
    <3>2. QED BY <1>1, <1>2, <3>1
  <2>2. QED BY <2>1
<1>5. QED BY <1>1, <1>3, <1>4 DEF d

LEMMA DivMono ==
  ASSUME NEW x \in Int, NEW y \in Int, NEW b \in Nat \ {0}, x <= y
  PROVE  x \div b <= y \div b
<1> DEFINE p == x \div b
           q == y \div b
<1>1. /\ p \in Int /\ b * p <= x /\ x < b * p + b
      /\ q \in Int /\ b * q <= y /\ y < b * q + b
  BY DivBounds
<1> HIDE DEF p, q
<1>2. ASSUME q + 1 <= p PROVE FALSE
  <2>1. b * (q + 1) <= b * p /\ b * (q + 1) = b * q + b /\ b * p \in Int /\ b * q \in Int
    BY <1>1, <1>2, MulMono
  <2>2. QED BY <1>1, <2>1
<1>3. QED BY <1>1, <1>2 DEF p, q

LEMMA DivAdd ==
  ASSUME NEW x \in Int, NEW k \in Int, NEW b \in Nat \ {0}
  PROVE  (x + b * k) \div b = x \div b + k
<1> DEFINE p == x \div b
<1>1. p \in Int /\ b * p <= x /\ x < b * p + b
  BY DivBounds
<1> HIDE DEF p
<1>2. b * (p + k) = b * p + b * k /\ b * k \in Int /\ b * p \in Int
  BY <1>1
<1>3. b * (p + k) <= x + b * k /\ x + b * k < b * (p + k) + b /\ p + k \in Int /\ x + b * k \in Int
  BY <1>1, <1>2
<1>4. QED BY <1>3, DivUnique DEF p

(* The window a time is aligned to starts at an integer.                   *)
LEMMA AlignIsInt ==
  ASSUME NEW t \in Int
  PROVE  FW!Align(t) \in Int /\ SW!Align(t) \in Int
  BY ConfigAssumption, DivIsInt DEF FW!Align, SW!Align, FW!ValidConfig, SW!ValidConfig

-----------------------------------------------------------------------------
(* The token bucket: a bucket is never over-full and never in debt.        *)
LEMMA FullIsNat == TB!Full \in Nat /\ TB!Full >= RefillPeriod
  BY ConfigAssumption DEF TB!Full, TB!ValidConfig

LEMMA TokenFresh ==
  ASSUME NEW t \in Int
  PROVE  /\ TB!Fresh(t) \in TB!Buckets
         /\ TB!Fresh(t).last = t
  <1>1. InitialTokens * RefillPeriod <= TB!Full
    BY ConfigAssumption, MulMono DEF TB!Full, TB!ValidConfig
  <1>2. QED
    BY <1>1, ConfigAssumption DEF TB!Fresh, TB!Buckets, TB!Full, TB!ValidConfig

(* A refill moves the time of the bucket only forwards, and adds at most   *)
(* what the rate yields.                                                   *)
LEMMA TokenRefill ==
  ASSUME NEW b \in TB!Buckets, NEW t \in Int
  PROVE  /\ TB!Refill(b, t) \in TB!Buckets
         /\ TB!Refill(b, t).last = IF t <= b.last THEN b.last ELSE t
         /\ b.last <= t => TB!Refill(b, t).tokens <= b.tokens + RefillRate * (t - b.last)
         /\ t <= b.last => TB!Refill(b, t) = b
  <1>1. t > b.last => RefillRate * (t - b.last) \in Nat
    BY ConfigAssumption DEF TB!Buckets, TB!ValidConfig
  <1>2. (t - b.last) * RefillRate = RefillRate * (t - b.last)
    BY ConfigAssumption DEF TB!Buckets, TB!ValidConfig
  <1>3. QED
    BY <1>1, <1>2, ConfigAssumption, FullIsNat DEF TB!Refill, TB!Buckets, TB!ValidConfig

(* What a decision does to the bucket: a granted request pays its price,   *)
(* a denied one leaves the refilled bucket.                                *)
LEMMA TokenDecide ==
  ASSUME NEW b \in TB!Buckets, NEW t \in Int, NEW n \in Nat \ {0}
  PROVE  LET d == TB!Decide(b, t, n) IN
         /\ d.allowed \in BOOLEAN
         /\ d.state \in TB!Buckets
         /\ d.state.last = TB!Refill(b, t).last
         /\ d.state.tokens + RefillPeriod * (IF d.allowed THEN n ELSE 0)
              = TB!Refill(b, t).tokens
  <1> DEFINE r == TB!Refill(b, t)
             paid == [r EXCEPT !.tokens = @ - n * RefillPeriod]
  <1>1. r \in TB!Buckets
    BY TokenRefill
  <1>2. RefillPeriod \in Nat \ {0} /\ TB!Full \in Nat
    BY ConfigAssumption, FullIsNat DEF TB!ValidConfig
  <1>3. n * RefillPeriod \in Nat /\ n * RefillPeriod = RefillPeriod * n
    BY <1>2
  <1>4. CASE TB!CanPay(r, n)
    <2>1. TB!Decide(b, t, n) =
            [allowed |-> TRUE, remaining |-> TB!Remaining(paid), retryAfter |-> 0,
             resetTime |-> TB!ResetTime(paid, t), state |-> paid]
      BY <1>4 DEF TB!Decide
    <2>2. n * RefillPeriod <= r.tokens
      BY <1>4 DEF TB!CanPay
    <2> HIDE DEF r
    <2>3. paid \in TB!Buckets
      BY <1>1, <1>2, <1>3, <2>2 DEF TB!Buckets
    <2>4. QED
      BY <1>1, <1>3, <2>1, <2>3 DEF r, TB!Buckets
  <1>5. CASE ~TB!CanPay(r, n)
    <2>1. TB!Decide(b, t, n) =
            [allowed |-> FALSE, remaining |-> TB!Remaining(r), retryAfter |-> TB!RetryAfter(r, n),
             resetTime |-> TB!ResetTime(r, t), state |-> r]
      BY <1>5 DEF TB!Decide
    <2> HIDE DEF r
    <2>2. QED
      BY <1>1, <1>2, <2>1 DEF r, TB!Buckets
  <1>6. QED
    BY <1>4, <1>5

-----------------------------------------------------------------------------
(* The leaky bucket: the queue is never negative and never too long.       *)
LEMMA LeakyLeak ==
  ASSUME NEW b \in LB!Buckets, NEW t \in Int
  PROVE  LB!Leak(b, t) \in LB!Buckets
  <1> DEFINE periods == (t - b.last) \div LeakPeriod
  <1>1. /\ b.queue \in 0 .. Capacity /\ b.last \in Int
        /\ Capacity \in Nat /\ LeakRate \in Nat /\ LeakPeriod \in Nat \ {0}
    BY ConfigAssumption DEF LB!Buckets, LB!ValidConfig
  <1>2. CASE b.queue = 0
    BY <1>1, <1>2 DEF LB!Leak, LB!Buckets
  <1>3. CASE b.queue # 0 /\ t <= b.last
    BY <1>1, <1>3 DEF LB!Leak, LB!Buckets
  <1>4. CASE b.queue # 0 /\ t > b.last
    <2>1. periods \in Nat
      BY <1>1, <1>4, DivIsNat
    <2>2. periods * LeakRate \in Nat /\ periods * LeakPeriod \in Nat
      BY <1>1, <2>1
    <2>3. LB!Leak(b, t) =
            [queue |-> IF b.queue > periods * LeakRate THEN b.queue - periods * LeakRate ELSE 0,
             last |-> b.last + periods * LeakPeriod]
      BY <1>1, <1>4 DEF LB!Leak
    <2> HIDE DEF periods
    <2>4. QED
      BY <1>1, <2>2, <2>3 DEF LB!Buckets
  <1>5. QED
    BY <1>1, <1>2, <1>3, <1>4

LEMMA LeakyDecide ==
  ASSUME NEW b \in LB!Buckets, NEW t \in Int, NEW n \in Nat \ {0}
  PROVE  LB!Decide(b, t, n).state \in LB!Buckets
  <1> DEFINE r == LB!Leak(b, t)
             queued == [r EXCEPT !.queue = @ + n]
  <1>1. r \in LB!Buckets /\ Capacity \in Nat
    BY LeakyLeak, ConfigAssumption DEF LB!ValidConfig
  <1>2. CASE r.queue + n <= Capacity
    <2>1. LB!Decide(b, t, n) =
            [allowed |-> TRUE, remaining |-> Capacity - queued.queue, retryAfter |-> 0,
             resetTime |-> LB!ResetTime(queued, t), state |-> queued]
      BY <1>2 DEF LB!Decide
    <2> HIDE DEF r
    <2>2. queued \in LB!Buckets
      BY <1>1, <1>2 DEF LB!Buckets
    <2>3. QED
      BY <2>1, <2>2
  <1>3. CASE ~(r.queue + n <= Capacity)
    <2>1. LB!Decide(b, t, n) =
            [allowed |-> FALSE, remaining |-> Capacity - r.queue,
             retryAfter |-> LB!RetryAfter(r, t, n), resetTime |-> LB!ResetTime(r, t), state |-> r]
      BY <1>3 DEF LB!Decide
    <2>2. QED
      BY <1>1, <2>1
  <1>4. QED
    BY <1>2, <1>3

-----------------------------------------------------------------------------
(* The fixed window: a counter never exceeds its limit.                    *)
LEMMA FixedFresh ==
  ASSUME NEW t \in Int
  PROVE  FW!Fresh(t) \in FW!Counters
  BY AlignIsInt, ConfigAssumption DEF FW!Fresh, FW!Counters, FW!ValidConfig

LEMMA FixedDecide ==
  ASSUME NEW c \in FW!Counters, NEW t \in Int, NEW n \in Nat \ {0}
  PROVE  FW!Decide(c, t, n).state \in FW!Counters
  <1> DEFINE w == FW!Roll(c, t)
  <1>1. w \in FW!Counters /\ Limit \in Nat
    BY FixedFresh, ConfigAssumption DEF FW!Roll, FW!ValidConfig
  <1>2. CASE w.count + n <= Limit
    <2>1. FW!Decide(c, t, n).state = [w EXCEPT !.count = @ + n]
      BY <1>2 DEF FW!Decide
    <2> HIDE DEF w
    <2>2. QED
      BY <1>1, <1>2, <2>1 DEF FW!Counters
  <1>3. CASE ~(w.count + n <= Limit)
    <2>1. FW!Decide(c, t, n).state = w
      BY <1>3 DEF FW!Decide
    <2>2. QED
      BY <1>1, <2>1
  <1>4. QED
    BY <1>2, <1>3

-----------------------------------------------------------------------------
(* GCRA: the arrival time is a time.                                       *)
LEMMA GCRADecide ==
  ASSUME NEW c \in GC!Cells, NEW t \in Int, NEW n \in Nat \ {0}
  PROVE  GC!Decide(c, t, n).state \in GC!Cells
  <1>1. /\ GC!Arrival(c, t) \in Int
        /\ Period * n \in Int
    BY ConfigAssumption DEF GC!Arrival, GC!Cells, GC!ValidConfig
  <1>2. QED
    BY <1>1 DEF GC!Decide, GC!Cells

-----------------------------------------------------------------------------
(* The sliding window: both counters stay within the limit, and a migrated *)
(* log has at most as many entries.                                        *)
LEMMA SlidingFresh ==
  ASSUME NEW t \in Int
  PROVE  SW!Fresh(t) \in SW!Counters
  BY AlignIsInt, ConfigAssumption DEF SW!Fresh, SW!Counters, SW!ValidConfig

(* The cardinality the sliding window's module uses is the usual one.     *)
LEMMA SameCardinality ==
  ASSUME NEW S
  PROVE  SW!Cardinality(S) = Cardinality(S)
  BY DEF SW!Cardinality, Cardinality

LEMMA SlidingMigrate ==
  ASSUME NEW c \in SW!Counters \cup SW!LogsAt(Start), NEW t \in Int
  PROVE  SW!Migrate(c, t) \in SW!Counters
  <1>1. CASE c \in SW!Counters
    BY <1>1 DEF SW!Migrate, SW!IsLog, SW!Counters
  <1>2. CASE c \in SW!LogsAt(Start)
    <2> DEFINE recent == {s \in c.stamps : t - Window <= s}
    <2>1. c \in [stamps : {S \in SUBSET (Start - Window .. Start) : SW!Cardinality(S) <= Limit}]
      BY <1>2 DEF SW!LogsAt
    <2>2. /\ c.stamps \in {S \in SUBSET (Start - Window .. Start) : SW!Cardinality(S) <= Limit}
          /\ DOMAIN c = {"stamps"}
      BY <2>1
    <2>3. c.stamps \in SUBSET (Start - Window .. Start) /\ Cardinality(c.stamps) <= Limit
      BY <2>2, SameCardinality
    <2>4. IsFiniteSet(Start - Window .. Start)
      <3>1. Start - Window \in Int /\ Start \in Int
        BY ConfigAssumption, ClockAssumption DEF SW!ValidConfig
      <3>2. QED
        BY <3>1, FS_Interval
    <2>5. IsFiniteSet(c.stamps)
      BY <2>3, <2>4, FS_Subset, Zenon
    <2>6. recent \subseteq c.stamps
      OBVIOUS
    <2>7. Cardinality(recent) \in Nat /\ Cardinality(recent) <= Cardinality(c.stamps)
      BY <2>5, <2>6, FS_Subset, FS_CardinalityType
    <2>8. Cardinality(c.stamps) \in Nat /\ Limit \in Nat
      BY <2>5, FS_CardinalityType, ConfigAssumption DEF SW!ValidConfig
    <2>9. SW!Recent(c, t) \in 0 .. Limit
      <3>1. SW!Recent(c, t) = Cardinality(recent)
        BY SameCardinality DEF SW!Recent
      <3>2. QED
        BY <2>3, <2>7, <2>8, <3>1
    <2>10. QED
      BY <2>2, <2>9, SlidingFresh DEF SW!Migrate, SW!IsLog, SW!Counters
  <1>3. QED
    BY <1>1, <1>2

LEMMA SlidingAdvance ==
  ASSUME NEW c \in SW!Counters, NEW t \in Int
  PROVE  SW!Advance(c, t) \in SW!Counters
  BY SlidingFresh, ConfigAssumption DEF SW!Advance, SW!Counters, SW!ValidConfig

(* What the previous window weighs is not negative.                        *)
LEMMA SlidingEstimate ==
  ASSUME NEW c \in SW!Counters, NEW t \in Int
  PROVE  SW!Estimate(c, t) \in Nat /\ c.cur <= SW!Estimate(c, t)
  <1>1. /\ Window \in Nat \ {0} /\ Limit \in Nat
        /\ c.prev \in Nat /\ c.cur \in Nat /\ c.start \in Int
    BY ConfigAssumption DEF SW!Counters, SW!ValidConfig
  <1>2. Window - SW!Elapsed(c, t) \in Nat
    BY <1>1 DEF SW!Elapsed
  <1>3. c.prev * (Window - SW!Elapsed(c, t)) \in Nat
    BY <1>1, <1>2
  <1>4. (c.prev * (Window - SW!Elapsed(c, t))) \div Window \in Nat
    BY <1>1, <1>3, DivIsNat
  <1>5. QED
    BY <1>1, <1>4 DEF SW!Estimate

LEMMA SlidingDecide ==
  ASSUME NEW c \in SW!Counters \cup SW!LogsAt(Start), NEW t \in Int, NEW n \in Nat \ {0}
  PROVE  SW!Decide(c, t, n).state \in SW!Counters
  <1> DEFINE w == SW!Advance(SW!Migrate(c, t), t)
  <1>1. w \in SW!Counters /\ Limit \in Nat
    BY SlidingMigrate, SlidingAdvance, ConfigAssumption DEF SW!ValidConfig
  <1>2. SW!Estimate(w, t) \in Nat /\ w.cur <= SW!Estimate(w, t)
    BY <1>1, SlidingEstimate
  <1>3. CASE SW!Estimate(w, t) + n <= Limit
    <2>1. SW!Decide(c, t, n).state = [w EXCEPT !.cur = @ + n]
      BY <1>3 DEF SW!Decide
    <2> HIDE DEF w
    <2>2. QED
      BY <1>1, <1>2, <1>3, <2>1 DEF SW!Counters
  <1>4. CASE ~(SW!Estimate(w, t) + n <= Limit)
    <2>1. SW!Decide(c, t, n).state = w
      BY <1>4 DEF SW!Decide
    <2>2. QED
      BY <1>1, <2>1
  <1>5. QED
    BY <1>3, <1>4

-----------------------------------------------------------------------------
(* The decision of any algorithm on any of its states is one of its states, *)
(* and so is a fresh one.                                                   *)
LEMMA FreshIsState ==
  ASSUME algorithm \in Algorithms, NEW t \in Int
  PROVE  Fresh(t) \in States
  <1>1. algorithm \in Kinds
    BY ConfigAssumption
  <1>2. TB!Fresh(t) \in TB!Buckets
    BY TokenFresh
  <1>3. LB!Fresh(t) \in LB!Buckets
    BY ConfigAssumption DEF LB!Fresh, LB!Buckets, LB!ValidConfig
  <1>4. FW!Fresh(t) \in FW!Counters /\ SW!Fresh(t) \in SW!Counters
    BY FixedFresh, SlidingFresh
  <1>5. GC!Fresh(t) \in GC!Cells
    BY DEF GC!Fresh, GC!Cells
  <1>6. QED
    BY <1>1, <1>2, <1>3, <1>4, <1>5 DEF Fresh, States, Kinds

LEMMA DecideIsState ==
  ASSUME algorithm \in Algorithms, NEW s \in States, NEW t \in Int, NEW n \in Nat \ {0}
  PROVE  Decide(s, t, n).state \in States
  <1>1. algorithm \in Kinds
    BY ConfigAssumption
  <1>2. CASE algorithm = "token_bucket"
    BY <1>2, TokenDecide DEF Decide, States
  <1>3. CASE algorithm = "leaky_bucket"
    BY <1>3, LeakyDecide DEF Decide, States
  <1>4. CASE algorithm = "fixed_window"
    BY <1>4, FixedDecide DEF Decide, States
  <1>5. CASE algorithm = "sliding_window"
    BY <1>5, SlidingDecide DEF Decide, States
  <1>6. CASE algorithm = "gcra"
    BY <1>6, GCRADecide DEF Decide, States
  <1>7. QED
    BY <1>1, <1>2, <1>3, <1>4, <1>5, <1>6 DEF Kinds

(* No state is taken for a missing key.                                    *)
LEMMA StateIsSome ==
  ASSUME algorithm \in Algorithms
  PROVE  NoState \notin States
  <1>1. algorithm \in Kinds
    BY ConfigAssumption
  <1>2. QED
    BY <1>1, NoStateAssumption DEF States, Kinds

(* The state an update works on is one of the algorithm's.                 *)
LEMMA StateAtIsState ==
  ASSUME TypeOK, NEW t \in Int, NEW e \in Readable
  PROVE  StateAt(e, t) \in States
  <1>1. e = stored \/ e = NoState
    BY DEF Readable
  <1>2. QED
    BY <1>1, FreshIsState DEF StateAt, TypeOK

-----------------------------------------------------------------------------
LEMMA AllowNTypeOK ==
  ASSUME TypeOK, NEW n \in Ns, NEW skew \in Skews, AllowN(n, skew)
  PROVE  TypeOK'
  <1> DEFINE t == now + skew
  <1>1. /\ algorithm \in Algorithms /\ algorithm' = algorithm
        /\ now \in Nat /\ t \in Int
        /\ n \in Nat \ {0} /\ TTL \in Nat
    BY ConfigAssumption, ClockAssumption DEF TypeOK, Times, Skews, Ns, TTL, AllowN
  <1>2. PICK e \in Readable :
          LET d == Decide(StateAt(e, t), t, n) IN
          /\ stored' = d.state
          /\ deadline' = now + TTL
          /\ used' = IF d.allowed /\ since <= now THEN used + n ELSE used
          /\ UNCHANGED <<algorithm, now, since>>
    BY DEF AllowN
  <1>3. StateAt(e, t) \in States
    BY <1>1, StateAtIsState
  <1>4. stored' \in States
    BY <1>1, <1>2, <1>3, DecideIsState
  <1>5. States' = States
    BY <1>1 DEF States
  <1>6. deadline' \in Nat /\ used' \in Nat
    BY <1>1, <1>2 DEF TypeOK
  <1>7. QED
    BY <1>2, <1>4, <1>5, <1>6 DEF TypeOK, Times

(* Whatever the algorithm, the clocks and the expiry of the key, what is   *)
(* stored is a state of the algorithm: no bucket over-full or in debt, no  *)
(* counter beyond its limit.                                               *)
THEOREM LimitedKeyTypeOK == Spec => []TypeOK
  <1>1. Init => TypeOK
    <2> SUFFICES ASSUME Init PROVE TypeOK
      OBVIOUS
    <2>1. Start \in Times /\ Start \in Nat /\ TTL \in Nat
      BY ConfigAssumption, ClockAssumption DEF Init, Times, TTL
    <2>2. stored \in States \cup {NoState}
      BY DEF Init, States
    <2>3. QED
      BY <2>1, <2>2 DEF Init, TypeOK
  <1>2. TypeOK /\ [Next]_vars => TypeOK'
    <2> SUFFICES ASSUME TypeOK, [Next]_vars PROVE TypeOK'
      OBVIOUS
    <2>1. CASE \E n \in Ns, skew \in Skews : AllowN(n, skew)
      BY <2>1, AllowNTypeOK
    <2>2. CASE Reset
      <3>1. States' = States
        BY <2>2 DEF Reset, States
      <3>2. QED
        BY <2>2, <3>1 DEF Reset, TypeOK, Times
    <2>3. CASE Tick
      <3>1. States' = States
        BY <2>3 DEF Tick, States
      <3>2. now' \in Times
        BY <2>3, ClockAssumption DEF Tick, TypeOK, Times
      <3>3. QED
        BY <2>3, <3>1, <3>2 DEF Tick, TypeOK, Times
    <2>4. CASE UNCHANGED vars
      <3>1. States' = States
        BY <2>4 DEF vars, States
      <3>2. QED
        BY <2>4, <3>1 DEF vars, TypeOK, Times
    <2>5. QED
      BY <2>1, <2>2, <2>3, <2>4 DEF Next
  <1>3. QED
    BY <1>1, <1>2, PTL DEF Spec
-----------------------------------------------------------------------------
(* The bound on admissions.  What is granted after the moment from is paid *)
(* for in the state: by the budget it has left, and by what its algorithm  *)
(* yields between from and the state's own time.                           *)
TokenPaid(b, k, from) ==
  /\ from <= b.last
  /\ b.tokens + RefillPeriod * k <= TB!Full + RefillRate * (b.last - from)

LeakyPaid(b, k, from) ==
  /\ from - LeakPeriod <= b.last
  /\ LeakPeriod * k <= LeakPeriod * b.queue + LeakRate * (b.last - from + LeakPeriod)

WindowPaid(start, count, k, from) ==
  /\ from \div Window <= start \div Window
  /\ k <= Limit * (start \div Window - from \div Window) + count

CellPaid(c, k, from) == Period * k <= c.tat - from

(* What a decision adds to what was granted.                               *)
Granted(d, n) == IF d.allowed THEN n ELSE 0

LEMMA TokenRefillPaid ==
  ASSUME NEW b \in TB!Buckets, NEW t \in Int, NEW k \in Nat, NEW from \in Int,
         from <= t, k = 0 \/ TokenPaid(b, k, from)
  PROVE  TokenPaid(TB!Refill(b, t), k, from)
<1> DEFINE r == TB!Refill(b, t)
<1>1. /\ RefillPeriod \in Nat \ {0} /\ RefillRate \in Nat \ {0} /\ TB!Full \in Nat
      /\ b.last \in Int /\ b.tokens \in Nat
  BY FullIsNat, ConfigAssumption DEF TB!ValidConfig, TB!Buckets
<1>2. /\ r.last = IF t <= b.last THEN b.last ELSE t
      /\ b.last <= t => r.tokens <= b.tokens + RefillRate * (t - b.last)
      /\ t <= b.last => r = b
      /\ r.last \in Int /\ r.tokens \in Nat /\ r.tokens <= TB!Full
  <2>1. /\ r \in TB!Buckets
        /\ r.last = IF t <= b.last THEN b.last ELSE t
        /\ b.last <= t => r.tokens <= b.tokens + RefillRate * (t - b.last)
        /\ t <= b.last => r = b
    BY TokenRefill
  <2> HIDE DEF r
  <2>. QED  BY FullIsNat, <2>1 DEF TB!Buckets
<1> HIDE DEF r
<1>3. from <= r.last
  BY <1>1, <1>2
<1>4. CASE k = 0
  <2>1. RefillRate * (r.last - from) \in Nat /\ RefillPeriod * k = 0
    BY <1>1, <1>2, <1>3, <1>4
  <2>. QED  BY <1>1, <1>2, <1>3, <2>1 DEF r, TokenPaid
<1>5. CASE TokenPaid(b, k, from) /\ t <= b.last
  BY <1>2, <1>5 DEF r
<1>6. CASE TokenPaid(b, k, from) /\ b.last < t
  <2>1. RefillRate * (t - b.last) + RefillRate * (b.last - from) = RefillRate * (t - from)
    BY <1>1
  <2>2. /\ RefillRate * (t - b.last) \in Int /\ RefillRate * (b.last - from) \in Int
        /\ RefillRate * (t - from) \in Int /\ RefillPeriod * k \in Int
    BY <1>1
  <2>3. /\ r.last = t /\ r.tokens <= b.tokens + RefillRate * (t - b.last)
        /\ b.tokens + RefillPeriod * k <= TB!Full + RefillRate * (b.last - from)
    BY <1>1, <1>2, <1>6 DEF TokenPaid
  <2>4. r.tokens + RefillPeriod * k <= TB!Full + RefillRate * (r.last - from)
    BY <1>1, <1>2, <2>1, <2>2, <2>3
  <2>. QED  BY <1>3, <2>4 DEF r, TokenPaid
<1>. QED  BY <1>1, <1>4, <1>5, <1>6

LEMMA TokenDecidePaid ==
  ASSUME NEW b \in TB!Buckets, NEW t \in Int, NEW n \in Nat \ {0}, NEW k \in Nat,
         NEW from \in Int, from <= t, k = 0 \/ TokenPaid(b, k, from)
  PROVE  LET d == TB!Decide(b, t, n) IN TokenPaid(d.state, k + Granted(d, n), from)
<1> DEFINE r == TB!Refill(b, t)
           d == TB!Decide(b, t, n)
           g == Granted(d, n)
<1>1. /\ r \in TB!Buckets /\ d.state \in TB!Buckets /\ d.state.last = r.last
      /\ g \in Nat /\ d.state.tokens + RefillPeriod * g = r.tokens
  BY TokenRefill, TokenDecide DEF Granted
<1>2. /\ from <= r.last
      /\ r.tokens + RefillPeriod * k <= TB!Full + RefillRate * (r.last - from)
  BY TokenRefillPaid DEF TokenPaid
<1>3. RefillPeriod \in Nat /\ RefillRate \in Nat /\ TB!Full \in Nat
  BY FullIsNat, ConfigAssumption DEF TB!ValidConfig
<1>4. r.tokens \in Nat /\ r.last \in Int /\ d.state.tokens \in Nat
  <2> HIDE DEF r, d
  <2>. QED  BY <1>1, <1>3 DEF TB!Buckets
<1> HIDE DEF r, d, g
<1>5. RefillPeriod * (k + g) = RefillPeriod * k + RefillPeriod * g
  BY <1>1, <1>3
<1>6. /\ RefillPeriod * k \in Int /\ RefillPeriod * g \in Int
      /\ RefillRate * (r.last - from) \in Int
  BY <1>1, <1>3, <1>4
<1>7. d.state.tokens + RefillPeriod * (k + g) <= TB!Full + RefillRate * (d.state.last - from)
  BY <1>1, <1>2, <1>3, <1>4, <1>5, <1>6
<1>. QED  BY <1>1, <1>2, <1>7 DEF TokenPaid, d, g

(* A leak moves the time of the bucket by no more than it is late, and     *)
(* shortens the queue by no more than that time leaks.                     *)
LEMMA LeakyLeaks ==
  ASSUME NEW b \in LB!Buckets, NEW t \in Int, b.queue # 0, b.last < t
  PROVE  LET p == (t - b.last) \div LeakPeriod
             r == LB!Leak(b, t)
         IN /\ p \in Nat /\ r.last = b.last + p * LeakPeriod
            /\ r.queue = IF b.queue > p * LeakRate THEN b.queue - p * LeakRate ELSE 0
            /\ r.last <= t /\ t < r.last + LeakPeriod /\ b.last <= r.last
            /\ p * LeakRate \in Nat /\ p * LeakPeriod \in Nat /\ r.last \in Int
<1> DEFINE p == (t - b.last) \div LeakPeriod
<1>1. LeakRate \in Nat /\ LeakPeriod \in Nat \ {0} /\ b.last \in Int /\ t - b.last \in Nat
  BY ConfigAssumption DEF LB!ValidConfig, LB!Buckets
<1>2. /\ p \in Nat /\ LeakPeriod * p <= t - b.last /\ t - b.last < LeakPeriod * p + LeakPeriod
  <2>1. p \in Nat
    BY <1>1, DivIsNat
  <2>2. t - b.last \in Int
    BY <1>1
  <2>. QED  BY <1>1, <2>1, <2>2, DivBounds
<1>3. LB!Leak(b, t) =
        [queue |-> IF b.queue > p * LeakRate THEN b.queue - p * LeakRate ELSE 0,
         last |-> b.last + p * LeakPeriod]
  BY <1>1 DEF LB!Leak
<1> HIDE DEF p
<1>4. p * LeakPeriod = LeakPeriod * p /\ p * LeakPeriod \in Nat /\ p * LeakRate \in Nat
  BY <1>1, <1>2
<1>. QED  BY <1>1, <1>2, <1>3, <1>4 DEF p

LEMMA LeakyLeakPaid ==
  ASSUME NEW b \in LB!Buckets, NEW t \in Int, NEW k \in Nat, NEW from \in Int,
         from <= t, b.queue = 0 => b.last <= t, k = 0 \/ LeakyPaid(b, k, from)
  PROVE  LeakyPaid(LB!Leak(b, t), k, from)
<1> DEFINE r == LB!Leak(b, t)
<1>1. /\ LeakRate \in Nat /\ LeakPeriod \in Nat \ {0} /\ Capacity \in Nat
      /\ b.last \in Int /\ b.queue \in Nat
  BY ConfigAssumption DEF LB!ValidConfig, LB!Buckets
<1>2. r.last \in Int /\ r.queue \in Nat
  <2>1. r \in LB!Buckets
    BY LeakyLeak
  <2> HIDE DEF r
  <2>. QED  BY <1>1, <2>1 DEF LB!Buckets
<1>3. /\ LeakPeriod * b.queue \in Nat /\ LeakPeriod * r.queue \in Nat /\ LeakPeriod * k \in Nat
      /\ LeakRate * (b.last - from + LeakPeriod) \in Int
  <2> HIDE DEF r
  <2>. QED  BY <1>1, <1>2
<1>4. ASSUME k = 0, from - LeakPeriod <= r.last
      PROVE  LeakyPaid(r, k, from)
  <2> HIDE DEF r
  <2>1. LeakRate * (r.last - from + LeakPeriod) \in Nat /\ LeakPeriod * k = 0
    BY <1>1, <1>2, <1>4
  <2>. QED  BY <1>3, <1>4, <2>1 DEF LeakyPaid
<1>5. CASE b.queue = 0
  <2>1. r.last = t /\ r.queue = 0
    BY <1>5 DEF LB!Leak, LB!Buckets
  <2>2. CASE k = 0
    BY <1>1, <1>4, <2>1, <2>2
  <2>3. CASE LeakyPaid(b, k, from)
    <3>1. LeakRate * (b.last - from + LeakPeriod) <= LeakRate * (t - from + LeakPeriod)
      BY <1>1, <1>5, MulMono
    <3>2. LeakRate * (t - from + LeakPeriod) \in Int /\ LeakPeriod * b.queue = 0
      BY <1>1, <1>5
    <3>3. LeakPeriod * k <= LeakPeriod * r.queue + LeakRate * (r.last - from + LeakPeriod)
      BY <1>3, <2>1, <2>3, <3>1, <3>2 DEF LeakyPaid
    <3>. QED  BY <1>1, <2>1, <3>3 DEF LeakyPaid
  <2>. QED  BY <2>2, <2>3
<1>6. CASE b.queue # 0 /\ t <= b.last
  <2>1. r = b
    BY <1>6 DEF LB!Leak
  <2>. QED  BY <1>1, <1>4, <1>6, <2>1
<1>7. CASE b.queue # 0 /\ b.last < t
  <2> DEFINE p == (t - b.last) \div LeakPeriod
  <2>1. /\ p \in Nat /\ r.last = b.last + p * LeakPeriod /\ t < r.last + LeakPeriod
        /\ p * LeakRate \in Nat /\ p * LeakPeriod \in Nat
        /\ r.queue = IF b.queue > p * LeakRate THEN b.queue - p * LeakRate ELSE 0
    BY <1>7, LeakyLeaks
  <2> HIDE DEF p, r
  <2>2. from - LeakPeriod <= r.last
    BY <1>1, <1>2, <2>1
  <2>3. CASE LeakyPaid(b, k, from)
    <3>1. LeakPeriod * b.queue <= LeakPeriod * (r.queue + p * LeakRate)
      BY <1>1, <1>2, <2>1, MulMono
    <3>2. LeakPeriod * (r.queue + p * LeakRate) = LeakPeriod * r.queue + LeakPeriod * (p * LeakRate)
      BY <1>1, <1>2, <2>1
    <3>3. LeakPeriod * (p * LeakRate) = LeakRate * (p * LeakPeriod)
      BY <1>1, <2>1
    <3>4. LeakRate * (r.last - from + LeakPeriod)
            = LeakRate * (b.last - from + LeakPeriod) + LeakRate * (p * LeakPeriod)
      BY <1>1, <2>1
    <3>5. /\ LeakRate * (p * LeakPeriod) \in Int /\ LeakPeriod * (p * LeakRate) \in Int
          /\ LeakRate * (r.last - from + LeakPeriod) \in Int
      BY <1>1, <1>2, <2>1
    <3>6. LeakPeriod * k <= LeakPeriod * b.queue + LeakRate * (b.last - from + LeakPeriod)
      BY <2>3 DEF LeakyPaid
    <3>7. LeakPeriod * k <= LeakPeriod * r.queue + LeakRate * (r.last - from + LeakPeriod)
      BY <1>3, <3>1, <3>2, <3>3, <3>4, <3>5, <3>6
    <3>. QED  BY <2>2, <3>7 DEF LeakyPaid, r
  <2>4. CASE k = 0
    BY <1>4, <2>2, <2>4 DEF r
  <2>. QED  BY <2>3, <2>4 DEF r
<1>. QED  BY <1>1, <1>5, <1>6, <1>7

(* What a decision of each of the others does to its state.                *)
LEMMA LeakyDecides ==
  ASSUME NEW b \in LB!Buckets, NEW t \in Int, NEW n \in Nat \ {0}
  PROVE  LET r == LB!Leak(b, t)
             d == LB!Decide(b, t, n)
         IN /\ r \in LB!Buckets /\ d.state \in LB!Buckets
            /\ d.allowed <=> r.queue + n <= Capacity
            /\ d.allowed \in BOOLEAN
            /\ d.state.last = r.last /\ d.state.queue = r.queue + Granted(d, n)
            /\ ~d.allowed => d.state = r
<1> DEFINE r == LB!Leak(b, t)
           queued == [r EXCEPT !.queue = @ + n]
           d == LB!Decide(b, t, n)
<1>1. r \in LB!Buckets /\ Capacity \in Nat /\ d.state \in LB!Buckets
  BY LeakyLeak, LeakyDecide, ConfigAssumption DEF LB!ValidConfig
<1>2. CASE r.queue + n <= Capacity
  <2>1. d.allowed = TRUE /\ d.state = queued
    BY <1>2 DEF LB!Decide
  <2> HIDE DEF r, d
  <2>2. queued.queue = r.queue + n /\ queued.last = r.last
    BY <1>1 DEF LB!Buckets
  <2>. QED  BY <1>1, <1>2, <2>1, <2>2 DEF Granted, r, d
<1>3. CASE ~(r.queue + n <= Capacity)
  <2>1. d.allowed = FALSE /\ d.state = r
    BY <1>3 DEF LB!Decide
  <2> HIDE DEF r, d
  <2>2. r.queue \in Nat
    BY <1>1 DEF LB!Buckets
  <2>3. Granted(d, n) = 0
    BY <2>1 DEF Granted
  <2>4. d.state.queue = r.queue + Granted(d, n)
    BY <2>1, <2>2, <2>3
  <2>. QED  BY <1>1, <1>3, <2>1, <2>4 DEF r, d
<1>. QED  BY <1>2, <1>3

LEMMA LeakyDecidePaid ==
  ASSUME NEW b \in LB!Buckets, NEW t \in Int, NEW n \in Nat \ {0}, NEW k \in Nat,
         NEW from \in Int, from <= t, b.queue = 0 => b.last <= t,
         k = 0 \/ LeakyPaid(b, k, from)
  PROVE  LET d == LB!Decide(b, t, n) IN LeakyPaid(d.state, k + Granted(d, n), from)
<1> DEFINE r == LB!Leak(b, t)
           d == LB!Decide(b, t, n)
           g == Granted(d, n)
<1>1. /\ r \in LB!Buckets /\ d.state.last = r.last /\ d.state.queue = r.queue + g
      /\ g \in Nat
  BY LeakyDecides DEF Granted
<1>2. /\ from - LeakPeriod <= r.last
      /\ LeakPeriod * k <= LeakPeriod * r.queue + LeakRate * (r.last - from + LeakPeriod)
  BY LeakyLeakPaid DEF LeakyPaid
<1> HIDE DEF r, d, g
<1>3. /\ LeakRate \in Nat /\ LeakPeriod \in Nat /\ r.last \in Int /\ r.queue \in Nat
  BY <1>1, ConfigAssumption DEF LB!ValidConfig, LB!Buckets
<1>4. /\ LeakPeriod * (k + g) = LeakPeriod * k + LeakPeriod * g
      /\ LeakPeriod * (r.queue + g) = LeakPeriod * r.queue + LeakPeriod * g
      /\ LeakPeriod * k \in Int /\ LeakPeriod * g \in Int /\ LeakPeriod * r.queue \in Int
      /\ LeakRate * (r.last - from + LeakPeriod) \in Int
  BY <1>1, <1>3
<1>. QED  BY <1>1, <1>2, <1>3, <1>4 DEF LeakyPaid, d, g

-----------------------------------------------------------------------------
(* Windows.  A start that is aligned is the start of its own window.       *)
Aligned(s) == s = Window * (s \div Window)

LEMMA AlignIsAligned ==
  ASSUME NEW t \in Int
  PROVE  /\ Aligned(FW!Align(t)) /\ FW!Align(t) \div Window = t \div Window
         /\ FW!Align(t) <= t /\ t < FW!Align(t) + Window
         /\ FW!Align(t) = SW!Align(t) /\ FW!Align(t) \in Int
<1> DEFINE q == t \div Window
<1>1. Window \in Nat \ {0}
  BY ConfigAssumption DEF FW!ValidConfig
<1>2. q \in Int /\ Window * q <= t /\ t < Window * q + Window
  BY <1>1, DivBounds
<1>3. FW!Align(t) = q * Window /\ SW!Align(t) = q * Window
  BY DEF FW!Align, SW!Align
<1> HIDE DEF q
<1>4. q * Window = Window * q /\ Window * q \in Int
  BY <1>1, <1>2
<1>5. (Window * q) \div Window = q
  <2>1. Window * q <= Window * q /\ Window * q < Window * q + Window
    BY <1>1, <1>4
  <2>. QED  BY <1>1, <1>2, <1>4, <2>1, DivUnique
<1>. QED  BY <1>2, <1>3, <1>4, <1>5 DEF Aligned, q

(* A time before the end of an aligned window is in it or in one before,   *)
(* and a time after it is in one after.                                    *)
LEMMA WindowOrder ==
  ASSUME NEW s \in Int, NEW t \in Int, Aligned(s)
  PROVE  /\ s \div Window \in Int /\ t \div Window \in Int
         /\ t < s + Window => t \div Window <= s \div Window
         /\ s + Window <= t => s \div Window + 1 <= t \div Window
         /\ (s + Window) \div Window = s \div Window + 1 /\ Aligned(s + Window)
<1> DEFINE q == s \div Window
           r == t \div Window
<1>1. Window \in Nat \ {0}
  BY ConfigAssumption DEF FW!ValidConfig
<1>2. /\ q \in Int /\ s = Window * q
      /\ r \in Int /\ Window * r <= t /\ t < Window * r + Window
  BY <1>1, DivBounds DEF Aligned
<1> HIDE DEF q, r
<1>3. ASSUME t < s + Window, q + 1 <= r PROVE FALSE
  <2>1. Window * (q + 1) <= Window * r /\ Window * (q + 1) = Window * q + Window
    BY <1>1, <1>2, <1>3, MulMono
  <2>. QED  BY <1>1, <1>2, <1>3, <2>1
<1>4. ASSUME s + Window <= t, r <= q PROVE FALSE
  <2>1. Window * r <= Window * q
    BY <1>1, <1>2, <1>4, MulMono
  <2>. QED  BY <1>1, <1>2, <1>4, <2>1
<1>5. s + Window = Window * (q + 1)
  BY <1>1, <1>2
<1>6. (s + Window) \div Window = q + 1
  <2>1. /\ s + Window \in Int /\ q + 1 \in Int
        /\ Window * (q + 1) <= s + Window /\ s + Window < Window * (q + 1) + Window
    BY <1>1, <1>2, <1>5
  <2>. QED  BY <1>1, <2>1, DivUnique
<1>. QED  BY <1>1, <1>2, <1>3, <1>4, <1>5, <1>6 DEF q, r, Aligned

LEMMA WindowMovesPaid ==
  ASSUME NEW start \in Int, NEW next \in Int, NEW count \in 0 .. Limit, NEW k \in Nat,
         NEW from \in Int, WindowPaid(start, count, k, from),
         start \div Window + 1 <= next \div Window
  PROVE  WindowPaid(next, 0, k, from)
<1> DEFINE p == start \div Window
           q == next \div Window
           f == from \div Window
<1>1. p \in Int /\ q \in Int /\ f \in Int /\ Limit \in Nat
  BY DivIsInt, ConfigAssumption DEF FW!ValidConfig
<1>2. f <= p /\ k <= Limit * (p - f) + count /\ p + 1 <= q
  BY DEF WindowPaid
<1> HIDE DEF p, q, f
<1>3. Limit * (p + 1 - f) <= Limit * (q - f) /\ Limit * (p + 1 - f) = Limit * (p - f) + Limit
  BY <1>1, <1>2, MulMono
<1>4. Limit * (p - f) \in Int /\ Limit * (q - f) \in Int
  BY <1>1
<1>5. f <= q /\ k <= Limit * (q - f) + 0
  BY <1>1, <1>2, <1>3, <1>4
<1>. QED  BY <1>5 DEF WindowPaid, p, q, f

(* Nothing has to be paid in the window of from, or in a later one.        *)
LEMMA WindowUnpaid ==
  ASSUME NEW start \in Int, NEW count \in Nat, NEW from \in Int,
         from \div Window <= start \div Window
  PROVE  WindowPaid(start, count, 0, from)
<1> DEFINE p == start \div Window
           f == from \div Window
<1>1. p \in Int /\ f \in Int /\ Limit \in Nat
  BY DivIsInt, ConfigAssumption DEF FW!ValidConfig
<1>2. f <= p
  OBVIOUS
<1> HIDE DEF p, f
<1>3. Limit * (p - f) \in Nat
  BY <1>1, <1>2
<1>. QED  BY <1>2, <1>3 DEF WindowPaid, p, f

LEMMA WindowGrantPaid ==
  ASSUME NEW start \in Int, NEW count \in Nat, NEW k \in Nat, NEW g \in Nat, NEW from \in Int,
         WindowPaid(start, count, k, from)
  PROVE  WindowPaid(start, count + g, k + g, from)
<1> DEFINE p == start \div Window
           f == from \div Window
<1>1. p \in Int /\ f \in Int /\ Limit \in Nat /\ f <= p /\ k <= Limit * (p - f) + count
  BY DivIsInt, ConfigAssumption DEF FW!ValidConfig, WindowPaid
<1> HIDE DEF p, f
<1>2. Limit * (p - f) \in Int
  BY <1>1
<1>. QED  BY <1>1, <1>2 DEF WindowPaid, p, f

LEMMA FixedDecides ==
  ASSUME NEW c \in FW!Counters, NEW t \in Int, NEW n \in Nat \ {0}
  PROVE  LET w == FW!Roll(c, t)
             d == FW!Decide(c, t, n)
         IN /\ w \in FW!Counters
            /\ d.allowed <=> w.count + n <= Limit
            /\ d.allowed \in BOOLEAN
            /\ d.state.start = w.start /\ d.state.count = w.count + Granted(d, n)
            /\ ~d.allowed => d.state = w
<1> DEFINE w == FW!Roll(c, t)
           d == FW!Decide(c, t, n)
<1>1. w \in FW!Counters /\ Limit \in Nat
  BY FixedFresh, ConfigAssumption DEF FW!Roll, FW!ValidConfig
<1>2. CASE w.count + n <= Limit
  <2>1. d.allowed = TRUE /\ d.state = [w EXCEPT !.count = @ + n]
    BY <1>2 DEF FW!Decide
  <2> HIDE DEF w, d
  <2>. QED  BY <1>1, <1>2, <2>1 DEF Granted, FW!Counters, w, d
<1>3. CASE ~(w.count + n <= Limit)
  <2>1. d.allowed = FALSE /\ d.state = w
    BY <1>3 DEF FW!Decide
  <2> HIDE DEF w, d
  <2>2. w.count \in Nat /\ Granted(d, n) = 0
    BY <1>1, <2>1 DEF Granted, FW!Counters
  <2>3. d.state.count = w.count + Granted(d, n)
    BY <2>1, <2>2
  <2>. QED  BY <1>1, <1>3, <2>1, <2>3 DEF w, d
<1>. QED  BY <1>2, <1>3

LEMMA FixedDecidePaid ==
  ASSUME NEW c \in FW!Counters, NEW t \in Int, NEW n \in Nat \ {0}, NEW k \in Nat,
         NEW from \in Int, from <= t, Aligned(c.start),
         k = 0 \/ WindowPaid(c.start, c.count, k, from)
  PROVE  LET d == FW!Decide(c, t, n) IN
         /\ Aligned(d.state.start)
         /\ WindowPaid(d.state.start, d.state.count, k + Granted(d, n), from)
<1> DEFINE w == FW!Roll(c, t)
           d == FW!Decide(c, t, n)
           g == Granted(d, n)
<1>1. /\ w \in FW!Counters /\ d.state.start = w.start /\ d.state.count = w.count + g
      /\ g \in Nat
  BY FixedDecides DEF Granted
<1>2. c.start \in Int /\ c.count \in 0 .. Limit /\ Window \in Nat \ {0} /\ Limit \in Nat
  BY ConfigAssumption DEF FW!Counters, FW!ValidConfig
<1>3. from \div Window <= t \div Window
  BY <1>2, DivMono
<1>4. CASE c.start + Window <= t
  <2>1. w.start = FW!Align(t) /\ w.count = 0
    BY <1>4 DEF FW!Roll, FW!Fresh
  <2>2. Aligned(w.start) /\ w.start \div Window = t \div Window /\ w.start \in Int
    BY <2>1, AlignIsAligned
  <2>3. c.start \div Window + 1 <= t \div Window
    BY <1>2, <1>4, WindowOrder
  <2> HIDE DEF w, d, g
  <2>4. CASE k = 0
    <3>1. WindowPaid(w.start, w.count, k, from)
      BY <1>3, <2>1, <2>2, <2>4, WindowUnpaid
    <3>2. WindowPaid(w.start, w.count + g, k + g, from)
      BY <1>1, <2>1, <2>2, <3>1, WindowGrantPaid
    <3>. QED  BY <1>1, <2>2, <3>2 DEF d, g
  <2>5. CASE WindowPaid(c.start, c.count, k, from)
    <3>1. WindowPaid(w.start, 0, k, from)
      BY <1>2, <2>2, <2>3, <2>5, WindowMovesPaid
    <3>2. WindowPaid(w.start, w.count + g, k + g, from)
      BY <1>1, <2>1, <2>2, <3>1, WindowGrantPaid
    <3>. QED  BY <1>1, <2>2, <3>2 DEF d, g
  <2>. QED  BY <2>4, <2>5
<1>5. CASE ~(c.start + Window <= t)
  <2>1. w = c
    BY <1>5 DEF FW!Roll
  <2>2. t \div Window <= c.start \div Window
    <3>1. t < c.start + Window
      BY <1>2, <1>5
    <3>. QED  BY <1>2, <3>1, WindowOrder
  <2>3. from \div Window <= c.start \div Window
    <3>1. from \div Window \in Int /\ t \div Window \in Int /\ c.start \div Window \in Int
      BY <1>2, DivIsInt
    <3>. QED  BY <1>3, <2>2, <3>1
  <2> HIDE DEF w, d, g
  <2>4. WindowPaid(w.start, w.count, k, from)
    BY <1>2, <2>1, <2>3, WindowUnpaid
  <2>5. w.start \in Int /\ w.count \in Nat
    BY <1>2, <2>1
  <2>6. WindowPaid(w.start, w.count + g, k + g, from)
    BY <1>1, <2>4, <2>5, WindowGrantPaid
  <2>7. Aligned(d.state.start) /\ WindowPaid(d.state.start, d.state.count, k + g, from)
    BY <1>1, <2>1, <2>6
  <2>. QED  BY <2>7 DEF d, g
<1>. QED  BY <1>4, <1>5

LEMMA CountersAreNoLogs ==
  /\ \A c \in SW!Counters : ~SW!IsLog(c)
  /\ \A c \in SW!LogsAt(Start) : SW!IsLog(c)
BY DEF SW!IsLog, SW!Counters, SW!LogsAt

LEMMA SlidingDecides ==
  ASSUME NEW c \in SW!Counters \cup SW!LogsAt(Start), NEW t \in Int, NEW n \in Nat \ {0}
  PROVE  LET w == SW!Advance(SW!Migrate(c, t), t)
             d == SW!Decide(c, t, n)
         IN /\ w \in SW!Counters /\ d.state \in SW!Counters
            /\ d.allowed <=> SW!Estimate(w, t) + n <= Limit
            /\ d.allowed \in BOOLEAN
            /\ d.state.start = w.start /\ d.state.prev = w.prev
            /\ d.state.cur = w.cur + Granted(d, n)
            /\ ~d.allowed => d.state = w
<1> DEFINE w == SW!Advance(SW!Migrate(c, t), t)
           d == SW!Decide(c, t, n)
<1>1. w \in SW!Counters /\ Limit \in Nat /\ d.state \in SW!Counters
  BY SlidingMigrate, SlidingAdvance, SlidingDecide, ConfigAssumption DEF SW!ValidConfig
<1>2. CASE SW!Estimate(w, t) + n <= Limit
  <2>1. d.allowed = TRUE /\ d.state = [w EXCEPT !.cur = @ + n]
    BY <1>2 DEF SW!Decide
  <2> HIDE DEF w, d
  <2>. QED  BY <1>1, <1>2, <2>1 DEF Granted, SW!Counters, w, d
<1>3. CASE ~(SW!Estimate(w, t) + n <= Limit)
  <2>1. d.allowed = FALSE /\ d.state = w
    BY <1>3 DEF SW!Decide
  <2> HIDE DEF w, d
  <2>2. w.cur \in Nat /\ Granted(d, n) = 0
    BY <1>1, <2>1 DEF Granted, SW!Counters
  <2>3. d.state.cur = w.cur + Granted(d, n)
    BY <2>1, <2>2
  <2>. QED  BY <1>1, <1>3, <2>1, <2>3 DEF w, d
<1>. QED  BY <1>2, <1>3

(* The window that counters are in once they have been moved on.           *)
LEMMA SlidingMoves ==
  ASSUME NEW c \in SW!Counters \cup SW!LogsAt(Start), NEW t \in Int
  PROVE  LET w == SW!Advance(SW!Migrate(c, t), t) IN
         \/ /\ SW!IsLog(c)
            /\ w.start = SW!Align(t) /\ w.prev = 0 /\ w.cur = SW!Recent(c, t)
            /\ SW!Migrate(c, t) = w
         \/ ~SW!IsLog(c) /\ t < c.start + Window /\ w = c
         \/ /\ ~SW!IsLog(c) /\ c.start + Window <= t /\ t < c.start + 2 * Window
            /\ w.start = c.start + Window /\ w.prev = c.cur /\ w.cur = 0
         \/ ~SW!IsLog(c) /\ c.start + 2 * Window <= t /\ w = SW!Fresh(t)
<1>1. Window \in Nat \ {0}
  BY ConfigAssumption DEF SW!ValidConfig
<1>2. CASE c \in SW!LogsAt(Start)
  <2> DEFINE m == SW!Migrate(c, t)
  <2>1. m = [SW!Fresh(t) EXCEPT !.cur = SW!Recent(c, t)] /\ SW!IsLog(c)
    BY <1>2, CountersAreNoLogs DEF SW!Migrate
  <2>2. m.start = SW!Align(t) /\ m.prev = 0 /\ m.cur = SW!Recent(c, t)
    BY <2>1 DEF SW!Fresh
  <2>3. SW!Advance(m, t) = m
    BY <2>2, AlignIsAligned DEF SW!Advance
  <2>. QED  BY <2>1, <2>2, <2>3
<1>3. CASE c \in SW!Counters
  <2>1. SW!Migrate(c, t) = c /\ ~SW!IsLog(c) /\ c.start \in Int
    BY <1>3, CountersAreNoLogs DEF SW!Migrate, SW!Counters
  <2>2. CASE t < c.start + Window
    BY <2>1, <2>2 DEF SW!Advance
  <2>3. CASE c.start + Window <= t /\ t < c.start + 2 * Window
    BY <1>1, <2>1, <2>3 DEF SW!Advance
  <2>4. CASE c.start + 2 * Window <= t
    BY <1>1, <2>1, <2>4 DEF SW!Advance
  <2>. QED  BY <1>1, <2>1, <2>2, <2>3, <2>4
<1>. QED  BY <1>2, <1>3

LEMMA SlidingDecidePaid ==
  ASSUME NEW c \in SW!Counters \cup SW!LogsAt(Start), NEW t \in Int, NEW n \in Nat \ {0},
         NEW k \in Nat, NEW from \in Int, from <= t, SW!IsLog(c) \/ Aligned(c.start),
         k = 0 \/ (~SW!IsLog(c) /\ WindowPaid(c.start, c.cur, k, from))
  PROVE  LET d == SW!Decide(c, t, n) IN
         /\ Aligned(d.state.start)
         /\ WindowPaid(d.state.start, d.state.cur, k + Granted(d, n), from)
<1> DEFINE w == SW!Advance(SW!Migrate(c, t), t)
           d == SW!Decide(c, t, n)
           g == Granted(d, n)
<1>1. /\ w \in SW!Counters /\ d.state.start = w.start /\ d.state.cur = w.cur + g
      /\ g \in Nat /\ w.start \in Int /\ w.cur \in Nat
  <2>1. w \in SW!Counters /\ d.state.start = w.start /\ d.state.cur = w.cur + g /\ g \in Nat
    BY SlidingDecides DEF Granted
  <2> HIDE DEF w, d, g
  <2>. QED  BY <2>1 DEF SW!Counters
<1>2. /\ Window \in Nat \ {0} /\ Limit \in Nat
      /\ from \div Window <= t \div Window /\ from \div Window \in Int /\ t \div Window \in Int
  BY DivMono, DivIsInt, ConfigAssumption DEF SW!ValidConfig
<1>3. SUFFICES Aligned(w.start) /\ WindowPaid(w.start, w.cur, k, from)
  <2> HIDE DEF w, d, g
  <2>. QED  BY <1>1, <1>3, WindowGrantPaid DEF d, g
<1>4. Aligned(SW!Align(t)) /\ SW!Align(t) \div Window = t \div Window /\ SW!Align(t) \in Int
  BY AlignIsAligned
<1>5. ~SW!IsLog(c) => c \in SW!Counters /\ c.start \in Int /\ c.cur \in 0 .. Limit /\ Aligned(c.start)
  BY CountersAreNoLogs DEF SW!Counters
<1>6. CASE SW!IsLog(c) /\ w.start = SW!Align(t)
  <2> HIDE DEF w
  <2>. QED  BY <1>1, <1>2, <1>4, <1>6, WindowUnpaid
<1>7. CASE ~SW!IsLog(c) /\ t < c.start + Window /\ w = c
  <2>1. from \div Window <= c.start \div Window
    <3>1. t \div Window <= c.start \div Window /\ c.start \div Window \in Int
      BY <1>5, <1>7, WindowOrder
    <3>. QED  BY <1>2, <3>1
  <2>2. CASE k = 0
    <3> HIDE DEF w
    <3>. QED  BY <1>1, <1>5, <1>7, <2>1, <2>2, WindowUnpaid
  <2>3. CASE WindowPaid(c.start, c.cur, k, from)
    BY <1>5, <1>7, <2>3
  <2>. QED  BY <1>7, <2>2, <2>3
<1>8. CASE /\ ~SW!IsLog(c) /\ c.start + Window <= t /\ t < c.start + 2 * Window
           /\ w.start = c.start + Window /\ w.prev = c.cur /\ w.cur = 0
  <2> HIDE DEF w
  <2>1. /\ w.start \div Window = c.start \div Window + 1 /\ Aligned(w.start)
        /\ c.start \div Window \in Int
    BY <1>5, <1>8, WindowOrder
  <2>2. t < w.start + Window
    BY <1>2, <1>5, <1>8
  <2>3. from \div Window <= w.start \div Window
    <3>1. t \div Window <= w.start \div Window /\ w.start \div Window \in Int
      BY <1>1, <2>1, <2>2, WindowOrder
    <3>. QED  BY <1>2, <3>1
  <2>4. CASE k = 0
    BY <1>1, <1>8, <2>1, <2>3, <2>4, WindowUnpaid
  <2>5. CASE WindowPaid(c.start, c.cur, k, from)
    <3>1. c.start \div Window + 1 <= w.start \div Window
      BY <2>1
    <3>. QED  BY <1>1, <1>5, <1>8, <2>1, <2>5, <3>1, WindowMovesPaid
  <2>. QED  BY <1>8, <2>4, <2>5
<1>9. CASE ~SW!IsLog(c) /\ c.start + 2 * Window <= t /\ w = SW!Fresh(t)
  <2>1. w.start = SW!Align(t) /\ w.cur = 0
    BY <1>9 DEF SW!Fresh
  <2> HIDE DEF w
  <2>2. c.start \div Window + 1 <= t \div Window
    <3>1. c.start + Window <= t
      BY <1>2, <1>5, <1>9
    <3>. QED  BY <1>5, <1>9, <3>1, WindowOrder
  <2>3. CASE k = 0
    BY <1>1, <1>2, <1>4, <2>1, <2>3, WindowUnpaid
  <2>4. CASE WindowPaid(c.start, c.cur, k, from)
    BY <1>1, <1>4, <1>5, <1>9, <2>1, <2>2, <2>4, WindowMovesPaid
  <2>. QED  BY <1>4, <1>9, <2>1, <2>3, <2>4
<1>. QED  BY <1>6, <1>7, <1>8, <1>9, SlidingMoves

-----------------------------------------------------------------------------
(* GCRA.                                                                   *)
LEMMA CellConstants ==
  /\ Period \in Nat \ {0} /\ MaxCost \in Nat
  /\ GC!DelayTolerance \in Nat /\ Period * MaxCost \in Nat
<1>1. Period \in Nat \ {0} /\ BurstSize - 1 \in Nat /\ MaxCost \in Nat
  BY ConfigAssumption DEF GC!ValidConfig
<1>2. Period * (BurstSize - 1) \in Nat /\ Period * MaxCost \in Nat
  BY <1>1
<1>. QED  BY <1>1, <1>2 DEF GC!DelayTolerance

LEMMA CellDecides ==
  ASSUME NEW c \in GC!Cells, NEW t \in Int, NEW n \in Nat \ {0}
  PROVE  LET d == GC!Decide(c, t, n) IN
         /\ d.allowed <=> GC!Arrival(c, t) <= t + GC!DelayTolerance
         /\ d.allowed \in BOOLEAN /\ d.state \in GC!Cells
         /\ d.allowed => d.state.tat = GC!Arrival(c, t) + Period * n
         /\ ~d.allowed => d.state = c /\ GC!Arrival(c, t) = c.tat
         /\ GC!Arrival(c, t) \in Int /\ c.tat \in Int /\ d.state.tat \in Int
         /\ t <= GC!Arrival(c, t) /\ c.tat <= GC!Arrival(c, t)
         /\ GC!Arrival(c, t) = c.tat \/ GC!Arrival(c, t) = t
         /\ Period \in Nat \ {0} /\ GC!DelayTolerance \in Nat
         /\ Period * n \in Nat /\ Period * MaxCost \in Nat
<1>1. Period \in Nat \ {0} /\ BurstSize - 1 \in Nat /\ MaxCost \in Nat
  BY ConfigAssumption DEF GC!ValidConfig
<1>2. Period * (BurstSize - 1) \in Nat /\ Period * n \in Nat /\ Period * MaxCost \in Nat
  BY <1>1
<1>3. /\ GC!Arrival(c, t) \in Int /\ c.tat \in Int
      /\ t <= GC!Arrival(c, t) /\ c.tat <= GC!Arrival(c, t)
      /\ GC!Arrival(c, t) = c.tat \/ GC!Arrival(c, t) = t
  BY DEF GC!Arrival, GC!Cells
<1>4. GC!DelayTolerance \in Nat
  BY <1>2 DEF GC!DelayTolerance
<1>5. CASE GC!Conforms(c, t)
  BY <1>1, <1>2, <1>3, <1>4, <1>5 DEF GC!Conforms, GC!Decide, GC!Cells
<1>6. CASE ~GC!Conforms(c, t)
  BY <1>1, <1>2, <1>3, <1>4, <1>6 DEF GC!Conforms, GC!Decide, GC!Cells
<1>. QED  BY <1>5, <1>6

LEMMA CellDecidePaid ==
  ASSUME NEW c \in GC!Cells, NEW t \in Int, NEW n \in Nat \ {0}, NEW k \in Nat,
         NEW from \in Int, from <= t, k = 0 \/ CellPaid(c, k, from)
  PROVE  LET d == GC!Decide(c, t, n) IN CellPaid(d.state, k + Granted(d, n), from)
<1> DEFINE a == GC!Arrival(c, t)
           d == GC!Decide(c, t, n)
<1>1. /\ d.allowed <=> a <= t + GC!DelayTolerance
      /\ d.allowed => d.state.tat = a + Period * n
      /\ ~d.allowed => d.state = c /\ a = c.tat
      /\ a \in Int /\ t <= a /\ c.tat <= a /\ c.tat \in Int
      /\ Period \in Nat \ {0} /\ GC!DelayTolerance \in Nat /\ Period * n \in Nat
  BY CellDecides
<1> HIDE DEF a, d
<1>2. Period * k <= a - from /\ Period * k \in Int
  <2>1. CASE k = 0
    BY <1>1, <2>1
  <2>2. CASE CellPaid(c, k, from)
    BY <1>1, <2>2 DEF CellPaid
  <2>. QED  BY <2>1, <2>2
<1>3. CASE d.allowed
  <2>1. Granted(d, n) = n /\ Period * (k + n) = Period * k + Period * n
    BY <1>1, <1>3 DEF Granted
  <2>. QED  BY <1>1, <1>2, <1>3, <2>1 DEF CellPaid, d
<1>4. CASE ~d.allowed
  <2>1. k + Granted(d, n) = k
    BY <1>4 DEF Granted
  <2>. QED  BY <1>1, <1>2, <1>4, <2>1 DEF CellPaid, d
<1>. QED  BY <1>3, <1>4

-----------------------------------------------------------------------------
(* The same for a key under any of the algorithms.                         *)

(* A time that some clock had reached when the state was written.          *)
Reached(s) ==
  CASE algorithm = "token_bucket"   -> s.last
    [] algorithm = "leaky_bucket"   -> s.last
    [] algorithm = "fixed_window"   -> s.start
    [] algorithm = "sliding_window" -> IF SW!IsLog(s) THEN Start ELSE s.start
    [] algorithm = "gcra"           -> s.tat - GC!DelayTolerance - Period * MaxCost

PaidIn(s, k, from) ==
  CASE algorithm = "token_bucket"   -> TokenPaid(s, k, from)
    [] algorithm = "leaky_bucket"   -> LeakyPaid(s, k, from)
    [] algorithm = "fixed_window"   -> WindowPaid(s.start, s.count, k, from)
    [] algorithm = "sliding_window" -> ~SW!IsLog(s) /\ WindowPaid(s.start, s.cur, k, from)
    [] algorithm = "gcra"           -> CellPaid(s, k, from)

(* A request larger than its capacity that a leaky bucket denies may leave *)
(* an empty queue with the time of a clock that is ahead, and the next     *)
(* clock to look takes the time back (leakRequests).  The bound then needs *)
(* clocks that agree, or requests that fit.                                *)
Sized == algorithm = "leaky_bucket" => MaxSkew = 0 \/ Ns \subseteq 1 .. Capacity

(* What an update leaves behind: no window that is not aligned, and no     *)
(* empty queue whose time another clock takes back.                        *)
Tidy(s) ==
  CASE algorithm = "leaky_bucket"   -> s.queue > 0 \/ MaxSkew = 0
    [] algorithm = "fixed_window"   -> Aligned(s.start)
    [] algorithm = "sliding_window" -> SW!IsLog(s) \/ Aligned(s.start)
    [] OTHER                        -> TRUE

(* What an update works on.                                                *)
Ready(s, t) ==
  CASE algorithm = "leaky_bucket"   -> s.queue = 0 => s.last <= t
    [] algorithm = "fixed_window"   -> Aligned(s.start)
    [] algorithm = "sliding_window" -> SW!IsLog(s) \/ Aligned(s.start)
    [] OTHER                        -> TRUE

(* Values the steps below need.                                            *)
LEMMA KeyTypes ==
  ASSUME TypeOK
  PROVE  /\ algorithm \in Kinds /\ TTL \in Nat /\ MaxSkew \in Nat
         /\ now \in Nat /\ since \in Nat /\ used \in Nat /\ deadline \in Nat
         /\ Ns \subseteq Nat \ {0}
         /\ algorithm = "gcra" => Ns \subseteq 1 .. MaxCost
         /\ \A skew \in Skews :
              /\ now + skew \in Int
              /\ now - MaxSkew <= now + skew /\ now + skew <= now + MaxSkew
<1>1. MaxSkew \in Nat /\ now \in Nat
  BY ClockAssumption DEF TypeOK, Times
<1>2. \A skew \in Skews : skew \in Int /\ -MaxSkew <= skew /\ skew <= MaxSkew
  BY <1>1 DEF Skews
<1>3. /\ algorithm \in Kinds /\ TTL \in Nat /\ Ns \subseteq Nat \ {0}
      /\ algorithm = "gcra" => Ns \subseteq 1 .. MaxCost
  BY ConfigAssumption DEF TypeOK, TTL, Ns
<1>4. since \in Nat /\ used \in Nat /\ deadline \in Nat
  BY ClockAssumption DEF TypeOK, Times
<1>. QED  BY <1>1, <1>2, <1>3, <1>4

LEMMA ReadableIs ==
  ASSUME TypeOK, NEW e \in Readable
  PROVE  e = stored \/ (e = NoState /\ TTL # 0 /\ deadline <= now)
BY KeyTypes DEF Readable

LEMMA FreshReached ==
  ASSUME algorithm \in Kinds, NEW t \in Int
  PROVE  Reached(Fresh(t)) \in Int /\ Reached(Fresh(t)) <= t
<1>1. CASE algorithm = "token_bucket"
  BY <1>1, TokenFresh DEF Reached, Fresh
<1>2. CASE algorithm = "leaky_bucket"
  BY <1>2 DEF Reached, Fresh, LB!Fresh
<1>3. CASE algorithm = "fixed_window"
  BY <1>3, AlignIsAligned DEF Reached, Fresh, FW!Fresh
<1>4. CASE algorithm = "sliding_window"
  <2>1. ~SW!IsLog(SW!Fresh(t))
    BY SlidingFresh, CountersAreNoLogs
  <2>. QED  BY <1>4, <2>1, AlignIsAligned DEF Reached, Fresh, SW!Fresh
<1>5. CASE algorithm = "gcra"
  <2>1. GC!DelayTolerance \in Nat /\ Period * MaxCost \in Nat
    BY CellConstants
  <2>. QED  BY <1>5, <2>1 DEF Reached, Fresh, GC!Fresh
<1>. QED  BY <1>1, <1>2, <1>3, <1>4, <1>5 DEF Kinds

LEMMA StateReached ==
  ASSUME algorithm \in Kinds, NEW s \in States
  PROVE  Reached(s) \in Int
<1>1. Start \in Int /\ GC!DelayTolerance \in Nat /\ Period * MaxCost \in Nat
  BY CellConstants, ClockAssumption
<1>2. CASE algorithm = "sliding_window"
  BY <1>1, <1>2, CountersAreNoLogs DEF Reached, States, SW!Counters
<1>3. CASE algorithm = "gcra"
  BY <1>1, <1>3 DEF Reached, States, GC!Cells
<1>4. CASE algorithm \in {"token_bucket", "leaky_bucket", "fixed_window"}
  BY <1>4 DEF Reached, States, TB!Buckets, LB!Buckets, FW!Counters
<1>. QED  BY <1>2, <1>3, <1>4 DEF Kinds

(* A decision moves the state's time to the clock's at most.               *)
LEMMA DecideReached ==
  ASSUME algorithm \in Algorithms, NEW s \in States, NEW t \in Int, NEW n \in Ns
  PROVE  LET d == Decide(s, t, n) IN
         /\ Reached(s) \in Int /\ Reached(d.state) \in Int
         /\ Reached(d.state) <= Reached(s) \/ Reached(d.state) <= t
<1>1. algorithm \in Kinds /\ n \in Nat \ {0} /\ Start \in Int
  BY ConfigAssumption, ClockAssumption DEF Ns
<1>2. CASE algorithm = "token_bucket"
  <2> DEFINE d == TB!Decide(s, t, n)
  <2>1. s \in TB!Buckets /\ d.state \in TB!Buckets /\ d.state.last = TB!Refill(s, t).last
    BY <1>1, <1>2, TokenDecide DEF States
  <2>2. d.state.last = IF t <= s.last THEN s.last ELSE t
    BY <2>1, TokenRefill
  <2>3. s.last \in Int /\ Reached(s) = s.last /\ Reached(d.state) = d.state.last
    BY <1>2, <2>1 DEF Reached, TB!Buckets
  <2>. QED  BY <1>2, <2>2, <2>3 DEF Decide
<1>3. CASE algorithm = "leaky_bucket"
  <2> DEFINE d == LB!Decide(s, t, n)
  <2>1. s \in LB!Buckets /\ d.state.last = LB!Leak(s, t).last
    BY <1>1, <1>3, LeakyDecides DEF States
  <2>2. s.last \in Int /\ Reached(s) = s.last /\ Reached(d.state) = d.state.last
    BY <1>3, <2>1 DEF Reached, LB!Buckets
  <2>3. CASE s.queue = 0
    <3>1. LB!Leak(s, t).last = t
      BY <2>1, <2>3 DEF LB!Leak, LB!Buckets
    <3>. QED  BY <1>3, <2>1, <2>2, <3>1 DEF Decide
  <2>4. CASE s.queue # 0 /\ t <= s.last
    <3>1. LB!Leak(s, t) = s
      BY <2>4 DEF LB!Leak
    <3>. QED  BY <1>3, <2>1, <2>2, <3>1 DEF Decide
  <2>5. CASE s.queue # 0 /\ s.last < t
    <3>1. LB!Leak(s, t).last <= t /\ LB!Leak(s, t).last \in Int
      BY <2>1, <2>5, LeakyLeaks
    <3>. QED  BY <1>3, <2>1, <2>2, <3>1 DEF Decide
  <2>. QED  BY <2>2, <2>3, <2>4, <2>5
<1>4. CASE algorithm = "fixed_window"
  <2> DEFINE d == FW!Decide(s, t, n)
  <2>1. s \in FW!Counters /\ d.state.start = FW!Roll(s, t).start
    BY <1>1, <1>4, FixedDecides DEF States
  <2>2. s.start \in Int /\ Reached(s) = s.start /\ Reached(d.state) = d.state.start
    BY <1>4, <2>1 DEF Reached, FW!Counters
  <2>3. FW!Roll(s, t).start = s.start \/ FW!Roll(s, t).start = FW!Align(t)
    BY DEF FW!Roll, FW!Fresh
  <2>. QED  BY <1>4, <2>1, <2>2, <2>3, AlignIsAligned DEF Decide
<1>5. CASE algorithm = "sliding_window"
  <2> DEFINE d == SW!Decide(s, t, n)
             w == SW!Advance(SW!Migrate(s, t), t)
  <2>1. /\ s \in SW!Counters \cup SW!LogsAt(Start) /\ d.state.start = w.start
        /\ w \in SW!Counters /\ ~SW!IsLog(d.state)
    BY <1>1, <1>5, SlidingDecides, CountersAreNoLogs DEF States
  <2>2. Reached(s) \in Int /\ (~SW!IsLog(s) => s.start \in Int /\ Reached(s) = s.start)
    BY <1>1, <1>5, <2>1, CountersAreNoLogs DEF Reached, SW!Counters
  <2>3. Reached(d.state) = w.start /\ w.start \in Int
    BY <1>5, <2>1 DEF Reached, SW!Counters
  <2>4. Window \in Nat \ {0}
    BY ConfigAssumption DEF SW!ValidConfig
  <2>5. w.start <= t \/ (~SW!IsLog(s) /\ w.start = s.start)
    <3>1. SW!Fresh(t).start = SW!Align(t)
      BY DEF SW!Fresh
    <3>. QED  BY <2>1, <2>2, <2>3, <2>4, <3>1, SlidingMoves, AlignIsAligned
  <2>. QED  BY <1>5, <2>2, <2>3, <2>5 DEF Decide
<1>6. CASE algorithm = "gcra"
  <2> DEFINE d == GC!Decide(s, t, n)
             a == GC!Arrival(s, t)
  <2>1. s \in GC!Cells /\ n <= MaxCost /\ MaxCost \in Nat
    BY <1>6, ConfigAssumption DEF States, Ns
  <2>2. /\ d.allowed <=> a <= t + GC!DelayTolerance
        /\ d.allowed => d.state.tat = a + Period * n
        /\ ~d.allowed => d.state = s
        /\ a \in Int /\ s.tat \in Int /\ d.state.tat \in Int
        /\ Period \in Nat \ {0} /\ GC!DelayTolerance \in Nat
        /\ Period * n \in Nat /\ Period * MaxCost \in Nat
    BY <1>1, <2>1, CellDecides
  <2>3. Period * n <= Period * MaxCost
    BY <1>1, <2>1, <2>2, MulMono
  <2>4. /\ Reached(s) = s.tat - GC!DelayTolerance - Period * MaxCost
        /\ Reached(d.state) = d.state.tat - GC!DelayTolerance - Period * MaxCost
    BY <1>6 DEF Reached
  <2>5. Decide(s, t, n) = d
    BY <1>6 DEF Decide
  <2> HIDE DEF d, a
  <2>6. Reached(d.state) <= Reached(s) \/ Reached(d.state) <= t
    <3>1. CASE d.allowed
      BY <2>2, <2>3, <2>4, <3>1
    <3>2. CASE ~d.allowed
      BY <2>2, <2>4, <3>2
    <3>. QED  BY <3>1, <3>2
  <2>. QED  BY <2>2, <2>4, <2>5, <2>6
<1>. QED  BY <1>1, <1>2, <1>3, <1>4, <1>5, <1>6 DEF Kinds

-----------------------------------------------------------------------------
(* No clock has run ahead of what the entry's deadline allows.             *)
Dated ==
  /\ deadline <= now + TTL
  /\ stored # NoState => Reached(stored) + TTL <= deadline + MaxSkew

LEMMA WorksOnDated ==
  ASSUME TypeOK, Dated, NEW skew \in Skews, NEW e \in Readable
  PROVE  LET b == StateAt(e, now + skew) IN
         b \in States /\ Reached(b) \in Int /\ Reached(b) <= now + MaxSkew
<1> DEFINE t == now + skew
           b == StateAt(e, t)
<1>1. /\ algorithm \in Kinds /\ TTL \in Nat /\ MaxSkew \in Nat /\ now \in Nat /\ deadline \in Nat
      /\ t \in Int /\ t <= now + MaxSkew
  BY KeyTypes
<1>2. b \in States
  BY <1>1, StateAtIsState
<1>3. CASE e = NoState
  <2>1. b = Fresh(t)
    BY <1>3 DEF StateAt
  <2>2. Reached(Fresh(t)) \in Int /\ Reached(Fresh(t)) <= t
    BY <1>1, FreshReached
  <2> HIDE DEF b
  <2>. QED  BY <1>1, <1>2, <2>1, <2>2 DEF b
<1>4. CASE e # NoState
  <2>1. b = stored /\ stored # NoState
    BY <1>4, ReadableIs DEF StateAt
  <2>2. Reached(stored) \in Int
    BY <1>1, <2>1, StateReached DEF TypeOK
  <2> HIDE DEF b
  <2>. QED  BY <1>1, <1>2, <2>1, <2>2 DEF b, Dated
<1>. QED  BY <1>3, <1>4

(* What the definitions by algorithm say after a step.                     *)
LEMMA SameAlgorithm ==
  ASSUME algorithm' = algorithm
  PROVE  /\ TTL' = TTL /\ Ns' = Ns
         /\ Reached(stored)' = Reached(stored')
         /\ Tidy(stored)' <=> Tidy(stored')
         /\ PaidIn(stored, used, since - MaxSkew)' <=> PaidIn(stored', used', since' - MaxSkew)
         /\ Outlived' <=> Outlived
         /\ Sized' <=> Sized
BY DEF TTL, Ns, Reached, Tidy, PaidIn, Outlived, Sized, Ns, TTL

(* An update leaves the decision of the state it works on.                 *)
LEMMA AllowNDecides ==
  ASSUME TypeOK, NEW n \in Ns, NEW skew \in Skews, AllowN(n, skew)
  PROVE  \E e \in Readable :
           LET t == now + skew
               d == Decide(StateAt(e, t), t, n)
           IN /\ stored' = d.state /\ stored' \in States /\ stored' # NoState
              /\ deadline' = now + TTL
              /\ used' = IF d.allowed /\ since <= now THEN used + n ELSE used
              /\ UNCHANGED <<algorithm, now, since>>
<1> DEFINE t == now + skew
<1>1. PICK e \in Readable :
        LET d == Decide(StateAt(e, t), t, n) IN
        /\ stored' = d.state
        /\ deadline' = now + TTL
        /\ used' = IF d.allowed /\ since <= now THEN used + n ELSE used
        /\ UNCHANGED <<algorithm, now, since>>
  BY DEF AllowN
<1>2. t \in Int /\ n \in Nat \ {0} /\ algorithm \in Algorithms
  BY KeyTypes DEF TypeOK
<1>3. stored' \in States
  BY <1>1, <1>2, StateAtIsState, DecideIsState
<1>. QED  BY <1>1, <1>2, <1>3, StateIsSome

LEMMA AllowNDated ==
  ASSUME TypeOK, Dated, NEW n \in Ns, NEW skew \in Skews, AllowN(n, skew)
  PROVE  Dated'
<1> DEFINE t == now + skew
<1>1. PICK e \in Readable :
        LET d == Decide(StateAt(e, t), t, n) IN
        /\ stored' = d.state
        /\ deadline' = now + TTL
        /\ UNCHANGED <<algorithm, now, since>>
  BY AllowNDecides
<1> DEFINE b == StateAt(e, t)
<1>2. /\ b \in States /\ Reached(b) \in Int /\ Reached(b) <= now + MaxSkew
  BY WorksOnDated
<1>3. /\ TTL \in Nat /\ MaxSkew \in Nat /\ now \in Nat /\ t \in Int /\ t <= now + MaxSkew
      /\ algorithm \in Algorithms
  BY KeyTypes DEF TypeOK
<1> HIDE DEF b, t
<1>4. /\ Reached(stored') \in Int
      /\ Reached(stored') <= Reached(b) \/ Reached(stored') <= t
  BY <1>1, <1>2, <1>3, DecideReached DEF b
<1>5. Reached(stored') + TTL <= deadline' + MaxSkew /\ deadline' <= now' + TTL
  BY <1>1, <1>2, <1>3, <1>4
<1>. QED  BY <1>1, <1>5, SameAlgorithm DEF Dated

LEMMA SpecDated == Spec => []Dated
<1>1. Init => Dated
  <2> SUFFICES ASSUME Init PROVE Dated
    OBVIOUS
  <2>1. Start \in Nat /\ TTL \in Nat /\ MaxSkew \in Nat
    BY ConfigAssumption, ClockAssumption DEF Init, TTL
  <2>2. stored # NoState => Reached(stored) = Start
    BY CountersAreNoLogs DEF Init, Reached
  <2>. QED  BY <2>1, <2>2 DEF Init, Dated
<1>2. TypeOK /\ Dated /\ [Next]_vars => Dated'
  <2> SUFFICES ASSUME TypeOK, Dated, [Next]_vars PROVE Dated'
    OBVIOUS
  <2>1. ASSUME Reset \/ Tick \/ UNCHANGED vars PROVE Dated'
    <3>1. /\ algorithm' = algorithm /\ deadline' = deadline
          /\ stored' = stored \/ stored' = NoState
          /\ now' = now \/ now' = now + 1
      BY <2>1 DEF Reset, Tick, vars
    <3>2. now \in Nat /\ TTL \in Nat /\ deadline \in Nat
      BY KeyTypes
    <3>3. deadline' <= now' + TTL
      BY <3>1, <3>2 DEF Dated
    <3>. QED  BY <3>1, <3>3, SameAlgorithm DEF Dated
  <2>. QED  BY <2>1, AllowNDated DEF Next
<1>. QED  BY <1>1, <1>2, LimitedKeyTypeOK, PTL DEF Spec


-----------------------------------------------------------------------------
(* A decision pays for what it grants, and leaves a tidy state.            *)
LEMMA DecidePaid ==
  ASSUME algorithm \in Algorithms, NEW s \in States, NEW t \in Int, NEW n \in Ns,
         NEW k \in Nat, NEW from \in Int, from <= t, Ready(s, t), k = 0 \/ PaidIn(s, k, from)
  PROVE  LET d == Decide(s, t, n) IN
         /\ Sized => Tidy(d.state)
         /\ PaidIn(d.state, k + Granted(d, n), from)
<1>1. algorithm \in Kinds /\ n \in Nat \ {0}
  BY ConfigAssumption DEF Ns
<1>2. CASE algorithm = "token_bucket"
  BY <1>1, <1>2, TokenDecidePaid DEF States, Decide, PaidIn, Tidy
<1>3. CASE algorithm = "leaky_bucket"
  <2> DEFINE d == LB!Decide(s, t, n)
             r == LB!Leak(s, t)
  <2>1. s \in LB!Buckets /\ Decide(s, t, n) = d
    BY <1>3 DEF States, Decide
  <2>2. LeakyPaid(d.state, k + Granted(d, n), from)
    BY <1>1, <1>3, <2>1, LeakyDecidePaid DEF Ready, PaidIn
  <2>3. /\ r \in LB!Buckets
        /\ d.allowed <=> r.queue + n <= Capacity
        /\ d.state.queue = r.queue + Granted(d, n)
    BY <1>1, <2>1, LeakyDecides
  <2>4. ASSUME Sized PROVE d.state.queue > 0 \/ MaxSkew = 0
    <3>1. MaxSkew = 0 \/ n <= Capacity
      BY <1>3, <2>4 DEF Sized
    <3>2. Capacity \in Nat
      BY ConfigAssumption DEF LB!ValidConfig
    <3> HIDE DEF d, r
    <3>3. r.queue \in Nat
      BY <2>3 DEF LB!Buckets
    <3>4. CASE d.allowed
      BY <1>1, <2>3, <3>3, <3>4 DEF Granted
    <3>5. CASE ~d.allowed
      BY <1>1, <2>3, <3>1, <3>2, <3>3, <3>5 DEF Granted
    <3>. QED  BY <3>4, <3>5
  <2>. QED  BY <1>3, <2>1, <2>2, <2>4 DEF PaidIn, Tidy
<1>4. CASE algorithm = "fixed_window"
  BY <1>1, <1>4, FixedDecidePaid DEF States, Decide, PaidIn, Tidy, Ready
<1>5. CASE algorithm = "sliding_window"
  <2> DEFINE d == SW!Decide(s, t, n)
  <2>1. s \in SW!Counters \cup SW!LogsAt(Start) /\ Decide(s, t, n) = d
    BY <1>5 DEF States, Decide
  <2>2. /\ Aligned(d.state.start)
        /\ WindowPaid(d.state.start, d.state.cur, k + Granted(d, n), from)
    BY <1>1, <1>5, <2>1, SlidingDecidePaid DEF Ready, PaidIn
  <2>3. ~SW!IsLog(d.state)
    BY <1>1, <2>1, SlidingDecides, CountersAreNoLogs
  <2>. QED  BY <1>5, <2>1, <2>2, <2>3 DEF PaidIn, Tidy
<1>6. CASE algorithm = "gcra"
  BY <1>1, <1>6, CellDecidePaid DEF States, Decide, PaidIn, Tidy
<1>. QED  BY <1>1, <1>2, <1>3, <1>4, <1>5, <1>6 DEF Kinds

LEMMA FreshReady ==
  ASSUME algorithm \in Kinds, NEW t \in Int
  PROVE  Ready(Fresh(t), t)
<1>1. CASE algorithm = "leaky_bucket"
  BY <1>1 DEF Ready, Fresh, LB!Fresh
<1>2. CASE algorithm = "fixed_window"
  BY <1>2, AlignIsAligned DEF Ready, Fresh, FW!Fresh
<1>3. CASE algorithm = "sliding_window"
  BY <1>3, AlignIsAligned DEF Ready, Fresh, SW!Fresh
<1>4. CASE algorithm \in {"token_bucket", "gcra"}
  BY <1>4 DEF Ready
<1>. QED  BY <1>1, <1>2, <1>3, <1>4 DEF Kinds

LEMMA TidyIsReady ==
  ASSUME TypeOK, Dated, stored # NoState, Tidy(stored), NEW skew \in Skews
  PROVE  Ready(stored, now + skew)
<1>1. /\ algorithm \in Kinds /\ TTL \in Nat /\ now \in Nat /\ deadline \in Nat
  BY KeyTypes
<1>2. CASE algorithm = "leaky_bucket"
  <2>1. CASE MaxSkew = 0
    <3>1. skew = 0
      BY <2>1 DEF Skews
    <3>2. stored.last \in Int /\ stored.last + TTL <= deadline /\ deadline <= now + TTL
      BY <1>2, <2>1 DEF TypeOK, States, LB!Buckets, Dated, Reached
    <3>. QED  BY <1>1, <1>2, <3>1, <3>2 DEF Ready
  <2>2. CASE stored.queue > 0
    BY <1>2, <2>2 DEF Ready
  <2>. QED  BY <1>2, <2>1, <2>2 DEF Tidy
<1>3. CASE algorithm # "leaky_bucket"
  BY <1>1, <1>3 DEF Ready, Tidy, Kinds
<1>. QED  BY <1>2, <1>3

(* The periods it takes to leak k leak k.                                  *)
LEMMA PeriodsLeak ==
  ASSUME NEW k \in Int
  PROVE  LB!Periods(k) \in Int /\ k <= LeakRate * LB!Periods(k)
         /\ LeakRate * LB!Periods(k) < k + LeakRate
<1> DEFINE q == (k + LeakRate - 1) \div LeakRate
<1>1. LeakRate \in Nat \ {0}
  BY ConfigAssumption DEF LB!ValidConfig
<1>2. q \in Int /\ LeakRate * q <= k + LeakRate - 1 /\ k + LeakRate - 1 < LeakRate * q + LeakRate
  BY <1>1, DivBounds
<1>3. LB!Periods(k) = q
  BY DEF LB!Periods
<1> HIDE DEF q
<1>. QED  BY <1>1, <1>2, <1>3

(* What an expired state still owed, the time that passed has paid.        *)
LEMMA ExpiredPaid ==
  ASSUME TypeOK, Dated, Outlived, NEW skew \in Skews, TTL # 0, deadline <= now,
         stored # NoState, Tidy(stored),
         NEW k \in Nat, NEW from \in Int, from <= now + skew, PaidIn(stored, k, from)
  PROVE  PaidIn(Fresh(now + skew), k, from)
<1> DEFINE t == now + skew
           s == stored
           f == Fresh(t)
           idle == TTL - 2 * MaxSkew
<1>1. /\ algorithm \in Kinds /\ algorithm \in Algorithms
      /\ TTL \in Nat /\ MaxSkew \in Nat /\ now \in Nat /\ deadline \in Nat
      /\ t \in Int /\ now - MaxSkew <= t
  BY KeyTypes DEF TypeOK
<1>2. s \in States /\ Reached(s) \in Int /\ Reached(s) + TTL <= deadline + MaxSkew
  BY <1>1, StateReached DEF TypeOK, Dated
<1>3. idle \in Int /\ Reached(s) + idle <= t
  BY <1>1, <1>2
<1>4. CASE algorithm = "token_bucket"
  <2>1. /\ RefillPeriod \in Nat \ {0} /\ RefillRate \in Nat \ {0} /\ TB!Full \in Nat
        /\ s.last \in Int /\ s.tokens \in Nat /\ Reached(s) = s.last
    BY <1>2, <1>4, FullIsNat, ConfigAssumption DEF TB!ValidConfig, TB!Buckets, States, Reached
  <2>2. f \in TB!Buckets /\ f.last = t
    BY <1>1, <1>4, TokenFresh DEF Fresh
  <2>3. TB!Full <= RefillRate * idle
    BY <1>4 DEF Outlived, TB!Outlived
  <2>4. s.tokens + RefillPeriod * k <= TB!Full + RefillRate * (s.last - from)
    BY <1>4 DEF PaidIn, TokenPaid
  <2> HIDE DEF idle, t, f
  <2>5. f.tokens \in Nat /\ f.tokens <= TB!Full
    BY <2>1, <2>2 DEF TB!Buckets
  <2>6. RefillRate * idle <= RefillRate * (t - s.last)
    BY <1>1, <1>3, <2>1, MulMono
  <2>7. /\ RefillRate * (t - s.last) + RefillRate * (s.last - from) = RefillRate * (t - from)
        /\ RefillRate * idle \in Int /\ RefillRate * (t - s.last) \in Int
        /\ RefillRate * (s.last - from) \in Int /\ RefillRate * (t - from) \in Int
        /\ RefillPeriod * k \in Int
    BY <1>1, <1>3, <2>1
  <2>8. f.tokens + RefillPeriod * k <= TB!Full + RefillRate * (f.last - from)
    BY <2>1, <2>2, <2>3, <2>4, <2>5, <2>6, <2>7
  <2>. QED  BY <1>4, <2>2, <2>8 DEF PaidIn, TokenPaid, t, f
<1>5. CASE algorithm = "leaky_bucket"
  <2> DEFINE p == LB!Periods(Capacity)
  <2>1. /\ LeakRate \in Nat /\ LeakPeriod \in Nat /\ Capacity \in Nat
        /\ s.last \in Int /\ s.queue \in Nat /\ s.queue <= Capacity /\ Reached(s) = s.last
    BY <1>2, <1>5, ConfigAssumption DEF LB!ValidConfig, LB!Buckets, States, Reached
  <2>2. f.queue = 0 /\ f.last = t
    BY <1>5 DEF Fresh, LB!Fresh
  <2>3. LeakPeriod * p <= idle
    BY <1>5 DEF Outlived, LB!Outlived
  <2>4. p \in Int /\ Capacity <= LeakRate * p
    BY <2>1, PeriodsLeak
  <2>5. LeakPeriod * k <= LeakPeriod * s.queue + LeakRate * (s.last - from + LeakPeriod)
    BY <1>5 DEF PaidIn, LeakyPaid
  <2> HIDE DEF idle, t, f, p
  <2>6. LeakPeriod * s.queue <= LeakPeriod * (LeakRate * p)
    BY <2>1, <2>4, MulMono
  <2>7. LeakRate * (LeakPeriod * p) <= LeakRate * (t - s.last)
    BY <1>1, <1>3, <2>1, <2>3, <2>4, MulMono
  <2>8. /\ LeakPeriod * (LeakRate * p) = LeakRate * (LeakPeriod * p)
        /\ LeakRate * (t - from + LeakPeriod)
             = LeakRate * (t - s.last) + LeakRate * (s.last - from + LeakPeriod)
    BY <1>1, <2>1, <2>4
  <2>9. /\ LeakRate * (LeakPeriod * p) \in Int /\ LeakRate * (t - s.last) \in Int
        /\ LeakRate * (s.last - from + LeakPeriod) \in Int /\ LeakPeriod * k \in Int
        /\ LeakPeriod * s.queue \in Int /\ LeakPeriod * 0 = 0
    BY <1>1, <2>1, <2>4
  <2>10. LeakPeriod * k <= LeakPeriod * f.queue + LeakRate * (f.last - from + LeakPeriod)
    BY <2>2, <2>5, <2>6, <2>7, <2>8, <2>9
  <2>11. from - LeakPeriod <= f.last
    BY <1>1, <2>1, <2>2 DEF t
  <2>. QED  BY <1>5, <2>10, <2>11 DEF PaidIn, LeakyPaid, t, f
<1>6. CASE algorithm = "fixed_window"
  <2>1. /\ s.start \in Int /\ s.count \in 0 .. Limit /\ Aligned(s.start) /\ Reached(s) = s.start
        /\ WindowPaid(s.start, s.count, k, from) /\ Window \in Nat
    BY <1>2, <1>6, ConfigAssumption
       DEF FW!ValidConfig, FW!Counters, States, Reached, Tidy, PaidIn
  <2>2. f.start = FW!Align(t) /\ f.count = 0
    BY <1>6 DEF Fresh, FW!Fresh
  <2>3. Window <= idle
    BY <1>1, <1>6, <2>1 DEF Outlived, FW!Outlived
  <2> HIDE DEF idle, t, f
  <2>4. s.start \div Window + 1 <= t \div Window
    BY <1>1, <1>3, <2>1, <2>3, WindowOrder
  <2>5. FW!Align(t) \in Int /\ FW!Align(t) \div Window = t \div Window
    BY <1>1, AlignIsAligned
  <2>6. WindowPaid(f.start, f.count, k, from)
    BY <2>1, <2>2, <2>4, <2>5, WindowMovesPaid
  <2>. QED  BY <1>6, <2>6 DEF PaidIn, t, f
<1>7. CASE algorithm = "sliding_window"
  <2>1. ~SW!IsLog(s) /\ WindowPaid(s.start, s.cur, k, from) /\ Aligned(s.start)
    BY <1>7 DEF PaidIn, Tidy
  <2>2. s \in SW!Counters
    BY <1>2, <1>7, <2>1, CountersAreNoLogs DEF States
  <2>3. s.start \in Int /\ s.cur \in 0 .. Limit /\ Reached(s) = s.start /\ Window \in Nat
    BY <1>7, <2>1, <2>2, ConfigAssumption DEF SW!ValidConfig, SW!Counters, Reached
  <2>4. f.start = SW!Align(t) /\ f.cur = 0 /\ ~SW!IsLog(f)
    <3>1. ~SW!IsLog(SW!Fresh(t))
      BY <1>1, SlidingFresh, CountersAreNoLogs
    <3>. QED  BY <1>7, <3>1 DEF Fresh, SW!Fresh
  <2>5. Window <= idle
    BY <1>1, <1>7, <2>3 DEF Outlived, SW!Outlived
  <2> HIDE DEF idle, t, f
  <2>6. s.start \div Window + 1 <= t \div Window
    BY <1>1, <1>3, <2>1, <2>3, <2>5, WindowOrder
  <2>7. SW!Align(t) \in Int /\ SW!Align(t) \div Window = t \div Window
    BY <1>1, AlignIsAligned
  <2>8. WindowPaid(f.start, f.cur, k, from)
    BY <2>1, <2>3, <2>4, <2>6, <2>7, WindowMovesPaid
  <2>. QED  BY <1>7, <2>4, <2>8 DEF PaidIn, t, f
<1>8. CASE algorithm = "gcra"
  <2>1. /\ s.tat \in Int /\ Period \in Nat
        /\ GC!DelayTolerance \in Nat /\ Period * MaxCost \in Nat
    BY <1>2, <1>8, CellConstants DEF States, GC!Cells
  <2>2. /\ Reached(s) = s.tat - GC!DelayTolerance - Period * MaxCost
        /\ Period * k <= s.tat - from /\ f.tat = t
        /\ GC!DelayTolerance + Period * MaxCost + 2 * MaxSkew <= TTL
    BY <1>8 DEF Reached, PaidIn, CellPaid, Fresh, GC!Fresh, Outlived, GC!Outlived
  <2>3. Period * k \in Int
    BY <2>1
  <2>4. s.tat <= t
    <3> HIDE DEF t
    <3>. QED  BY <1>1, <1>2, <1>3, <2>1, <2>2
  <2> HIDE DEF idle, t, f
  <2>5. Period * k <= f.tat - from
    BY <1>1, <2>1, <2>2, <2>3, <2>4
  <2>. QED  BY <1>8, <2>5 DEF PaidIn, CellPaid, t, f
<1>. QED  BY <1>1, <1>4, <1>5, <1>6, <1>7, <1>8 DEF Kinds

(* What is paid for in a state that clocks have reached is within what the *)
(* algorithm promises of the time up to them.                              *)
LEMMA PaidWithin ==
  ASSUME algorithm \in Algorithms, NEW s \in States, NEW k \in Nat, NEW from \in Int, NEW to \in Int,
         Reached(s) <= to, PaidIn(s, k, from)
  PROVE  Within(k, from, to)
<1>1. algorithm \in Kinds
  BY ConfigAssumption
<1>2. CASE algorithm = "token_bucket"
  <2>1. /\ RefillPeriod \in Nat \ {0} /\ RefillRate \in Nat \ {0} /\ TB!Full \in Nat
        /\ s.last \in Int /\ s.tokens \in Nat /\ s.last <= to
        /\ s.tokens + RefillPeriod * k <= TB!Full + RefillRate * (s.last - from)
    BY <1>2, FullIsNat, ConfigAssumption
       DEF TB!ValidConfig, TB!Buckets, States, Reached, PaidIn, TokenPaid
  <2>2. RefillRate * (s.last - from) <= RefillRate * (to - from)
    BY <2>1, MulMono
  <2>3. /\ RefillRate * (s.last - from) \in Int /\ RefillRate * (to - from) \in Int
        /\ RefillPeriod * k \in Int
    BY <2>1
  <2>4. RefillPeriod * k <= TB!Full + RefillRate * (to - from)
    BY <2>1, <2>2, <2>3
  <2>. QED  BY <1>2, <2>4 DEF Within, TB!Within
<1>3. CASE algorithm = "leaky_bucket"
  <2>1. /\ LeakRate \in Nat /\ LeakPeriod \in Nat /\ Capacity \in Nat
        /\ s.last \in Int /\ s.queue \in Nat /\ s.queue <= Capacity /\ s.last <= to
        /\ LeakPeriod * k <= LeakPeriod * s.queue + LeakRate * (s.last - from + LeakPeriod)
    BY <1>3, ConfigAssumption DEF LB!ValidConfig, LB!Buckets, States, Reached, PaidIn, LeakyPaid
  <2>2. LeakPeriod * s.queue <= LeakPeriod * Capacity
    BY <2>1, MulMono
  <2>3. LeakRate * (s.last - from + LeakPeriod) <= LeakRate * (to - from + LeakPeriod)
    BY <2>1, MulMono
  <2>4. /\ LeakRate * (s.last - from + LeakPeriod) \in Int
        /\ LeakRate * (to - from + LeakPeriod) \in Int /\ LeakPeriod * k \in Int
        /\ LeakPeriod * s.queue \in Int /\ LeakPeriod * Capacity \in Int
    BY <2>1
  <2>5. LeakPeriod * k <= LeakPeriod * Capacity + LeakRate * (to - from + LeakPeriod)
    BY <2>1, <2>2, <2>3, <2>4
  <2>. QED  BY <1>3, <2>5 DEF Within, LB!Within
<1>4. ASSUME NEW start \in Int, NEW count \in 0 .. Limit, start <= to,
             WindowPaid(start, count, k, from)
      PROVE  k <= Limit * (1 + to \div Window - from \div Window)
  <2> DEFINE p == start \div Window
             q == to \div Window
             f == from \div Window
  <2>1. /\ Limit \in Nat /\ p \in Int /\ q \in Int /\ f \in Int /\ p <= q
    BY <1>4, DivIsInt, DivMono, ConfigAssumption DEF FW!ValidConfig
  <2>2. k <= Limit * (p - f) + count
    BY <1>4 DEF WindowPaid
  <2> HIDE DEF p, q, f
  <2>3. Limit * (p - f) + Limit = Limit * (1 + p - f)
    BY <2>1
  <2>4. Limit * (1 + p - f) <= Limit * (1 + q - f)
    BY <2>1, MulMono
  <2>5. Limit * (p - f) \in Int /\ Limit * (1 + p - f) \in Int /\ Limit * (1 + q - f) \in Int
    BY <2>1
  <2>6. k <= Limit * (1 + q - f)
    BY <2>1, <2>2, <2>3, <2>4, <2>5
  <2>. QED  BY <2>6 DEF q, f
<1>5. CASE algorithm = "fixed_window"
  <2>1. s.start \in Int /\ s.count \in 0 .. Limit /\ s.start <= to
        /\ WindowPaid(s.start, s.count, k, from)
    BY <1>5 DEF FW!Counters, States, Reached, PaidIn
  <2>. QED  BY <1>4, <1>5, <2>1 DEF Within, FW!Within
<1>6. CASE algorithm = "sliding_window"
  <2>1. ~SW!IsLog(s) /\ s \in SW!Counters /\ WindowPaid(s.start, s.cur, k, from)
    BY <1>6, CountersAreNoLogs DEF PaidIn, States
  <2>2. s.start \in Int /\ s.cur \in 0 .. Limit /\ s.start <= to
    BY <1>6, <2>1 DEF SW!Counters, Reached
  <2>. QED  BY <1>4, <1>6, <2>1, <2>2 DEF Within, SW!Within
<1>7. CASE algorithm = "gcra"
  <2>1. /\ s.tat \in Int /\ Period \in Nat
        /\ GC!DelayTolerance \in Nat /\ Period * MaxCost \in Nat
    BY <1>7, CellConstants DEF States, GC!Cells
  <2>2. /\ s.tat - GC!DelayTolerance - Period * MaxCost <= to /\ Period * k <= s.tat - from
    BY <1>7 DEF Reached, PaidIn, CellPaid
  <2>3. Period * k \in Int
    BY <2>1
  <2>4. Period * k <= to - from + GC!DelayTolerance + Period * MaxCost
    BY <2>1, <2>2, <2>3
  <2>. QED  BY <1>7, <2>4 DEF Within, GC!Within
<1>. QED  BY <1>1, <1>2, <1>3, <1>5, <1>6, <1>7 DEF Kinds

LEMMA NothingWithin ==
  ASSUME algorithm \in Algorithms, NEW from \in Int, NEW to \in Int, from <= to
  PROVE  Within(0, from, to)
<1>1. algorithm \in Kinds
  BY ConfigAssumption
<1>2. CASE algorithm = "token_bucket"
  <2>1. RefillPeriod * 0 = 0 /\ RefillRate * (to - from) \in Nat /\ TB!Full \in Nat
    BY FullIsNat, ConfigAssumption DEF TB!ValidConfig
  <2>2. RefillPeriod * 0 <= TB!Full + RefillRate * (to - from)
    BY <2>1
  <2>. QED  BY <1>2, <2>2 DEF Within, TB!Within
<1>3. CASE algorithm = "leaky_bucket"
  <2>1. LeakPeriod * 0 = 0 /\ LeakPeriod * Capacity \in Nat
        /\ LeakRate * (to - from + LeakPeriod) \in Nat
    BY ConfigAssumption DEF LB!ValidConfig
  <2>. QED  BY <1>3, <2>1 DEF Within, LB!Within
<1>4. CASE algorithm \in {"fixed_window", "sliding_window"}
  <2> DEFINE q == to \div Window
             f == from \div Window
  <2>1. Limit \in Nat /\ q \in Int /\ f \in Int /\ f <= q
    BY DivIsInt, DivMono, ConfigAssumption DEF FW!ValidConfig
  <2> HIDE DEF q, f
  <2>2. Limit * (1 + q - f) >= 0
    BY <2>1
  <2>3. 0 <= Limit * (1 + q - f)
    BY <2>1, <2>2
  <2>4. CASE algorithm = "fixed_window"
    BY <2>3, <2>4 DEF Within, FW!Within, q, f
  <2>5. CASE algorithm = "sliding_window"
    BY <2>3, <2>5 DEF Within, SW!Within, q, f
  <2>. QED  BY <1>4, <2>4, <2>5
<1>5. CASE algorithm = "gcra"
  <2>1. GC!DelayTolerance \in Nat /\ Period * MaxCost \in Nat /\ Period \in Nat
    BY CellConstants
  <2>2. Period * 0 = 0
    BY <2>1
  <2>3. Period * 0 <= to - from + GC!DelayTolerance + Period * MaxCost
    BY <2>1, <2>2
  <2>. QED  BY <1>5, <2>3 DEF Within, GC!Within
<1>. QED  BY <1>1, <1>2, <1>3, <1>4, <1>5 DEF Kinds

-----------------------------------------------------------------------------
(* What is granted from since on is paid for in the state.                 *)
PaidFor ==
  \/ used = 0
  \/ stored # NoState /\ PaidIn(stored, used, since - MaxSkew)

(* The inductive invariant: no clock ahead of what the deadline allows, a  *)
(* tidy state, nothing granted before its time and every grant paid for.   *)
KeyInv ==
  /\ Dated
  /\ stored # NoState => Tidy(stored)
  /\ now < since => used = 0
  /\ PaidFor

(* The update works on a state that is ready for it, and that pays for     *)
(* what was granted if the stored state does.                              *)
LEMMA WorksOnPaid ==
  ASSUME TypeOK, KeyInv, Outlived, NEW skew \in Skews, NEW e \in Readable
  PROVE  LET b == StateAt(e, now + skew) IN
         /\ b \in States /\ Ready(b, now + skew)
         /\ since <= now => used = 0 \/ PaidIn(b, used, since - MaxSkew)
<1> DEFINE t == now + skew
           b == StateAt(e, t)
<1>1. /\ algorithm \in Kinds /\ MaxSkew \in Nat /\ now \in Nat /\ since \in Nat /\ used \in Nat
      /\ t \in Int /\ now - MaxSkew <= t
  BY KeyTypes
<1>2. b \in States
  BY <1>1, StateAtIsState
<1>3. CASE e = NoState
  <2>1. b = Fresh(t)
    BY <1>3 DEF StateAt
  <2>2. Ready(b, t)
    BY <1>1, <2>1, FreshReady
  <2>3. ASSUME since <= now, used # 0 PROVE PaidIn(b, used, since - MaxSkew)
    <3>1. stored # NoState /\ PaidIn(stored, used, since - MaxSkew) /\ Tidy(stored) /\ Dated
      BY <2>3 DEF KeyInv, PaidFor
    <3>2. TTL # 0 /\ deadline <= now
      BY <1>3, <3>1, ReadableIs
    <3>3. since - MaxSkew \in Int /\ since - MaxSkew <= t
      BY <1>1, <2>3
    <3>. QED  BY <1>1, <2>1, <3>1, <3>2, <3>3, ExpiredPaid
  <2>. QED  BY <1>2, <2>2, <2>3
<1>4. CASE e # NoState
  <2>1. b = stored /\ stored # NoState
    BY <1>4, ReadableIs DEF StateAt
  <2>2. Ready(b, t)
    BY <2>1, TidyIsReady DEF KeyInv
  <2>. QED  BY <1>2, <2>1, <2>2 DEF KeyInv, PaidFor
<1>. QED  BY <1>3, <1>4

LEMMA AllowNKeyInv ==
  ASSUME TypeOK, KeyInv, Outlived, Sized, NEW n \in Ns, NEW skew \in Skews, AllowN(n, skew)
  PROVE  KeyInv'
<1> DEFINE t == now + skew
<1>1. PICK e \in Readable :
        LET d == Decide(StateAt(e, t), t, n) IN
        /\ stored' = d.state /\ stored' # NoState
        /\ used' = IF d.allowed /\ since <= now THEN used + n ELSE used
        /\ UNCHANGED <<algorithm, now, since>>
  BY AllowNDecides
<1> DEFINE b == StateAt(e, t)
           d == Decide(b, t, n)
<1>2. /\ algorithm \in Algorithms /\ MaxSkew \in Nat /\ now \in Nat /\ since \in Nat
      /\ used \in Nat /\ t \in Int /\ now - MaxSkew <= t
  BY KeyTypes DEF TypeOK
<1>3. /\ b \in States /\ Ready(b, t)
      /\ since <= now => used = 0 \/ PaidIn(b, used, since - MaxSkew)
  BY WorksOnPaid
<1>4. Dated'
  BY AllowNDated DEF KeyInv
<1> HIDE DEF t
<1>5. CASE now < since
  <2>1. used' = 0
    BY <1>1, <1>2, <1>5 DEF KeyInv
  <2>2. Tidy(d.state)
    BY <1>2, <1>3, DecidePaid
  <2>. QED  BY <1>1, <1>4, <2>1, <2>2, SameAlgorithm DEF KeyInv, PaidFor
<1>6. CASE since <= now
  <2> DEFINE from == since - MaxSkew
  <2>1. from \in Int /\ from <= t
    BY <1>2, <1>6
  <2>2. /\ Tidy(d.state) /\ PaidIn(d.state, used + Granted(d, n), from)
    <3> HIDE DEF b, d
    <3>1. used = 0 \/ PaidIn(b, used, from)
      BY <1>3, <1>6
    <3> HIDE DEF from
    <3>. QED  BY <1>2, <1>3, <2>1, <3>1, DecidePaid DEF d
  <2>3. used' = used + Granted(d, n)
    <3> HIDE DEF d
    <3>. QED  BY <1>1, <1>2, <1>6 DEF Granted, d
  <2>. QED  BY <1>1, <1>2, <1>4, <1>6, <2>2, <2>3, SameAlgorithm DEF KeyInv, PaidFor
<1>. QED  BY <1>2, <1>5, <1>6

LEMMA SpecKeyInv == Spec => [](Outlived /\ Sized => KeyInv)
<1>1. Init => Tidy(stored) \/ stored = NoState
  BY CountersAreNoLogs DEF Init, Tidy
<1>2. Init => (now < since => used = 0) /\ PaidFor
  BY DEF Init, PaidFor
<1>3. TypeOK /\ Dated /\ Dated' /\ (Outlived /\ Sized => KeyInv) /\ [Next]_vars
        => (Outlived /\ Sized => KeyInv)'
  <2> SUFFICES ASSUME TypeOK, Dated, Dated', Outlived /\ Sized => KeyInv, [Next]_vars,
                      Outlived', Sized'
               PROVE  KeyInv'
    OBVIOUS
  <2>1. algorithm' = algorithm
    BY DEF Next, vars, AllowN, Reset, Tick
  <2>2. Outlived /\ Sized /\ KeyInv
    BY <2>1, SameAlgorithm
  <2>3. now \in Nat /\ since \in Nat
    BY KeyTypes
  <2>4. CASE \E n \in Ns, skew \in Skews : AllowN(n, skew)
    BY <2>2, <2>4, AllowNKeyInv
  <2>5. CASE Reset
    BY <2>2, <2>5 DEF Reset, KeyInv, PaidFor
  <2>6. CASE Tick
    BY <2>1, <2>2, <2>3, <2>6, SameAlgorithm DEF Tick, KeyInv, PaidFor
  <2>7. CASE UNCHANGED vars
    BY <2>1, <2>2, <2>7, SameAlgorithm DEF vars, KeyInv, PaidFor
  <2>. QED  BY <2>4, <2>5, <2>6, <2>7 DEF Next
<1>4. Init /\ Dated => (Outlived /\ Sized => KeyInv)
  BY <1>1, <1>2 DEF KeyInv
<1>. QED  BY <1>3, <1>4, LimitedKeyTypeOK, SpecDated, PTL DEF Spec

LEMMA KeyInvBound == TypeOK /\ KeyInv => AdmissionBound
<1> SUFFICES ASSUME TypeOK, KeyInv, since <= now
             PROVE  Within(used, since - MaxSkew, now + MaxSkew)
  BY DEF AdmissionBound
<1> DEFINE from == since - MaxSkew
           to == now + MaxSkew
<1>1. /\ algorithm \in Algorithms /\ algorithm \in Kinds /\ MaxSkew \in Nat /\ now \in Nat
      /\ since \in Nat /\ used \in Nat /\ TTL \in Nat /\ deadline \in Nat
  BY KeyTypes DEF TypeOK
<1>2. from \in Int /\ to \in Int /\ from <= to
  BY <1>1
<1>3. CASE used = 0
  <2> HIDE DEF from, to
  <2>1. Within(0, from, to)
    BY <1>1, <1>2, NothingWithin
  <2>. QED  BY <1>3, <2>1 DEF from, to
<1>4. CASE used # 0
  <2>1. stored # NoState /\ PaidIn(stored, used, from) /\ Dated
    BY <1>4 DEF KeyInv, PaidFor
  <2>2. stored \in States
    BY <2>1 DEF TypeOK
  <2>3. Reached(stored) \in Int /\ Reached(stored) <= to
    BY <1>1, <2>1, <2>2, StateReached DEF Dated
  <2> HIDE DEF from, to
  <2>. QED  BY <1>1, <1>2, <2>1, <2>2, <2>3, PaidWithin DEF from, to
<1>. QED  BY <1>3, <1>4

(* From any moment on, the nodes that share a key grant at most what its   *)
(* algorithm promises for the time their clocks have passed since,         *)
(* provided the key outlives its state and no request is too large for a   *)
(* leaky bucket (Allow of each algorithm, the expiry of the stored state). *)
THEOREM LimitedKeyAdmissionBound == Spec => [](Outlived /\ Sized => AdmissionBound)
BY SpecKeyInv, LimitedKeyTypeOK, KeyInvBound, PTL


-----------------------------------------------------------------------------
(* What a caller is told: of the token bucket.                             *)
LEMMA TokenTells ==
  ASSUME NEW b \in TB!Buckets, NEW t \in Int, NEW n \in Nat \ {0}
  PROVE  LET r == TB!Refill(b, t)
             d == TB!Decide(b, t, n)
         IN /\ d.allowed <=> RefillPeriod * n <= r.tokens
            /\ ~d.allowed => d.state = r /\ d.retryAfter = TB!RetryAfter(r, n)
            /\ d.remaining = TB!Remaining(d.state)
            /\ d.resetTime = TB!ResetTime(d.state, t)
<1> DEFINE r == TB!Refill(b, t)
           d == TB!Decide(b, t, n)
           paid == [r EXCEPT !.tokens = @ - n * RefillPeriod]
<1>1. n * RefillPeriod = RefillPeriod * n
  BY ConfigAssumption DEF TB!ValidConfig
<1>2. CASE TB!CanPay(r, n)
  <2>1. d = [allowed |-> TRUE, remaining |-> TB!Remaining(paid), retryAfter |-> 0,
             resetTime |-> TB!ResetTime(paid, t), state |-> paid]
    BY <1>2 DEF TB!Decide
  <2>2. RefillPeriod * n <= r.tokens
    BY <1>1, <1>2 DEF TB!CanPay
  <2> HIDE DEF d, paid, r
  <2>. QED  BY <2>1, <2>2 DEF d, r
<1>3. CASE ~TB!CanPay(r, n)
  <2>1. d = [allowed |-> FALSE, remaining |-> TB!Remaining(r), retryAfter |-> TB!RetryAfter(r, n),
             resetTime |-> TB!ResetTime(r, t), state |-> r]
    BY <1>3 DEF TB!Decide
  <2>2. ~(RefillPeriod * n <= r.tokens)
    BY <1>1, <1>3 DEF TB!CanPay
  <2> HIDE DEF d, r
  <2>. QED  BY <2>1, <2>2 DEF d, r
<1>. QED  BY <1>2, <1>3

(* A bucket refilled up to a time, at once or in two steps.                *)
LEMMA RefillTo ==
  ASSUME NEW b \in TB!Buckets, NEW t \in Int, b.last <= t
  PROVE  LET r == TB!Refill(b, t)
             grown == b.tokens + RefillRate * (t - b.last)
         IN /\ r.last = t
            /\ r.tokens = IF grown < TB!Full THEN grown ELSE TB!Full
            /\ r \in TB!Buckets /\ grown \in Nat /\ b.tokens \in Nat /\ b.last \in Int
            /\ RefillRate * (t - b.last) \in Nat
<1>1. /\ RefillRate \in Nat /\ TB!Full \in Nat
      /\ b.last \in Int /\ b.tokens \in Nat /\ b.tokens <= TB!Full
      /\ TB!Refill(b, t) \in TB!Buckets
  BY FullIsNat, TokenRefill, ConfigAssumption DEF TB!ValidConfig, TB!Buckets
<1>2. RefillRate * (t - b.last) \in Nat /\ (t - b.last) * RefillRate = RefillRate * (t - b.last)
  BY <1>1
<1>3. CASE t = b.last
  <2>1. TB!Refill(b, t) = b /\ RefillRate * (t - b.last) = 0
    BY <1>1, <1>3 DEF TB!Refill
  <2>2. b.tokens + RefillRate * (t - b.last) = b.tokens
    BY <1>1, <2>1
  <2>3. b.tokens = IF b.tokens < TB!Full THEN b.tokens ELSE TB!Full
    BY <1>1
  <2>. QED  BY <1>1, <1>2, <1>3, <2>1, <2>2, <2>3
<1>4. CASE b.last < t
  <2>1. TB!Refill(b, t) =
          [tokens |-> IF b.tokens + RefillRate * (t - b.last) < TB!Full
                        THEN b.tokens + RefillRate * (t - b.last) ELSE TB!Full,
           last |-> t]
    BY <1>1, <1>2, <1>4 DEF TB!Refill
  <2>. QED  BY <1>1, <1>2, <2>1
<1>. QED  BY <1>1, <1>3, <1>4

LEMMA RefillTwice ==
  ASSUME NEW b \in TB!Buckets, NEW t \in Int, NEW u \in Int, t <= u
  PROVE  TB!Refill(TB!Refill(b, t), u).tokens = TB!Refill(b, u).tokens
<1>1. RefillRate \in Nat /\ TB!Full \in Nat /\ b.last \in Int
  BY FullIsNat, ConfigAssumption DEF TB!ValidConfig, TB!Buckets
<1>2. CASE t <= b.last
  <2>1. TB!Refill(b, t) = b
    BY <1>2, TokenRefill
  <2>. QED  BY <2>1
<1>3. CASE b.last < t
  <2> DEFINE r == TB!Refill(b, t)
             grown == b.tokens + RefillRate * (t - b.last)
             all == b.tokens + RefillRate * (u - b.last)
  <2>1. /\ r.last = t /\ r.tokens = IF grown < TB!Full THEN grown ELSE TB!Full
        /\ r \in TB!Buckets /\ grown \in Nat /\ b.tokens \in Nat
    BY <1>1, <1>3, RefillTo
  <2>2. TB!Refill(b, u).tokens = IF all < TB!Full THEN all ELSE TB!Full
    BY <1>1, <1>3, RefillTo
  <2>3. RefillRate * (u - b.last) = RefillRate * (u - t) + RefillRate * (t - b.last)
        /\ RefillRate * (u - t) \in Nat /\ RefillRate * (t - b.last) \in Nat
    BY <1>1, <1>3
  <2> HIDE DEF r
  <2>4. LET sum == r.tokens + RefillRate * (u - t) IN
        TB!Refill(r, u).tokens = IF sum < TB!Full THEN sum ELSE TB!Full
    BY <2>1, RefillTo
  <2>. QED  BY <1>1, <2>1, <2>2, <2>3, <2>4 DEF r
<1>. QED  BY <1>1, <1>2, <1>3

LEMMA TokenDenialFree ==
  ASSUME NEW b \in TB!Buckets, NEW t \in Int, NEW n \in Nat \ {0}, NEW m \in Nat \ {0},
         NEW u \in Int, t <= u, ~TB!Decide(b, t, n).allowed
  PROVE  TB!Decide(TB!Decide(b, t, n).state, u, m).allowed <=> TB!Decide(b, u, m).allowed
<1> DEFINE r == TB!Refill(b, t)
<1>1. TB!Decide(b, t, n).state = r /\ r \in TB!Buckets
  BY TokenTells, TokenRefill
<1>2. TB!Refill(r, u).tokens = TB!Refill(b, u).tokens
  BY RefillTwice
<1> HIDE DEF r
<1>3. TB!Decide(r, u, m).allowed <=> RefillPeriod * m <= TB!Refill(r, u).tokens
  BY <1>1, TokenTells
<1>4. TB!Decide(b, u, m).allowed <=> RefillPeriod * m <= TB!Refill(b, u).tokens
  BY TokenTells
<1>. QED  BY <1>1, <1>2, <1>3, <1>4

LEMMA TokenSpendable ==
  ASSUME NEW b \in TB!Buckets, NEW t \in Int, NEW n \in Nat \ {0}, NEW m \in Nat \ {0}
  PROVE  LET d == TB!Decide(b, t, n) IN
         TB!Decide(d.state, t, m).allowed <=> m <= d.remaining
<1> DEFINE d == TB!Decide(b, t, n)
           x == d.state
<1>1. x \in TB!Buckets /\ x.last = TB!Refill(b, t).last /\ d.remaining = TB!Remaining(x)
  BY TokenDecide, TokenTells
<1>2. t <= x.last
  <2>1. b.last \in Int
    BY DEF TB!Buckets
  <2>. QED  BY <1>1, <2>1, TokenRefill
<1> HIDE DEF x
<1>3. TB!Refill(x, t) = x
  BY <1>1, <1>2, TokenRefill
<1>4. TB!Decide(x, t, m).allowed <=> RefillPeriod * m <= x.tokens
  BY <1>1, <1>3, TokenTells
<1>5. x.tokens \in Int /\ RefillPeriod \in Nat \ {0}
  BY <1>1, ConfigAssumption, FullIsNat DEF TB!Buckets, TB!ValidConfig
<1>6. RefillPeriod * m <= x.tokens <=> m <= x.tokens \div RefillPeriod
  <2> DEFINE q == x.tokens \div RefillPeriod
  <2>1. q \in Int /\ RefillPeriod * q <= x.tokens /\ x.tokens < RefillPeriod * q + RefillPeriod
    BY <1>5, DivBounds
  <2> HIDE DEF q
  <2>2. ASSUME m <= q PROVE RefillPeriod * m <= x.tokens
    <3>1. RefillPeriod * m <= RefillPeriod * q
      BY <1>5, <2>1, <2>2, MulMono
    <3>. QED  BY <1>5, <2>1, <3>1
  <2>3. ASSUME q + 1 <= m PROVE ~(RefillPeriod * m <= x.tokens)
    <3>1. RefillPeriod * (q + 1) <= RefillPeriod * m
      BY <1>5, <2>1, <2>3, MulMono
    <3>2. RefillPeriod * (q + 1) = RefillPeriod * q + RefillPeriod
      BY <1>5, <2>1
    <3>. QED  BY <1>5, <2>1, <3>1, <3>2
  <2>4. m <= q \/ q + 1 <= m
    BY <2>1
  <2>5. ~(m <= q /\ q + 1 <= m)
    BY <2>1
  <2>. QED  BY <2>2, <2>3, <2>4, <2>5 DEF q
<1>. QED  BY <1>1, <1>4, <1>6 DEF TB!Remaining, x

(* Waiting as told, and a tick for the truncation, is enough and no tick   *)
(* is too many.                                                            *)
LEMMA TokenRetryHonest ==
  ASSUME NEW b \in TB!Buckets, NEW t \in Int, NEW n \in Nat \ {0}, NEW u \in Int, t <= u,
         ~TB!Decide(b, t, n).allowed, TB!Retries(b, t, n)
  PROVE  LET d == TB!Decide(b, t, n) IN
         /\ d.retryAfter \in Int
         /\ t + d.retryAfter + 1 <= u => TB!Decide(d.state, u, n).allowed
         /\ u < t + d.retryAfter => ~TB!Decide(d.state, u, n).allowed
<1> DEFINE r == TB!Refill(b, t)
           d == TB!Decide(b, t, n)
           lack == RefillPeriod * n - r.tokens
           q == lack \div RefillRate
<1>1. b.last <= t /\ n <= Capacity
  BY DEF TB!Retries
<1>2. /\ RefillPeriod \in Nat \ {0} /\ RefillRate \in Nat \ {0} /\ TB!Full \in Nat
      /\ Capacity \in Nat
  BY FullIsNat, ConfigAssumption DEF TB!ValidConfig
<1>3. r \in TB!Buckets /\ r.last = t
  BY <1>1, RefillTo
<1>4. d.state = r /\ d.retryAfter = TB!RetryAfter(r, n)
  BY TokenTells
<1> HIDE DEF r, d
<1>5. r.tokens \in Nat /\ lack \in Int
  BY <1>2, <1>3 DEF TB!Buckets
<1>6. d.retryAfter = q
  <2>1. n * RefillPeriod = RefillPeriod * n
    BY <1>2
  <2>. QED  BY <1>4, <2>1 DEF TB!RetryAfter
<1>7. q \in Int /\ RefillRate * q <= lack /\ lack < RefillRate * q + RefillRate
  BY <1>2, <1>5, DivBounds
<1> DEFINE grown == r.tokens + RefillRate * (u - t)
<1>8. /\ TB!Refill(r, u).tokens = IF grown < TB!Full THEN grown ELSE TB!Full
      /\ RefillRate * (u - t) \in Nat
  BY <1>3, RefillTo
<1>9. TB!Decide(r, u, n).allowed <=> RefillPeriod * n <= TB!Refill(r, u).tokens
  BY <1>3, TokenTells
<1>10. RefillPeriod * n <= TB!Full /\ RefillPeriod * n \in Nat
  <2>1. RefillPeriod * n <= RefillPeriod * Capacity /\ RefillPeriod * Capacity = Capacity * RefillPeriod
    BY <1>1, <1>2, MulMono
  <2>. QED  BY <1>2, <2>1 DEF TB!Full
<1> HIDE DEF q
<1>11. ASSUME t + q + 1 <= u PROVE RefillPeriod * n <= grown
  <2>1. RefillRate * (q + 1) <= RefillRate * (u - t) /\ RefillRate * (q + 1) = RefillRate * q + RefillRate
    BY <1>2, <1>7, <1>11, MulMono
  <2>. QED  BY <1>2, <1>5, <1>7, <1>8, <1>10, <2>1
<1>12. ASSUME u < t + q PROVE ~(RefillPeriod * n <= grown)
  <2>1. RefillRate * (u - t + 1) <= RefillRate * q
        /\ RefillRate * (u - t + 1) = RefillRate * (u - t) + RefillRate
    BY <1>2, <1>7, <1>12, MulMono
  <2>. QED  BY <1>2, <1>5, <1>7, <1>8, <1>10, <2>1
<1>13. grown \in Int
  BY <1>5, <1>8
<1> HIDE DEF grown, lack
<1>14. t + q + 1 <= u => TB!Decide(d.state, u, n).allowed
  BY <1>2, <1>4, <1>8, <1>9, <1>10, <1>11, <1>13
<1>15. u < t + q => ~TB!Decide(d.state, u, n).allowed
  BY <1>2, <1>4, <1>8, <1>9, <1>10, <1>12, <1>13
<1>. QED  BY <1>6, <1>7, <1>14, <1>15 DEF d

(* A bucket is full again at the reset time, up to that tick.              *)
LEMMA TokenResetHonest ==
  ASSUME NEW b \in TB!Buckets, NEW t \in Int, NEW n \in Nat \ {0}, b.last <= t
  PROVE  LET d == TB!Decide(b, t, n) IN
         /\ d.resetTime \in Int
         /\ \A u \in Int : d.resetTime + 1 <= u => TB!Refill(d.state, u).tokens = TB!Full
<1> DEFINE d == TB!Decide(b, t, n)
           x == d.state
           q == (TB!Full - x.tokens) \div RefillRate
<1>1. x \in TB!Buckets /\ x.last = t /\ d.resetTime = TB!ResetTime(x, t)
  BY TokenDecide, TokenTells, RefillTo
<1> HIDE DEF x
<1>2. /\ RefillPeriod \in Nat \ {0} /\ RefillRate \in Nat \ {0} /\ TB!Full \in Nat
      /\ x.tokens \in Nat /\ x.tokens <= TB!Full /\ TB!Full - x.tokens \in Int
  BY <1>1, FullIsNat, ConfigAssumption DEF TB!ValidConfig, TB!Buckets
<1>3. q \in Int /\ TB!Full - x.tokens < RefillRate * q + RefillRate
  BY <1>2, DivBounds
<1> HIDE DEF d
<1>4. /\ d.resetTime \in Int
      /\ \A u \in Int : d.resetTime + 1 <= u => t < u /\ (x.tokens = TB!Full \/ q + 1 <= u - t)
  <2>1. CASE x.tokens = TB!Full
    <3>1. d.resetTime = t + RefillPeriod
      BY <1>1, <2>1 DEF TB!ResetTime
    <3>. QED  BY <1>2, <2>1, <3>1
  <2>2. CASE x.tokens # TB!Full
    <3>1. d.resetTime = t + q
      BY <1>1, <2>2 DEF TB!ResetTime
    <3>2. q \in Nat
      BY <1>2, DivIsNat
    <3> HIDE DEF q
    <3>. QED  BY <3>1, <3>2
  <2>. QED  BY <2>1, <2>2
<1>5. ASSUME NEW u \in Int, d.resetTime + 1 <= u
      PROVE  TB!Refill(x, u).tokens = TB!Full
  <2> DEFINE grown == x.tokens + RefillRate * (u - t)
  <2>1. t < u /\ (x.tokens = TB!Full \/ q + 1 <= u - t)
    BY <1>4, <1>5
  <2>2. /\ TB!Refill(x, u).tokens = IF grown < TB!Full THEN grown ELSE TB!Full
        /\ RefillRate * (u - t) \in Nat /\ grown \in Nat
    <3>1. x.last <= u
      BY <1>1, <2>1
    <3>. QED  BY <1>1, <3>1, RefillTo
  <2>3. TB!Full <= grown
    <3>1. CASE x.tokens = TB!Full
      BY <1>2, <2>2, <3>1
    <3>2. CASE q + 1 <= u - t
      <4> HIDE DEF q
      <4>1. RefillRate * (q + 1) <= RefillRate * (u - t)
            /\ RefillRate * (q + 1) = RefillRate * q + RefillRate /\ RefillRate * q \in Int
        BY <1>2, <1>3, <3>2, MulMono
      <4>. QED  BY <1>2, <1>3, <2>2, <4>1
    <3>. QED  BY <2>1, <3>1, <3>2
  <2> HIDE DEF grown
  <2>. QED  BY <1>2, <2>2, <2>3
<1>. QED  BY <1>4, <1>5 DEF d, x


-----------------------------------------------------------------------------
(* Of the leaky bucket.                                                    *)
LEMMA LeakyConstants ==
  LeakRate \in Nat \ {0} /\ LeakPeriod \in Nat \ {0} /\ Capacity \in Nat \ {0}
BY ConfigAssumption DEF LB!ValidConfig

LEMMA LeakyTells ==
  ASSUME NEW b \in LB!Buckets, NEW t \in Int, NEW n \in Nat \ {0}
  PROVE  LET r == LB!Leak(b, t)
             d == LB!Decide(b, t, n)
         IN /\ ~d.allowed => d.retryAfter = LB!RetryAfter(r, t, n)
            /\ d.remaining = Capacity - d.state.queue
            /\ d.resetTime = LB!ResetTime(d.state, t)
<1> DEFINE r == LB!Leak(b, t)
           d == LB!Decide(b, t, n)
           queued == [r EXCEPT !.queue = @ + n]
<1>1. CASE r.queue + n <= Capacity
  <2>1. d = [allowed |-> TRUE, remaining |-> Capacity - queued.queue, retryAfter |-> 0,
             resetTime |-> LB!ResetTime(queued, t), state |-> queued]
    BY <1>1 DEF LB!Decide
  <2> HIDE DEF d, queued, r
  <2>. QED  BY <2>1 DEF d, r
<1>2. CASE ~(r.queue + n <= Capacity)
  <2>1. d = [allowed |-> FALSE, remaining |-> Capacity - r.queue,
             retryAfter |-> LB!RetryAfter(r, t, n), resetTime |-> LB!ResetTime(r, t), state |-> r]
    BY <1>2 DEF LB!Decide
  <2> HIDE DEF d, r
  <2>. QED  BY <2>1 DEF d, r
<1>. QED  BY <1>1, <1>2

(* A bucket leaked up to a time: what it holds, and where its time is.     *)
LEMMA LeakTo ==
  ASSUME NEW b \in LB!Buckets, NEW t \in Int
  PROVE  LET r == LB!Leak(b, t)
             p == (t - b.last) \div LeakPeriod
         IN /\ r \in LB!Buckets /\ r.queue \in Nat /\ r.queue <= b.queue /\ r.last \in Int
            /\ b.queue \in Nat /\ b.queue <= Capacity /\ b.last \in Int /\ p \in Int
            /\ t < r.last + LeakPeriod
            /\ b.last <= t => r.last <= t
            /\ b.queue # 0 /\ t <= b.last => r = b
            /\ b.last <= t =>
                 /\ p \in Nat /\ LeakRate * p \in Nat
                 /\ r.queue = IF b.queue > LeakRate * p THEN b.queue - LeakRate * p ELSE 0
<1> DEFINE r == LB!Leak(b, t)
           p == (t - b.last) \div LeakPeriod
<1>1. /\ LeakRate \in Nat /\ LeakPeriod \in Nat \ {0} /\ Capacity \in Nat
      /\ b.last \in Int /\ b.queue \in Nat /\ b.queue <= Capacity
  BY LeakyConstants DEF LB!Buckets
<1>2. r \in LB!Buckets /\ p \in Int
  BY <1>1, LeakyLeak, DivIsInt
<1>3. r.queue \in Nat /\ r.last \in Int
  <2> HIDE DEF r
  <2>. QED  BY <1>1, <1>2 DEF LB!Buckets
<1>4. b.last <= t => p \in Nat /\ LeakRate * p \in Nat /\ p * LeakRate = LeakRate * p
  <2>1. b.last <= t => p \in Nat
    BY <1>1, DivIsNat
  <2> HIDE DEF p
  <2>. QED  BY <1>1, <2>1
<1>5. CASE b.queue = 0
  <2>1. r.last = t /\ r.queue = 0
    BY <1>5 DEF LB!Leak, LB!Buckets
  <2> HIDE DEF r, p
  <2>. QED  BY <1>1, <1>2, <1>3, <1>4, <1>5, <2>1 DEF r, p
<1>6. CASE b.queue # 0 /\ t <= b.last
  <2>1. r = b
    BY <1>6 DEF LB!Leak
  <2>2. b.last <= t => p = 0
    BY <1>1, <1>6
  <2> HIDE DEF r, p
  <2>3. b.last <= t => LeakRate * p = 0
    BY <1>1, <2>2
  <2>. QED  BY <1>1, <1>2, <1>3, <1>4, <1>6, <2>1, <2>3 DEF r, p
<1>7. CASE b.queue # 0 /\ b.last < t
  <2>1. /\ r.queue = IF b.queue > p * LeakRate THEN b.queue - p * LeakRate ELSE 0
        /\ r.last <= t /\ t < r.last + LeakPeriod
    BY <1>7, LeakyLeaks
  <2> HIDE DEF r, p
  <2>. QED  BY <1>1, <1>2, <1>3, <1>4, <1>7, <2>1 DEF r, p
<1>. QED  BY <1>1, <1>5, <1>6, <1>7

LEMMA LeaksBy ==
  ASSUME NEW b \in LB!Buckets, NEW t \in Int, b.last <= t,
         NEW p \in Int, p = (t - b.last) \div LeakPeriod
  PROVE  /\ p \in Nat /\ LeakRate * p \in Nat
         /\ LB!Leak(b, t).queue = IF b.queue > LeakRate * p THEN b.queue - LeakRate * p ELSE 0
  BY LeakTo

LEMMA LeakTwice ==
  ASSUME NEW b \in LB!Buckets, NEW t \in Int, NEW u \in Int, t <= u
  PROVE  LB!Leak(LB!Leak(b, t), u).queue = LB!Leak(b, u).queue
<1> DEFINE r == LB!Leak(b, t)
           p == (t - b.last) \div LeakPeriod
           all == (u - b.last) \div LeakPeriod
<1>1. /\ LeakRate \in Nat /\ LeakPeriod \in Nat \ {0} /\ Capacity \in Nat
      /\ b.last \in Int /\ b.queue \in Nat /\ b.queue <= Capacity
  BY LeakyConstants DEF LB!Buckets
<1>2. \A x \in LB!Buckets, v \in Int : x.queue = 0 => LB!Leak(x, v).queue = 0
  BY DEF LB!Leak, LB!Buckets
<1>3. CASE b.queue = 0
  <2>1. r \in LB!Buckets /\ r.queue = 0
    BY <1>2, <1>3, LeakyLeak
  <2> HIDE DEF r
  <2>. QED  BY <1>2, <1>3, <2>1 DEF r
<1>4. CASE b.queue # 0 /\ t <= b.last
  <2>1. r = b
    BY <1>4 DEF LB!Leak
  <2>. QED  BY <2>1
<1>5. CASE b.queue # 0 /\ b.last < t
  <2>1. /\ r.last = b.last + p * LeakPeriod /\ r.last <= t /\ p \in Nat
        /\ r \in LB!Buckets /\ r.last \in Int /\ r.queue \in Nat
    BY <1>5, LeakyLeaks, LeakTo
  <2>2. /\ r.queue = IF b.queue > LeakRate * p THEN b.queue - LeakRate * p ELSE 0
        /\ LeakRate * p \in Nat
    <3>1. b.last <= t /\ p = (t - b.last) \div LeakPeriod /\ p \in Int
      BY <1>1, <1>5, <2>1
    <3> HIDE DEF p
    <3>. QED  BY <3>1, LeaksBy
  <2>3. /\ LB!Leak(b, u).queue = IF b.queue > LeakRate * all THEN b.queue - LeakRate * all ELSE 0
        /\ LeakRate * all \in Nat /\ all \in Nat
    <3>1. b.last <= u /\ all = (u - b.last) \div LeakPeriod
      BY <1>1, <1>5
    <3>2. all \in Int
      BY <1>1, DivIsInt
    <3> HIDE DEF all
    <3>. QED  BY <3>1, <3>2, LeaksBy
  <2> DEFINE rest == (u - r.last) \div LeakPeriod
  <2> HIDE DEF r
  <2>4. /\ LB!Leak(r, u).queue = IF r.queue > LeakRate * rest THEN r.queue - LeakRate * rest ELSE 0
        /\ LeakRate * rest \in Nat /\ rest \in Nat
    <3>1. r.last <= u /\ rest = (u - r.last) \div LeakPeriod
      BY <2>1
    <3>2. rest \in Int
      BY <1>1, <2>1, DivIsInt
    <3> HIDE DEF rest
    <3>. QED  BY <2>1, <3>1, <3>2, LeaksBy
  <2>5. all = rest + p
    <3>1. u - b.last = (u - r.last) + LeakPeriod * p
      BY <1>1, <2>1
    <3>2. u - r.last \in Int /\ p \in Int
      BY <2>1
    <3>3. ((u - r.last) + LeakPeriod * p) \div LeakPeriod = (u - r.last) \div LeakPeriod + p
      BY <1>1, <3>2, DivAdd
    <3>. QED  BY <3>1, <3>3
  <2> HIDE DEF p, rest, all
  <2>6. LeakRate * all = LeakRate * rest + LeakRate * p
    BY <1>1, <2>1, <2>3, <2>4, <2>5
  <2>7. LB!Leak(r, u).queue = LB!Leak(b, u).queue
    BY <1>1, <2>1, <2>2, <2>3, <2>4, <2>6
  <2>. QED  BY <2>7 DEF r
<1>. QED  BY <1>1, <1>3, <1>4, <1>5

LEMMA LeakyDenialFree ==
  ASSUME NEW b \in LB!Buckets, NEW t \in Int, NEW n \in Nat \ {0}, NEW m \in Nat \ {0},
         NEW u \in Int, t <= u, ~LB!Decide(b, t, n).allowed
  PROVE  LB!Decide(LB!Decide(b, t, n).state, u, m).allowed <=> LB!Decide(b, u, m).allowed
<1> DEFINE r == LB!Leak(b, t)
<1>1. LB!Decide(b, t, n).state = r /\ r \in LB!Buckets
  BY LeakyDecides
<1>2. LB!Leak(r, u).queue = LB!Leak(b, u).queue
  BY LeakTwice
<1> HIDE DEF r
<1>3. LB!Decide(r, u, m).allowed <=> LB!Leak(r, u).queue + m <= Capacity
  BY <1>1, LeakyDecides
<1>4. LB!Decide(b, u, m).allowed <=> LB!Leak(b, u).queue + m <= Capacity
  BY LeakyDecides
<1>. QED  BY <1>1, <1>2, <1>3, <1>4

LEMMA LeakySpendable ==
  ASSUME NEW b \in LB!Buckets, NEW t \in Int, NEW n \in Nat \ {0}, NEW m \in Nat \ {0},
         LB!Decide(b, t, n).allowed
  PROVE  LET d == LB!Decide(b, t, n) IN
         LB!Decide(d.state, t, m).allowed <=> m <= d.remaining
<1> DEFINE d == LB!Decide(b, t, n)
           r == LB!Leak(b, t)
           x == d.state
<1>1. /\ x \in LB!Buckets /\ x.last = r.last /\ x.queue = r.queue + Granted(d, n)
      /\ d.remaining = Capacity - x.queue
  BY LeakyDecides, LeakyTells
<1>2. r.queue \in Nat /\ r.last \in Int /\ t < r.last + LeakPeriod
  BY LeakTo
<1>3. Granted(d, n) = n
  BY DEF Granted
<1> HIDE DEF x, r, d
<1>4. x.queue \in Nat /\ x.queue # 0 /\ x.last \in Int /\ t - x.last < LeakPeriod
      /\ LeakPeriod \in Nat \ {0} /\ Capacity \in Nat
  BY <1>1, <1>2, <1>3, LeakyConstants
<1>5. LB!Leak(x, t).queue = x.queue
  <2>1. CASE t <= x.last
    BY <1>1, <1>4, <2>1, LeakTo
  <2>2. CASE x.last < t
    <3>1. (t - x.last) \div LeakPeriod = 0
      <4>1. /\ t - x.last \in Int /\ 0 \in Int /\ LeakPeriod * 0 <= t - x.last
            /\ t - x.last < LeakPeriod * 0 + LeakPeriod
        BY <1>4, <2>2
      <4>. QED  BY <1>4, <4>1, DivUnique
    <3>2. LB!Leak(x, t).queue = IF x.queue > LeakRate * 0 THEN x.queue - LeakRate * 0 ELSE 0
      <4>1. x.last <= t /\ 0 \in Int /\ 0 = (t - x.last) \div LeakPeriod
        BY <1>4, <2>2, <3>1
      <4>. QED  BY <1>1, <4>1, LeaksBy
    <3>3. LeakRate * 0 = 0
      BY LeakyConstants
    <3>. QED  BY <1>4, <3>2, <3>3
  <2>. QED  BY <1>4, <2>1, <2>2
<1>6. LB!Decide(x, t, m).allowed <=> x.queue + m <= Capacity
  BY <1>1, <1>5, LeakyDecides
<1>7. LB!Decide(x, t, m).allowed <=> m <= d.remaining
  BY <1>1, <1>4, <1>6
<1>. QED  BY <1>7 DEF x, d

(* Once the periods of k have passed, a queue that was longer by less than *)
(* a rate's worth is what remains.                                         *)
LEMMA LeakyRetryHonest ==
  ASSUME NEW b \in LB!Buckets, NEW t \in Int, NEW n \in Nat \ {0}, NEW u \in Int, t <= u,
         ~LB!Decide(b, t, n).allowed, LB!Retries(b, t, n)
  PROVE  LET d == LB!Decide(b, t, n) IN
         /\ d.retryAfter \in Int
         /\ t + d.retryAfter <= u => LB!Decide(d.state, u, n).allowed
         /\ u < t + d.retryAfter => ~LB!Decide(d.state, u, n).allowed
<1> DEFINE r == LB!Leak(b, t)
           d == LB!Decide(b, t, n)
           excess == r.queue + n - Capacity
           p == LB!Periods(excess)
           passed == (u - r.last) \div LeakPeriod
<1>1. b.last - t < LeakPeriod /\ n <= Capacity
  BY DEF LB!Retries
<1>2. LeakRate \in Nat \ {0} /\ LeakPeriod \in Nat \ {0} /\ Capacity \in Nat
  BY LeakyConstants
<1>3. /\ r \in LB!Buckets /\ r.queue \in Nat /\ r.queue <= Capacity /\ r.last \in Int
      /\ t < r.last + LeakPeriod /\ r.last - t < LeakPeriod
  <2>1. /\ r \in LB!Buckets /\ r.queue \in Nat /\ r.last \in Int /\ t < r.last + LeakPeriod
        /\ b.last \in Int /\ b.queue \in Nat /\ r.queue <= b.queue /\ b.queue <= Capacity
        /\ b.last <= t => r.last <= t
        /\ b.queue # 0 /\ t <= b.last => r = b
    BY LeakTo
  <2>2. b.queue = 0 => r.last = t
    BY DEF LB!Leak, LB!Buckets
  <2> HIDE DEF r
  <2>. QED  BY <1>1, <1>2, <2>1, <2>2
<1>4. /\ d.state = r /\ d.retryAfter = LB!RetryAfter(r, t, n)
      /\ ~(r.queue + n <= Capacity)
  BY LeakyDecides, LeakyTells
<1> HIDE DEF r, d
<1>5. excess \in Nat \ {0} /\ excess <= r.queue /\ excess = r.queue + n - Capacity
  BY <1>1, <1>2, <1>3, <1>4
<1> HIDE DEF excess
<1>6. p \in Int /\ excess <= LeakRate * p /\ LeakRate * p < excess + LeakRate
  BY <1>5, PeriodsLeak
<1> HIDE DEF p
<1>7. LB!GoMod(t - r.last, LeakPeriod) = t - r.last
  <2>1. \A a \in Nat : a < LeakPeriod => a % LeakPeriod = a
    BY <1>2
  <2>2. CASE t - r.last >= 0
    <3>1. t - r.last \in Nat /\ t - r.last < LeakPeriod
      BY <1>2, <1>3, <2>2
    <3>. QED  BY <2>1, <2>2, <3>1 DEF LB!GoMod
  <2>3. CASE ~(t - r.last >= 0)
    <3>1. -(t - r.last) \in Nat /\ -(t - r.last) < LeakPeriod /\ t - r.last = -(-(t - r.last))
      BY <1>2, <1>3, <2>3
    <3>2. (-(t - r.last)) % LeakPeriod = -(t - r.last)
      BY <2>1, <3>1
    <3>. QED  BY <2>3, <3>1, <3>2 DEF LB!GoMod
  <2>. QED  BY <2>2, <2>3
<1>8. d.retryAfter = r.last - t + LeakPeriod * p /\ LeakPeriod * p \in Int
  <2>1. d.retryAfter = LeakPeriod - (t - r.last) + (p - 1) * LeakPeriod
    BY <1>4, <1>7 DEF LB!RetryAfter, p, excess
  <2>2. (p - 1) * LeakPeriod = LeakPeriod * p - LeakPeriod /\ LeakPeriod * p \in Int
    BY <1>2, <1>6
  <2>. QED  BY <1>2, <1>3, <2>1, <2>2
<1>9. LB!Decide(r, u, n).allowed <=> LB!Leak(r, u).queue + n <= Capacity
  BY <1>3, LeakyDecides
<1>10. r.last <= u =>
         /\ passed \in Nat /\ LeakRate * passed \in Nat
         /\ LB!Leak(r, u).queue = IF r.queue > LeakRate * passed
                                    THEN r.queue - LeakRate * passed ELSE 0
  BY <1>3, LeakTo
<1>11. passed \in Int /\ LeakPeriod * passed <= u - r.last /\ u - r.last < LeakPeriod * passed + LeakPeriod
  <2>1. u - r.last \in Int
    BY <1>3
  <2>. QED  BY <1>2, <2>1, DivBounds
<1> HIDE DEF passed
<1>12. ASSUME t + d.retryAfter <= u PROVE LB!Decide(r, u, n).allowed
  <2>1. LeakPeriod * p <= u - r.last
    BY <1>3, <1>8, <1>12
  <2>2. p <= passed
    <3>1. ASSUME passed + 1 <= p PROVE FALSE
      <4>1. LeakPeriod * (passed + 1) <= LeakPeriod * p
            /\ LeakPeriod * (passed + 1) = LeakPeriod * passed + LeakPeriod
        BY <1>2, <1>6, <1>11, <3>1, MulMono
      <4>2. LeakPeriod * passed \in Int
        BY <1>2, <1>11
      <4>. QED  BY <1>2, <1>3, <1>8, <1>11, <2>1, <4>1, <4>2
    <3>. QED  BY <1>6, <1>11, <3>1
  <2>3. LeakRate * p <= LeakRate * passed
    BY <1>2, <1>6, <1>11, <2>2, MulMono
  <2>4. r.last <= u
    <3>1. p >= 0
      <4>1. ASSUME p <= -1 PROVE FALSE
        <5>1. LeakRate * p <= LeakRate * (-1) /\ LeakRate * (-1) = -LeakRate
          BY <1>2, <1>6, <4>1, MulMono
        <5>. QED  BY <1>2, <1>5, <1>6, <5>1
      <4>. QED  BY <1>6, <4>1
    <3>2. LeakPeriod * p >= 0
      BY <1>2, <1>6, <3>1
    <3>. QED  BY <1>3, <1>8, <2>1, <3>2
  <2>5. LeakRate * p \in Int
    BY <1>2, <1>6
  <2>6. LB!Leak(r, u).queue + n <= Capacity
    BY <1>1, <1>2, <1>3, <1>5, <1>6, <1>10, <2>3, <2>4, <2>5
  <2>. QED  BY <1>9, <2>6
<1>13. ASSUME u < t + d.retryAfter PROVE ~LB!Decide(r, u, n).allowed
  <2>1. CASE u <= r.last
    <3>1. LB!Leak(r, u) = r
      <4>1. r.queue # 0
        BY <1>3, <1>5
      <4>. QED  BY <1>3, <2>1, <4>1, LeakTo
    <3>. QED  BY <1>4, <1>9, <3>1
  <2>2. CASE r.last <= u
    <3>1. passed + 1 <= p
      <4>1. ASSUME p <= passed PROVE FALSE
        <5>1. LeakPeriod * p <= LeakPeriod * passed /\ LeakPeriod * passed \in Int
          BY <1>2, <1>6, <1>11, <4>1, MulMono
        <5>. QED  BY <1>3, <1>8, <1>11, <1>13, <5>1
      <4>. QED  BY <1>6, <1>11, <4>1
    <3>2. LeakRate * (passed + 1) <= LeakRate * p
          /\ LeakRate * (passed + 1) = LeakRate * passed + LeakRate
      BY <1>2, <1>6, <1>11, <3>1, MulMono
    <3>3. LeakRate * p \in Int
      BY <1>2, <1>6
    <3>4. LeakRate * passed < excess
      BY <1>2, <1>5, <1>6, <1>10, <2>2, <3>2, <3>3
    <3>5. ~(LB!Leak(r, u).queue + n <= Capacity)
      BY <1>2, <1>3, <1>5, <1>10, <2>2, <3>4
    <3>. QED  BY <1>9, <3>5
  <2>. QED  BY <1>3, <2>1, <2>2
<1>14. d.retryAfter \in Int
  BY <1>3, <1>8
<1>. QED  BY <1>4, <1>12, <1>13, <1>14 DEF d

(* A queue is empty by the time its periods have passed.                   *)
LEMMA LeakedOut ==
  ASSUME NEW b \in LB!Buckets, NEW k \in Nat, NEW u \in Int,
         b.queue <= k, b.last + LeakPeriod * LB!Periods(k) <= u
  PROVE  LB!Leak(b, u).queue = 0
<1> DEFINE p == LB!Periods(k)
           passed == (u - b.last) \div LeakPeriod
<1>1. LeakRate \in Nat \ {0} /\ LeakPeriod \in Nat \ {0} /\ b.queue \in Nat /\ b.last \in Int
  BY LeakyConstants DEF LB!Buckets
<1>2. p \in Nat /\ k <= LeakRate * p
  <2>1. p \in Int /\ k <= LeakRate * p
    BY PeriodsLeak
  <2> HIDE DEF p
  <2>2. ASSUME p <= -1 PROVE FALSE
    <3>1. LeakRate * p <= LeakRate * (-1) /\ LeakRate * (-1) = -LeakRate /\ LeakRate * p \in Int
      BY <1>1, <2>1, <2>2, MulMono
    <3>. QED  BY <1>1, <2>1, <3>1
  <2>. QED  BY <2>1, <2>2
<1> HIDE DEF p
<1>3. b.last + LeakPeriod * p <= u /\ LeakPeriod * p \in Nat
  BY <1>1, <1>2 DEF p
<1>4. b.last <= u /\ u - b.last \in Int
  BY <1>1, <1>3
<1>5. /\ passed \in Int /\ u - b.last < LeakPeriod * passed + LeakPeriod
      /\ LeakRate * passed \in Nat
      /\ LB!Leak(b, u).queue = IF b.queue > LeakRate * passed THEN b.queue - LeakRate * passed ELSE 0
  BY <1>1, <1>4, DivBounds, LeakTo
<1> HIDE DEF passed
<1>6. ASSUME passed + 1 <= p PROVE FALSE
  <2>1. LeakPeriod * (passed + 1) <= LeakPeriod * p
        /\ LeakPeriod * (passed + 1) = LeakPeriod * passed + LeakPeriod
        /\ LeakPeriod * passed \in Int
    BY <1>1, <1>2, <1>5, <1>6, MulMono
  <2>. QED  BY <1>1, <1>3, <1>5, <2>1
<1>7. LeakRate * p <= LeakRate * passed /\ LeakRate * p \in Int
  BY <1>1, <1>2, <1>5, <1>6, MulMono
<1>. QED  BY <1>1, <1>2, <1>5, <1>7

LEMMA LeakyResetHonest ==
  ASSUME NEW b \in LB!Buckets, NEW t \in Int, NEW n \in Nat \ {0}, b.last <= t
  PROVE  LET d == LB!Decide(b, t, n) IN
         /\ d.resetTime \in Int
         /\ \A u \in Int : d.resetTime <= u => LB!Leak(d.state, u).queue = 0
<1> DEFINE d == LB!Decide(b, t, n)
           x == d.state
<1>1. x \in LB!Buckets /\ x.last = LB!Leak(b, t).last /\ d.resetTime = LB!ResetTime(x, t)
  BY LeakyDecides, LeakyTells
<1>2. LB!Leak(b, t).last <= t
  BY LeakTo
<1> HIDE DEF d, x
<1>3. x.queue \in Nat /\ x.last \in Int /\ x.last <= t /\ LeakPeriod \in Nat \ {0}
  BY <1>1, <1>2, LeakyConstants DEF LB!Buckets
<1>4. CASE x.queue = 0
  <2>1. \A u \in Int : LB!Leak(x, u).queue = 0
    BY <1>1, <1>4 DEF LB!Leak, LB!Buckets
  <2>2. d.resetTime = t
    BY <1>1, <1>4 DEF LB!ResetTime
  <2>. QED  BY <2>1, <2>2 DEF d, x
<1>5. CASE x.queue # 0
  <2> DEFINE wait == LeakPeriod * LB!Periods(x.queue)
  <2>1. LB!Periods(x.queue) \in Int
    BY <1>3, PeriodsLeak
  <2>2. wait \in Int /\ LB!Periods(x.queue) * LeakPeriod = wait
    BY <1>3, <2>1
  <2>3. d.resetTime = t + wait
    BY <1>1, <1>5, <2>2 DEF LB!ResetTime
  <2>4. \A u \in Int : t + wait <= u => x.last + wait <= u
    <3> HIDE DEF wait
    <3>. QED  BY <1>3, <2>2
  <2>5. \A u \in Int : t + wait <= u => LB!Leak(x, u).queue = 0
    BY <1>1, <1>3, <2>4, LeakedOut
  <2> HIDE DEF wait
  <2>. QED  BY <2>2, <2>3, <2>5 DEF d, x
<1>. QED  BY <1>4, <1>5


-----------------------------------------------------------------------------
(* Of the fixed window.                                                    *)
LEMMA FixedTells ==
  ASSUME NEW c \in FW!Counters, NEW t \in Int, NEW n \in Nat \ {0}
  PROVE  LET w == FW!Roll(c, t)
             d == FW!Decide(c, t, n)
         IN /\ d.resetTime = w.start + Window
            /\ ~d.allowed => d.retryAfter = w.start + Window - t
            /\ d.allowed => d.remaining = Limit - (w.count + n)
<1> DEFINE w == FW!Roll(c, t)
           d == FW!Decide(c, t, n)
<1>1. CASE w.count + n <= Limit
  <2>1. d = [allowed |-> TRUE, remaining |-> Limit - (w.count + n), retryAfter |-> 0,
             resetTime |-> w.start + Window, state |-> [w EXCEPT !.count = @ + n]]
    BY <1>1 DEF FW!Decide
  <2> HIDE DEF d, w
  <2>. QED  BY <2>1 DEF d, w
<1>2. CASE ~(w.count + n <= Limit)
  <2>1. d = [allowed |-> FALSE, remaining |-> 0, retryAfter |-> w.start + Window - t,
             resetTime |-> w.start + Window, state |-> w]
    BY <1>2 DEF FW!Decide
  <2> HIDE DEF d, w
  <2>. QED  BY <2>1 DEF d, w
<1>. QED  BY <1>1, <1>2

(* The time is before the end of the window it has rolled to.              *)
LEMMA RollTo ==
  ASSUME NEW c \in FW!Counters, NEW t \in Int
  PROVE  LET w == FW!Roll(c, t) IN
         /\ w \in FW!Counters /\ w.start \in Int /\ w.count \in Nat /\ w.count <= Limit
         /\ t < w.start + Window
         /\ Window \in Nat \ {0} /\ Limit \in Nat
<1> DEFINE w == FW!Roll(c, t)
<1>1. Window \in Nat \ {0} /\ Limit \in Nat
  BY ConfigAssumption DEF FW!ValidConfig
<1>2. w \in FW!Counters
  BY FixedFresh DEF FW!Roll
<1>3. t < w.start + Window
  <2>1. CASE c.start + Window <= t
    <3>1. w.start = FW!Align(t)
      BY <2>1 DEF FW!Roll, FW!Fresh
    <3> HIDE DEF w
    <3>. QED  BY <3>1, AlignIsAligned
  <2>2. CASE ~(c.start + Window <= t)
    <3>1. w = c /\ c.start \in Int
      BY <2>2 DEF FW!Roll, FW!Counters
    <3> HIDE DEF w
    <3>. QED  BY <1>1, <2>2, <3>1
  <2>. QED  BY <2>1, <2>2
<1> HIDE DEF w
<1>. QED  BY <1>1, <1>2, <1>3 DEF FW!Counters, w

LEMMA RollTwice ==
  ASSUME NEW c \in FW!Counters, NEW t \in Int, NEW u \in Int, t <= u
  PROVE  FW!Roll(FW!Roll(c, t), u) = FW!Roll(c, u)
<1>1. Window \in Nat \ {0} /\ c.start \in Int
  BY ConfigAssumption DEF FW!ValidConfig, FW!Counters
<1>2. CASE c.start + Window <= t
  <2>1. FW!Roll(c, t) = FW!Fresh(t) /\ FW!Roll(c, u) = FW!Fresh(u)
    <3>1. c.start + Window <= u
      BY <1>1, <1>2
    <3>. QED  BY <1>2, <3>1 DEF FW!Roll
  <2>2. FW!Fresh(t).start = FW!Align(t)
    BY DEF FW!Fresh
  <2>3. CASE FW!Align(t) + Window <= u
    BY <2>1, <2>2, <2>3 DEF FW!Roll
  <2>4. CASE u < FW!Align(t) + Window
    <3>1. /\ FW!Align(t) \in Int /\ Aligned(FW!Align(t)) /\ FW!Align(t) \div Window = t \div Window
      BY AlignIsAligned
    <3>2. u \div Window <= t \div Window
      BY <2>4, <3>1, WindowOrder
    <3>3. t \div Window <= u \div Window /\ t \div Window \in Int /\ u \div Window \in Int
      BY <1>1, DivMono, DivIsInt
    <3>4. t \div Window = u \div Window
      BY <3>2, <3>3
    <3>5. FW!Fresh(u) = FW!Fresh(t)
      BY <3>4 DEF FW!Fresh, FW!Align
    <3>6. ~(FW!Align(t) + Window <= u)
      BY <1>1, <2>4, <3>1
    <3>. QED  BY <2>1, <2>2, <3>5, <3>6 DEF FW!Roll
  <2>. QED  BY <1>1, <2>3, <2>4, AlignIsAligned
<1>3. CASE ~(c.start + Window <= t)
  BY <1>3 DEF FW!Roll
<1>. QED  BY <1>2, <1>3

LEMMA FixedDenialFree ==
  ASSUME NEW c \in FW!Counters, NEW t \in Int, NEW n \in Nat \ {0}, NEW m \in Nat \ {0},
         NEW u \in Int, t <= u, ~FW!Decide(c, t, n).allowed
  PROVE  FW!Decide(FW!Decide(c, t, n).state, u, m).allowed <=> FW!Decide(c, u, m).allowed
<1> DEFINE w == FW!Roll(c, t)
<1>1. FW!Decide(c, t, n).state = w /\ w \in FW!Counters
  BY FixedDecides
<1>2. FW!Roll(w, u) = FW!Roll(c, u)
  BY RollTwice
<1> HIDE DEF w
<1>3. FW!Decide(w, u, m).allowed <=> FW!Roll(w, u).count + m <= Limit
  BY <1>1, FixedDecides
<1>4. FW!Decide(c, u, m).allowed <=> FW!Roll(c, u).count + m <= Limit
  BY FixedDecides
<1>. QED  BY <1>1, <1>2, <1>3, <1>4

LEMMA FixedSpendable ==
  ASSUME NEW c \in FW!Counters, NEW t \in Int, NEW n \in Nat \ {0}, NEW m \in Nat \ {0},
         FW!Decide(c, t, n).allowed
  PROVE  LET d == FW!Decide(c, t, n) IN
         FW!Decide(d.state, t, m).allowed <=> m <= d.remaining
<1> DEFINE d == FW!Decide(c, t, n)
           w == FW!Roll(c, t)
           x == d.state
<1>1. /\ x \in FW!Counters /\ x.start = w.start /\ x.count = w.count + n
      /\ d.remaining = Limit - (w.count + n)
  BY FixedDecide, FixedDecides, FixedTells DEF Granted
<1>2. t < w.start + Window /\ w.start \in Int /\ w.count \in Nat /\ Window \in Nat /\ Limit \in Nat
  BY RollTo
<1> HIDE DEF d, w, x
<1>3. FW!Roll(x, t) = x
  <2>1. ~(x.start + Window <= t)
    BY <1>1, <1>2
  <2>. QED  BY <2>1 DEF FW!Roll
<1>4. FW!Decide(x, t, m).allowed <=> x.count + m <= Limit
  BY <1>1, <1>3, FixedDecides
<1>5. FW!Decide(x, t, m).allowed <=> m <= d.remaining
  BY <1>1, <1>2, <1>4
<1>. QED  BY <1>5 DEF d, x

(* From the end of the window on, the counter is a fresh one.              *)
LEMMA FixedReset ==
  ASSUME NEW c \in FW!Counters, NEW t \in Int, NEW n \in Nat \ {0}
  PROVE  LET d == FW!Decide(c, t, n) IN
         /\ d.resetTime \in Int /\ t < d.resetTime
         /\ \A u \in Int : d.resetTime <= u => FW!Roll(d.state, u) = FW!Fresh(u)
<1> DEFINE d == FW!Decide(c, t, n)
           w == FW!Roll(c, t)
<1>1. d.state.start = w.start /\ d.resetTime = w.start + Window
  BY FixedDecides, FixedTells
<1>2. t < w.start + Window /\ w.start \in Int /\ Window \in Nat
  BY RollTo
<1> HIDE DEF d, w
<1>3. \A u \in Int : d.resetTime <= u => FW!Roll(d.state, u) = FW!Fresh(u)
  BY <1>1 DEF FW!Roll
<1>. QED  BY <1>1, <1>2, <1>3 DEF d

LEMMA FixedFreshAllows ==
  ASSUME NEW u \in Int, NEW n \in Nat \ {0}, NEW c \in FW!Counters, FW!Roll(c, u) = FW!Fresh(u)
  PROVE  FW!Decide(c, u, n).allowed <=> n <= Limit
<1>1. FW!Fresh(u).count = 0
  BY DEF FW!Fresh
<1>2. FW!Decide(c, u, n).allowed <=> 0 + n <= Limit
  BY <1>1, FixedDecides
<1>. QED  BY <1>2

LEMMA FreshRolls ==
  ASSUME NEW u \in Int
  PROVE  FW!Roll(FW!Fresh(u), u) = FW!Fresh(u)
  BY DEF FW!Roll, FW!Fresh

LEMMA FixedRetryHonest ==
  ASSUME NEW c \in FW!Counters, NEW t \in Int, NEW n \in Nat \ {0}, NEW u \in Int, t <= u,
         ~FW!Decide(c, t, n).allowed, FW!Retries(c, t, n)
  PROVE  LET d == FW!Decide(c, t, n) IN
         /\ d.retryAfter \in Int
         /\ t + d.retryAfter <= u => FW!Decide(d.state, u, n).allowed
         /\ u < t + d.retryAfter => ~FW!Decide(d.state, u, n).allowed
<1> DEFINE d == FW!Decide(c, t, n)
           w == FW!Roll(c, t)
<1>1. /\ d.state = w /\ w \in FW!Counters /\ ~(w.count + n <= Limit)
      /\ d.retryAfter = w.start + Window - t /\ d.resetTime = w.start + Window
  BY FixedDecides, FixedTells
<1>2. w.start \in Int /\ Window \in Nat /\ n <= Limit
  BY RollTo DEF FW!Retries
<1>3. \A v \in Int : d.resetTime <= v => FW!Roll(d.state, v) = FW!Fresh(v)
  BY FixedReset
<1> HIDE DEF d, w
<1>4. t + d.retryAfter = w.start + Window /\ d.retryAfter \in Int
  BY <1>1, <1>2
<1>5. ASSUME w.start + Window <= u PROVE FW!Decide(d.state, u, n).allowed
  <2>1. FW!Roll(d.state, u) = FW!Fresh(u)
    BY <1>1, <1>3, <1>5
  <2>. QED  BY <1>1, <1>2, <2>1, FixedFreshAllows
<1>6. ASSUME u < w.start + Window PROVE ~FW!Decide(d.state, u, n).allowed
  <2>1. FW!Roll(w, u) = w
    <3>1. ~(w.start + Window <= u)
      BY <1>2, <1>6
    <3>. QED  BY <3>1 DEF FW!Roll
  <2>. QED  BY <1>1, <2>1, FixedDecides
<1>. QED  BY <1>4, <1>5, <1>6 DEF d

-----------------------------------------------------------------------------
(* Of the sliding window.                                                  *)
LEMMA SlidingTells ==
  ASSUME NEW c \in SW!Counters \cup SW!LogsAt(Start), NEW t \in Int, NEW n \in Nat \ {0},
         SW!Decide(c, t, n).allowed
  PROVE  LET d == SW!Decide(c, t, n)
             left == Limit - SW!Estimate(d.state, t)
         IN d.remaining = IF left > 0 THEN left ELSE 0
<1> DEFINE w == SW!Advance(SW!Migrate(c, t), t)
           d == SW!Decide(c, t, n)
           counted == [w EXCEPT !.cur = @ + n]
           left == Limit - SW!Estimate(counted, t)
<1>1. SW!Estimate(w, t) + n <= Limit
  BY SlidingDecides
<1>2. d = [allowed |-> TRUE, remaining |-> IF left > 0 THEN left ELSE 0, retryAfter |-> 0,
           state |-> counted]
  BY <1>1 DEF SW!Decide
<1> HIDE DEF d, counted
<1>. QED  BY <1>2 DEF d

(* What the counters weigh does not depend on where an empty window lies.  *)
LEMMA EmptyWeighsNothing ==
  ASSUME NEW c \in SW!Counters, NEW t \in Int, c.prev = 0
  PROVE  SW!Estimate(c, t) = c.cur
<1>1. Window \in Nat \ {0} /\ c.start \in Int /\ c.cur \in Nat
  BY ConfigAssumption DEF SW!ValidConfig, SW!Counters
<1>2. Window - SW!Elapsed(c, t) \in Int
  BY <1>1 DEF SW!Elapsed
<1>3. c.prev * (Window - SW!Elapsed(c, t)) = 0
  BY <1>2
<1>4. 0 \div Window = 0
  BY <1>1
<1>. QED  BY <1>1, <1>3, <1>4 DEF SW!Estimate

LEMMA AdvanceTo ==
  ASSUME NEW c \in SW!Counters, NEW t \in Int
  PROVE  LET w == SW!Advance(c, t) IN
         /\ w \in SW!Counters /\ w.start \in Int /\ t < w.start + Window
         /\ t < c.start + Window => w = c
         /\ c.start + Window <= t => w.cur = 0
         /\ c.start + 2 * Window <= t => w = SW!Fresh(t)
         /\ c.start + Window <= t /\ t < c.start + 2 * Window =>
              w = [cur |-> 0, prev |-> c.cur, start |-> c.start + Window]
         /\ c.start \in Int /\ Window \in Nat \ {0} /\ Limit \in Nat
<1> DEFINE w == SW!Advance(c, t)
<1>1. Window \in Nat \ {0} /\ c.start \in Int /\ w \in SW!Counters /\ Limit \in Nat
  BY SlidingAdvance, ConfigAssumption DEF SW!ValidConfig, SW!Counters
<1>2. CASE t < c.start + Window
  <2>1. w = c
    BY <1>2 DEF SW!Advance
  <2> HIDE DEF w
  <2>. QED  BY <1>1, <1>2, <2>1 DEF w
<1>3. CASE c.start + Window <= t /\ t < c.start + 2 * Window
  <2>1. w = [cur |-> 0, prev |-> c.cur, start |-> c.start + Window]
    BY <1>1, <1>3 DEF SW!Advance
  <2> HIDE DEF w
  <2>2. w.start = c.start + Window /\ w.cur = 0
    BY <2>1
  <2>. QED  BY <1>1, <1>3, <2>1, <2>2 DEF w
<1>4. CASE c.start + 2 * Window <= t
  <2>1. w = SW!Fresh(t)
    BY <1>1, <1>4 DEF SW!Advance
  <2> HIDE DEF w
  <2>2. w.start = SW!Align(t) /\ w.cur = 0
    BY <2>1 DEF SW!Fresh
  <2>3. t < w.start + Window
    BY <2>2, AlignIsAligned
  <2>4. w.start \in Int
    BY <2>2, AlignIsInt
  <2>. QED  BY <1>1, <1>4, <2>1, <2>2, <2>3, <2>4 DEF w
<1>. QED  BY <1>1, <1>2, <1>3, <1>4

LEMMA AdvanceTwice ==
  ASSUME NEW c \in SW!Counters, NEW t \in Int, NEW u \in Int, t <= u
  PROVE  SW!Estimate(SW!Advance(SW!Advance(c, t), u), u) = SW!Estimate(SW!Advance(c, u), u)
<1> DEFINE w == SW!Advance(c, t)
<1>1. /\ w \in SW!Counters /\ w.start \in Int /\ t < w.start + Window
      /\ c.start \in Int /\ Window \in Nat \ {0}
  BY AdvanceTo
<1>2. \A v \in Int : SW!Fresh(v) \in SW!Counters /\ SW!Fresh(v).prev = 0 /\ SW!Fresh(v).cur = 0
  BY SlidingFresh DEF SW!Fresh
<1>3. CASE t < c.start + Window
  <2>1. w = c
    BY <1>3, AdvanceTo
  <2>. QED  BY <2>1
<1>4. CASE c.start + Window <= t /\ t < c.start + 2 * Window
  <2>1. w = [cur |-> 0, prev |-> c.cur, start |-> c.start + Window]
    BY <1>4, AdvanceTo
  <2>2. w.start = c.start + Window /\ w.cur = 0
    BY <2>1
  <2> DEFINE x == SW!Advance(w, u)
             y == SW!Advance(c, u)
  <2>3. CASE u < c.start + 2 * Window
    <3>1. u < w.start + Window /\ c.start + Window <= u
      BY <1>1, <1>4, <2>2, <2>3
    <3>2. x = w
      BY <1>1, <3>1, AdvanceTo
    <3>3. y = w
      BY <1>1, <2>1, <2>3, <3>1, AdvanceTo
    <3>. QED  BY <3>2, <3>3
  <2>4. CASE c.start + 2 * Window <= u
    <3>1. y = SW!Fresh(u)
      BY <2>4, AdvanceTo
    <3>2. SW!Estimate(y, u) = 0
      BY <1>2, <3>1, EmptyWeighsNothing
    <3>3. w.start + Window <= u
      BY <1>1, <2>2, <2>4
    <3>4. x \in SW!Counters /\ x.cur = 0
      BY <1>1, <3>3, AdvanceTo
    <3>5. x.prev = 0
      <4>1. CASE u < w.start + 2 * Window
        <5>1. x = [cur |-> 0, prev |-> w.cur, start |-> w.start + Window]
          BY <1>1, <3>3, <4>1, AdvanceTo
        <5>. QED  BY <2>2, <5>1
      <4>2. CASE w.start + 2 * Window <= u
        <5>1. x = SW!Fresh(u)
          BY <1>1, <4>2, AdvanceTo
        <5>. QED  BY <1>2, <5>1
      <4> HIDE DEF w, x
      <4>. QED  BY <1>1, <4>1, <4>2
    <3>6. SW!Estimate(x, u) = 0
      BY <3>4, <3>5, EmptyWeighsNothing
    <3>. QED  BY <3>2, <3>6
  <2>. QED  BY <1>1, <2>3, <2>4
<1>5. CASE c.start + 2 * Window <= t
  <2> DEFINE x == SW!Advance(w, u)
             y == SW!Advance(c, u)
  <2>1. w = SW!Fresh(t)
    BY <1>5, AdvanceTo
  <2>2. w.cur = 0 /\ w.prev = 0
    BY <1>2, <2>1
  <2>3. c.start + 2 * Window <= u
    BY <1>1, <1>5
  <2>4. y = SW!Fresh(u)
    BY <2>3, AdvanceTo
  <2>5. SW!Estimate(y, u) = 0
    BY <1>2, <2>4, EmptyWeighsNothing
  <2> HIDE DEF w
  <2>6. x \in SW!Counters /\ x.cur = 0 /\ x.prev = 0
    <3>1. CASE u < w.start + Window
      <4>1. x = w
        BY <1>1, <3>1, AdvanceTo
      <4>. QED  BY <1>1, <2>2, <4>1
    <3>2. CASE w.start + Window <= u /\ u < w.start + 2 * Window
      <4>1. x = [cur |-> 0, prev |-> w.cur, start |-> w.start + Window] /\ x \in SW!Counters
        BY <1>1, <3>2, AdvanceTo
      <4>. QED  BY <2>2, <4>1
    <3>3. CASE w.start + 2 * Window <= u
      <4>1. x = SW!Fresh(u)
        BY <1>1, <3>3, AdvanceTo
      <4>. QED  BY <1>2, <4>1
    <3>. QED  BY <1>1, <3>1, <3>2, <3>3
  <2>7. SW!Estimate(x, u) = 0
    BY <2>6, EmptyWeighsNothing
  <2>. QED  BY <2>5, <2>7 DEF w
<1>. QED  BY <1>1, <1>3, <1>4, <1>5

LEMMA SlidingDenialFree ==
  ASSUME NEW c \in SW!Counters, NEW t \in Int, NEW n \in Nat \ {0}, NEW m \in Nat \ {0},
         NEW u \in Int, t <= u, ~SW!Decide(c, t, n).allowed
  PROVE  SW!Decide(SW!Decide(c, t, n).state, u, m).allowed <=> SW!Decide(c, u, m).allowed
<1> DEFINE w == SW!Advance(c, t)
<1>1. \A x \in SW!Counters, v \in Int : SW!Migrate(x, v) = x
  BY CountersAreNoLogs DEF SW!Migrate
<1>2. SW!Decide(c, t, n).state = w /\ w \in SW!Counters
  BY <1>1, SlidingDecides
<1>3. SW!Estimate(SW!Advance(w, u), u) = SW!Estimate(SW!Advance(c, u), u)
  BY AdvanceTwice
<1> HIDE DEF w
<1>4. SW!Decide(w, u, m).allowed <=> SW!Estimate(SW!Advance(w, u), u) + m <= Limit
  BY <1>1, <1>2, SlidingDecides
<1>5. SW!Decide(c, u, m).allowed <=> SW!Estimate(SW!Advance(c, u), u) + m <= Limit
  BY <1>1, SlidingDecides
<1>. QED  BY <1>2, <1>3, <1>4, <1>5

LEMMA SlidingSpendable ==
  ASSUME NEW c \in SW!Counters \cup SW!LogsAt(Start), NEW t \in Int, NEW n \in Nat \ {0},
         NEW m \in Nat \ {0}, SW!Decide(c, t, n).allowed
  PROVE  LET d == SW!Decide(c, t, n) IN
         SW!Decide(d.state, t, m).allowed <=> m <= d.remaining
<1> DEFINE d == SW!Decide(c, t, n)
           x == d.state
           left == Limit - SW!Estimate(x, t)
           moved == SW!Migrate(c, t)
           w == SW!Advance(moved, t)
<1>1. x \in SW!Counters /\ x.start = w.start /\ d.remaining = IF left > 0 THEN left ELSE 0
  BY SlidingDecides, SlidingTells
<1>2. t < w.start + Window
  BY SlidingMigrate, AdvanceTo
<1> HIDE DEF d, x, w
<1>3. SW!Migrate(x, t) = x /\ SW!Advance(x, t) = x
  BY <1>1, <1>2, CountersAreNoLogs DEF SW!Migrate, SW!Advance
<1>4. SW!Estimate(x, t) \in Nat /\ Limit \in Nat
  BY <1>1, SlidingEstimate, ConfigAssumption DEF SW!ValidConfig
<1>5. SW!Decide(x, t, m).allowed <=> SW!Estimate(x, t) + m <= Limit
  BY <1>1, <1>3, SlidingDecides
<1>6. SW!Decide(x, t, m).allowed <=> m <= d.remaining
  BY <1>1, <1>4, <1>5
<1>. QED  BY <1>6 DEF d, x

(* One window after a full one, only the share that has passed is free.    *)
LEMMA SlidingPrevious ==
  ASSUME NEW c \in SW!Counters, c.cur = Limit, NEW n \in Nat \ {0}, NEW e \in 0 .. Window - 1,
         SW!Decide(c, c.start + Window + e, n).allowed
  PROVE  Window * (n - 1) < Limit * e
<1> DEFINE t == c.start + Window + e
           w == SW!Advance(c, t)
<1>1. Window \in Nat \ {0} /\ Limit \in Nat /\ c.start \in Int /\ e \in Nat /\ e < Window
  BY ConfigAssumption DEF SW!ValidConfig, SW!Counters
<1>2. t \in Int /\ c.start + Window <= t /\ t < c.start + 2 * Window
  BY <1>1
<1>3. w = [cur |-> 0, prev |-> Limit, start |-> c.start + Window]
  BY <1>2, AdvanceTo
<1>4. SW!Migrate(c, t) = c
  BY CountersAreNoLogs DEF SW!Migrate
<1>5. SW!Estimate(w, t) + n <= Limit
  BY <1>2, <1>4, SlidingDecides
<1>6. SW!Elapsed(w, t) = e
  <2> HIDE DEF w
  <2>. QED  BY <1>1, <1>3 DEF SW!Elapsed
<1> DEFINE weight == Limit * (Window - e)
           q == weight \div Window
<1>7. SW!Estimate(w, t) = q
  <2> HIDE DEF w
  <2>1. weight \in Int
    BY <1>1
  <2>2. q \in Int
    BY <1>1, <2>1, DivIsInt
  <2> HIDE DEF t
  <2>3. SW!Estimate(w, t) = q + 0
    BY <1>3, <1>6 DEF SW!Estimate
  <2> HIDE DEF q
  <2>. QED  BY <2>2, <2>3
<1>8. weight \in Int /\ q \in Int /\ weight < Window * q + Window
  <2>1. weight \in Int
    BY <1>1
  <2>. QED  BY <1>1, <2>1, DivBounds
<1>9. weight = Limit * Window - Limit * e /\ Limit * Window \in Int /\ Limit * e \in Int
  BY <1>1
<1> HIDE DEF w, t, q, weight
<1>10. q <= Limit - n
  BY <1>1, <1>5, <1>7, <1>8
<1>11. Window * q <= Window * (Limit - n) /\ Window * q \in Int
  BY <1>1, <1>8, <1>10, MulMono
<1>12. Window * (Limit - n) = Limit * Window - Window * n /\ Window * (n - 1) = Window * n - Window
       /\ Window * n \in Int
  BY <1>1
<1>. QED  BY <1>1, <1>8, <1>9, <1>11, <1>12

(* The times of a log that are recent only get fewer.                      *)
LEMMA RecentFalls ==
  ASSUME NEW c \in SW!LogsAt(Start), NEW t \in Int, NEW u \in Int, t <= u
  PROVE  /\ SW!Recent(c, t) \in Nat /\ SW!Recent(c, u) \in Nat
         /\ SW!Recent(c, u) <= SW!Recent(c, t)
         /\ Start < u - Window => SW!Recent(c, u) = 0
<1> DEFINE early == {s \in c.stamps : t - Window <= s}
           later == {s \in c.stamps : u - Window <= s}
<1>1. c.stamps \in SUBSET (Start - Window .. Start)
  BY DEF SW!LogsAt
<1>2. Start \in Int /\ Start - Window \in Int /\ Window \in Nat
  BY ConfigAssumption, ClockAssumption DEF SW!ValidConfig
<1>3. \A s \in c.stamps : s \in Int /\ s <= Start
  BY <1>1, <1>2
<1>4. IsFiniteSet(c.stamps)
  <2>1. IsFiniteSet(Start - Window .. Start)
    BY <1>2, FS_Interval
  <2>. QED  BY <1>1, <2>1, FS_Subset, Zenon
<1>5. IsFiniteSet(early)
  BY <1>4, FS_Subset
<1>6. later \subseteq early
  BY <1>2, <1>3
<1>7. IsFiniteSet(later) /\ Cardinality(later) <= Cardinality(early)
  BY <1>5, <1>6, FS_Subset
<1>8. Cardinality(early) \in Nat /\ Cardinality(later) \in Nat
  BY <1>5, <1>7, FS_CardinalityType
<1>9. SW!Recent(c, t) = Cardinality(early) /\ SW!Recent(c, u) = Cardinality(later)
  BY SameCardinality DEF SW!Recent
<1>10. ASSUME Start < u - Window PROVE Cardinality(later) = 0
  <2>1. later = {}
    BY <1>2, <1>3, <1>10
  <2>. QED  BY <2>1, FS_EmptySet
<1>. QED  BY <1>7, <1>8, <1>9, <1>10

(* A migrated log is charged in full until its window ends.                *)
LEMMA SlidingMigrationKeeps ==
  ASSUME NEW c \in SW!LogsAt(Start), NEW t \in Int, NEW u \in Int, t <= u,
         u < SW!Align(t) + Window, NEW n \in Nat \ {0}, NEW m \in Nat \ {0}
  PROVE  LET d == SW!Decide(c, t, n) IN
         SW!Decide(d.state, u, m).allowed => SW!Recent(c, u) + Granted(d, n) + m <= Limit
<1> DEFINE d == SW!Decide(c, t, n)
           x == d.state
           w == SW!Advance(SW!Migrate(c, t), t)
           g == Granted(d, n)
<1>1. SW!IsLog(c)
  BY CountersAreNoLogs
<1>2. w.start = SW!Align(t) /\ w.prev = 0 /\ w.cur = SW!Recent(c, t)
  BY <1>1, SlidingMoves
<1>3. x \in SW!Counters /\ x.start = w.start /\ x.prev = w.prev /\ x.cur = w.cur + g
  BY SlidingDecides
<1>4. g \in Nat
  BY DEF Granted
<1>5. SW!Recent(c, t) \in Nat /\ SW!Recent(c, u) \in Nat /\ SW!Recent(c, u) <= SW!Recent(c, t)
  BY RecentFalls
<1> HIDE DEF d, x, w, g
<1>6. SW!Migrate(x, u) = x /\ SW!Advance(x, u) = x
  BY <1>2, <1>3, CountersAreNoLogs DEF SW!Migrate, SW!Advance
<1>7. SW!Estimate(x, u) = x.cur
  BY <1>2, <1>3, EmptyWeighsNothing
<1>8. SW!Decide(x, u, m).allowed <=> x.cur + m <= Limit
  BY <1>3, <1>6, <1>7, SlidingDecides
<1>9. Limit \in Nat
  BY ConfigAssumption DEF SW!ValidConfig
<1>10. SW!Decide(x, u, m).allowed => SW!Recent(c, u) + g + m <= Limit
  BY <1>2, <1>3, <1>4, <1>5, <1>8, <1>9
<1>. QED  BY <1>10 DEF d, x, g

-----------------------------------------------------------------------------
(* Of GCRA.                                                                *)
LEMMA CellTells ==
  ASSUME NEW c \in GC!Cells, NEW t \in Int, NEW n \in Nat \ {0}
  PROVE  LET d == GC!Decide(c, t, n) IN
         /\ ~d.allowed => d.retryAfter = GC!Arrival(c, t) - (t + GC!DelayTolerance)
         /\ d.resetTime = d.state.tat
<1>1. CASE GC!Conforms(c, t)
  BY <1>1 DEF GC!Decide
<1>2. CASE ~GC!Conforms(c, t)
  BY <1>2 DEF GC!Decide
<1>. QED  BY <1>1, <1>2

(* A cell conforms from its arrival time less the tolerance on.            *)
LEMMA CellConforms ==
  ASSUME NEW c \in GC!Cells, NEW u \in Int, NEW m \in Nat \ {0}
  PROVE  GC!Decide(c, u, m).allowed <=> c.tat <= u + GC!DelayTolerance
<1>1. c.tat \in Int /\ GC!DelayTolerance \in Nat
  BY CellConstants DEF GC!Cells
<1>2. GC!Arrival(c, u) <= u + GC!DelayTolerance <=> c.tat <= u + GC!DelayTolerance
  BY <1>1 DEF GC!Arrival
<1>. QED  BY <1>2, CellDecides

LEMMA CellRetryHonest ==
  ASSUME NEW c \in GC!Cells, NEW t \in Int, NEW n \in Nat \ {0}, NEW u \in Int,
         ~GC!Decide(c, t, n).allowed
  PROVE  LET d == GC!Decide(c, t, n) IN
         /\ d.retryAfter \in Int
         /\ t + d.retryAfter <= u => GC!Decide(d.state, u, n).allowed
         /\ u < t + d.retryAfter => ~GC!Decide(d.state, u, n).allowed
<1> DEFINE d == GC!Decide(c, t, n)
<1>1. /\ d.state = c /\ GC!Arrival(c, t) = c.tat /\ c.tat \in Int /\ GC!DelayTolerance \in Nat
      /\ d.retryAfter = GC!Arrival(c, t) - (t + GC!DelayTolerance)
  BY CellDecides, CellTells
<1> HIDE DEF d
<1>2. GC!Decide(d.state, u, n).allowed <=> c.tat <= u + GC!DelayTolerance
  BY <1>1, CellConforms
<1>3. d.retryAfter \in Int /\ t + d.retryAfter = c.tat - GC!DelayTolerance
  BY <1>1
<1>. QED  BY <1>1, <1>2, <1>3 DEF d

-----------------------------------------------------------------------------
(* What the caller of a key is told, whatever the algorithm: each lemma    *)
(* takes the stored state, a node's time and a cost, and the theorems      *)
(* after them put the key's state and the nodes' clocks in.                *)
LEMMA DenialFree ==
  ASSUME algorithm \in Algorithms, NEW s \in States,
         NEW t \in Int, NEW u \in Int, t <= u,
         NEW n \in Nat \ {0}, NEW m \in Nat \ {0}, ~Decide(s, t, n).allowed,
         algorithm = "sliding_window" => ~SW!IsLog(s)
  PROVE  Decide(Decide(s, t, n).state, u, m).allowed <=> Decide(s, u, m).allowed
<1>1. algorithm \in Kinds
  BY ConfigAssumption
<1>2. CASE algorithm = "token_bucket"
  BY <1>2, TokenDenialFree DEF Decide, States
<1>3. CASE algorithm = "leaky_bucket"
  BY <1>3, LeakyDenialFree DEF Decide, States
<1>4. CASE algorithm = "fixed_window"
  BY <1>4, FixedDenialFree DEF Decide, States
<1>5. CASE algorithm = "sliding_window"
  <2>1. s \in SW!Counters
    BY <1>5, CountersAreNoLogs DEF States
  <2>. QED  BY <1>5, <2>1, SlidingDenialFree DEF Decide
<1>6. CASE algorithm = "gcra"
  <2>1. s \in GC!Cells
    BY <1>6 DEF States
  <2>2. GC!Decide(s, t, n).state = s
    BY <1>6, <2>1, CellDecides DEF Decide
  <2>. QED  BY <1>6, <2>2 DEF Decide
<1>. QED  BY <1>1, <1>2, <1>3, <1>4, <1>5, <1>6 DEF Kinds

LEMMA Spendable ==
  ASSUME algorithm \in Algorithms, algorithm # "gcra", NEW s \in States, NEW t \in Int,
         NEW n \in Nat \ {0}, NEW m \in Nat \ {0}, Decide(s, t, n).allowed
  PROVE  LET d == Decide(s, t, n) IN
         Decide(d.state, t, m).allowed <=> m <= d.remaining
<1>1. algorithm \in Kinds
  BY ConfigAssumption
<1>2. CASE algorithm = "token_bucket"
  BY <1>2, TokenSpendable DEF Decide, States
<1>3. CASE algorithm = "leaky_bucket"
  BY <1>3, LeakySpendable DEF Decide, States
<1>4. CASE algorithm = "fixed_window"
  BY <1>4, FixedSpendable DEF Decide, States
<1>5. CASE algorithm = "sliding_window"
  BY <1>5, SlidingSpendable DEF Decide, States
<1>. QED  BY <1>1, <1>2, <1>3, <1>4, <1>5 DEF Kinds

(* From RetryAfter and the slack on, and never before RetryAfter.          *)
LEMMA RetryHonest ==
  ASSUME algorithm \in Algorithms, NEW s \in States, NEW t \in Int,
         NEW n \in Nat \ {0}, NEW u \in Int, t <= u,
         ~Decide(s, t, n).allowed, Retries(s, t, n)
  PROVE  LET d == Decide(s, t, n) IN
         /\ d.retryAfter \in Int
         /\ t + d.retryAfter + Slack <= u => Decide(d.state, u, n).allowed
         /\ u < t + d.retryAfter => ~Decide(d.state, u, n).allowed
<1>1. algorithm \in Kinds
  BY ConfigAssumption
<1>2. CASE algorithm = "token_bucket"
  <2>1. Slack = 1
    BY <1>2 DEF Slack
  <2>. QED  BY <1>2, <2>1, TokenRetryHonest DEF Decide, States, Retries
<1>3. ASSUME algorithm # "token_bucket", NEW r \in Int
      PROVE  t + r + Slack = t + r
  BY <1>3 DEF Slack
<1>4. CASE algorithm = "leaky_bucket"
  BY <1>3, <1>4, LeakyRetryHonest DEF Decide, States, Retries
<1>5. CASE algorithm = "fixed_window"
  BY <1>3, <1>5, FixedRetryHonest DEF Decide, States, Retries
<1>6. CASE algorithm = "sliding_window"
  BY <1>6 DEF Retries
<1>7. CASE algorithm = "gcra"
  BY <1>3, <1>7, CellRetryHonest DEF Decide, States
<1>. QED  BY <1>1, <1>2, <1>4, <1>5, <1>6, <1>7 DEF Kinds

(* From the reset time and the slack on, what a fresh key grants the       *)
(* stored one grants.                                                      *)
LEMMA ResetHonest ==
  ASSUME algorithm \in Algorithms, algorithm # "sliding_window", NEW s \in States,
         NEW t \in Int, NEW n \in Nat \ {0}, CaughtUp(s, t),
         NEW u \in Int, Decide(s, t, n).resetTime + Slack <= u, NEW m \in Nat \ {0},
         Decide(Fresh(u), u, m).allowed
  PROVE  Decide(Decide(s, t, n).state, u, m).allowed
<1>1. algorithm \in Kinds
  BY ConfigAssumption
<1> DEFINE d == Decide(s, t, n)
<1>2. d.state \in States
  BY DecideIsState
<1>3. CASE algorithm = "token_bucket"
  <2>1. /\ s \in TB!Buckets /\ d.state \in TB!Buckets /\ d = TB!Decide(s, t, n) /\ s.last <= t
        /\ Slack = 1
    BY <1>2, <1>3 DEF States, Decide, CaughtUp, Slack
  <2>0. d.resetTime + Slack <= u
    OBVIOUS
  <2>2. TB!Refill(d.state, u).tokens = TB!Full
    <3> HIDE DEF d
    <3>1. d.resetTime \in Int /\ \A v \in Int : d.resetTime + 1 <= v => TB!Refill(d.state, v).tokens = TB!Full
      BY <2>1, TokenResetHonest
    <3>. QED  BY <2>0, <2>1, <3>1
  <2>3. TB!Fresh(u) \in TB!Buckets /\ TB!Decide(TB!Fresh(u), u, m).allowed
    BY <1>3, TokenFresh DEF Decide, Fresh
  <2>4. RefillPeriod * m <= TB!Refill(TB!Fresh(u), u).tokens
    BY <2>3, TokenTells
  <2>5. TB!Refill(TB!Fresh(u), u).tokens \in 0 .. TB!Full
    BY <2>3, TokenRefill DEF TB!Buckets
  <2>6. RefillPeriod * m <= TB!Full
    BY <2>4, <2>5, FullIsNat, ConfigAssumption DEF TB!ValidConfig
  <2> HIDE DEF d
  <2>7. TB!Decide(d.state, u, m).allowed
    BY <2>1, <2>2, <2>6, TokenTells
  <2>. QED  BY <1>3, <2>7 DEF Decide, d
<1>4. CASE algorithm = "leaky_bucket"
  <2>1. /\ s \in LB!Buckets /\ d.state \in LB!Buckets /\ d = LB!Decide(s, t, n) /\ s.last <= t
        /\ Slack = 0
    BY <1>2, <1>4 DEF States, Decide, CaughtUp, Slack
  <2>0. d.resetTime + Slack <= u
    OBVIOUS
  <2>2. LB!Leak(d.state, u).queue = 0
    <3> HIDE DEF d
    <3>1. d.resetTime \in Int /\ \A v \in Int : d.resetTime <= v => LB!Leak(d.state, v).queue = 0
      BY <2>1, LeakyResetHonest
    <3>2. d.resetTime <= u
      BY <2>0, <2>1, <3>1
    <3>. QED  BY <3>1, <3>2
  <2>3. LB!Fresh(u) \in LB!Buckets /\ LB!Decide(LB!Fresh(u), u, m).allowed
    BY <1>4, LeakyConstants DEF Decide, Fresh, LB!Fresh, LB!Buckets
  <2>4. LB!Leak(LB!Fresh(u), u).queue = 0
    BY DEF LB!Leak, LB!Fresh
  <2>5. 0 + m <= Capacity
    BY <2>3, <2>4, LeakyDecides
  <2> HIDE DEF d
  <2>6. LB!Decide(d.state, u, m).allowed
    BY <2>1, <2>2, <2>5, LeakyDecides
  <2>. QED  BY <1>4, <2>6 DEF Decide, d
<1>5. CASE algorithm = "fixed_window"
  <2>1. /\ s \in FW!Counters /\ d.state \in FW!Counters /\ d = FW!Decide(s, t, n) /\ Slack = 0
    BY <1>2, <1>5 DEF States, Decide, Slack
  <2>0. d.resetTime + Slack <= u
    OBVIOUS
  <2>2. FW!Roll(d.state, u) = FW!Fresh(u)
    <3> HIDE DEF d
    <3>1. d.resetTime \in Int /\ \A v \in Int : d.resetTime <= v => FW!Roll(d.state, v) = FW!Fresh(v)
      BY <2>1, FixedReset
    <3>2. d.resetTime <= u
      BY <2>0, <2>1, <3>1
    <3>. QED  BY <3>1, <3>2
  <2>3. FW!Fresh(u) \in FW!Counters /\ FW!Decide(FW!Fresh(u), u, m).allowed
    BY <1>5, FixedFresh DEF Decide, Fresh
  <2>4. m <= Limit
    BY <2>3, FreshRolls, FixedFreshAllows
  <2> HIDE DEF d
  <2>5. FW!Decide(d.state, u, m).allowed
    BY <2>1, <2>2, <2>4, FixedFreshAllows
  <2>. QED  BY <1>5, <2>5 DEF Decide, d
<1>6. CASE algorithm = "gcra"
  <2>1. /\ s \in GC!Cells /\ d.state \in GC!Cells /\ d = GC!Decide(s, t, n) /\ Slack = 0
    BY <1>2, <1>6 DEF States, Decide, Slack
  <2>2. d.state.tat \in Int /\ d.resetTime = d.state.tat /\ GC!DelayTolerance \in Nat
    <3> HIDE DEF d
    <3>. QED  BY <2>1, CellTells, CellDecides
  <2>3. d.state.tat <= u + GC!DelayTolerance
    <3> HIDE DEF d
    <3>. QED  BY <2>1, <2>2 DEF d
  <2> HIDE DEF d
  <2>4. GC!Decide(d.state, u, m).allowed
    BY <2>1, <2>3, CellConforms
  <2>. QED  BY <1>6, <2>4 DEF Decide, d
<1>. QED  BY <1>1, <1>3, <1>4, <1>5, <1>6 DEF Kinds

(* The values of a key's state a theorem about its decisions needs.        *)
LEMMA KeyReady ==
  ASSUME TypeOK, stored # NoState
  PROVE  /\ algorithm \in Algorithms /\ algorithm \in Kinds /\ stored \in States
         /\ Ns \subseteq Nat \ {0} /\ \A skew \in Skews : now + skew \in Int
BY KeyTypes DEF TypeOK

(* A denied request costs nothing: what it writes back decides every later *)
(* request of its node as the untouched state would have (Allow of each    *)
(* algorithm, on its way to a denial).                                     *)
THEOREM LimitedKeyDenialIsFree == Spec => []DenialIsFree
<1>1. TypeOK => DenialIsFree
  <2> SUFFICES ASSUME TypeOK, stored # NoState, ~IsLog, NEW n \in Ns, NEW m \in Ns,
                      NEW skew \in Skews, NEW wait \in 0 .. MaxTime - Start,
                      ~Decide(stored, now + skew, n).allowed
               PROVE  Decide(Decide(stored, now + skew, n).state, now + skew + wait, m).allowed
                        <=> Decide(stored, now + skew + wait, m).allowed
    BY DEF DenialIsFree
  <2> DEFINE t == now + skew
  <2>1. /\ stored \in States /\ algorithm \in Algorithms /\ t \in Int
        /\ n \in Nat \ {0} /\ m \in Nat \ {0}
    BY KeyReady
  <2>2. t + wait \in Int /\ t <= t + wait
    <3>1. wait \in Nat
      BY ClockAssumption
    <3> HIDE DEF t
    <3>. QED  BY <2>1, <3>1
  <2>3. algorithm = "sliding_window" => ~SW!IsLog(stored)
    BY DEF IsLog
  <2> HIDE DEF t
  <2>. QED  BY <2>1, <2>2, <2>3, DenialFree DEF t
<1>. QED  BY <1>1, LimitedKeyTypeOK, PTL

(* What the caller of a granted request is told to remain is exactly what  *)
(* could still be granted at that moment (convertResult and Allow).        *)
THEOREM LimitedKeyRemainingIsSpendable == Spec => []RemainingIsSpendable
<1>1. TypeOK => RemainingIsSpendable
  BY KeyReady, Spendable DEF RemainingIsSpendable
<1>. QED  BY <1>1, LimitedKeyTypeOK, PTL

(* A denied request that could ever be granted is granted on its own after *)
(* RetryAfter, a truncated tick apart, and not before (calculateRetryAfter *)
(* and its like).                                                          *)
THEOREM LimitedKeyRetryAfterHonest == Spec => []RetryAfterHonest
<1>1. TypeOK => RetryAfterHonest
  <2> SUFFICES ASSUME TypeOK, stored # NoState, NEW n \in Ns, NEW skew \in Skews,
                      ~Decide(stored, now + skew, n).allowed, Retries(stored, now + skew, n)
               PROVE  LET t == now + skew
                          d == Decide(stored, t, n)
                      IN /\ Decide(d.state, t + d.retryAfter + Slack, n).allowed
                         /\ \A w \in 0 .. d.retryAfter - 1 : ~Decide(d.state, t + w, n).allowed
    BY DEF RetryAfterHonest
  <2> DEFINE t == now + skew
             d == Decide(stored, t, n)
  <2>1. /\ stored \in States /\ algorithm \in Algorithms /\ t \in Int /\ n \in Nat \ {0}
    BY KeyReady
  <2> HIDE DEF t
  <2>2. \A u \in Int : t <= u =>
          /\ d.retryAfter \in Int
          /\ t + d.retryAfter + Slack <= u => Decide(d.state, u, n).allowed
          /\ u < t + d.retryAfter => ~Decide(d.state, u, n).allowed
    BY <2>1, RetryHonest DEF t
  <2>3. d.retryAfter \in Int /\ Slack \in {0, 1}
    BY <2>1, <2>2 DEF Slack
  <2> HIDE DEF d
  <2>4. t <= t + d.retryAfter + Slack
    <3>1. ~Decide(d.state, t, n).allowed
      <4>1. algorithm = "sliding_window" => ~SW!IsLog(stored)
        BY DEF Retries
      <4>2. t <= t
        BY <2>1
      <4>. QED  BY <2>1, <4>1, <4>2, DenialFree DEF t, d
    <3>2. ~(t + d.retryAfter + Slack <= t)
      BY <2>1, <2>2, <3>1
    <3>. QED  BY <2>1, <2>3, <3>2
  <2>5. Decide(d.state, t + d.retryAfter + Slack, n).allowed
    BY <2>1, <2>2, <2>3, <2>4
  <2>6. \A w \in 0 .. d.retryAfter - 1 : ~Decide(d.state, t + w, n).allowed
    BY <2>1, <2>2, <2>3
  <2>. QED  BY <2>5, <2>6 DEF d, t
<1>. QED  BY <1>1, LimitedKeyTypeOK, PTL

(* A key left alone until the reset time its caller was told grants what a *)
(* fresh one would (calculateResetTime and its like).                      *)
LEMMA ResetTimeIsInt ==
  ASSUME algorithm \in Algorithms, algorithm # "sliding_window", NEW s \in States,
         NEW t \in Int, NEW n \in Nat \ {0}, CaughtUp(s, t)
  PROVE  Decide(s, t, n).resetTime \in Int
<1>1. algorithm \in Kinds
  BY ConfigAssumption
<1>2. CASE algorithm = "token_bucket"
  BY <1>2, TokenResetHonest DEF Decide, States, CaughtUp
<1>3. CASE algorithm = "leaky_bucket"
  BY <1>3, LeakyResetHonest DEF Decide, States, CaughtUp
<1>4. CASE algorithm = "fixed_window"
  BY <1>4, FixedReset DEF Decide, States
<1>5. CASE algorithm = "gcra"
  BY <1>5, CellTells, CellDecides DEF Decide, States
<1>. QED  BY <1>1, <1>2, <1>3, <1>4, <1>5 DEF Kinds

(* A key left alone until the reset time its caller was told grants what a *)
(* fresh one would, give or take the token bucket's truncated tick, once   *)
(* the clock of that time has caught up (calculateResetTime and its like). *)
THEOREM LimitedKeyResetTimeHonest == Spec => []ResetTimeHonest
<1>1. TypeOK => ResetTimeHonest
  <2> SUFFICES ASSUME TypeOK, stored # NoState, algorithm # "sliding_window",
                      NEW n \in Ns, NEW m \in Ns, NEW skew \in Skews,
                      CaughtUp(stored, now + skew),
                      NEW u, u = Decide(stored, now + skew, n).resetTime + Slack,
                      Decide(Fresh(u), u, m).allowed
               PROVE  Decide(Decide(stored, now + skew, n).state, u, m).allowed
    BY DEF ResetTimeHonest
  <2> DEFINE t == now + skew
  <2>1. /\ stored \in States /\ algorithm \in Algorithms /\ t \in Int
        /\ n \in Nat \ {0} /\ m \in Nat \ {0}
    BY KeyReady
  <2>2. CaughtUp(stored, t) /\ u = Decide(stored, t, n).resetTime + Slack
    OBVIOUS
  <2> HIDE DEF t
  <2>3. Decide(stored, t, n).resetTime \in Int /\ Slack \in Int
    BY <2>1, <2>2, ResetTimeIsInt DEF Slack
  <2>4. u \in Int /\ Decide(stored, t, n).resetTime + Slack <= u
    BY <2>2, <2>3
  <2>5. Decide(Decide(stored, t, n).state, u, m).allowed
    BY <2>1, <2>2, <2>4, ResetHonest
  <2>. QED  BY <2>5 DEF t
<1>. QED  BY <1>1, LimitedKeyTypeOK, PTL

(* One window after a full one, what is granted at once is at most the     *)
(* share of the window that has passed (estimateCount, advanceWindows).    *)
THEOREM LimitedKeyPreviousStillCounts == Spec => []PreviousStillCounts
<1>1. TypeOK => PreviousStillCounts
  <2> SUFFICES ASSUME TypeOK, algorithm = "sliding_window", stored # NoState, ~IsLog,
                      stored.cur = Limit, NEW n \in Ns, NEW e \in 0 .. Window - 1,
                      Decide(stored, stored.start + Window + e, n).allowed
               PROVE  Window * (n - 1) < Limit * e
    BY DEF PreviousStillCounts
  <2>1. stored \in SW!Counters /\ n \in Nat \ {0}
    BY KeyReady, CountersAreNoLogs DEF States, IsLog
  <2>. QED  BY <2>1, SlidingPrevious DEF Decide
<1>. QED  BY <1>1, LimitedKeyTypeOK, PTL

(* For the rest of the window in which a log is migrated nothing is        *)
(* granted that the log's times would not leave room for (migrateState).   *)
THEOREM LimitedKeyMigrationKeepsCharge == Spec => []MigrationKeepsCharge
<1>1. TypeOK => MigrationKeepsCharge
  <2> SUFFICES ASSUME TypeOK, IsLog, NEW n \in Ns, NEW m \in Ns, NEW skew \in Skews,
                      NEW u \in now + skew .. SW!Align(now + skew) + Window - 1,
                      Decide(Decide(stored, now + skew, n).state, u, m).allowed
               PROVE  LET d == Decide(stored, now + skew, n)
                          granted == IF d.allowed THEN n ELSE 0
                      IN SW!Recent(stored, u) + granted + m <= Limit
    BY DEF MigrationKeepsCharge
  <2> DEFINE t == now + skew
  <2>1. /\ stored \in SW!LogsAt(Start) /\ algorithm = "sliding_window"
        /\ n \in Nat \ {0} /\ m \in Nat \ {0} /\ t \in Int
    BY KeyReady, CountersAreNoLogs DEF States, IsLog
  <2>2. SW!Align(t) \in Int /\ Window \in Nat
    BY <2>1, AlignIsInt, ConfigAssumption DEF SW!ValidConfig
  <2>3. u \in t .. SW!Align(t) + Window - 1
    OBVIOUS
  <2>4. SW!Decide(SW!Decide(stored, t, n).state, u, m).allowed
    BY <2>1 DEF Decide
  <2> HIDE DEF t
  <2>5. u \in Int /\ t <= u /\ u < SW!Align(t) + Window
    BY <2>1, <2>2, <2>3
  <2>6. SW!Recent(stored, u) + Granted(SW!Decide(stored, t, n), n) + m <= Limit
    BY <2>1, <2>4, <2>5, SlidingMigrationKeeps
  <2>. QED  BY <2>1, <2>6 DEF Granted, Decide, t
<1>. QED  BY <1>1, LimitedKeyTypeOK, PTL

(* No key is locked out for longer than a burst, the largest request and a *)
(* clock's error: the arrival time was reached by the clock that moved it  *)
(* on (GCRA's test of conformance and its increment).                      *)
THEOREM LimitedKeyLockoutBound == Spec => []LockoutBound
<1>1. TypeOK /\ Dated => LockoutBound
  <2> SUFFICES ASSUME TypeOK, Dated, algorithm = "gcra", stored # NoState
               PROVE  stored.tat <= now + MaxSkew + GC!DelayTolerance + Period * MaxCost
    BY DEF LockoutBound
  <2>1. /\ stored.tat \in Int /\ GC!DelayTolerance \in Nat /\ Period * MaxCost \in Nat
        /\ TTL \in Nat /\ MaxSkew \in Nat /\ now \in Nat /\ deadline \in Nat
    BY KeyTypes, KeyReady, CellConstants DEF States, GC!Cells
  <2>2. Reached(stored) = stored.tat - GC!DelayTolerance - Period * MaxCost
    BY DEF Reached
  <2>3. deadline <= now + TTL /\ Reached(stored) + TTL <= deadline + MaxSkew
    BY DEF Dated
  <2>. QED  BY <2>1, <2>2, <2>3
<1>. QED  BY <1>1, LimitedKeyTypeOK, SpecDated, PTL

-----------------------------------------------------------------------------
(* An expired key.  Its state has been left alone for so long that what it *)
(* grants a request is what a fresh one grants.                            *)

(* A fresh token bucket is a full one: the configuration either starts it  *)
(* full or leaves it to the default.                                       *)
StartsFull == algorithm = "token_bucket" => InitialTokens \in {0, Capacity}

LEMMA TokenFullAgain ==
  ASSUME NEW b \in TB!Buckets, NEW t \in Int, NEW idle \in Int, NEW n \in Nat \ {0},
         b.last + idle <= t, TB!Full <= RefillRate * idle, InitialTokens \in {0, Capacity}
  PROVE  TB!Decide(b, t, n).allowed <=> TB!Decide(TB!Fresh(t), t, n).allowed
<1>1. /\ b.last \in Int /\ b.tokens \in Nat /\ TB!Full \in Nat \ {0}
      /\ RefillRate \in Nat \ {0} /\ RefillPeriod \in Nat \ {0}
  BY FullIsNat, ConfigAssumption DEF TB!ValidConfig, TB!Buckets
<1>2. 0 <= idle
  <2>1. CASE idle < 0
    <3>1. RefillRate * idle <= RefillRate * 0
      BY <1>1, <2>1, MulMono
    <3>. QED  BY <1>1, <3>1
  <2>. QED  BY <2>1
<1>3. RefillRate * idle <= RefillRate * (t - b.last)
  BY <1>1, MulMono
<1>4. TB!Refill(b, t).tokens = TB!Full
  <2>1. RefillRate * idle \in Int /\ RefillRate * (t - b.last) \in Int
    BY <1>1
  <2>2. TB!Full <= b.tokens + RefillRate * (t - b.last)
    BY <1>1, <1>3, <2>1
  <2>. QED  BY <1>1, <1>2, <2>2, RefillTo
<1>5. TB!Refill(TB!Fresh(t), t).tokens = TB!Full
  <2>1. TB!Refill(TB!Fresh(t), t) = TB!Fresh(t)
    <3>1. TB!Fresh(t) \in TB!Buckets /\ t <= TB!Fresh(t).last
      BY TokenFresh
    <3>. QED  BY <3>1, TokenRefill
  <2>2. TB!Fresh(t).tokens = TB!Full
    BY ConfigAssumption DEF TB!Fresh, TB!Full, TB!ValidConfig
  <2>. QED  BY <2>1, <2>2
<1>. QED  BY <1>4, <1>5, TokenFresh, TokenTells

LEMMA LeakyEmptyAgain ==
  ASSUME NEW b \in LB!Buckets, NEW t \in Int, NEW n \in Nat \ {0},
         b.last + LeakPeriod * LB!Periods(Capacity) <= t
  PROVE  LB!Decide(b, t, n).allowed <=> LB!Decide(LB!Fresh(t), t, n).allowed
<1>1. LB!Leak(b, t).queue = 0
  BY LeakyConstants, LeakedOut DEF LB!Buckets
<1>2. LB!Fresh(t) \in LB!Buckets /\ LB!Leak(LB!Fresh(t), t).queue = 0
  BY LeakyConstants DEF LB!Fresh, LB!Buckets, LB!Leak
<1>. QED  BY <1>1, <1>2, LeakyDecides

LEMMA FixedNewAgain ==
  ASSUME NEW c \in FW!Counters, NEW t \in Int, NEW n \in Nat \ {0}, c.start + Window <= t
  PROVE  FW!Decide(c, t, n).allowed <=> FW!Decide(FW!Fresh(t), t, n).allowed
<1>1. FW!Roll(c, t) = FW!Fresh(t)
  BY DEF FW!Roll
<1>. QED  BY <1>1, FixedFresh, FreshRolls, FixedFreshAllows

LEMMA SlidingNewAgain ==
  ASSUME NEW c \in SW!Counters \cup SW!LogsAt(Start), NEW t \in Int, NEW n \in Nat \ {0},
         (IF SW!IsLog(c) THEN Start ELSE c.start) + 2 * Window <= t
  PROVE  SW!Decide(c, t, n).allowed <=> SW!Decide(SW!Fresh(t), t, n).allowed
<1> DEFINE w == SW!Advance(SW!Migrate(c, t), t)
           f == SW!Fresh(t)
           v == SW!Advance(SW!Migrate(f, t), t)
<1>1. Window \in Nat \ {0} /\ Limit \in Nat \ {0} /\ Start \in Int
  BY ConfigAssumption, ClockAssumption DEF SW!ValidConfig
<1>2. f \in SW!Counters /\ ~SW!IsLog(f) /\ f.prev = 0 /\ f.cur = 0 /\ f.start = SW!Align(t)
  <2>1. f \in SW!Counters
    BY SlidingFresh
  <2>. QED  BY <2>1, CountersAreNoLogs DEF SW!Fresh
<1>3. v = f
  <2>1. SW!Align(t) \in Int /\ t < SW!Align(t) + Window
    BY AlignIsAligned
  <2> HIDE DEF f
  <2>2. ~(f.start + Window <= t) /\ ~(f.start + 2 * Window <= t)
    BY <1>1, <1>2, <2>1
  <2>. QED  BY <1>2, <2>2, SlidingMoves
<1>4. w \in SW!Counters /\ w.prev = 0 /\ w.cur = 0
  <2>1. w \in SW!Counters
    BY SlidingDecides
  <2>2. CASE SW!IsLog(c)
    <3>1. c \in SW!LogsAt(Start)
      BY <2>2, CountersAreNoLogs
    <3>2. SW!Recent(c, t) = 0
      <4>1. Start < t - Window /\ t <= t
        BY <1>1, <2>2
      <4>. QED  BY <3>1, <4>1, RecentFalls
    <3>. QED  BY <2>1, <2>2, <3>2, SlidingMoves
  <2>3. CASE ~SW!IsLog(c)
    <3>1. c.start \in Int /\ c.start + 2 * Window <= t
      BY <2>3, CountersAreNoLogs DEF SW!Counters
    <3>2. ~(t < c.start + Window) /\ ~(t < c.start + 2 * Window)
      BY <1>1, <3>1
    <3>3. w = SW!Fresh(t)
      BY <2>3, <3>2, SlidingMoves
    <3>. QED  BY <1>2, <2>1, <3>3
  <2>. QED  BY <2>2, <2>3
<1>5. SW!Estimate(w, t) = 0 /\ SW!Estimate(v, t) = 0
  <2>1. SW!Estimate(w, t) = w.cur
    BY <1>4, EmptyWeighsNothing
  <2>2. SW!Estimate(f, t) = f.cur
    BY <1>2, EmptyWeighsNothing
  <2>. QED  BY <1>2, <1>3, <1>4, <2>1, <2>2
<1> HIDE DEF w, v, f
<1>6. SW!Decide(c, t, n).allowed <=> 0 + n <= Limit
  BY <1>5, SlidingDecides DEF w
<1>7. SW!Decide(f, t, n).allowed <=> 0 + n <= Limit
  BY <1>2, <1>5, SlidingDecides DEF v
<1>. QED  BY <1>6, <1>7 DEF f

LEMMA IdleIsFresh ==
  ASSUME algorithm \in Algorithms, StartsFull, Outlived, TTL # 0, TTL \in Nat, MaxSkew \in Nat,
         NEW s \in States, NEW t \in Int, Reached(s) \in Int,
         Reached(s) + (TTL - 2 * MaxSkew) <= t, NEW n \in Nat \ {0}
  PROVE  Decide(s, t, n).allowed <=> Decide(Fresh(t), t, n).allowed
<1> DEFINE idle == TTL - 2 * MaxSkew
<1>1. algorithm \in Kinds
  BY ConfigAssumption
<1>2. CASE algorithm = "token_bucket"
  <2>1. /\ s \in TB!Buckets /\ InitialTokens \in {0, Capacity} /\ Reached(s) = s.last
        /\ TB!Full <= RefillRate * idle /\ s.last + idle <= t /\ idle \in Int
    BY <1>2 DEF States, StartsFull, Reached, Outlived, TB!Outlived
  <2> HIDE DEF idle
  <2>2. TB!Decide(s, t, n).allowed <=> TB!Decide(TB!Fresh(t), t, n).allowed
    BY <2>1, TokenFullAgain
  <2>. QED  BY <1>2, <2>2 DEF Decide, Fresh
<1>3. CASE algorithm = "leaky_bucket"
  <2>1. /\ s \in LB!Buckets /\ s.last \in Int
        /\ s.last + idle <= t /\ idle \in Int
        /\ LeakPeriod * LB!Periods(Capacity) <= idle
    BY <1>3 DEF States, Reached, Outlived, LB!Outlived
  <2> HIDE DEF idle
  <2>2. LeakPeriod * LB!Periods(Capacity) \in Int
    <3>1. LB!Periods(Capacity) \in Int
      BY LeakyConstants, DivIsInt DEF LB!Periods
    <3>. QED  BY <3>1, LeakyConstants
  <2>3. s.last + LeakPeriod * LB!Periods(Capacity) <= t
    BY <2>1, <2>2
  <2>4. LB!Decide(s, t, n).allowed <=> LB!Decide(LB!Fresh(t), t, n).allowed
    BY <2>1, <2>3, LeakyEmptyAgain
  <2>. QED  BY <1>3, <2>4 DEF Decide, Fresh
<1>4. CASE algorithm = "fixed_window"
  <2>1. s \in FW!Counters /\ s.start \in Int /\ s.start + idle <= t /\ idle \in Int
    BY <1>4 DEF States, Reached, FW!Counters
  <2>2. Window + 2 * MaxSkew <= TTL /\ Window \in Nat
    BY <1>4, ConfigAssumption DEF Outlived, FW!Outlived, FW!ValidConfig
  <2>3. s.start + Window <= t
    BY <2>1, <2>2
  <2>4. FW!Decide(s, t, n).allowed <=> FW!Decide(FW!Fresh(t), t, n).allowed
    BY <2>1, <2>3, FixedNewAgain
  <2>. QED  BY <1>4, <2>4 DEF Decide, Fresh
<1>5. CASE algorithm = "sliding_window"
  <2>1. s \in SW!Counters \cup SW!LogsAt(Start)
    BY <1>5 DEF States
  <2>2. Reached(s) = IF SW!IsLog(s) THEN Start ELSE s.start
    BY <1>5 DEF Reached
  <2>3. 2 * Window + 2 * MaxSkew <= TTL /\ Window \in Nat
    BY <1>5, ConfigAssumption DEF Outlived, SW!Outlived, SW!ValidConfig
  <2>4. Reached(s) + 2 * Window <= t
    BY <2>3
  <2>5. SW!Decide(s, t, n).allowed <=> SW!Decide(SW!Fresh(t), t, n).allowed
    BY <2>1, <2>2, <2>4, SlidingNewAgain
  <2>. QED  BY <1>5, <2>5 DEF Decide, Fresh
<1>6. CASE algorithm = "gcra"
  <2>1. s \in GC!Cells /\ s.tat \in Int /\ GC!Fresh(t) \in GC!Cells /\ GC!Fresh(t).tat = t
    BY <1>6 DEF States, GC!Cells, GC!Fresh
  <2>2. /\ Reached(s) = s.tat - GC!DelayTolerance - Period * MaxCost
        /\ GC!DelayTolerance \in Nat /\ Period * MaxCost \in Nat
        /\ GC!DelayTolerance + Period * MaxCost + 2 * MaxSkew <= TTL
    BY <1>6, CellConstants DEF Reached, Outlived, GC!Outlived
  <2>3. s.tat <= t + GC!DelayTolerance /\ t <= t + GC!DelayTolerance
    BY <2>1, <2>2
  <2>4. GC!Decide(s, t, n).allowed /\ GC!Decide(GC!Fresh(t), t, n).allowed
    BY <2>1, <2>3, CellConforms
  <2>. QED  BY <1>6, <2>4 DEF Decide, Fresh
<1>. QED  BY <1>1, <1>2, <1>3, <1>4, <1>5, <1>6 DEF Kinds

LEMMA AllowedIsBoolean ==
  ASSUME algorithm \in Algorithms, NEW s \in States, NEW t \in Int, NEW n \in Nat \ {0}
  PROVE  Decide(s, t, n).allowed \in BOOLEAN
<1>1. algorithm \in Kinds
  BY ConfigAssumption
<1>2. CASE algorithm = "token_bucket"
  BY <1>2, TokenDecide DEF Decide, States
<1>3. CASE algorithm = "leaky_bucket"
  BY <1>3, LeakyDecides DEF Decide, States
<1>4. CASE algorithm = "fixed_window"
  BY <1>4, FixedDecides DEF Decide, States
<1>5. CASE algorithm = "sliding_window"
  BY <1>5, SlidingDecides DEF Decide, States
<1>6. CASE algorithm = "gcra"
  BY <1>6, CellDecides DEF Decide, States
<1>. QED  BY <1>1, <1>2, <1>3, <1>4, <1>5, <1>6 DEF Kinds

(* Whether an expired key is still found or already gone changes no        *)
(* decision, when the key outlives its state and a fresh token bucket is a *)
(* full one (the memory backend drops a key after its deadline, Redis at   *)
(* it; Reset of each algorithm).                                           *)
THEOREM LimitedKeyExpiryUnobservable == Spec => [](StartsFull => ExpiryUnobservable)
<1>1. TypeOK /\ Dated => (StartsFull => ExpiryUnobservable)
  <2> SUFFICES ASSUME TypeOK, Dated, StartsFull, Outlived, stored # NoState,
                      NoState \in Readable, NEW n \in Ns, NEW skew \in Skews
               PROVE  Decide(stored, now + skew, n).allowed
                        = Decide(Fresh(now + skew), now + skew, n).allowed
    BY DEF ExpiryUnobservable
  <2> DEFINE t == now + skew
  <2>1. /\ stored \in States /\ algorithm \in Algorithms /\ algorithm \in Kinds
        /\ t \in Int /\ n \in Nat \ {0} /\ Fresh(t) \in States
    BY KeyReady, FreshIsState
  <2>2. /\ TTL \in Nat /\ MaxSkew \in Nat /\ now \in Nat /\ deadline \in Nat
        /\ now - MaxSkew <= t
    BY KeyTypes
  <2>3. TTL # 0 /\ deadline <= now
    BY ReadableIs
  <2>4. Reached(stored) \in Int /\ Reached(stored) + TTL <= deadline + MaxSkew
    BY <2>1, StateReached DEF Dated
  <2> HIDE DEF t
  <2>5. Reached(stored) + (TTL - 2 * MaxSkew) <= t
    BY <2>1, <2>2, <2>3, <2>4
  <2>6. Decide(stored, t, n).allowed <=> Decide(Fresh(t), t, n).allowed
    BY <2>1, <2>2, <2>3, <2>4, <2>5, IdleIsFresh
  <2>7. Decide(stored, t, n).allowed \in BOOLEAN /\ Decide(Fresh(t), t, n).allowed \in BOOLEAN
    BY <2>1, AllowedIsBoolean
  <2>. QED  BY <2>6, <2>7 DEF t
<1>. QED  BY <1>1, LimitedKeyTypeOK, SpecDated, PTL

-----------------------------------------------------------------------------
(* What the headers say, in whole seconds.                                 *)

(* Rounded to whole seconds and half a second on, no duration is cut       *)
(* short; and the second after a time cut to its second is after it.       *)
LEMMA SecondsSuffice ==
  ASSUME NEW ticks \in Int
  PROVE  /\ TicksPerSecond \in Nat \ {0}
         /\ Seconds(ticks) \in Int
         /\ ticks <= TicksPerSecond * Seconds(ticks) + TicksPerSecond \div 2
         /\ ticks < TicksPerSecond * (ticks \div TicksPerSecond + 1)
<1> DEFINE T == TicksPerSecond
           w == ticks \div T
           r == ticks % T
           h == T \div 2
<1>1. T \in Nat \ {0} /\ T % 2 = 0
  BY TicksAssumption
<1> HIDE DEF T
<1>2. w \in Int /\ T * w <= ticks /\ ticks < T * w + T
  BY <1>1, DivBounds
<1>3. r \in Int /\ ticks = T * w + r
  BY <1>1
<1>4. h \in Int /\ T = 2 * h
  BY <1>1
<1>5. Seconds(ticks) = w + 1 \/ (Seconds(ticks) = w /\ 2 * r <= T)
  BY <1>1, <1>3 DEF Seconds, T
<1> HIDE DEF w, r, h
<1>6. T * w \in Int /\ T * (w + 1) = T * w + T
  BY <1>1, <1>2
<1>7. CASE Seconds(ticks) = w + 1
  BY <1>1, <1>2, <1>4, <1>6, <1>7 DEF w, h, T
<1>8. CASE Seconds(ticks) = w /\ 2 * r <= T
  <2>1. ticks <= T * w + h
    BY <1>1, <1>2, <1>3, <1>4, <1>6, <1>8
  <2>. QED  BY <1>1, <1>2, <1>4, <1>6, <1>8, <2>1 DEF w, h, T
<1>. QED  BY <1>5, <1>7, <1>8

(* A client that waits the seconds of Retry-After and half a second more   *)
(* is granted, and one that stays away until the second after              *)
(* X-RateLimit-Reset finds the key as good as new (FormatHeaders over      *)
(* convertResult and calculateRetryAfter).                                 *)
THEOREM HeadersAreHonest == Spec => []HeadersHonest
<1>1. ASSUME TypeOK, stored # NoState, NEW n \in Ns, NEW skew \in Skews
      PROVE  LET t == now + skew
                 d == Decide(stored, t, n)
                 back == t + TicksPerSecond * Seconds(d.retryAfter) + TicksPerSecond \div 2
             IN SendsRetryAfter(d) /\ Retries(stored, t, n) =>
                  Decide(d.state, back + Slack, n).allowed
  <2> DEFINE t == now + skew
             d == Decide(stored, t, n)
             wait == TicksPerSecond * Seconds(d.retryAfter)
             half == TicksPerSecond \div 2
             back == t + wait + half
  <2> SUFFICES ASSUME ~d.allowed, d.retryAfter > 0, Retries(stored, t, n)
               PROVE  Decide(d.state, back + Slack, n).allowed
    BY <1>1 DEF SendsRetryAfter
  <2>1. stored \in States /\ algorithm \in Algorithms /\ t \in Int /\ n \in Nat \ {0}
    BY <1>1, KeyReady
  <2>2. ~d.allowed /\ d.retryAfter > 0 /\ Retries(stored, t, n)
    OBVIOUS
  <2> HIDE DEF t
  <2>3. \A u \in Int : t <= u =>
          /\ d.retryAfter \in Int
          /\ t + d.retryAfter + Slack <= u => Decide(d.state, u, n).allowed
    BY <2>1, <2>2, RetryHonest
  <2>4. d.retryAfter \in Int
    BY <2>1, <2>3
  <2> HIDE DEF d
  <2>5. wait \in Int /\ half \in Int /\ d.retryAfter <= wait + half
    BY <2>4, SecondsSuffice, DivIsInt
  <2>6. Slack \in {0, 1}
    BY DEF Slack
  <2> HIDE DEF wait, half
  <2>7. back + Slack \in Int /\ t <= back + Slack /\ t + d.retryAfter + Slack <= back + Slack
    BY <2>1, <2>2, <2>4, <2>5, <2>6
  <2> HIDE DEF back
  <2>8. Decide(d.state, back + Slack, n).allowed
    BY <2>3, <2>7
  <2>. QED  BY <2>8 DEF back, wait, half, d, t
<1>2. ASSUME TypeOK, stored # NoState, NEW n \in Ns, NEW m \in Ns, NEW skew \in Skews,
             algorithm # "sliding_window", CaughtUp(stored, now + skew)
      PROVE  LET d == Decide(stored, now + skew, n)
                 later == TicksPerSecond * (ResetHeader(d) + 1)
             IN Decide(Fresh(later), later, m).allowed => Decide(d.state, later, m).allowed
  <2> DEFINE t == now + skew
             d == Decide(stored, t, n)
             later == TicksPerSecond * (ResetHeader(d) + 1)
  <2>1. /\ stored \in States /\ algorithm \in Algorithms /\ t \in Int
        /\ n \in Nat \ {0} /\ m \in Nat \ {0} /\ CaughtUp(stored, t)
    BY <1>2, KeyReady
  <2> HIDE DEF t
  <2>2. d.resetTime \in Int
    BY <1>2, <2>1, ResetTimeIsInt
  <2> HIDE DEF d
  <2>3. later \in Int /\ d.resetTime < later
    <3> DEFINE q == d.resetTime \div TicksPerSecond
    <3>1. TicksPerSecond \in Nat \ {0} /\ d.resetTime < TicksPerSecond * (q + 1)
      BY <2>2, SecondsSuffice
    <3>2. q \in Int
      BY <2>2, <3>1, DivIsInt
    <3>3. later = TicksPerSecond * (q + 1)
      BY DEF ResetHeader
    <3> HIDE DEF q, later
    <3>. QED  BY <3>1, <3>2, <3>3
  <2>4. Slack \in {0, 1}
    BY DEF Slack
  <2> HIDE DEF later
  <2>5. d.resetTime + Slack <= later
    BY <2>2, <2>3, <2>4
  <2>6. Decide(Fresh(later), later, m).allowed => Decide(d.state, later, m).allowed
    BY <1>2, <2>1, <2>3, <2>5, ResetHonest DEF d
  <2>. QED  BY <2>6 DEF later, d, t
<1>3. TypeOK => HeadersHonest
  BY <1>1, <1>2 DEF HeadersHonest
<1>. QED  BY <1>3, LimitedKeyTypeOK, PTL

=============================================================================
