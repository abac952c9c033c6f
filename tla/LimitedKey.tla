----------------------------- MODULE LimitedKey -----------------------------
(***************************************************************************)
(* One rate-limited key, driven by every node that shares its backend.     *)
(*                                                                         *)
(* A node's AllowN runs the algorithm inside the backend's atomic update:  *)
(* the stored state, or a fresh one when the key is missing or expired, is *)
(* handed to the algorithm together with the clock of that node, and what  *)
(* the algorithm returns is written back with a new deadline, whether the  *)
(* request was granted or not.  Which of the five algorithms it is is      *)
(* decided when the limiter is made.                                       *)
(*                                                                         *)
(* Time is counted in ticks.  now is real time, which the backend's expiry *)
(* uses; a node reads now + skew.                                          *)
(***************************************************************************)
EXTENDS Integers

CONSTANTS
  Algorithms,     \* those a limiter may be made with
  Capacity, RefillRate, RefillPeriod, InitialTokens,  \* TokenBucketConfig
  LeakRate, LeakPeriod,                               \* LeakyBucketConfig, with Capacity
  Limit, Window,  \* FixedWindowConfig and SlidingWindowConfig; GCRAConfig has a Limit too
  Period, BurstSize, MaxCost,                         \* GCRAConfig; no request is larger
  Costs,          \* per algorithm: the n of AllowN(ctx, key, n)
  KeyTTL,         \* per algorithm: time to live of the stored state, 0 for none
  MaxSkew,        \* how far the clock of a node may be from real time
  Start,          \* real time at which the system starts
  MaxTime,        \* bound: real time stops here
  NoState         \* the key is not in the backend

VARIABLES
  algorithm, \* the limiter's algorithm
  now,       \* real time
  stored,    \* the algorithm's state in the backend, or NoState
  deadline,  \* when stored expires (meaningless without a KeyTTL)
  since,     \* history: a moment, any
  used       \* history: what has been granted from since on

vars == <<algorithm, now, stored, deadline, since, used>>

TB == INSTANCE TokenBucket
LB == INSTANCE LeakyBucket
FW == INSTANCE FixedWindow
SW == INSTANCE SlidingWindow
GC == INSTANCE GCRA

Kinds == {"token_bucket", "leaky_bucket", "fixed_window", "sliding_window", "gcra"}

ASSUME ConfigAssumption ==
  /\ Algorithms \subseteq Kinds
  /\ TB!ValidConfig /\ LB!ValidConfig /\ FW!ValidConfig /\ SW!ValidConfig /\ GC!ValidConfig
  /\ MaxCost \in Nat
  /\ Costs \in [Algorithms -> SUBSET (Nat \ {0})]
  /\ "gcra" \in Algorithms => Costs["gcra"] \subseteq 1 .. MaxCost
  /\ KeyTTL \in [Algorithms -> Nat]

(* No clock reads a time before the epoch.                                 *)
ASSUME ClockAssumption ==
  /\ MaxSkew \in Nat
  /\ Start \in Nat
  /\ MaxTime \in Nat
  /\ Start <= MaxTime
  /\ MaxSkew <= Start

States ==
  CASE algorithm = "token_bucket"   -> TB!Buckets
    [] algorithm = "leaky_bucket"   -> LB!Buckets
    [] algorithm = "fixed_window"   -> FW!Counters
    [] algorithm = "sliding_window" -> SW!Counters \cup SW!LogsAt(Start)
    [] algorithm = "gcra"           -> GC!Cells

ASSUME NoStateAssumption ==
  NoState \notin TB!Buckets \cup LB!Buckets \cup FW!Counters \cup SW!Counters
                   \cup SW!LogsAt(Start) \cup GC!Cells

(* algorithm.Reset at a node's time.                                       *)
Fresh(t) ==
  CASE algorithm = "token_bucket"   -> TB!Fresh(t)
    [] algorithm = "leaky_bucket"   -> LB!Fresh(t)
    [] algorithm = "fixed_window"   -> FW!Fresh(t)
    [] algorithm = "sliding_window" -> SW!Fresh(t)
    [] algorithm = "gcra"           -> GC!Fresh(t)

(* algorithm.Allow of a state, a node's time and a cost.                   *)
Decide(s, t, n) ==
  CASE algorithm = "token_bucket"   -> TB!Decide(s, t, n)
    [] algorithm = "leaky_bucket"   -> LB!Decide(s, t, n)
    [] algorithm = "fixed_window"   -> FW!Decide(s, t, n)
    [] algorithm = "sliding_window" -> SW!Decide(s, t, n)
    [] algorithm = "gcra"           -> GC!Decide(s, t, n)

Times == Start .. MaxTime

Skews == -MaxSkew .. MaxSkew

Ns == Costs[algorithm]

TTL == KeyTTL[algorithm]

Init ==
  /\ algorithm \in Algorithms
  /\ now = Start
  /\ \/ stored = NoState
     \/ algorithm = "sliding_window" /\ stored \in SW!LogsAt(Start)
  /\ deadline = Start + TTL
  /\ since \in Times
  /\ used = 0

(* What an atomic update may find: the memory backend treats an entry as   *)
(* missing strictly after its deadline, Redis from the deadline on.        *)
Readable ==
  IF TTL = 0 THEN {stored}
  ELSE {s \in {stored} : now <= deadline} \cup {s \in {NoState} : now >= deadline}

(* A state the update works on: never missing, a missing one is reset.     *)
StateAt(s, t) == IF s = NoState THEN Fresh(t) ELSE s

(* Mutant: the time to live runs from the first write of the key.          *)
AllowN_KeepsDeadline(n, skew) ==
  LET t == now + skew IN
  \E s \in Readable :
    LET d == Decide(StateAt(s, t), t, n) IN
    /\ stored' = d.state
    /\ deadline' = IF s = NoState THEN now + TTL ELSE deadline
    /\ used' = IF d.allowed /\ since <= now THEN used + n ELSE used
    /\ UNCHANGED <<algorithm, now, since>>

AllowN(n, skew) ==
  LET t == now + skew IN
  \E s \in Readable :
    LET d == Decide(StateAt(s, t), t, n) IN
    /\ stored' = d.state
    /\ deadline' = now + TTL
    /\ used' = IF d.allowed /\ since <= now THEN used + n ELSE used
    /\ UNCHANGED <<algorithm, now, since>>

(* An operator resets the key: the state is deleted, and the accounting of *)
(* what the key was granted starts over.                                   *)
Reset ==
  /\ stored' = NoState
  /\ used' = 0
  /\ UNCHANGED <<algorithm, now, deadline, since>>

Tick ==
  /\ now < MaxTime
  /\ now' = now + 1
  /\ UNCHANGED <<algorithm, stored, deadline, since, used>>

Next ==
  \/ \E n \in Ns, skew \in Skews : AllowN(n, skew)
  \/ Reset
  \/ Tick

Spec == Init /\ [][Next]_vars

-----------------------------------------------------------------------------
(* What each algorithm promises, and when.                                 *)
Within(k, from, to) ==
  CASE algorithm = "token_bucket"   -> TB!Within(k, from, to)
    [] algorithm = "leaky_bucket"   -> LB!Within(k, from, to)
    [] algorithm = "fixed_window"   -> FW!Within(k, from, to)
    [] algorithm = "sliding_window" -> SW!Within(k, from, to)
    [] algorithm = "gcra"           -> GC!Within(k, from, to)

Outlived ==
  \/ TTL = 0
  \/ CASE algorithm = "token_bucket"   -> TB!Outlived(TTL, MaxSkew)
       [] algorithm = "leaky_bucket"   -> LB!Outlived(TTL, MaxSkew)
       [] algorithm = "fixed_window"   -> FW!Outlived(TTL, MaxSkew)
       [] algorithm = "sliding_window" -> SW!Outlived(TTL, MaxSkew)
       [] algorithm = "gcra"           -> GC!Outlived(TTL, MaxSkew)

(* The sliding window's RetryAfter is not a promise.                       *)
Retries(s, t, n) ==
  CASE algorithm = "token_bucket"   -> TB!Retries(s, t, n)
    [] algorithm = "leaky_bucket"   -> LB!Retries(s, t, n)
    [] algorithm = "fixed_window"   -> FW!Retries(s, t, n)
    [] algorithm = "sliding_window" -> FALSE
    [] algorithm = "gcra"           -> TRUE

(* The node's clock has reached the time of the stored bucket.             *)
CaughtUp(s, t) == algorithm \in {"token_bucket", "leaky_bucket"} => s.last <= t

(* The token bucket truncates its times to whole ticks.                    *)
Slack == IF algorithm = "token_bucket" THEN 1 ELSE 0

(* The decisions a node of some clock would make now.                      *)
Decisions(n) == {Decide(stored, now + skew, n) : skew \in Skews}

IsLog == algorithm = "sliding_window" /\ stored # NoState /\ SW!IsLog(stored)

(* A stored state is one of its algorithm: no bucket is over-full or in    *)
(* debt, no counter beyond its limit, whatever the order of the clocks.    *)
TypeOK ==
  /\ algorithm \in Algorithms
  /\ now \in Times
  /\ stored \in States \cup {NoState}
  /\ deadline \in Nat
  /\ since \in Times
  /\ used \in Nat

(* From any moment on, the nodes together grant at most what the         *)
(* algorithm promises for the time their clocks have passed since: an      *)
(* instant is refilled or leaked once and a window counted once, whoever   *)
(* reports it, and the expiry of the key hands nothing out twice (Allow    *)
(* of each algorithm, the update of an expired key).                       *)
AdmissionBound ==
  since <= now => Within(used, since - MaxSkew, now + MaxSkew)

(* A denied request that could ever be granted is granted on its own after *)
(* RetryAfter, give or take the token bucket's truncated tick, and not a   *)
(* tick before (calculateRetryAfter and its like against what refills,     *)
(* leaks or rolls over).                                                   *)
RetryAfterHonest ==
  stored # NoState =>
    \A n \in Ns, skew \in Skews :
      LET t == now + skew
          d == Decide(stored, t, n)
      IN (~d.allowed /\ Retries(stored, t, n)) =>
           /\ Decide(d.state, t + d.retryAfter + Slack, n).allowed
           /\ \A w \in 0 .. d.retryAfter - 1 : ~Decide(d.state, t + w, n).allowed

(* A key left alone until the reset time its caller was told grants what a *)
(* fresh one would, when the clock it was told by has caught up with the   *)
(* key (calculateResetTime and its like).                                  *)
ResetTimeHonest ==
  (stored # NoState /\ algorithm # "sliding_window") =>
    \A n, m \in Ns, skew \in Skews :
      LET t == now + skew
          d == Decide(stored, t, n)
          u == d.resetTime + Slack
      IN (CaughtUp(stored, t) /\ Decide(Fresh(u), u, m).allowed) =>
           Decide(d.state, u, m).allowed

(* The Remaining the caller of a granted request is told is exactly what   *)
(* could still be granted at that moment (convertResult's rounding against *)
(* Allow's comparison).                                                    *)
RemainingIsSpendable ==
  (stored # NoState /\ algorithm # "gcra") =>
    \A n, m \in Ns, skew \in Skews :
      LET t == now + skew
          d == Decide(stored, t, n)
      IN d.allowed => (Decide(d.state, t, m).allowed <=> m <= d.remaining)

(* A denied request costs nothing: what it writes back, a refill, a leak   *)
(* or a new window on its way included, decides every later request of     *)
(* that node as the untouched state would have.                            *)
DenialIsFree ==
  (stored # NoState /\ ~IsLog) =>
    \A n, m \in Ns, skew \in Skews, wait \in 0 .. MaxTime - Start :
      LET t == now + skew
          d == Decide(stored, t, n)
      IN ~d.allowed =>
           (Decide(d.state, t + wait, m).allowed <=> Decide(stored, t + wait, m).allowed)

(* Whether an expired key is still found or already gone changes no        *)
(* decision, when its time to live is long enough for its algorithm.       *)
ExpiryUnobservable ==
  (Outlived /\ stored # NoState /\ NoState \in Readable) =>
    \A n \in Ns, skew \in Skews :
      LET t == now + skew IN
      Decide(stored, t, n).allowed = Decide(Fresh(t), t, n).allowed

(* An upgrade hands out no new limit: for the rest of the window in which  *)
(* a log is migrated, no request is granted that, with the log's times     *)
(* still within Window of it, would exceed Limit (migrateState).           *)
MigrationKeepsCharge ==
  IsLog =>
    \A n, m \in Ns, skew \in Skews :
      LET t == now + skew
          d == Decide(stored, t, n)
          granted == IF d.allowed THEN n ELSE 0
      IN \A u \in t .. SW!Align(t) + Window - 1 :
           Decide(d.state, u, m).allowed => SW!Recent(stored, u) + granted + m <= Limit

(* The rate of the previous window still counts in the next: one window    *)
(* after a full one, what is granted at once is at most the share of the   *)
(* window that has passed, rounded up (estimateCount, advanceWindows).     *)
PreviousStillCounts ==
  (algorithm = "sliding_window" /\ stored # NoState /\ ~IsLog /\ stored.cur = Limit) =>
    \A n \in Ns, e \in 0 .. Window - 1 :
      Decide(stored, stored.start + Window + e, n).allowed => Window * (n - 1) < Limit * e

(* The arrival time never runs ahead of real time by more than one burst,  *)
(* the largest request and a clock's error: no key is locked out for       *)
(* longer (GCRA's test of conformance and its increment).                  *)
LockoutBound ==
  (algorithm = "gcra" /\ stored # NoState) =>
    stored.tat <= now + MaxSkew + GC!DelayTolerance + Period * MaxCost

-----------------------------------------------------------------------------
(* What the documentation promises of the sliding window: in no interval   *)
(* of length Window is more than Limit granted.                            *)
NeverOverLimitInWindow ==
  now - since < Window => used <= Limit

(* What the documentation promises: a denied request that could ever be    *)
(* granted is granted on its own after RetryAfter.                         *)
RetryAfterSuffices ==
  (stored # NoState /\ ~IsLog) =>
    \A n \in Ns :
      LET d == Decide(stored, now, n)
      IN (~d.allowed /\ n <= Limit) =>
           Decide(d.state, now + d.retryAfter, n).allowed

(* What the documentation promises of GCRA: no burst is larger than        *)
(* BurstSize.                                                              *)
BurstWithinSize == now = since => used <= BurstSize

(* What the documentation promises of GCRA: Limit requests per Period, so  *)
(* that a request of one is never told to wait longer than Period / Limit. *)
LimitPerPeriod ==
  stored # NoState =>
    LET d == Decide(stored, now, 1) IN
    ~d.allowed => Limit * d.retryAfter <= Period
=============================================================================
