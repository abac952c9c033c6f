----------------------------- MODULE LeakyBucket ----------------------------
(***************************************************************************)
(* The leaky bucket of algorithm/leaky_bucket.go: its states and what its  *)
(* Allow decides and writes back.                                          *)
(***************************************************************************)
EXTENDS Integers

CONSTANTS Capacity, LeakRate, LeakPeriod

(* What ValidateConfig accepts.                                            *)
ValidConfig ==
  /\ Capacity \in Nat \ {0}
  /\ LeakRate \in Nat \ {0}
  /\ LeakPeriod \in Nat \ {0}

(* The queue, and the clock time up to which it has been leaked.           *)
Buckets == [queue : 0 .. Capacity, last : Int]

Fresh(t) == [queue |-> 0, last |-> t]

(* Whole periods leak, and the leak time moves by whole periods; an empty  *)
(* queue takes over any clock.                                             *)
Leak(b, t) ==
  LET periods == (t - b.last) \div LeakPeriod IN
  IF b.queue = 0 THEN [b EXCEPT !.last = t]
  ELSE IF t <= b.last THEN b
  ELSE [queue |-> IF b.queue > periods * LeakRate THEN b.queue - periods * LeakRate ELSE 0,
        last |-> b.last + periods * LeakPeriod]

(* The periods it takes to leak k requests, rounded up.                    *)
Periods(k) == (k + LeakRate - 1) \div LeakRate

(* Go's remainder takes the sign of the dividend: elapsed may be negative. *)
GoMod(a, m) == IF a >= 0 THEN a % m ELSE -((-a) % m)

(* Mutant: a whole period is waited for the next leak.                     *)
RetryAfter_WholePeriods(b, t, n) == Periods(b.queue + n - Capacity) * LeakPeriod

RetryAfter(b, t, n) ==
  LeakPeriod - GoMod(t - b.last, LeakPeriod)
    + (Periods(b.queue + n - Capacity) - 1) * LeakPeriod

(* Mutant: periods rounded down, as if a part of a period emptied the rest. *)
ResetTime_RoundedDown(b, t) ==
  IF b.queue = 0 THEN t ELSE t + (b.queue \div LeakRate) * LeakPeriod

ResetTime(b, t) ==
  IF b.queue = 0 THEN t ELSE t + Periods(b.queue) * LeakPeriod

Decide(b, t, n) ==
  LET r == Leak(b, t)
      queued == [r EXCEPT !.queue = @ + n]
  IN
  IF r.queue + n <= Capacity
    THEN [allowed |-> TRUE, remaining |-> Capacity - queued.queue, retryAfter |-> 0,
          resetTime |-> ResetTime(queued, t), state |-> queued]
    ELSE [allowed |-> FALSE, remaining |-> Capacity - r.queue, retryAfter |-> RetryAfter(r, t, n),
          resetTime |-> ResetTime(r, t), state |-> r]

-----------------------------------------------------------------------------
(* The promise: k may be granted while clocks go from one time to another. *)
Within(k, from, to) == LeakPeriod * k <= LeakPeriod * Capacity + LeakRate * (to - from + LeakPeriod)

(* A bucket kept for ttl is empty before it expires.                       *)
Outlived(ttl, skew) == LeakPeriod * Periods(Capacity) <= ttl - 2 * skew

(* A node whose clock is less than a period behind tells n when to retry.  *)
Retries(b, t, n) == b.last - t < LeakPeriod /\ n <= Capacity
=============================================================================
