----------------------------- MODULE TokenBucket ----------------------------
(***************************************************************************)
(* The token bucket of algorithm/token_bucket.go: its states and what its  *)
(* Allow decides and writes back.                                          *)
(*                                                                         *)
(* The code keeps tokens as a float64 and adds elapsed / RefillPeriod *    *)
(* RefillRate of them.  Here tokens are counted in units of 1/RefillPeriod *)
(* of a token, so that one tick adds exactly RefillRate units: the model   *)
(* has the code's arithmetic without its rounding.                         *)
(***************************************************************************)
EXTENDS Integers

CONSTANTS Capacity, RefillRate, RefillPeriod, InitialTokens

(* What ValidateConfig accepts.                                            *)
ValidConfig ==
  /\ Capacity \in Nat \ {0}
  /\ RefillRate \in Nat \ {0}
  /\ RefillPeriod \in Nat \ {0}
  /\ InitialTokens \in 0 .. Capacity

Full == Capacity * RefillPeriod

(* Tokens in units of 1/RefillPeriod, and the clock time of the last refill. *)
Buckets == [tokens : 0 .. Full, last : Int]

Fresh(t) ==
  [tokens |-> (IF InitialTokens > 0 THEN InitialTokens ELSE Capacity) * RefillPeriod,
   last   |-> t]

(* Mutant: the last refill follows a clock that reads an earlier time.     *)
Refill_FollowsAnyClock(b, t) ==
  LET grown == b.tokens + (t - b.last) * RefillRate IN
  IF t <= b.last THEN [b EXCEPT !.last = t]
  ELSE [tokens |-> IF grown < Full THEN grown ELSE Full, last |-> t]

Refill(b, t) ==
  LET grown == b.tokens + (t - b.last) * RefillRate IN
  IF t <= b.last THEN b
  ELSE [tokens |-> IF grown < Full THEN grown ELSE Full, last |-> t]

(* Mutant: the last token cannot be spent.                                 *)
CanPay_Strict(b, n) == n * RefillPeriod < b.tokens

CanPay(b, n) == n * RefillPeriod <= b.tokens

(* Both times are truncated to whole ticks.                                *)
RetryAfter(b, n) == (n * RefillPeriod - b.tokens) \div RefillRate

ResetTime(b, t) ==
  IF b.tokens = Full THEN b.last + RefillPeriod ELSE t + (Full - b.tokens) \div RefillRate

(* The tokens left, truncated to an int.                                   *)
Remaining(b) == b.tokens \div RefillPeriod

(* Mutant: a denial stores the refilled tokens but not the time of refill. *)
Decide_KeepsRefillTime(b, t, n) ==
  LET r == Refill(b, t)
      paid == [r EXCEPT !.tokens = @ - n * RefillPeriod]
  IN
  IF CanPay(r, n)
    THEN [allowed |-> TRUE, remaining |-> Remaining(paid), retryAfter |-> 0,
          resetTime |-> ResetTime(paid, t), state |-> paid]
    ELSE [allowed |-> FALSE, remaining |-> Remaining(r), retryAfter |-> RetryAfter(r, n),
          resetTime |-> ResetTime(r, t), state |-> [r EXCEPT !.last = b.last]]

Decide(b, t, n) ==
  LET r == Refill(b, t)
      paid == [r EXCEPT !.tokens = @ - n * RefillPeriod]
  IN
  IF CanPay(r, n)
    THEN [allowed |-> TRUE, remaining |-> Remaining(paid), retryAfter |-> 0,
          resetTime |-> ResetTime(paid, t), state |-> paid]
    ELSE [allowed |-> FALSE, remaining |-> Remaining(r), retryAfter |-> RetryAfter(r, n),
          resetTime |-> ResetTime(r, t), state |-> r]

-----------------------------------------------------------------------------
(* The promise: k may be granted while clocks go from one time to another. *)
Within(k, from, to) == RefillPeriod * k <= Full + RefillRate * (to - from)

(* A bucket kept for ttl is full again before it expires.                  *)
Outlived(ttl, skew) == Full <= RefillRate * (ttl - 2 * skew)

(* A node whose clock has reached the last refill tells n when to retry.   *)
Retries(b, t, n) == b.last <= t /\ n <= Capacity
=============================================================================
