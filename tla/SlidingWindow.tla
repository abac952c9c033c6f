---------------------------- MODULE SlidingWindow ---------------------------
(***************************************************************************)
(* The two-counter sliding window of algorithm/sliding_window.go: its      *)
(* states and what its Allow decides and writes back.  No clock reads a    *)
(* time before the epoch.                                                  *)
(*                                                                         *)
(* The key may still hold what an older release wrote, the log of the      *)
(* times it granted, which the first request migrates to counters.         *)
(***************************************************************************)
EXTENDS Integers, FiniteSets

CONSTANTS Limit, Window

(* What ValidateConfig accepts.  Precision, which it looks at too, decides *)
(* nothing: only descriptions read it.                                     *)
ValidConfig ==
  /\ Limit \in Nat \ {0}
  /\ Window \in Nat \ {0}

Counters == [cur : 0 .. Limit, prev : 0 .. Limit, start : Int]

(* What an older release has written by the time s: at most Limit times.   *)
LogsAt(s) == [stamps : {S \in SUBSET (s - Window .. s) : Cardinality(S) <= Limit}]

IsLog(c) == "stamps" \in DOMAIN c

(* The start of the aligned window t lies in.                              *)
Align(t) == (t \div Window) * Window

Fresh(t) == [cur |-> 0, prev |-> 0, start |-> Align(t)]

(* How many times of a log are within the window that ends at t.           *)
Recent(log, t) == Cardinality({s \in log.stamps : t - Window <= s})

(* Mutant: the log is charged to the previous window.                      *)
Migrate_ToPrevious(c, t) ==
  IF IsLog(c) THEN [Fresh(t) EXCEPT !.prev = Recent(c, t)] ELSE c

Migrate(c, t) ==
  IF IsLog(c) THEN [Fresh(t) EXCEPT !.cur = Recent(c, t)] ELSE c

(* Mutant: one window on, the counters start from nothing.                 *)
Advance_ForgetsPrevious(c, t) == IF t < c.start + Window THEN c ELSE Fresh(t)

Advance(c, t) ==
  IF t < c.start + Window THEN c
  ELSE IF t < c.start + 2 * Window
    THEN [cur |-> 0, prev |-> c.cur, start |-> c.start + Window]
    ELSE Fresh(t)

(* Elapsed time in the window, clamped to it.                              *)
Elapsed(c, t) ==
  IF t < c.start THEN 0 ELSE IF t > c.start + Window THEN Window ELSE t - c.start

(* The estimate weighs the previous window and is truncated to an int.     *)
Estimate(c, t) == (c.prev * (Window - Elapsed(c, t))) \div Window + c.cur

(* With a previous count, the time its weight takes to decay by the        *)
(* excess, truncated but no less than a tick, which stands for the         *)
(* shortest wait, a millisecond; without, the rest of the window.          *)
RetryAfter(c, t, n) ==
  LET excess == Estimate(c, t) + n - Limit IN
  IF c.prev > excess * Window THEN 1
  ELSE IF c.prev > 0 THEN (excess * Window) \div c.prev
  ELSE IF c.start + Window > t THEN c.start + Window - t ELSE 0

Decide(c, t, n) ==
  LET w == Advance(Migrate(c, t), t)
      counted == [w EXCEPT !.cur = @ + n]
      left == Limit - Estimate(counted, t)
  IN
  IF Estimate(w, t) + n <= Limit
    THEN [allowed |-> TRUE, remaining |-> IF left > 0 THEN left ELSE 0, retryAfter |-> 0,
          state |-> counted]
    ELSE [allowed |-> FALSE, remaining |-> 0, retryAfter |-> RetryAfter(w, t, n), state |-> w]

-----------------------------------------------------------------------------
(* The promise: Limit in each aligned window the clocks name on their way  *)
(* from one time to another.                                               *)
Within(k, from, to) == k <= Limit * (1 + to \div Window - from \div Window)

(* Counters kept for ttl outlive the next window too, on every clock.      *)
Outlived(ttl, skew) == 2 * Window + 2 * skew <= ttl
=============================================================================
