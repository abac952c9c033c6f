----------------------------- MODULE FixedWindow ----------------------------
(***************************************************************************)
(* The fixed window of algorithm/fixed_window.go: its states and what its  *)
(* Allow decides and writes back.  No clock reads a time before the epoch. *)
(***************************************************************************)
EXTENDS Integers

CONSTANTS Limit, Window

(* What ValidateConfig accepts.                                            *)
ValidConfig ==
  /\ Limit \in Nat \ {0}
  /\ Window \in Nat \ {0}

(* The start of a window and what was granted in it.                       *)
Counters == [start : Int, count : 0 .. Limit]

(* The start of the aligned window t lies in.                              *)
Align(t) == (t \div Window) * Window

Fresh(t) == [start |-> Align(t), count |-> 0]

(* A new window starts at or after the end of the stored one.              *)
Roll(c, t) == IF c.start + Window <= t THEN Fresh(t) ELSE c

(* Mutant: the limit is checked before the cost is added.                  *)
Decide_ChecksBefore(c, t, n) ==
  LET w == Roll(c, t) IN
  IF w.count < Limit
    THEN [allowed |-> TRUE, remaining |-> Limit - (w.count + n), retryAfter |-> 0,
          resetTime |-> w.start + Window, state |-> [w EXCEPT !.count = @ + n]]
    ELSE [allowed |-> FALSE, remaining |-> 0, retryAfter |-> w.start + Window - t,
          resetTime |-> w.start + Window, state |-> w]

Decide(c, t, n) ==
  LET w == Roll(c, t) IN
  IF w.count + n <= Limit
    THEN [allowed |-> TRUE, remaining |-> Limit - (w.count + n), retryAfter |-> 0,
          resetTime |-> w.start + Window, state |-> [w EXCEPT !.count = @ + n]]
    ELSE [allowed |-> FALSE, remaining |-> 0, retryAfter |-> w.start + Window - t,
          resetTime |-> w.start + Window, state |-> w]

-----------------------------------------------------------------------------
(* The promise: Limit in each aligned window the clocks name on their way  *)
(* from one time to another.                                               *)
Within(k, from, to) == k <= Limit * (1 + to \div Window - from \div Window)

(* A counter kept for ttl outlives its window, on every node's clock.      *)
Outlived(ttl, skew) == Window + 2 * skew <= ttl

Retries(c, t, n) == n <= Limit
=============================================================================
