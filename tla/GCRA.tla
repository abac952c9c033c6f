-------------------------------- MODULE GCRA --------------------------------
(***************************************************************************)
(* The generic cell rate algorithm of algorithm/gcra.go: its states and    *)
(* what its Allow decides and writes back.                                 *)
(***************************************************************************)
EXTENDS Integers

CONSTANTS
  Period, BurstSize,
  MaxCost    \* no request is larger

(* What ValidateConfig accepts.                                            *)
ValidConfig ==
  /\ Period \in Nat \ {0}
  /\ BurstSize \in Nat \ {0}

(* The theoretical arrival time.                                           *)
Cells == [tat : Int]

DelayTolerance == Period * (BurstSize - 1)

Fresh(t) == [tat |-> t]

(* A TAT in the past counts as now.                                        *)
Arrival(c, t) == IF c.tat < t THEN t ELSE c.tat

Conforms(c, t) == Arrival(c, t) <= t + DelayTolerance

(* Mutant: a denied request pushes the arrival time on.                    *)
Decide_PenalisesDenied(c, t, n) ==
  IF Conforms(c, t)
    THEN [allowed |-> TRUE, remaining |-> 0, retryAfter |-> 0,
          resetTime |-> Arrival(c, t) + Period * n, state |-> [tat |-> Arrival(c, t) + Period * n]]
    ELSE [allowed |-> FALSE, remaining |-> 0, retryAfter |-> Arrival(c, t) - (t + DelayTolerance),
          resetTime |-> c.tat, state |-> [tat |-> Arrival(c, t) + Period]]

(* The state is the arrival time, and so is the time of reset a caller is  *)
(* told; what remains is not told.                                         *)
Decide(c, t, n) ==
  IF Conforms(c, t)
    THEN [allowed |-> TRUE, remaining |-> 0, retryAfter |-> 0,
          resetTime |-> Arrival(c, t) + Period * n, state |-> [tat |-> Arrival(c, t) + Period * n]]
    ELSE [allowed |-> FALSE, remaining |-> 0, retryAfter |-> Arrival(c, t) - (t + DelayTolerance),
          resetTime |-> c.tat, state |-> c]

-----------------------------------------------------------------------------
(* The promise: one request per period, the burst and the excess of the    *)
(* last request while clocks go from one time to another.                  *)
Within(k, from, to) == Period * k <= to - from + DelayTolerance + Period * MaxCost

(* A cell kept for ttl has its arrival time behind it on every clock.      *)
Outlived(ttl, skew) == DelayTolerance + Period * MaxCost + 2 * skew <= ttl
=============================================================================
