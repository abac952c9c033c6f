--------------------------- MODULE CounterLimiter ---------------------------
(***************************************************************************)
(* The update function the backends are checked with: a limiter that       *)
(* counts what it grants, up to Limit.  Its results tell apart, as those   *)
(* of the algorithms do, which state they were computed from.              *)
(***************************************************************************)
EXTENDS Updates, Naturals

CONSTANTS Limit, Foreign

(* Foreign is a state of another type, for which the algorithm returns an  *)
(* error.                                                                  *)
CounterValues == 0 .. Limit \cup {Foreign}

CounterResults == [allowed : BOOLEAN, count : 0 .. Limit]

(* The window does not roll over here: its end is the expiry of the state. *)
CounterFn(v, n) ==
  LET count == IF v = Missing THEN 0 ELSE v IN
  IF v = Foreign THEN [ok |-> FALSE]
  ELSE IF count + n <= Limit
    THEN [ok |-> TRUE, state |-> count + n,
          result |-> [allowed |-> TRUE, count |-> count + n]]
    ELSE [ok |-> TRUE, state |-> count,
          result |-> [allowed |-> FALSE, count |-> count]]
=============================================================================
