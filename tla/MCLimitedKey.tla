---------------------------- MODULE MCLimitedKey ----------------------------
(* A key under each of the algorithms.                                     *)
EXTENDS RateLimitHeaders

(* Capacity and limits of 2 or 3 are met and overrun by these.             *)
SmallCosts ==
  [a \in Algorithms |->
     CASE a = "token_bucket"   -> {1, 2, 4}
       [] a = "leaky_bucket"   -> {1, 3}
       [] a = "fixed_window"   -> {1, 3}
       [] a = "sliding_window" -> {1, 2}
       [] a = "gcra"           -> {1, 2}]

(* The shortest times to live that outlive each algorithm's states.        *)
ShortTTLs ==
  [a \in Algorithms |->
     CASE a = "token_bucket"   -> 4
       [] a = "leaky_bucket"   -> 6
       [] a = "fixed_window"   -> 5
       [] a = "sliding_window" -> 8
       [] a = "gcra"           -> 8]

(* One at a time, without expiry.                                          *)
Single == [a \in Algorithms |-> {1}]

Pairs == [a \in Algorithms |-> {1, 2}]

(* One of them more than the capacity holds.                               *)
Oversized == [a \in Algorithms |-> {1, 4}]

NoTTLs == [a \in Algorithms |-> 0]
=============================================================================
