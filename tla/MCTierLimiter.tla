---------------------------- MODULE MCTierLimiter ----------------------------
EXTENDS TierLimiter, TLC

(* A free and a pro tier; the second is created at run time where Configured *)
(* has no limit for it.                                                      *)
FreeOnly == [t \in Tiers |-> IF t = DefaultTier THEN 1 ELSE 0]
FreeAndPro == [t \in Tiers |-> IF t = DefaultTier THEN 1 ELSE 2]
=============================================================================
