-------------------------- MODULE MCCompositeLimiter ------------------------
EXTENDS CompositeLimiter, TLC

(* Callers are alike, and so are the names of limits that are all          *)
(* configured at first.                                                    *)
Symmetry == Permutations(Callers) \cup Permutations(Limits)
=============================================================================
