------------------------------- MODULE Updates ------------------------------
(***************************************************************************)
(* The callers of a backend's Update on one key, and the update function   *)
(* they pass: the limiter's, which runs the algorithm.                     *)
(***************************************************************************)
CONSTANTS
  Callers,
  Args,      \* what a call is made with, the n of AllowN
  Values,    \* the states a key may hold
  Missing,   \* no such key
  Results,   \* what the function returns to the caller
  NoResult,
  Fn(_, _)   \* the update function, of a state or Missing and a call's argument

(* The function fails, and nothing is to be written, or gives the state to *)
(* write and the result to return.                                         *)
ASSUME FnAssumption ==
  \A v \in Values \cup {Missing}, n \in Args :
    /\ Fn(v, n).ok \in BOOLEAN
    /\ Fn(v, n).ok => Fn(v, n).state \in Values /\ Fn(v, n).result \in Results

ASSUME MissingAssumption == Missing \notin Values /\ NoResult \notin Results

Contents == Values \cup {Missing}
=============================================================================
