----------------------------- MODULE AtomicStore ----------------------------
(***************************************************************************)
(* What backend.AtomicBackend promises its callers of one key: an Update   *)
(* reads the state, applies the caller's function and writes the result    *)
(* back in one step, and hands the function's result to the caller.        *)
(*                                                                         *)
(* A call whose outcome the caller does not learn (an error) has been      *)
(* applied or has not.  A client that resends a command it has no answer   *)
(* to may apply a call again.                                              *)
(***************************************************************************)
EXTENDS Updates

CONSTANT Resends   \* TRUE: a command without an answer may be sent again

VARIABLES
  store,     \* the key's state, or Missing
  call       \* per caller: the call in progress or its outcome

vars == <<store, call>>

Phases == {"idle", "pending", "committed", "replied", "failed"}

Calls == [phase : Phases, arg : Args, result : Results \cup {NoResult}]

Init ==
  /\ store = Missing
  /\ call \in [Callers -> {c \in Calls : c.phase = "idle" /\ c.result = NoResult}]

(* A caller that has no call in progress makes one.                        *)
Invoke(c, n) ==
  /\ call[c].phase \in {"idle", "replied", "failed"}
  /\ call' = [call EXCEPT ![c] = [phase |-> "pending", arg |-> n, result |-> NoResult]]
  /\ UNCHANGED store

(* The call takes effect.                                                  *)
Commit(c) ==
  LET f == Fn(store, call[c].arg) IN
  /\ call[c].phase = "pending" \/ (Resends /\ call[c].phase = "committed")
  /\ f.ok
  /\ store' = f.state
  /\ call' = [call EXCEPT ![c].phase = "committed", ![c].result = f.result]

(* The caller learns the result of what took effect.                       *)
Reply(c) ==
  /\ call[c].phase = "committed"
  /\ call' = [call EXCEPT ![c].phase = "replied"]
  /\ UNCHANGED store

(* The caller gets an error: the function's own, or that of the way there. *)
Fail(c) ==
  /\ call[c].phase \in {"pending", "committed"}
  /\ call' = [call EXCEPT ![c].phase = "failed", ![c].result = NoResult]
  /\ UNCHANGED store

(* The key expires, is deleted or is set.                                  *)
Overwrite(v) ==
  /\ store' = v
  /\ UNCHANGED call

Next ==
  \/ \E c \in Callers : (\E n \in Args : Invoke(c, n)) \/ Commit(c) \/ Reply(c) \/ Fail(c)
  \/ \E v \in Contents : Overwrite(v)

Spec == Init /\ [][Next]_vars
=============================================================================
