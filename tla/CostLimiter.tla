----------------------------- MODULE CostLimiter -----------------------------
(***************************************************************************)
(* The cost limiter of limiters/cost/cost.go over a custom backend, which  *)
(* it updates with backend.AtomicUpdate.  Its algorithm counts what it     *)
(* grants, up to Limit.  A caller looks the cost of its operation up in    *)
(* one section and asks for that many in a later one.                      *)
(***************************************************************************)
EXTENDS CustomBackend

CONSTANTS
  KeyTTL,      \* CostConfig.KeyTTL, 0 for none
  Operations,
  HasFailover  \* a failover handler is configured

VARIABLES
  costMap,
  limiterClosed,
  request,     \* per caller: where its request is, or how it ended
  price,       \* per caller: the cost it has looked up, or 0
  granted      \* history: what the key has been granted since it was started

limiterVars == <<costMap, limiterClosed, request, price>>

ASSUME CostAssumption == KeyTTL \in TTLs /\ HasFailover \in BOOLEAN

(* The algorithm behind the limiter.                                       *)
ASSUME AlgorithmAssumption ==
  /\ Limit \in Nat /\ Foreign \notin 0 .. Limit
  /\ Args \subseteq Nat
  /\ Values = CounterValues /\ Results = CounterResults
  /\ \A v \in Contents, n \in Args : Fn(v, n) = CounterFn(v, n)

(* Open is allowed with an error, error and closed are denied with one.    *)
Outcomes == {"allowed", "denied", "open", "error", "closed"}

CostInit ==
  /\ BackendInit
  /\ costMap \in [Operations -> Args]
  /\ limiterClosed = FALSE
  /\ request = [c \in Callers |-> "idle"]
  /\ price = [c \in Callers |-> 0]
  /\ granted = 0

At(c, label) == request' = [request EXCEPT ![c] = label]

NoRequest(c) == request[c] \in Outcomes \cup {"idle"}

(* The history of what is granted stops counting beyond the limit.         *)
Capped(n) == IF n > Limit THEN Limit + 1 ELSE n

-----------------------------------------------------------------------------
GetOperationCost(c, op) ==
  /\ NoRequest(c)
  /\ price' = [price EXCEPT ![c] = costMap[op]]
  /\ At(c, "priced")
  /\ UNCHANGED <<backendVars, costMap, limiterClosed, granted>>

(* AllowWithCost looks under the lock whether the limiter is closed.       *)
AllowWithCost(c, n) ==
  /\ IF limiterClosed
       THEN At(c, "closed") /\ UNCHANGED call
       ELSE At(c, "update") /\ AtomicUpdate(c, n, KeyTTL)
  /\ UNCHANGED <<now, native, entry, closed, histories, costMap, limiterClosed, granted>>

AllowPriced(c) ==
  /\ request[c] = "priced"
  /\ AllowWithCost(c, price[c])
  /\ price' = [price EXCEPT ![c] = 0]

(* The update, which runs the algorithm.                                   *)
UpdateStep(c) ==
  /\ Update(c) \/ GetThenFn(c) \/ ThenSet(c)
  /\ granted' = IF call'[c].phase = "committed" /\ call'[c].result.allowed
                  THEN Capped(granted + call[c].arg) ELSE granted
  /\ UNCHANGED limiterVars

UpdateReturns(c) ==
  /\ Return(c)
  /\ At(c, IF call[c].result.allowed THEN "allowed" ELSE "denied")
  /\ UNCHANGED <<now, native, entry, closed, histories, costMap, limiterClosed, price, granted>>

(* A failed update is reported to the failover handler, if there is one,   *)
(* and let through if that answers that the fallback is active.            *)
UpdateFailed(c) ==
  /\ request[c] = "update"
  /\ call[c].phase = "failed"
  /\ At(c, "error") \/ (HasFailover /\ At(c, "open"))
  /\ UNCHANGED <<backendVars, costMap, limiterClosed, price, granted>>

-----------------------------------------------------------------------------
SetOperationCost(op, n) ==
  /\ ~limiterClosed
  /\ costMap' = [costMap EXCEPT ![op] = n]
  /\ UNCHANGED <<backendVars, limiterClosed, request, price, granted>>

(* Reset deletes the key, which a closed backend refuses.                  *)
Reset ==
  /\ ~limiterClosed
  /\ Delete
  /\ granted' = 0
  /\ UNCHANGED limiterVars

(* Close closes the backend, once, under the limiter's lock.               *)
CloseLimiter ==
  /\ ~limiterClosed
  /\ limiterClosed' = TRUE
  /\ Close
  /\ UNCHANGED <<now, native, call, histories, costMap, request, price, granted>>

(* What others do with the backend.                                        *)
ClearBackend == Clear /\ granted' = 0 /\ UNCHANGED limiterVars

CloseBackend ==
  Close /\ UNCHANGED <<now, native, call, histories, limiterVars, granted>>

UseBackend ==
  /\ Cleanup \/ Import \/ \E ttl \in TTLs : IncrementAndGet(ttl)
  /\ UNCHANGED <<limiterVars, granted>>

(* What has been granted counts until the key expires.                     *)
TimePasses ==
  /\ Tick
  /\ granted' = IF ExpiredAt(entry, now') THEN 0 ELSE granted
  /\ UNCHANGED limiterVars

-----------------------------------------------------------------------------
(* While no call that had been overtaken by another has written, what has  *)
(* been granted since the key was started stays within the limit, and no   *)
(* charge of it is lost: a backend with an Update of its own counts        *)
(* exactly that, one without at least that (it may go on from a count that *)
(* has expired since it was read).  Stale prices, expiry, cleanup, resets, *)
(* closing and calls of other kinds change nothing of it (AtomicUpdate).   *)
ChargesKept ==
  ~lost =>
    /\ granted <= Limit
    /\ ~closed /\ Live # Foreign =>
         LET count == IF Live = Missing THEN 0 ELSE Live
         IN IF native THEN granted = count ELSE granted <= count
=============================================================================
