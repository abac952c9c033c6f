-------------------------- MODULE CompositeLimiter --------------------------
(***************************************************************************)
(* The composite limiter of limiters/composite/composite.go: requests for  *)
(* one key that must pass several named limits, while limits are added and *)
(* removed, the key is reset and the limiter is closed.                    *)
(*                                                                         *)
(* A request looks at closed and takes its list of limits in two separate  *)
(* sections under the lock, updates the backend once per limit, in the     *)
(* arbitrary order of a Go map, and then looks for the largest limit       *)
(* without the lock.  Each limit's algorithm is a counter here, which the  *)
(* expiry of its window starts again.                                      *)
(***************************************************************************)
EXTENDS Integers

CONSTANTS
  Callers,
  Limits,       \* the names a limit may have
  Configured,   \* CompositeConfig.Limits
  Budget,       \* what the algorithm grants per window of a limit
  HasFailover   \* a failover handler is configured

ASSUME CompositeAssumption ==
  /\ Configured \subseteq Limits /\ Configured # {}
  /\ Budget \in Nat \ {0}
  /\ HasFailover \in BOOLEAN

VARIABLES
  limiters,   \* the names in the map
  closed,
  crashed,    \* the Go runtime has ended the program
  backend,    \* "open", "failing" or "closed"
  counter,    \* per limit: what the backend's state says was granted
  request,    \* per caller: where its AllowN is, or how it ended
  todo,       \* per caller: limits of its list it has not asked yet
  resetting,  \* limits Reset still has to delete
  owed,       \* history, per caller: limits configured since its call
  passed,     \* history, per caller: limits that have granted it
  fresh,      \* history, per caller: those of passed still in their window
  admitted    \* history, per limit: allowed requests it granted this window

calls == <<request, todo>>
history == <<owed, passed, fresh, admitted>>
vars == <<limiters, closed, crashed, backend, counter, calls, resetting, history>>

InFlight == {"list", "check", "largest"}

(* Open is allowed with an error, error and closed are denied with one.    *)
Outcomes == {"allowed", "denied", "open", "error", "closed"}

Init ==
  /\ limiters = Configured
  /\ closed = FALSE
  /\ crashed = FALSE
  /\ backend = "open"
  /\ counter = [l \in Limits |-> 0]
  /\ request = [c \in Callers |-> "idle"]
  /\ todo = [c \in Callers |-> {}]
  /\ resetting = {}
  /\ owed = [c \in Callers |-> {}]
  /\ passed = [c \in Callers |-> {}]
  /\ fresh = [c \in Callers |-> {}]
  /\ admitted = [l \in Limits |-> 0]

At(c, label) == request' = [request EXCEPT ![c] = label]

-----------------------------------------------------------------------------
(* AllowN is called and looks, under the lock, whether the limiter is      *)
(* closed.                                                                 *)
AllowN(c) ==
  /\ ~crashed
  /\ request[c] \notin InFlight
  /\ At(c, IF closed THEN "closed" ELSE "list")
  /\ owed' = [owed EXCEPT ![c] = IF closed THEN {} ELSE limiters]
  /\ passed' = [passed EXCEPT ![c] = {}]
  /\ fresh' = [fresh EXCEPT ![c] = {}]
  /\ UNCHANGED <<limiters, closed, crashed, backend, counter, todo, resetting, admitted>>

(* Under the lock again, it copies the limits.                             *)
ListLimits(c) ==
  /\ ~crashed
  /\ request[c] = "list"
  /\ At(c, "check")
  /\ todo' = [todo EXCEPT ![c] = limiters]
  /\ UNCHANGED <<limiters, closed, crashed, backend, counter, resetting, history>>

(* The update of one limit decides.                                        *)
Pass(c, l) ==
  /\ ~crashed
  /\ request[c] = "check" /\ l \in todo[c]
  /\ backend = "open"
  /\ counter[l] < Budget
  /\ counter' = [counter EXCEPT ![l] = @ + 1]
  /\ todo' = [todo EXCEPT ![c] = @ \ {l}]
  /\ passed' = [passed EXCEPT ![c] = @ \cup {l}]
  /\ fresh' = [fresh EXCEPT ![c] = @ \cup {l}]
  /\ UNCHANGED <<limiters, closed, crashed, backend, request, resetting, owed, admitted>>

(* Mutant: a denied request is given back what it has paid.                *)
Deny_Refunds(c, l) ==
  /\ ~crashed
  /\ request[c] = "check" /\ l \in todo[c]
  /\ backend = "open"
  /\ counter[l] = Budget
  /\ At(c, "denied")
  /\ counter' = [k \in Limits |->
       IF k \in passed[c] /\ counter[k] > 0 THEN counter[k] - 1 ELSE counter[k]]
  /\ todo' = [todo EXCEPT ![c] = {}]
  /\ UNCHANGED <<limiters, closed, crashed, backend, resetting, history>>

(* A limit that denies ends the request; those that have granted it keep   *)
(* what they have charged.                                                 *)
Deny(c, l) ==
  /\ ~crashed
  /\ request[c] = "check" /\ l \in todo[c]
  /\ backend = "open"
  /\ counter[l] = Budget
  /\ At(c, "denied")
  /\ todo' = [todo EXCEPT ![c] = {}]
  /\ UNCHANGED <<limiters, closed, crashed, backend, counter, resetting, history>>

(* The update of one limit fails, of an open backend too: the context is   *)
(* cancelled, the algorithm returns an error, or the answer is lost after  *)
(* the limit was charged.  It is let through while a fallback is active.   *)
CheckFails(c, l) ==
  /\ ~crashed
  /\ request[c] = "check" /\ l \in todo[c]
  /\ \/ UNCHANGED counter
     \/ /\ backend = "open" /\ counter[l] < Budget
        /\ counter' = [counter EXCEPT ![l] = @ + 1]
  /\ \E fallbackActive \in {FALSE, HasFailover} :
       At(c, IF fallbackActive THEN "open" ELSE "error")
  /\ todo' = [todo EXCEPT ![c] = {}]
  /\ UNCHANGED <<limiters, closed, crashed, backend, resetting, history>>

(* Mutant: one limit that grants is enough.                                *)
AllPassed_First(c) ==
  /\ ~crashed
  /\ request[c] = "check" /\ passed[c] # {}
  /\ At(c, "largest")
  /\ UNCHANGED <<limiters, closed, crashed, backend, counter, todo, resetting, history>>

(* No limit is left to ask; getLargestLimit starts to read the map.        *)
AllPassed(c) ==
  /\ ~crashed
  /\ request[c] = "check" /\ todo[c] = {}
  /\ At(c, "largest")
  /\ UNCHANGED <<limiters, closed, crashed, backend, counter, todo, resetting, history>>

(* It has read the map, and the request is allowed.                        *)
Answer(c) ==
  /\ ~crashed
  /\ request[c] = "largest"
  /\ At(c, "allowed")
  /\ admitted' = [l \in Limits |-> IF l \in fresh[c] THEN admitted[l] + 1 ELSE admitted[l]]
  /\ UNCHANGED <<limiters, closed, crashed, backend, counter, todo, resetting, owed, passed, fresh>>

-----------------------------------------------------------------------------
(* The runtime may notice that the map is written while it is iterated     *)
(* over, and ends the program then.                                        *)
WriteMap ==
  crashed' \in {FALSE, \E c \in Callers : request[c] = "largest"}

AddLimit(l) ==
  /\ ~crashed
  /\ ~closed
  /\ l \notin limiters
  /\ limiters' = limiters \cup {l}
  /\ WriteMap
  /\ UNCHANGED <<closed, backend, counter, calls, resetting, history>>

RemoveLimit(l) ==
  /\ ~crashed
  /\ ~closed
  /\ l \in limiters
  /\ limiters' = limiters \ {l}
  /\ WriteMap
  /\ owed' = [c \in Callers |-> owed[c] \ {l}]
  /\ UNCHANGED <<closed, backend, counter, calls, resetting, passed, fresh, admitted>>

(* Close, all of it under the lock, forgets the limits only if the backend *)
(* closes without an error; it writes no map but its variable.             *)
Close ==
  /\ ~crashed
  /\ ~closed
  /\ closed' = TRUE
  /\ \/ backend' = "closed" /\ limiters' = {}
     \/ UNCHANGED <<backend, limiters>>
  /\ UNCHANGED <<crashed, counter, calls, resetting, history>>

(* The state of a limit is gone, and what it has granted with it.          *)
Forget(l) ==
  /\ counter' = [counter EXCEPT ![l] = 0]
  /\ admitted' = [admitted EXCEPT ![l] = 0]
  /\ fresh' = [c \in Callers |-> fresh[c] \ {l}]

(* Reset copies the limits under the lock and deletes their states one     *)
(* after the other; an error ends it.                                      *)
Reset ==
  /\ ~crashed
  /\ ~closed
  /\ resetting = {}
  /\ resetting' = limiters
  /\ UNCHANGED <<limiters, closed, crashed, backend, counter, calls, history>>

ResetLimit(l) ==
  /\ ~crashed
  /\ l \in resetting
  /\ backend = "open"
  /\ Forget(l)
  /\ resetting' = resetting \ {l}
  /\ UNCHANGED <<limiters, closed, crashed, backend, calls, owed, passed>>

ResetFails ==
  /\ ~crashed
  /\ resetting # {}
  /\ resetting' = {}
  /\ UNCHANGED <<limiters, closed, crashed, backend, counter, calls, history>>

-----------------------------------------------------------------------------
(* The window of a limit, the time to live of its state, is over.          *)
Expire(l) ==
  /\ counter[l] > 0
  /\ Forget(l)
  /\ UNCHANGED <<limiters, closed, crashed, backend, calls, resetting, owed, passed>>

(* The backend becomes unreachable, or reachable again.                    *)
BackendChanges ==
  /\ backend' = IF backend = "open" THEN "failing" ELSE "open"
  /\ backend # "closed"
  /\ UNCHANGED <<limiters, closed, crashed, counter, calls, resetting, history>>

Next ==
  \/ \E c \in Callers :
       \/ AllowN(c) \/ ListLimits(c) \/ AllPassed(c) \/ Answer(c)
       \/ \E l \in Limits : Pass(c, l) \/ Deny(c, l) \/ CheckFails(c, l)
  \/ \E l \in Limits : AddLimit(l) \/ RemoveLimit(l) \/ ResetLimit(l) \/ Expire(l)
  \/ Close \/ Reset \/ ResetFails
  \/ BackendChanges

Spec == Init /\ [][Next]_vars

-----------------------------------------------------------------------------
(* The types, and: no limit is charged beyond its budget, and a limiter    *)
(* has no limits once its backend is closed.                               *)
TypeOK ==
  /\ limiters \subseteq Limits
  /\ closed \in BOOLEAN /\ crashed \in BOOLEAN
  /\ backend \in {"open", "failing", "closed"}
  /\ backend = "closed" => closed /\ limiters = {}
  /\ counter \in [Limits -> 0 .. Budget]
  /\ request \in [Callers -> {"idle"} \cup InFlight \cup Outcomes]
  /\ todo \in [Callers -> SUBSET Limits]
  /\ resetting \subseteq Limits
  /\ owed \in [Callers -> SUBSET Limits]
  /\ passed \in [Callers -> SUBSET Limits]
  /\ fresh \in [Callers -> SUBSET Limits]
  /\ admitted \in [Limits -> Nat]

(* While the limiter is open, a request is allowed only if every limit     *)
(* that was configured from its call to its answer has granted it, however *)
(* limits come and go in the meantime (AllowN's copy of the limits and its *)
(* loop).                                                                  *)
EveryLimitAsked ==
  \A c \in Callers : request[c] = "allowed" /\ ~closed => owed[c] \subseteq passed[c]

(* In one window of a limit, no more of the requests it has granted are    *)
(* allowed than its budget, whatever other limits answer, whoever resets   *)
(* the key, and whichever windows begin between a request's limits.        *)
AdmittedWithinEveryLimit == \A l \in Limits : admitted[l] <= Budget

-----------------------------------------------------------------------------
(* What the documentation promises: all limits must be satisfied for a     *)
(* request to be allowed.                                                  *)
AllLimitsSatisfied ==
  \A c \in Callers : request[c] = "allowed" => owed[c] \subseteq passed[c]

(* What the documentation promises: all operations may be called from      *)
(* several goroutines.                                                     *)
GoroutineSafe == ~crashed
=============================================================================
