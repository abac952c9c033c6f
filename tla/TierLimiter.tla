----------------------------- MODULE TierLimiter -----------------------------
(***************************************************************************)
(* The tier limiter of limiters/tier/tier.go on several nodes that share a *)
(* backend.  Each node has a table of tiers and a cache of the tier of     *)
(* each key; with PersistMappings an assignment is also written to the     *)
(* backend, and a node without a cached tier reads it there.               *)
(*                                                                         *)
(* Every step is one section under the limiter's lock, one call of the     *)
(* dynamic limit manager or one call of the backend; SetLimit's test of    *)
(* closed is taken with the section that follows it.  The algorithm is a   *)
(* counter per key that grants Budget until its state expires: tiers have  *)
(* no algorithm of their own.                                              *)
(***************************************************************************)
EXTENDS DynamicLimits

CONSTANTS
  Nodes,
  Callers,      \* goroutines that ask
  Operators,    \* goroutines that administer
  Configured,   \* TierConfig.Tiers: the limit per tier, 0 for no such tier
  DefaultTier,
  NoTier,
  Budget,
  Persist,      \* PersistMappings
  Faulty,       \* calls of the backend may fail
  HasFailover,  \* a failover handler is configured
  MaxEvents     \* bound: operations, closings and restarts

ASSUME TierAssumption ==
  /\ DynamicNodes \subseteq Nodes
  /\ Configured \in [Tiers -> Limits \cup {0}]
  /\ DefaultTier \in Tiers /\ Configured[DefaultTier] # 0
  /\ NoTier \notin Tiers
  /\ Budget \in Nat \ {0}
  /\ MaxEvents \in Nat
  /\ Persist \in BOOLEAN /\ Faulty \in BOOLEAN /\ HasFailover \in BOOLEAN

VARIABLES
  mapping,   \* the backend's __tier_mapping entries
  counter,   \* the backend's states: what each key was granted
  cache,     \* keyTiers of each node
  table,     \* tiers of each node: the limit, 0 for no such tier
  life,      \* "open", "closed" or, when its backend is too, "disconnected"
  request,   \* per caller
  op,        \* per operator
  events,    \* bound: how many there have been
  assigned,  \* history: the tiers each key was assigned to
  settled    \* history: the last assignment a node made while it was not
             \* reading the key's tier from the backend

history == <<assigned, settled>>
vars == <<dynamics, mapping, counter, cache, table, life, request, op, events, history>>

InFlight == {"dynamic", "target", "apply", "lookup", "fetch", "store", "table", "update"}

(* Known is GetKeyTier's answer; unknown is an error for a tier that is    *)
(* not in the table.                                                       *)
Outcomes == {"allowed", "denied", "open", "error", "closed", "unknown", "known"}

Idle == [at |-> "idle"]

(* Due: the key's tier was cached or persisted when the call began, and no *)
(* read of it has failed.                                                  *)
Requests ==
  [at : InFlight \cup Outcomes, kind : {"allow", "get"}, node : Nodes, key : Keys,
   tier : Tiers \cup {NoTier}, limit : Limits \cup {0}, charge : 0 .. Budget, due : BOOLEAN]

Ops ==
  [at : {"assign", "persist"}, node : Nodes, key : Keys, tier : Tiers]
    \cup [at : {"limit"}, node : Nodes, tier : Tiers, limit : Limits]
    \cup [at : {"delete"}, node : Nodes, key : Keys]

Init ==
  /\ DynamicInit
  /\ mapping = [k \in Keys |-> NoTier]
  /\ counter = [k \in Keys |-> 0]
  /\ cache = [n \in Nodes |-> [k \in Keys |-> NoTier]]
  /\ table = [n \in Nodes |-> Configured]
  /\ life = [n \in Nodes |-> "open"]
  /\ request = [c \in Callers |-> Idle]
  /\ op = [o \in Operators |-> Idle]
  /\ events = 0
  /\ assigned = [k \in Keys |-> {}]
  /\ settled = [n \in Nodes |-> [k \in Keys |-> NoTier]]

(* Bound: operations, closings and restarts.                               *)
Event == events < MaxEvents /\ events' = events + 1

Answers(n) == life[n] # "disconnected"
MayFail(n) == Faulty \/ ~Answers(n)

(* Request c goes on, with what the step has changed.                      *)
Goes(c, r) == request' = [request EXCEPT ![c] = r]
At(c, label) == Goes(c, [request[c] EXCEPT !.at = label])

-----------------------------------------------------------------------------
(* A request or a question arrives at node n.                              *)
Begin(c, kind, n, k, label) ==
  /\ request[c].at \notin InFlight
  /\ Goes(c, [at |-> label, kind |-> kind, node |-> n, key |-> k, tier |-> NoTier,
              limit |-> 0, charge |-> 0, due |-> {mapping[k], cache[n][k]} # {NoTier}])
  /\ UNCHANGED <<dynamics, mapping, counter, cache, table, life, op, events, history>>

(* AllowN looks whether the limiter is closed.                             *)
AllowN(c, n, k) ==
  Begin(c, "allow", n, k,
        IF life[n] # "open" THEN "closed"
        ELSE IF n \in DynamicNodes THEN "dynamic" ELSE "lookup")

(* GetKeyTier does not.                                                    *)
GetKeyTier(c, n, k) == Begin(c, "get", n, k, "lookup")

(* AllowN asks for the key's dynamic limit ...                             *)
AskDynamic(c) ==
  LET r == request[c] IN
  /\ r.at = "dynamic"
  /\ Goes(c, [r EXCEPT !.at = "target", !.limit = GetCurrentLimit(r.node, r.key)])
  /\ UNCHANGED <<dynamics, mapping, counter, cache, table, life, op, events, history>>

(* The tier that SetLimit changes: the cached one, or the default.         *)
Target(n, k) == IF cache[n][k] = NoTier THEN DefaultTier ELSE cache[n][k]

(* ... finds the tier it is for ...                                        *)
FindTarget(c) ==
  LET r == request[c] IN
  /\ r.at = "target"
  /\ Goes(c, IF r.limit # 0 /\ life[r.node] = "open"
               THEN [r EXCEPT !.at = "apply", !.tier = Target(r.node, r.key)]
               ELSE [r EXCEPT !.at = "lookup", !.limit = 0])
  /\ UNCHANGED <<dynamics, mapping, counter, cache, table, life, op, events, history>>

(* ... and makes it that tier's limit.                                     *)
ApplyDynamic(c) ==
  LET r == request[c] IN
  /\ r.at = "apply"
  /\ table' = IF life[r.node] = "open"
                THEN [table EXCEPT ![r.node][r.tier] = r.limit] ELSE table
  /\ Goes(c, [r EXCEPT !.at = "lookup", !.tier = NoTier, !.limit = 0])
  /\ UNCHANGED <<dynamics, mapping, counter, cache, life, op, events, history>>

(* The tier is known: GetKeyTier returns it, AllowN looks up its limit.    *)
Resolved(r, t) ==
  [r EXCEPT !.at = IF r.kind = "get" THEN "known" ELSE "table", !.tier = t]

Hit(c) ==
  LET r == request[c] IN
  /\ r.at = "lookup" /\ cache[r.node][r.key] # NoTier
  /\ Goes(c, Resolved(r, cache[r.node][r.key]))
  /\ UNCHANGED <<dynamics, mapping, counter, cache, table, life, op, events, history>>

Miss(c) ==
  LET r == request[c] IN
  /\ r.at = "lookup" /\ cache[r.node][r.key] = NoTier
  /\ Goes(c, IF Persist THEN [r EXCEPT !.at = "fetch"] ELSE Resolved(r, DefaultTier))
  /\ UNCHANGED <<dynamics, mapping, counter, cache, table, life, op, events, history>>

(* Mutant: the default is cached for a key without a mapping.              *)
Fetch_CachesDefault(c) ==
  LET r == request[c] IN
  /\ r.at = "fetch" /\ Answers(r.node)
  /\ Goes(c, [r EXCEPT !.at = "store",
                       !.tier = IF mapping[r.key] = NoTier THEN DefaultTier ELSE mapping[r.key]])
  /\ UNCHANGED <<dynamics, mapping, counter, cache, table, life, op, events, history>>

(* The mapping is read; a key without one has the default tier.            *)
Fetch(c) ==
  LET r == request[c] IN
  /\ r.at = "fetch" /\ Answers(r.node)
  /\ Goes(c, IF mapping[r.key] = NoTier
               THEN Resolved(r, DefaultTier)
               ELSE [r EXCEPT !.at = "store", !.tier = mapping[r.key]])
  /\ UNCHANGED <<dynamics, mapping, counter, cache, table, life, op, events, history>>

(* So has one whose mapping cannot be read.                                *)
FetchFails(c) ==
  LET r == request[c] IN
  /\ r.at = "fetch" /\ MayFail(r.node)
  /\ Goes(c, [Resolved(r, DefaultTier) EXCEPT !.due = FALSE])
  /\ UNCHANGED <<dynamics, mapping, counter, cache, table, life, op, events, history>>

(* What was read goes into the cache, whatever it holds by now.            *)
Store(c) ==
  LET r == request[c] IN
  /\ r.at = "store"
  /\ cache' = [cache EXCEPT ![r.node][r.key] = r.tier]
  /\ Goes(c, Resolved(r, r.tier))
  /\ UNCHANGED <<dynamics, mapping, counter, table, life, op, events, history>>

(* Mutant: the table is not asked whether it has the tier.                 *)
ReadTable_Unchecked(c) ==
  LET r == request[c] IN
  /\ r.at = "table"
  /\ Goes(c, [r EXCEPT !.at = "update", !.limit = Configured[r.tier] - 1])
  /\ UNCHANGED <<dynamics, mapping, counter, cache, table, life, op, events, history>>

ReadTable(c) ==
  LET r == request[c] IN
  /\ r.at = "table"
  /\ Goes(c, IF table[r.node][r.tier] = 0
               THEN [r EXCEPT !.at = "unknown"]
               ELSE [r EXCEPT !.at = "update", !.limit = table[r.node][r.tier]])
  /\ UNCHANGED <<dynamics, mapping, counter, cache, table, life, op, events, history>>

(* The algorithm decides, by its own limit: the tier's is reported.        *)
UpdateDecides(c) ==
  LET r == request[c] IN
  /\ r.at = "update" /\ Answers(r.node)
  /\ IF counter[r.key] < Budget
       THEN /\ counter' = [counter EXCEPT ![r.key] = @ + 1]
            /\ Goes(c, [r EXCEPT !.at = "allowed", !.charge = counter[r.key] + 1])
       ELSE At(c, "denied") /\ UNCHANGED counter
  /\ UNCHANGED <<dynamics, mapping, cache, table, life, op, events, history>>

(* A call that fails may have been carried out.                            *)
UpdateFails(c) ==
  LET r == request[c] IN
  /\ r.at = "update" /\ MayFail(r.node)
  /\ \/ UNCHANGED counter
     \/ /\ Answers(r.node) /\ counter[r.key] < Budget
        /\ counter' = [counter EXCEPT ![r.key] = @ + 1]
  /\ \E outcome \in IF HasFailover THEN {"open", "error"} ELSE {"error"} : At(c, outcome)
  /\ UNCHANGED <<dynamics, mapping, cache, table, life, op, events, history>>

-----------------------------------------------------------------------------
(* An operation has passed its test of closed on node n.                   *)
Start(o, n, next) ==
  /\ Event
  /\ op[o] = Idle /\ life[n] = "open"
  /\ op' = [op EXCEPT ![o] = next]
  /\ UNCHANGED <<dynamics, mapping, counter, cache, table, life, request, history>>

Done(o) == op' = [op EXCEPT ![o] = Idle]

(* The tier must be in the table, in the same section.                     *)
AssignKeyToTier(o, n, k, t) ==
  /\ table[n][t] # 0
  /\ Start(o, n, [at |-> "assign", node |-> n, key |-> k, tier |-> t])

(* Some call is reading the key's tier from the backend for node n.        *)
ReadingThrough(n, k) ==
  \E c \in Callers :
    /\ request[c].at \in {"fetch", "store"}
    /\ request[c].node = n /\ request[c].key = k

(* Mutant: with PersistMappings the assignment only goes to the backend.   *)
Assign_OnlyPersists(o) ==
  LET p == op[o] IN
  /\ p.at = "assign"
  /\ cache' = IF Persist THEN cache ELSE [cache EXCEPT ![p.node][p.key] = p.tier]
  /\ op' = [op EXCEPT ![o] = IF Persist THEN [p EXCEPT !.at = "persist"] ELSE Idle]
  /\ assigned' = [assigned EXCEPT ![p.key] = @ \cup {p.tier}]
  /\ settled' = [settled EXCEPT ![p.node][p.key] =
       IF ReadingThrough(p.node, p.key) THEN NoTier ELSE p.tier]
  /\ UNCHANGED <<dynamics, mapping, counter, table, life, request, events>>

Assign(o) ==
  LET p == op[o] IN
  /\ p.at = "assign"
  /\ cache' = [cache EXCEPT ![p.node][p.key] = p.tier]
  /\ op' = [op EXCEPT ![o] = IF Persist THEN [p EXCEPT !.at = "persist"] ELSE Idle]
  /\ assigned' = [assigned EXCEPT ![p.key] = @ \cup {p.tier}]
  /\ settled' = [settled EXCEPT ![p.node][p.key] =
       IF ReadingThrough(p.node, p.key) THEN NoTier ELSE p.tier]
  /\ UNCHANGED <<dynamics, mapping, counter, table, life, request, events>>

PersistMapping(o) ==
  /\ op[o].at = "persist" /\ Answers(op[o].node)
  /\ mapping' = [mapping EXCEPT ![op[o].key] = op[o].tier]
  /\ Done(o)
  /\ UNCHANGED <<dynamics, counter, cache, table, life, request, events, history>>

(* A failure is not fatal, and the call may have been carried out.         *)
PersistFails(o) ==
  /\ op[o].at = "persist" /\ MayFail(op[o].node)
  /\ \/ UNCHANGED mapping
     \/ Answers(op[o].node) /\ mapping' = [mapping EXCEPT ![op[o].key] = op[o].tier]
  /\ Done(o)
  /\ UNCHANGED <<dynamics, counter, cache, table, life, request, events, history>>

(* Any name may be given a limit, also one that was no tier.               *)
SetTierLimit(o, n, t, limit) ==
  Start(o, n, [at |-> "limit", node |-> n, tier |-> t, limit |-> limit])

SetLimit(o, n, k, limit) == SetTierLimit(o, n, Target(n, k), limit)

WriteLimit(o) ==
  LET p == op[o] IN
  /\ p.at = "limit"
  /\ table' = [table EXCEPT ![p.node][p.tier] = p.limit]
  /\ Done(o)
  /\ UNCHANGED <<dynamics, mapping, counter, cache, life, request, events, history>>

Reset(o, n, k) == Start(o, n, [at |-> "delete", node |-> n, key |-> k])

Delete(o) ==
  /\ op[o].at = "delete" /\ Answers(op[o].node)
  /\ counter' = [counter EXCEPT ![op[o].key] = 0]
  /\ Done(o)
  /\ UNCHANGED <<dynamics, mapping, cache, table, life, request, events, history>>

DeleteFails(o) ==
  /\ op[o].at = "delete" /\ MayFail(op[o].node)
  /\ \/ UNCHANGED counter
     \/ Answers(op[o].node) /\ counter' = [counter EXCEPT ![op[o].key] = 0]
  /\ Done(o)
  /\ UNCHANGED <<dynamics, mapping, cache, table, life, request, events, history>>

(* Close marks the limiter and then closes its backend.                    *)
Close(n) ==
  /\ Event
  /\ life[n] = "open"
  /\ life' = [life EXCEPT ![n] = "closed"]
  /\ UNCHANGED <<dynamics, mapping, counter, cache, table, request, op, history>>

Disconnect(n) ==
  /\ life[n] = "closed"
  /\ life' = [life EXCEPT ![n] = "disconnected"]
  /\ UNCHANGED <<dynamics, mapping, counter, cache, table, request, op, events, history>>

-----------------------------------------------------------------------------
(* The state of a key expires: its time to live is its tier's window.      *)
Expire(k) ==
  /\ counter[k] > 0
  /\ counter' = [counter EXCEPT ![k] = 0]
  /\ UNCHANGED <<dynamics, mapping, cache, table, life, request, op, events, history>>

Runs(n, x) == x # Idle /\ x.node = n

(* The process of a node ends, and its successor is configured as it was.  *)
Restart(n) ==
  /\ Event
  /\ IF n \in DynamicNodes THEN NewDynamicLimitManager(n) ELSE UNCHANGED dynamics
  /\ cache' = [cache EXCEPT ![n] = [k \in Keys |-> NoTier]]
  /\ table' = [table EXCEPT ![n] = Configured]
  /\ life' = [life EXCEPT ![n] = "open"]
  /\ request' = [c \in Callers |-> IF Runs(n, request[c]) THEN Idle ELSE request[c]]
  /\ op' = [o \in Operators |-> IF Runs(n, op[o]) THEN Idle ELSE op[o]]
  /\ settled' = [settled EXCEPT ![n] = [k \in Keys |-> NoTier]]
  /\ UNCHANGED <<mapping, counter, assigned>>

(* A manager's step leaves the limiters alone.                             *)
ManagerStep ==
  /\ Event
  /\ UNCHANGED <<mapping, counter, cache, table, life, request, op, history>>

Next ==
  \/ \E c \in Callers :
       \/ \E n \in Nodes, k \in Keys : AllowN(c, n, k) \/ GetKeyTier(c, n, k)
       \/ AskDynamic(c) \/ FindTarget(c) \/ ApplyDynamic(c)
       \/ Hit(c) \/ Miss(c) \/ Fetch(c) \/ FetchFails(c) \/ Store(c)
       \/ ReadTable(c) \/ UpdateDecides(c) \/ UpdateFails(c)
  \/ \E o \in Operators :
       \/ \E n \in Nodes, k \in Keys, t \in Tiers : AssignKeyToTier(o, n, k, t)
       \/ \E n \in Nodes, t \in Tiers, l \in Limits : SetTierLimit(o, n, t, l)
       \/ \E n \in Nodes, k \in Keys, l \in Limits : SetLimit(o, n, k, l)
       \/ \E n \in Nodes, k \in Keys : Reset(o, n, k)
       \/ Assign(o) \/ PersistMapping(o) \/ PersistFails(o) \/ WriteLimit(o)
       \/ Delete(o) \/ DeleteFails(o)
  \/ \E n \in Nodes : Close(n) \/ Disconnect(n) \/ Restart(n)
  \/ \E k \in Keys : Expire(k)
  \/ \E n \in DynamicNodes :
       \/ \E k \in Keys, l \in Limits : UpdateLimit(n, k, l) /\ ManagerStep
       \/ \E t \in Tiers, l \in Limits : UpdateLimitByTier(n, t, l) /\ ManagerStep
       \/ \E l \in Limits : UpdateDefaultLimit(n, l) /\ ManagerStep

Spec == Init /\ [][Next]_vars

-----------------------------------------------------------------------------
(* What a call has found by where it is: a manager to ask, a tier to use,  *)
(* that tier's limit.                                                      *)
HasFound(r) ==
  /\ r.at = "dynamic" => r.node \in DynamicNodes
  /\ r.at \in {"apply", "store", "table", "update"} => r.tier \in Tiers
  /\ r.at = "update" => r.limit \in Limits

(* The types; calls have found what they go on with, and what an algorithm *)
(* has granted is within its budget.                                       *)
TypeOK ==
  /\ DynamicTypeOK
  /\ mapping \in [Keys -> Tiers \cup {NoTier}]
  /\ counter \in [Keys -> 0 .. Budget]
  /\ cache \in [Nodes -> [Keys -> Tiers \cup {NoTier}]]
  /\ table \in [Nodes -> [Tiers -> Limits \cup {0}]]
  /\ life \in [Nodes -> {"open", "closed", "disconnected"}]
  /\ request \in [Callers -> Requests \cup {Idle}]
  /\ \A c \in Callers : HasFound(request[c])
  /\ op \in [Operators -> Ops \cup {Idle}]
  /\ events \in 0 .. MaxEvents
  /\ assigned \in [Keys -> SUBSET Tiers]
  /\ settled \in [Nodes -> [Keys -> Tiers \cup {NoTier}]]

(* A key whose tier was persisted, or is known to the node, when a call    *)
(* begins is not demoted to the default: the call is decided or answered   *)
(* with a tier the key was assigned to, whatever assignments, restarts and *)
(* reads of other calls run beside it, unless the backend fails it         *)
(* (AllowN's and GetKeyTier's reading of keyTiers and of the backend).     *)
NeverDemoted ==
  \A c \in Callers : LET r == request[c] IN
    r.at \in {"table", "update", "allowed", "denied", "open", "error", "unknown", "known"}
      /\ r.due => r.tier \in assigned[r.key]

(* An assignment made on a node while none of its calls was reading the    *)
(* key's tier from the backend holds there until the next assignment or    *)
(* restart of that node: later calls do not bring back the tier another    *)
(* node, or an assignment that failed to persist, has left in the backend  *)
(* (AssignKeyToTier's write against the read-through of AllowN).           *)
AssignmentStands ==
  \A n \in Nodes, k \in Keys : settled[n][k] # NoTier => cache[n][k] = settled[n][k]

-----------------------------------------------------------------------------
(* What the documentation promises: nodes agree on assignments.  No        *)
(* assignment or call is under way, so nothing is left to be done.         *)
NodesAgree ==
  (/\ \A o \in Operators : op[o] = Idle
   /\ \A c \in Callers : request[c].at \notin InFlight) =>
    \A n \in Nodes, k \in Keys :
      life[n] = "open" => cache[n][k] \in {NoTier, mapping[k]}

(* What it promises of tiers: each has its own limit, so no request is     *)
(* admitted beyond the limit of the tier it was decided with.              *)
LimitOfTierHolds ==
  \A c \in Callers : request[c].at = "allowed" => request[c].charge <= request[c].limit

(* What AssignKeyToTier's test is for: the tier of an assigned key is known *)
(* to the limiter that uses it.                                            *)
AssignedTierKnown == \A c \in Callers : request[c].at # "unknown"
=============================================================================
