-------------------------- MODULE TierLimiterProofs --------------------------
(***************************************************************************)
(* Proofs about the tier limiter, for any number of nodes, keys, tiers,    *)
(* calls and operators, with a backend that fails or not: its types, that  *)
(* an assignment stands on the node that made it, and that no key falls    *)
(* back to the default tier.  The tenant limiter implements the tier       *)
(* limiter, and its statistics are what it has decided.                    *)
(***************************************************************************)
EXTENDS TenantLimiter, FiniteSetTheorems, TLAPS

(* A step that sends call c on with record r keeps the types of calls.     *)
LEMMA CallGoesOn ==
  ASSUME TypeOK, NEW c \in Callers, NEW r \in Requests \cup {Idle}, HasFound(r), Goes(c, r)
  PROVE  /\ request' \in [Callers -> Requests \cup {Idle}]
         /\ \A d \in Callers : HasFound(request[d])'
BY DEF TypeOK, Goes, HasFound

(* A call that is not idle is a record of a request.                       *)
LEMMA CallTyped ==
  ASSUME TypeOK, NEW c \in Callers, request[c].at # "idle"
  PROVE  request[c] \in Requests
BY DEF TypeOK, Idle

(* The same of operations.                                                 *)
LEMMA OperationTyped ==
  ASSUME TypeOK, NEW o \in Operators, op[o].at # "idle"
  PROVE  /\ op[o] \in Ops
         /\ op[o].node \in Nodes
         /\ op[o].at \in {"assign", "persist"} => op[o].key \in Keys /\ op[o].tier \in Tiers
         /\ op[o].at = "limit" => op[o].tier \in Tiers /\ op[o].limit \in Limits
         /\ op[o].at = "delete" => op[o].key \in Keys
BY DEF TypeOK, Idle, Ops

(* A step of a call keeps the types.                                       *)
LEMMA CallStepTyped ==
  ASSUME TypeOK, NEW c \in Callers,
         \/ \E n \in Nodes, k \in Keys : AllowN(c, n, k) \/ GetKeyTier(c, n, k)
         \/ AskDynamic(c) \/ FindTarget(c) \/ ApplyDynamic(c)
         \/ Hit(c) \/ Miss(c) \/ Fetch(c) \/ FetchFails(c) \/ Store(c)
         \/ ReadTable(c) \/ UpdateDecides(c) \/ UpdateFails(c)
  PROVE  TypeOK'
<1> DEFINE r == request[c]
<1> USE DynamicAssumption, TierAssumption
<1>1. CASE \E n \in Nodes, k \in Keys : AllowN(c, n, k) \/ GetKeyTier(c, n, k)
  <2>1. PICK n \in Nodes, k \in Keys, kind \in {"allow", "get"},
             label \in {"closed", "dynamic", "lookup"} :
               Begin(c, kind, n, k, label) /\ (label = "dynamic" => n \in DynamicNodes)
    BY <1>1 DEF AllowN, GetKeyTier
  <2> DEFINE q == [at |-> label, kind |-> kind, node |-> n, key |-> k, tier |-> NoTier,
                   limit |-> 0, charge |-> 0, due |-> {mapping[k], cache[n][k]} # {NoTier}]
  <2>2. q \in Requests /\ HasFound(q)
    BY <2>1 DEF Requests, InFlight, Outcomes, HasFound
  <2>3. Goes(c, q)
    BY <2>1 DEF Begin
  <2> QED
    BY <2>1, <2>2, <2>3, CallGoesOn DEF Begin, TypeOK, dynamics, DynamicTypeOK, history
<1>2. CASE AskDynamic(c)
  <2> DEFINE limit == GetCurrentLimit(r.node, r.key)
             q == [r EXCEPT !.at = "target", !.limit = limit]
  <2>1. r \in Requests /\ r.node \in DynamicNodes /\ r.key \in Keys
    BY <1>2, CallTyped DEF AskDynamic, Requests, TypeOK, HasFound
  <2>2. limit \in Limits \cup {0}
    BY <2>1 DEF GetCurrentLimit, TypeOK, DynamicTypeOK
  <2>3. q \in Requests /\ HasFound(q)
    <3> HIDE DEF limit
    <3> QED BY <2>1, <2>2 DEF Requests, InFlight, Outcomes, HasFound
  <2>4. Goes(c, q)
    BY <1>2 DEF AskDynamic
  <2> QED
    BY <1>2, <2>3, <2>4, CallGoesOn DEF AskDynamic, TypeOK, dynamics, DynamicTypeOK, history
<1>3. CASE FindTarget(c)
  <2> DEFINE tier == Target(r.node, r.key)
             applied == [r EXCEPT !.at = "apply", !.tier = tier]
             ignored == [r EXCEPT !.at = "lookup", !.limit = 0]
  <2>1. r \in Requests /\ r.node \in Nodes /\ r.key \in Keys
    BY <1>3, CallTyped DEF FindTarget, Requests
  <2>2. tier \in Tiers
    BY <2>1 DEF Target, TypeOK
  <2>3. /\ applied \in Requests /\ HasFound(applied)
        /\ ignored \in Requests /\ HasFound(ignored)
    <3> HIDE DEF tier
    <3> QED BY <2>1, <2>2 DEF Requests, InFlight, Outcomes, HasFound
  <2>4. Goes(c, applied) \/ Goes(c, ignored)
    BY <1>3 DEF FindTarget
  <2> QED
    BY <1>3, <2>3, <2>4, CallGoesOn DEF FindTarget, TypeOK, dynamics, DynamicTypeOK, history
<1>4. CASE ApplyDynamic(c)
  <2> DEFINE q == [r EXCEPT !.at = "lookup", !.tier = NoTier, !.limit = 0]
  <2>1. r \in Requests /\ r.limit \in Limits \cup {0}
    BY <1>4, CallTyped DEF ApplyDynamic, Requests
  <2>2. q \in Requests /\ HasFound(q)
    BY <2>1 DEF Requests, InFlight, Outcomes, HasFound
  <2>3. Goes(c, q)
    BY <1>4 DEF ApplyDynamic
  <2>4. table' \in [Nodes -> [Tiers -> Limits \cup {0}]]
    <3>1. \A n \in Nodes : [table[n] EXCEPT ![r.tier] = r.limit] \in [Tiers -> Limits \cup {0}]
      BY <2>1 DEF TypeOK
    <3> QED BY <1>4, <3>1 DEF ApplyDynamic, TypeOK
  <2> QED
    BY <1>4, <2>2, <2>3, <2>4, CallGoesOn DEF ApplyDynamic, TypeOK, dynamics, DynamicTypeOK, history
<1>5. CASE Hit(c)
  <2> DEFINE tier == cache[r.node][r.key]
             q == Resolved(r, tier)
  <2>1. r \in Requests /\ tier \in Tiers
    BY <1>5, CallTyped DEF Hit, Requests, TypeOK
  <2>2. q \in Requests /\ HasFound(q)
    <3> HIDE DEF tier
    <3> QED BY <2>1 DEF Resolved, Requests, InFlight, Outcomes, HasFound
  <2>3. Goes(c, q)
    BY <1>5 DEF Hit
  <2> QED
    BY <1>5, <2>2, <2>3, CallGoesOn DEF Hit, TypeOK, dynamics, DynamicTypeOK, history
<1>6. CASE Miss(c)
  <2> DEFINE q == IF Persist THEN [r EXCEPT !.at = "fetch"] ELSE Resolved(r, DefaultTier)
  <2>1. r \in Requests
    BY <1>6, CallTyped DEF Miss
  <2>2. q \in Requests /\ HasFound(q)
    BY <1>6, <2>1 DEF Miss, Requests, InFlight, Outcomes, HasFound, TypeOK, Resolved
  <2>3. Goes(c, q)
    BY <1>6 DEF Miss
  <2> QED
    BY <1>6, <2>2, <2>3, CallGoesOn DEF Miss, TypeOK, dynamics, DynamicTypeOK, history
<1>7. CASE Fetch(c)
  <2> DEFINE q == IF mapping[r.key] = NoTier
                 THEN Resolved(r, DefaultTier)
                 ELSE [r EXCEPT !.at = "store", !.tier = mapping[r.key]]
  <2>1. r \in Requests
    BY <1>7, CallTyped DEF Fetch
  <2>2. q \in Requests /\ HasFound(q)
    BY <1>7, <2>1 DEF Fetch, Requests, InFlight, Outcomes, HasFound, TypeOK, Resolved
  <2>3. Goes(c, q)
    BY <1>7 DEF Fetch
  <2> QED
    BY <1>7, <2>2, <2>3, CallGoesOn DEF Fetch, TypeOK, dynamics, DynamicTypeOK, history
<1>8. CASE FetchFails(c)
  <2> DEFINE q == [Resolved(r, DefaultTier) EXCEPT !.due = FALSE]
  <2>1. r \in Requests
    BY <1>8, CallTyped DEF FetchFails
  <2>2. q \in Requests /\ HasFound(q)
    BY <1>8, <2>1 DEF FetchFails, Requests, InFlight, Outcomes, HasFound, TypeOK, Resolved
  <2>3. Goes(c, q)
    BY <1>8 DEF FetchFails
  <2> QED
    BY <1>8, <2>2, <2>3, CallGoesOn DEF FetchFails, TypeOK, dynamics, DynamicTypeOK, history
<1>9. CASE Store(c)
  <2> DEFINE q == Resolved(r, r.tier)
  <2>1. r \in Requests /\ r.tier \in Tiers
    BY <1>9, CallTyped DEF Store, Requests, TypeOK, HasFound
  <2>2. q \in Requests /\ HasFound(q)
    BY <2>1 DEF Resolved, Requests, InFlight, Outcomes, HasFound
  <2>3. Goes(c, q)
    BY <1>9 DEF Store
  <2>4. cache' \in [Nodes -> [Keys -> Tiers \cup {NoTier}]]
    <3>1. \A n \in Nodes : [cache[n] EXCEPT ![r.key] = r.tier] \in [Keys -> Tiers \cup {NoTier}]
      BY <2>1 DEF TypeOK
    <3> QED BY <1>9, <3>1 DEF Store, TypeOK
  <2> QED
    BY <1>9, <2>2, <2>3, <2>4, CallGoesOn DEF Store, TypeOK, dynamics, DynamicTypeOK, history
<1>10. CASE ReadTable(c)
  <2> DEFINE limit == table[r.node][r.tier]
             unknown == [r EXCEPT !.at = "unknown"]
             found == [r EXCEPT !.at = "update", !.limit = limit]
  <2>1. r \in Requests /\ r.tier \in Tiers /\ limit \in Limits \cup {0}
    BY <1>10, CallTyped DEF ReadTable, Requests, TypeOK, HasFound
  <2>2. /\ unknown \in Requests /\ HasFound(unknown)
        /\ limit # 0 => found \in Requests /\ HasFound(found)
    <3> HIDE DEF limit
    <3> QED BY <2>1 DEF Requests, InFlight, Outcomes, HasFound
  <2>3. Goes(c, unknown) \/ (limit # 0 /\ Goes(c, found))
    BY <1>10 DEF ReadTable
  <2> QED
    BY <1>10, <2>2, <2>3, CallGoesOn DEF ReadTable, TypeOK, dynamics, DynamicTypeOK, history
<1>11. CASE UpdateDecides(c)
  <2>1. r \in Requests /\ r.key \in Keys /\ r.tier \in Tiers /\ r.limit \in Limits
    BY <1>11, CallTyped DEF UpdateDecides, Requests, TypeOK, HasFound
  <2> DEFINE charge == counter[r.key] + 1
             allowed == [r EXCEPT !.at = "allowed", !.charge = charge]
             denied == [r EXCEPT !.at = "denied"]
  <2>2. counter[r.key] < Budget => charge \in 0 .. Budget
    BY <2>1 DEF TypeOK
  <2>3. /\ counter[r.key] < Budget => allowed \in Requests /\ HasFound(allowed)
        /\ denied \in Requests /\ HasFound(denied)
    <3> HIDE DEF charge
    <3> QED BY <2>1, <2>2 DEF Requests, InFlight, Outcomes, HasFound
  <2>4. (counter[r.key] < Budget /\ Goes(c, allowed)) \/ Goes(c, denied)
    BY <1>11 DEF UpdateDecides, At
  <2>5. counter' \in [Keys -> 0 .. Budget]
    BY <1>11, <2>1, <2>2 DEF UpdateDecides, TypeOK
  <2> QED
    BY <1>11, <2>3, <2>4, <2>5, CallGoesOn DEF UpdateDecides, TypeOK, dynamics, DynamicTypeOK, history
<1>12. CASE UpdateFails(c)
  <2>1. r \in Requests /\ r.key \in Keys
    BY <1>12, CallTyped DEF UpdateFails, Requests
  <2>2. PICK outcome \in {"open", "error"} : Goes(c, [r EXCEPT !.at = outcome])
    BY <1>12 DEF UpdateFails, At
  <2> DEFINE q == [r EXCEPT !.at = outcome]
  <2>3. q \in Requests /\ HasFound(q)
    BY <2>1 DEF Requests, InFlight, Outcomes, HasFound
  <2>4. counter' \in [Keys -> 0 .. Budget]
    BY <1>12, <2>1 DEF UpdateFails, TypeOK
  <2> QED
    BY <1>12, <2>2, <2>3, <2>4, CallGoesOn DEF UpdateFails, TypeOK, dynamics, DynamicTypeOK, history
<1> QED
  BY <1>1, <1>2, <1>3, <1>4, <1>5, <1>6, <1>7, <1>8, <1>9, <1>10, <1>11, <1>12

(* A step of an operation keeps the types.                                 *)
LEMMA OperationStepTyped ==
  ASSUME TypeOK, NEW o \in Operators,
         \/ \E n \in Nodes, k \in Keys, t \in Tiers : AssignKeyToTier(o, n, k, t)
         \/ \E n \in Nodes, t \in Tiers, l \in Limits : SetTierLimit(o, n, t, l)
         \/ \E n \in Nodes, k \in Keys, l \in Limits : SetLimit(o, n, k, l)
         \/ \E n \in Nodes, k \in Keys : Reset(o, n, k)
         \/ Assign(o) \/ PersistMapping(o) \/ PersistFails(o) \/ WriteLimit(o)
         \/ Delete(o) \/ DeleteFails(o)
  PROVE  TypeOK'
<1> USE DynamicAssumption, TierAssumption
<1>1. ASSUME NEW n \in Nodes, NEW next \in Ops, Start(o, n, next)
      PROVE  TypeOK'
  BY <1>1 DEF Start, Event, TypeOK, dynamics, DynamicTypeOK, history, HasFound
<1>2. CASE \E n \in Nodes, k \in Keys, t \in Tiers : AssignKeyToTier(o, n, k, t)
  BY <1>1, <1>2 DEF AssignKeyToTier, Ops
<1>3. CASE \E n \in Nodes, t \in Tiers, l \in Limits : SetTierLimit(o, n, t, l)
  BY <1>1, <1>3 DEF SetTierLimit, Ops
<1>4. CASE \E n \in Nodes, k \in Keys, l \in Limits : SetLimit(o, n, k, l)
  <2>1. \A n \in Nodes, k \in Keys : Target(n, k) \in Tiers
    BY DEF Target, TypeOK
  <2> QED BY <1>1, <1>4, <2>1 DEF SetLimit, SetTierLimit, Ops
<1>5. CASE \E n \in Nodes, k \in Keys : Reset(o, n, k)
  BY <1>1, <1>5 DEF Reset, Ops
<1>6. CASE Assign(o)
  <2> DEFINE p == op[o]
  <2>1. p \in Ops /\ p.node \in Nodes /\ p.key \in Keys /\ p.tier \in Tiers
    BY <1>6, OperationTyped DEF Assign
  <2>2. [p EXCEPT !.at = "persist"] \in Ops
    BY <1>6, <2>1 DEF Assign, Ops
  <2>3. cache' \in [Nodes -> [Keys -> Tiers \cup {NoTier}]]
    <3>1. [cache[p.node] EXCEPT ![p.key] = p.tier] \in [Keys -> Tiers \cup {NoTier}]
      BY <2>1 DEF TypeOK
    <3> QED BY <1>6, <2>1, <3>1 DEF Assign, TypeOK
  <2>4. settled' \in [Nodes -> [Keys -> Tiers \cup {NoTier}]]
    <3> DEFINE tier == IF ReadingThrough(p.node, p.key) THEN NoTier ELSE p.tier
    <3>1. tier \in Tiers \cup {NoTier}
      BY <2>1
    <3>2. settled' = [settled EXCEPT ![p.node][p.key] = tier]
      BY <1>6 DEF Assign
    <3> HIDE DEF tier
    <3>3. [settled[p.node] EXCEPT ![p.key] = tier] \in [Keys -> Tiers \cup {NoTier}]
      BY <2>1, <3>1 DEF TypeOK
    <3> QED BY <2>1, <3>2, <3>3 DEF TypeOK
  <2>5. assigned' \in [Keys -> SUBSET Tiers]
    BY <1>6, <2>1 DEF Assign, TypeOK
  <2>6. op' \in [Operators -> Ops \cup {Idle}]
    BY <1>6, <2>2 DEF Assign, TypeOK
  <2> QED
    BY <1>6, <2>3, <2>4, <2>5, <2>6 DEF Assign, TypeOK, dynamics, DynamicTypeOK, HasFound
<1>7. CASE PersistMapping(o) \/ PersistFails(o)
  <2>1. op[o].key \in Keys /\ op[o].tier \in Tiers
    BY <1>7, OperationTyped DEF PersistMapping, PersistFails
  <2>2. mapping' \in [Keys -> Tiers \cup {NoTier}]
    BY <1>7, <2>1 DEF PersistMapping, PersistFails, TypeOK
  <2> QED
    BY <1>7, <2>2 DEF PersistMapping, PersistFails, Done, TypeOK, dynamics, DynamicTypeOK,
         history, HasFound
<1>8. CASE WriteLimit(o)
  <2>1. /\ op[o].node \in Nodes /\ op[o].tier \in Tiers /\ op[o].limit \in Limits
    BY <1>8, OperationTyped DEF WriteLimit
  <2>2. table' \in [Nodes -> [Tiers -> Limits \cup {0}]]
    <3>1. [table[op[o].node] EXCEPT ![op[o].tier] = op[o].limit] \in [Tiers -> Limits \cup {0}]
      BY <2>1 DEF TypeOK
    <3> QED BY <1>8, <2>1, <3>1 DEF WriteLimit, TypeOK
  <2> QED
    BY <1>8, <2>2 DEF WriteLimit, Done, TypeOK, dynamics, DynamicTypeOK, history, HasFound
<1>9. CASE Delete(o) \/ DeleteFails(o)
  <2>1. counter' \in [Keys -> 0 .. Budget]
    BY <1>9 DEF Delete, DeleteFails, TypeOK
  <2> QED
    BY <1>9, <2>1 DEF Delete, DeleteFails, Done, TypeOK, dynamics, DynamicTypeOK, history, HasFound
<1> QED
  BY <1>2, <1>3, <1>4, <1>5, <1>6, <1>7, <1>8, <1>9

(* A step of no call and no operation keeps the types.                     *)
LEMMA NodeStepTyped ==
  ASSUME TypeOK,
         \/ \E n \in Nodes : Close(n) \/ Disconnect(n) \/ Restart(n)
         \/ \E k \in Keys : Expire(k)
         \/ \E n \in DynamicNodes :
              \/ \E k \in Keys, l \in Limits : UpdateLimit(n, k, l) /\ ManagerStep
              \/ \E t \in Tiers, l \in Limits : UpdateLimitByTier(n, t, l) /\ ManagerStep
              \/ \E l \in Limits : UpdateDefaultLimit(n, l) /\ ManagerStep
  PROVE  TypeOK'
<1> USE DynamicAssumption, TierAssumption
<1>1. ASSUME NEW n \in Nodes, Close(n) \/ Disconnect(n)
      PROVE  TypeOK'
  <2>1. life' \in [Nodes -> {"open", "closed", "disconnected"}]
    BY <1>1 DEF Close, Disconnect, TypeOK
  <2>2. events' \in 0 .. MaxEvents
    BY <1>1 DEF Close, Disconnect, Event, TypeOK
  <2> QED
    BY <1>1, <2>1, <2>2 DEF Close, Disconnect, TypeOK, dynamics, DynamicTypeOK, history, HasFound
<1>2. ASSUME NEW n \in Nodes, Restart(n)
      PROVE  TypeOK'
  <2>1. DynamicTypeOK'
    <3>1. CASE n \in DynamicNodes
      <4>1. NewDynamicLimitManager(n)
        BY <1>2, <3>1 DEF Restart
      <4>2. /\ [k \in Keys |-> 0] \in [Keys -> Limits \cup {0}]
            /\ [t \in Tiers |-> 0] \in [Tiers -> Limits \cup {0}]
        OBVIOUS
      <4> QED
        BY <4>1, <4>2 DEF NewDynamicLimitManager, TypeOK, DynamicTypeOK
    <3>2. CASE n \notin DynamicNodes
      BY <1>2, <3>2 DEF Restart, TypeOK, dynamics, DynamicTypeOK
    <3> QED BY <3>1, <3>2
  <2>2. /\ request' \in [Callers -> Requests \cup {Idle}]
        /\ \A c \in Callers : HasFound(request'[c])
    BY <1>2 DEF Restart, TypeOK, HasFound, Idle
  <2>3. op' \in [Operators -> Ops \cup {Idle}]
    BY <1>2 DEF Restart, TypeOK
  <2>4. /\ cache' \in [Nodes -> [Keys -> Tiers \cup {NoTier}]]
        /\ settled' \in [Nodes -> [Keys -> Tiers \cup {NoTier}]]
    BY <1>2 DEF Restart, TypeOK
  <2>5. table' \in [Nodes -> [Tiers -> Limits \cup {0}]]
    BY <1>2 DEF Restart, TypeOK
  <2> QED
    BY <1>2, <2>1, <2>2, <2>3, <2>4, <2>5 DEF Restart, Event, TypeOK
<1>3. CASE \E k \in Keys : Expire(k)
  BY <1>3 DEF Expire, TypeOK, dynamics, DynamicTypeOK, history, HasFound
<1>4. ASSUME NEW n \in DynamicNodes, ManagerStep, DynamicTypeOK'
      PROVE  TypeOK'
  BY <1>4 DEF ManagerStep, Event, TypeOK, history, HasFound
<1>5. ASSUME NEW n \in DynamicNodes, NEW k \in Keys, NEW l \in Limits, UpdateLimit(n, k, l)
      PROVE  DynamicTypeOK'
  BY <1>5 DEF UpdateLimit, TypeOK, DynamicTypeOK
<1>6. ASSUME NEW n \in DynamicNodes, NEW t \in Tiers, NEW l \in Limits, UpdateLimitByTier(n, t, l)
      PROVE  DynamicTypeOK'
  BY <1>6 DEF UpdateLimitByTier, TypeOK, DynamicTypeOK
<1>7. ASSUME NEW n \in DynamicNodes, NEW l \in Limits, UpdateDefaultLimit(n, l)
      PROVE  DynamicTypeOK'
  BY <1>7 DEF UpdateDefaultLimit, TypeOK, DynamicTypeOK
<1> QED
  BY <1>1, <1>2, <1>3, <1>4, <1>5, <1>6, <1>7

(* The types hold.                                                         *)
THEOREM TierTypeOK == Spec => []TypeOK
<1>1. Init => TypeOK
  BY DynamicAssumption, TierAssumption
  DEF Init, DynamicInit, TypeOK, DynamicTypeOK, HasFound, Idle
<1>2. TypeOK /\ [Next]_vars => TypeOK'
  <2> SUFFICES ASSUME TypeOK, [Next]_vars
               PROVE  TypeOK'
    OBVIOUS
  <2>1. CASE Next
    BY <2>1, CallStepTyped, OperationStepTyped, NodeStepTyped DEF Next
  <2>2. CASE UNCHANGED vars
    BY <2>2 DEF vars, TypeOK, dynamics, DynamicTypeOK, history, HasFound
  <2> QED BY <2>1, <2>2
<1> QED BY <1>1, <1>2, PTL DEF Spec

-----------------------------------------------------------------------------
(* Why an assignment stands: while it does, the cache has a tier, so that  *)
(* no later call reads the backend, and none that did is still under way.  *)
Standing ==
  \A n \in Nodes, k \in Keys :
    settled[n][k] # NoTier => cache[n][k] = settled[n][k] /\ ~ReadingThrough(n, k)

(* A call that goes on is still not reading through, if where it goes is   *)
(* not reading.                                                            *)
LEMMA NotReading ==
  ASSUME TypeOK, NEW c \in Callers, NEW r, Goes(c, r), r.at \notin {"fetch", "store"},
         NEW n \in Nodes, NEW k \in Keys, ~ReadingThrough(n, k)
  PROVE  ~ReadingThrough(n, k)'
BY DEF TypeOK, Goes, ReadingThrough

(* Nor is any, if it is about another node or key.                         *)
LEMMA ReadingElsewhere ==
  ASSUME TypeOK, NEW c \in Callers, NEW r, Goes(c, r),
         NEW n \in Nodes, NEW k \in Keys, r.node # n \/ r.key # k, ~ReadingThrough(n, k)
  PROVE  ~ReadingThrough(n, k)'
BY DEF TypeOK, Goes, ReadingThrough

(* Every step keeps Standing.                                              *)
LEMMA StandingStep ==
  ASSUME TypeOK, TypeOK', Standing, Next
  PROVE  Standing'
<1> USE DynamicAssumption, TierAssumption
<1> SUFFICES ASSUME NEW n \in Nodes, NEW k \in Keys, settled'[n][k] # NoTier
             PROVE  cache'[n][k] = settled'[n][k] /\ ~ReadingThrough(n, k)'
  BY DEF Standing
(* Where neither the cache nor the history of the node and key changes,    *)
(* it is enough that no call starts reading.                               *)
<1>1. ASSUME cache'[n][k] = cache[n][k], settled'[n][k] = settled[n][k],
             ~ReadingThrough(n, k) /\ cache[n][k] # NoTier => ~ReadingThrough(n, k)'
      PROVE  cache'[n][k] = settled'[n][k] /\ ~ReadingThrough(n, k)'
  BY <1>1 DEF Standing
<1>2. ASSUME UNCHANGED <<cache, settled, request>>
      PROVE  cache'[n][k] = settled'[n][k] /\ ~ReadingThrough(n, k)'
  BY <1>1, <1>2 DEF ReadingThrough
<1>3. ASSUME NEW c \in Callers, NEW r, Goes(c, r), r.at \notin {"fetch", "store"},
             UNCHANGED <<cache, settled>>
      PROVE  cache'[n][k] = settled'[n][k] /\ ~ReadingThrough(n, k)'
  BY <1>1, <1>3, NotReading
<1>4. ASSUME NEW c \in Callers,
             \E m \in Nodes, j \in Keys : AllowN(c, m, j) \/ GetKeyTier(c, m, j)
      PROVE  cache'[n][k] = settled'[n][k] /\ ~ReadingThrough(n, k)'
  <2>1. PICK m \in Nodes, j \in Keys, kind \in {"allow", "get"},
             label \in {"closed", "dynamic", "lookup"} : Begin(c, kind, m, j, label)
    BY <1>4 DEF AllowN, GetKeyTier
  <2> DEFINE r == [at |-> label, kind |-> kind, node |-> m, key |-> j, tier |-> NoTier,
                   limit |-> 0, charge |-> 0, due |-> {mapping[j], cache[m][j]} # {NoTier}]
  <2>2. Goes(c, r) /\ UNCHANGED <<cache, settled>>
    BY <2>1 DEF Begin, history
  <2>3. r.at \notin {"fetch", "store"}
    OBVIOUS
  <2> HIDE DEF r
  <2> QED BY <1>3, <2>2, <2>3
<1>5. ASSUME NEW c \in Callers, AskDynamic(c) \/ FindTarget(c) \/ ApplyDynamic(c)
      PROVE  cache'[n][k] = settled'[n][k] /\ ~ReadingThrough(n, k)'
  <2>1. request[c] \in Requests
    BY <1>5, CallTyped DEF AskDynamic, FindTarget, ApplyDynamic
  <2> QED
    BY <1>5, <1>3, <2>1 DEF AskDynamic, FindTarget, ApplyDynamic, Requests, history
<1>6. ASSUME NEW c \in Callers,
             Hit(c) \/ FetchFails(c) \/ ReadTable(c) \/ UpdateDecides(c) \/ UpdateFails(c)
      PROVE  cache'[n][k] = settled'[n][k] /\ ~ReadingThrough(n, k)'
  <2>1. request[c] \in Requests
    BY <1>6, CallTyped DEF Hit, FetchFails, ReadTable, UpdateDecides, UpdateFails
  <2>2. CASE Hit(c)
    BY <2>2, <1>3, <2>1 DEF Hit, Resolved, Requests, history
  <2>3. CASE FetchFails(c)
    BY <2>3, <1>3, <2>1 DEF FetchFails, Resolved, Requests, history
  <2>4. CASE ReadTable(c)
    BY <2>4, <1>3, <2>1 DEF ReadTable, Requests, history
  <2>5. CASE UpdateDecides(c)
    BY <2>5, <1>3, <2>1 DEF UpdateDecides, At, Requests, history
  <2>6. CASE UpdateFails(c)
    BY <2>6, <1>3, <2>1 DEF UpdateFails, At, Requests, history
  <2> QED BY <1>6, <2>2, <2>3, <2>4, <2>5, <2>6
(* A miss is of a node and key without a cached tier.                      *)
<1>7. ASSUME NEW c \in Callers, Miss(c)
      PROVE  cache'[n][k] = settled'[n][k] /\ ~ReadingThrough(n, k)'
  <2> DEFINE r == request[c]
             q == IF Persist THEN [r EXCEPT !.at = "fetch"] ELSE Resolved(r, DefaultTier)
  <2>1. r \in Requests
    BY <1>7, CallTyped DEF Miss
  <2>2. Goes(c, q) /\ UNCHANGED <<cache, settled>> /\ cache[r.node][r.key] = NoTier
    BY <1>7 DEF Miss, history
  <2>3. q.node = r.node /\ q.key = r.key
    BY <2>1 DEF Resolved, Requests
  <2> HIDE DEF q
  <2> QED BY <1>1, <2>2, <2>3, ReadingElsewhere
(* A call that fetches or stores was reading before.                       *)
<1>8. ASSUME NEW c \in Callers, Fetch(c)
      PROVE  cache'[n][k] = settled'[n][k] /\ ~ReadingThrough(n, k)'
  <2> DEFINE r == request[c]
             q == IF mapping[r.key] = NoTier
                    THEN Resolved(r, DefaultTier)
                    ELSE [r EXCEPT !.at = "store", !.tier = mapping[r.key]]
  <2>1. r \in Requests /\ ReadingThrough(r.node, r.key)
    BY <1>8, CallTyped DEF Fetch, ReadingThrough
  <2>2. Goes(c, q) /\ UNCHANGED <<cache, settled>>
    BY <1>8 DEF Fetch, history
  <2>3. q.node = r.node /\ q.key = r.key
    BY <2>1 DEF Resolved, Requests
  <2> HIDE DEF q
  <2> QED BY <1>1, <2>1, <2>2, <2>3, ReadingElsewhere
<1>9. ASSUME NEW c \in Callers, Store(c)
      PROVE  cache'[n][k] = settled'[n][k] /\ ~ReadingThrough(n, k)'
  <2> DEFINE r == request[c]
             q == Resolved(r, r.tier)
  <2>1. r \in Requests /\ r.node \in Nodes /\ r.key \in Keys /\ ReadingThrough(r.node, r.key)
    BY <1>9, CallTyped DEF Store, ReadingThrough, Requests
  <2>2. Goes(c, q) /\ UNCHANGED settled
    BY <1>9 DEF Store, history
  <2>3. q.node = r.node /\ q.key = r.key
    BY <2>1 DEF Resolved, Requests
  <2>4. r.node # n \/ r.key # k
    BY <2>1, <2>2 DEF Standing
  <2>5. cache'[n][k] = cache[n][k]
    BY <1>9, <2>1, <2>4 DEF Store, TypeOK
  <2> HIDE DEF q
  <2> QED BY <1>1, <2>2, <2>3, <2>4, <2>5, ReadingElsewhere
(* An assignment stands if no call is reading, or leaves the others alone. *)
<1>10. ASSUME NEW o \in Operators, Assign(o)
       PROVE  cache'[n][k] = settled'[n][k] /\ ~ReadingThrough(n, k)'
  <2> DEFINE p == op[o]
  <2>1. p.node \in Nodes /\ p.key \in Keys /\ p.tier \in Tiers
    BY <1>10, OperationTyped DEF Assign
  <2>2. CASE p.node = n /\ p.key = k
    BY <1>10, <2>1, <2>2 DEF Assign, TypeOK, ReadingThrough
  <2>3. CASE ~(p.node = n /\ p.key = k)
    <3>1. cache'[n][k] = cache[n][k] /\ settled'[n][k] = settled[n][k]
      BY <1>10, <2>1, <2>3 DEF Assign, TypeOK
    <3> QED BY <1>1, <1>10, <3>1 DEF Assign, ReadingThrough
  <2> QED BY <2>2, <2>3
<1>11. ASSUME NEW m \in Nodes, Restart(m)
       PROVE  cache'[n][k] = settled'[n][k] /\ ~ReadingThrough(n, k)'
  <2>1. m # n
    BY <1>11 DEF Restart, TypeOK
  <2>2. cache'[n][k] = cache[n][k] /\ settled'[n][k] = settled[n][k]
    BY <1>11, <2>1 DEF Restart, TypeOK
  <2>3. ~ReadingThrough(n, k) => ~ReadingThrough(n, k)'
    BY <1>11 DEF Restart, ReadingThrough, Idle
  <2> QED BY <1>1, <2>2, <2>3
<1>12. CASE UNCHANGED <<cache, settled, request>>
  BY <1>2, <1>12
<1> QED
  <2>1. \/ UNCHANGED <<cache, settled, request>>
        \/ \E c \in Callers :
             \/ \E m \in Nodes, j \in Keys : AllowN(c, m, j) \/ GetKeyTier(c, m, j)
             \/ AskDynamic(c) \/ FindTarget(c) \/ ApplyDynamic(c)
             \/ Hit(c) \/ Miss(c) \/ Fetch(c) \/ FetchFails(c) \/ Store(c)
             \/ ReadTable(c) \/ UpdateDecides(c) \/ UpdateFails(c)
        \/ \E o \in Operators : Assign(o)
        \/ \E m \in Nodes : Restart(m)
    BY DEF Next, AssignKeyToTier, SetTierLimit, SetLimit, Reset, Start, PersistMapping,
       PersistFails, WriteLimit, Delete, DeleteFails, Close, Disconnect, Expire,
       ManagerStep, history
  <2> QED
    BY <2>1, <1>4, <1>5, <1>6, <1>7, <1>8, <1>9, <1>10, <1>11, <1>12

(* An assignment made on a node while none of its calls was reading the    *)
(* key's tier stands there until that node's next assignment or restart.   *)
THEOREM TierAssignmentStands == Spec => []AssignmentStands
<1>1. Init => Standing
  BY DEF Init, Standing
<1>2. TypeOK /\ TypeOK' /\ Standing /\ [Next]_vars => Standing'
  <2>1. ASSUME TypeOK, TypeOK', Standing, UNCHANGED vars
        PROVE  Standing'
    BY <2>1 DEF vars, history, Standing, ReadingThrough
  <2> QED BY <2>1, StandingStep
<1>3. Standing => AssignmentStands
  BY DEF Standing, AssignmentStands
<1> QED BY <1>1, <1>2, <1>3, TierTypeOK, PTL DEF Spec

-----------------------------------------------------------------------------
(* NeverDemoted is not inductive: it says nothing of a call that has not   *)
(* found a tier yet.  Such a call, if it is due, is at a place where the   *)
(* tier can still be found, of mappings m, caches ca and assignments a.    *)
Known(r, m, ca, a) ==
  /\ r.at \in {"dynamic", "target", "apply", "lookup"} /\ r.due =>
       m[r.key] # NoTier \/ ca[r.node][r.key] # NoTier
  /\ r.at = "fetch" /\ r.due => m[r.key] # NoTier
  /\ r.at = "store" => r.tier \in a[r.key]
  /\ r.due /\ r.at \in {"table", "update", "allowed", "denied", "open", "error",
                       "unknown", "known"} => r.tier \in a[r.key]

AllKnown == \A c \in Callers : Known(request[c], mapping, cache, assigned)

(* What is cached, persisted or to be persisted has been assigned, and     *)
(* without PersistMappings nothing is persisted.                           *)
OnlyAssigned ==
  /\ \A k \in Keys : mapping[k] \in assigned[k] \cup {NoTier}
  /\ \A n \in Nodes, k \in Keys : cache[n][k] \in assigned[k] \cup {NoTier}
  /\ \A o \in Operators :
       op[o].at = "persist" => Persist /\ op[o].tier \in assigned[op[o].key]
  /\ ~Persist => \A k \in Keys : mapping[k] = NoTier

Promoted == TypeOK /\ AllKnown /\ OnlyAssigned

LEMMA KnownGrows ==
  ASSUME NEW r, NEW m, NEW ca, NEW a, NEW m2, NEW ca2, NEW a2, Known(r, m, ca, a),
         m[r.key] # NoTier => m2[r.key] # NoTier,
         ca[r.node][r.key] # NoTier => ca2[r.node][r.key] # NoTier,
         a[r.key] \subseteq a2[r.key]
  PROVE  Known(r, m2, ca2, a2)
BY DEF Known

LEMMA KnownIdle ==
  ASSUME NEW m, NEW ca, NEW a
  PROVE  Known(Idle, m, ca, a)
BY DEF Known, Idle

(* A call goes on with what is known, and the others know no less.         *)
LEMMA KnownGoes ==
  ASSUME Promoted, NEW c \in Callers, NEW q, Goes(c, q), UNCHANGED <<mapping, assigned>>,
         \A n \in Nodes, k \in Keys : cache[n][k] # NoTier => cache'[n][k] # NoTier,
         Known(q, mapping, cache', assigned)
  PROVE  AllKnown'
<1>1. request \in [Callers -> Requests \cup {Idle}]
  BY DEF Promoted, TypeOK
<1>2. ASSUME NEW d \in Callers
      PROVE  Known(request'[d], mapping', cache', assigned')
  <2>1. CASE d = c
    BY <1>1, <2>1 DEF Goes
  <2>2. CASE d # c
    <3>1. request'[d] = request[d]
      BY <1>1, <2>2 DEF Goes
    <3>2. CASE request[d] = Idle
      BY <3>1, <3>2, KnownIdle
    <3>3. CASE request[d] \in Requests
      <4>1. request[d].node \in Nodes /\ request[d].key \in Keys
        BY <3>3 DEF Requests
      <4>2. Known(request[d], mapping, cache, assigned)
        BY DEF Promoted, AllKnown
      <4>3. Known(request[d], mapping, cache', assigned)
        BY <4>1, <4>2, KnownGrows
      <4>. QED  BY <3>1, <4>3
    <3>. QED  BY <1>1, <3>2, <3>3
  <2>. QED  BY <2>1, <2>2
<1>. QED  BY <1>2 DEF AllKnown

(* What a call's steps leave of the rest.                                  *)
LEMMA CallStepsKnown ==
  ASSUME Promoted, NEW c \in Callers,
         \/ \E n \in Nodes, k \in Keys : AllowN(c, n, k) \/ GetKeyTier(c, n, k)
         \/ AskDynamic(c) \/ FindTarget(c) \/ ApplyDynamic(c)
         \/ Hit(c) \/ Miss(c) \/ Fetch(c) \/ FetchFails(c) \/ Store(c)
         \/ ReadTable(c) \/ UpdateDecides(c) \/ UpdateFails(c)
  PROVE  AllKnown' /\ OnlyAssigned'
<1> DEFINE r == request[c]
<1>. TypeOK /\ OnlyAssigned /\ Known(r, mapping, cache, assigned)
  BY DEF Promoted, AllKnown
<1>1. ASSUME UNCHANGED <<mapping, cache, op, assigned>>
      PROVE  OnlyAssigned'
  BY <1>1 DEF OnlyAssigned
<1>2. ASSUME NEW q, Goes(c, q), UNCHANGED <<mapping, cache, op, assigned>>,
             Known(q, mapping, cache, assigned)
      PROVE  AllKnown' /\ OnlyAssigned'
  BY <1>1, <1>2, KnownGoes
<1>3. CASE \E n \in Nodes, k \in Keys : AllowN(c, n, k) \/ GetKeyTier(c, n, k)
  <2>1. PICK n \in Nodes, k \in Keys, kind \in {"allow", "get"},
             label \in {"closed", "dynamic", "lookup"} : Begin(c, kind, n, k, label)
    BY <1>3 DEF AllowN, GetKeyTier
  <2> DEFINE q == [at |-> label, kind |-> kind, node |-> n, key |-> k, tier |-> NoTier,
                   limit |-> 0, charge |-> 0, due |-> {mapping[k], cache[n][k]} # {NoTier}]
  <2>2. Known(q, mapping, cache, assigned)
    BY DEF Known
  <2>3. Goes(c, q) /\ UNCHANGED <<mapping, cache, op, assigned>>
    BY <2>1 DEF Begin, history
  <2> HIDE DEF q
  <2>. QED  BY <1>2, <2>2, <2>3
<1>4. CASE AskDynamic(c) \/ FindTarget(c) \/ ApplyDynamic(c)
  <2>1. r \in Requests /\ r.at \in {"dynamic", "target", "apply"}
    BY <1>4, CallTyped DEF AskDynamic, FindTarget, ApplyDynamic
  <2>2. ASSUME NEW q, Goes(c, q), q.at \in {"target", "apply", "lookup"},
               q.key = r.key, q.node = r.node, q.due = r.due
        PROVE  AllKnown' /\ OnlyAssigned'
    <3>1. UNCHANGED <<mapping, cache, op, assigned>>
      BY <1>4 DEF AskDynamic, FindTarget, ApplyDynamic, history
    <3>2. Known(q, mapping, cache, assigned)
      BY <2>1, <2>2 DEF Known
    <3>. QED  BY <1>2, <2>2, <3>1, <3>2
  <2>3. CASE AskDynamic(c)
    BY <2>1, <2>2, <2>3 DEF AskDynamic, Requests
  <2>4. CASE FindTarget(c)
    BY <2>1, <2>2, <2>4 DEF FindTarget, Requests
  <2>5. CASE ApplyDynamic(c)
    BY <2>1, <2>2, <2>5 DEF ApplyDynamic, Requests
  <2>. QED  BY <1>4, <2>3, <2>4, <2>5
<1>5. ASSUME NEW t, r \in Requests, t \in assigned[r.key], Goes(c, Resolved(r, t)),
             UNCHANGED <<mapping, op, assigned>>,
             \A n \in Nodes, k \in Keys : cache[n][k] # NoTier => cache'[n][k] # NoTier
      PROVE  AllKnown'
  <2> DEFINE q == Resolved(r, t)
  <2>1. q.at \in {"known", "table"} /\ q.key = r.key /\ q.tier = t
    BY <1>5 DEF Resolved, Requests
  <2>2. Known(q, mapping, cache', assigned)
    BY <1>5, <2>1 DEF Known
  <2> HIDE DEF q
  <2>. QED  BY <1>5, <2>2, KnownGoes DEF q
<1>6. CASE Hit(c)
  <2>1. r \in Requests /\ r.key \in Keys /\ r.node \in Nodes
    BY <1>6, CallTyped DEF Hit, Requests
  <2>2. cache[r.node][r.key] \in assigned[r.key]
    BY <1>6, <2>1 DEF Hit, OnlyAssigned
  <2>. QED  BY <1>1, <1>5, <1>6, <2>1, <2>2 DEF Hit, history
<1>7. CASE Miss(c)
  <2>1. r \in Requests /\ r.key \in Keys /\ r.node \in Nodes
    BY <1>7, CallTyped DEF Miss, Requests
  <2>2. r.due => mapping[r.key] # NoTier /\ Persist
    BY <1>7, <2>1 DEF Miss, Known, OnlyAssigned
  <2> DEFINE q == IF Persist THEN [r EXCEPT !.at = "fetch"] ELSE Resolved(r, DefaultTier)
  <2>3. /\ q.key = r.key /\ q.due = r.due
        /\ q.at \in {"fetch", "known", "table"} /\ (q.at = "fetch" \/ ~Persist)
    BY <2>1 DEF Resolved, Requests
  <2>4. Goes(c, q) /\ UNCHANGED <<mapping, cache, op, assigned>>
    BY <1>7 DEF Miss, history
  <2> HIDE DEF q
  <2>5. Known(q, mapping, cache, assigned)
    BY <2>2, <2>3 DEF Known
  <2>. QED  BY <1>2, <2>4, <2>5
<1>8. CASE Fetch(c)
  <2>1. r \in Requests /\ r.key \in Keys /\ r.at = "fetch"
    BY <1>8, CallTyped DEF Fetch, Requests
  <2>2. CASE mapping[r.key] = NoTier
    <3> DEFINE q == Resolved(r, DefaultTier)
    <3>1. q.due = r.due /\ q.at \in {"known", "table"} /\ ~r.due
      BY <2>1, <2>2 DEF Resolved, Requests, Known
    <3>2. Goes(c, q) /\ UNCHANGED <<mapping, cache, op, assigned>>
      BY <1>8, <2>2 DEF Fetch, history
    <3> HIDE DEF q
    <3>3. Known(q, mapping, cache, assigned)
      BY <3>1 DEF Known
    <3>. QED  BY <1>2, <3>2, <3>3
  <2>3. CASE mapping[r.key] # NoTier
    <3> DEFINE q == [r EXCEPT !.at = "store", !.tier = mapping[r.key]]
    <3>1. q.at = "store" /\ q.tier = mapping[r.key] /\ q.key = r.key
      BY <2>1 DEF Requests
    <3>2. Goes(c, q) /\ UNCHANGED <<mapping, cache, op, assigned>>
      BY <1>8, <2>3 DEF Fetch, history
    <3> HIDE DEF q
    <3>3. Known(q, mapping, cache, assigned)
      BY <2>1, <2>3, <3>1 DEF Known, OnlyAssigned
    <3>. QED  BY <1>2, <3>2, <3>3
  <2>. QED  BY <2>2, <2>3
<1>9. CASE FetchFails(c)
  <2>1. r \in Requests
    BY <1>9, CallTyped DEF FetchFails
  <2> DEFINE q == [Resolved(r, DefaultTier) EXCEPT !.due = FALSE]
  <2>2. q.due = FALSE /\ q.at \in {"known", "table"}
    BY <2>1 DEF Resolved, Requests
  <2>3. Goes(c, q) /\ UNCHANGED <<mapping, cache, op, assigned>>
    BY <1>9 DEF FetchFails, history
  <2> HIDE DEF q
  <2>4. Known(q, mapping, cache, assigned)
    BY <2>2 DEF Known
  <2>. QED  BY <1>2, <2>3, <2>4
<1>10. CASE Store(c)
  <2>1. /\ r \in Requests /\ r.key \in Keys /\ r.node \in Nodes /\ r.at = "store"
        /\ r.tier \in Tiers
    BY <1>10, CallTyped DEF Store, Requests, TypeOK, HasFound
  <2>2. r.tier \in assigned[r.key] /\ r.tier # NoTier
    BY <2>1, TierAssumption DEF Known
  <2>3. /\ cache' = [cache EXCEPT ![r.node][r.key] = r.tier]
        /\ UNCHANGED <<mapping, op, assigned>> /\ Goes(c, Resolved(r, r.tier))
    BY <1>10 DEF Store, history
  <2>4. \A n \in Nodes, k \in Keys :
          cache'[n][k] = IF n = r.node /\ k = r.key THEN r.tier ELSE cache[n][k]
    BY <2>1, <2>3 DEF TypeOK
  <2>5. AllKnown'
    BY <1>5, <2>1, <2>2, <2>3, <2>4
  <2>6. OnlyAssigned'
    BY <2>2, <2>3, <2>4 DEF OnlyAssigned
  <2>. QED  BY <2>5, <2>6
<1>11. CASE ReadTable(c) \/ UpdateDecides(c) \/ UpdateFails(c)
  <2>1. r \in Requests /\ r.at \in {"table", "update"}
    BY <1>11, CallTyped DEF ReadTable, UpdateDecides, UpdateFails
  <2>2. ASSUME NEW q, Goes(c, q), q.key = r.key, q.tier = r.tier, q.due = r.due,
               q.at \in {"unknown", "update", "allowed", "denied", "open", "error"}
        PROVE  AllKnown' /\ OnlyAssigned'
    <3>1. UNCHANGED <<mapping, cache, op, assigned>>
      BY <1>11 DEF ReadTable, UpdateDecides, UpdateFails, history
    <3>2. Known(q, mapping, cache, assigned)
      BY <2>1, <2>2 DEF Known
    <3>. QED  BY <1>2, <2>2, <3>1, <3>2
  <2>3. CASE ReadTable(c)
    BY <2>1, <2>2, <2>3 DEF ReadTable, Requests
  <2>4. CASE UpdateDecides(c)
    BY <2>1, <2>2, <2>4 DEF UpdateDecides, At, Requests
  <2>5. CASE UpdateFails(c)
    BY <2>1, <2>2, <2>5 DEF UpdateFails, At, Requests
  <2>. QED  BY <1>11, <2>3, <2>4, <2>5
<1>. QED  BY <1>3, <1>4, <1>6, <1>7, <1>8, <1>9, <1>10, <1>11

(* A step that no call takes, and that no node's tables are lost in.       *)
LEMMA OthersKnown ==
  ASSUME Promoted, request' = request,
         \A k \in Keys : /\ mapping[k] # NoTier => mapping'[k] # NoTier
                         /\ assigned[k] \subseteq assigned'[k],
         \A n \in Nodes, k \in Keys : cache[n][k] # NoTier => cache'[n][k] # NoTier
  PROVE  AllKnown'
<1>1. ASSUME NEW d \in Callers
      PROVE  Known(request[d], mapping', cache', assigned')
  <2>1. CASE request[d] = Idle
    BY <2>1, KnownIdle
  <2>2. CASE request[d] \in Requests
    <3>1. request[d].node \in Nodes /\ request[d].key \in Keys
      BY <2>2 DEF Requests
    <3>2. Known(request[d], mapping, cache, assigned)
      BY DEF Promoted, AllKnown
    <3>. QED  BY <3>1, <3>2, KnownGrows
  <2>. QED  BY <2>1, <2>2 DEF Promoted, TypeOK
<1>. QED  BY <1>1 DEF AllKnown

(* What operators and nodes do.                                            *)
LEMMA OtherStepsKnown ==
  ASSUME Promoted, Next,
         ~\E c \in Callers :
            \/ \E n \in Nodes, k \in Keys : AllowN(c, n, k) \/ GetKeyTier(c, n, k)
            \/ AskDynamic(c) \/ FindTarget(c) \/ ApplyDynamic(c)
            \/ Hit(c) \/ Miss(c) \/ Fetch(c) \/ FetchFails(c) \/ Store(c)
            \/ ReadTable(c) \/ UpdateDecides(c) \/ UpdateFails(c)
  PROVE  AllKnown' /\ OnlyAssigned'
<1>. TypeOK /\ OnlyAssigned
  BY DEF Promoted
<1>1. ASSUME NEW o \in Operators, NEW n \in Nodes, NEW next, Start(o, n, next),
             next.at # "persist"
      PROVE  AllKnown' /\ OnlyAssigned'
  <2>1. UNCHANGED <<request, mapping, cache, assigned>> /\ op' = [op EXCEPT ![o] = next]
    BY <1>1 DEF Start, history
  <2>2. OnlyAssigned'
    BY <1>1, <2>1 DEF OnlyAssigned, TypeOK
  <2>. QED  BY <2>1, <2>2, OthersKnown
<1>2. ASSUME NEW o \in Operators,
             \/ \E n \in Nodes, k \in Keys, t \in Tiers : AssignKeyToTier(o, n, k, t)
             \/ \E n \in Nodes, t \in Tiers, l \in Limits : SetTierLimit(o, n, t, l)
             \/ \E n \in Nodes, k \in Keys, l \in Limits : SetLimit(o, n, k, l)
             \/ \E n \in Nodes, k \in Keys : Reset(o, n, k)
      PROVE  AllKnown' /\ OnlyAssigned'
  BY <1>1, <1>2 DEF AssignKeyToTier, SetTierLimit, SetLimit, Reset
<1>3. ASSUME NEW o \in Operators, Assign(o)
      PROVE  AllKnown' /\ OnlyAssigned'
  <2> DEFINE p == op[o]
  <2>1. p \in Ops /\ p.node \in Nodes /\ p.key \in Keys /\ p.tier \in Tiers /\ p.tier # NoTier
    BY <1>3, OperationTyped, TierAssumption DEF Assign
  <2>2. /\ UNCHANGED <<request, mapping>>
        /\ \A n \in Nodes, k \in Keys :
             cache'[n][k] = IF n = p.node /\ k = p.key THEN p.tier ELSE cache[n][k]
    BY <1>3, <2>1 DEF Assign, TypeOK
  <2>3. \A k \in Keys :
          assigned'[k] = IF k = p.key THEN assigned[k] \cup {p.tier} ELSE assigned[k]
    BY <1>3, <2>1 DEF Assign, TypeOK
  <2>4. AllKnown'
    BY <2>1, <2>2, <2>3, OthersKnown
  <2>5. /\ op'[o].at = "persist" => Persist /\ op'[o].tier = p.tier /\ op'[o].key = p.key
        /\ \A u \in Operators \ {o} : op'[u] = op[u]
    <3>1. CASE Persist
      <4>1. op' = [op EXCEPT ![o] = [p EXCEPT !.at = "persist"]]
        BY <1>3, <3>1 DEF Assign
      <4>. QED  BY <2>1, <3>1, <4>1 DEF TypeOK, Ops
    <3>2. CASE ~Persist
      <4>1. op' = [op EXCEPT ![o] = Idle]
        BY <1>3, <3>2 DEF Assign
      <4>. QED  BY <4>1 DEF TypeOK, Idle
    <3>. QED  BY <3>1, <3>2
  <2>6. \A u \in Operators :
          op'[u].at = "persist" => Persist /\ op'[u].tier \in assigned'[op'[u].key]
    <3>1. ASSUME NEW u \in Operators, u # o, op'[u].at = "persist"
          PROVE  Persist /\ op'[u].tier \in assigned'[op'[u].key]
      <4>1. op'[u] = op[u] /\ op[u].at = "persist"
        BY <2>5, <3>1
      <4>2. op[u].key \in Keys
        BY <4>1, OperationTyped
      <4>3. Persist /\ op[u].tier \in assigned[op[u].key]
        BY <4>1 DEF OnlyAssigned
      <4>4. assigned[op[u].key] \subseteq assigned'[op[u].key]
        BY <2>3, <4>2
      <4>5. op[u].tier \in assigned'[op[u].key]
        BY <4>3, <4>4
      <4>. QED  BY <4>1, <4>3, <4>5
    <3>2. p.tier \in assigned'[p.key]
      BY <2>1, <2>3
    <3>3. op'[o].at = "persist" => Persist /\ op'[o].tier \in assigned'[op'[o].key]
      <4>1. ASSUME op'[o].at = "persist"
            PROVE  Persist /\ op'[o].tier = p.tier /\ op'[o].key = p.key
        BY <2>5, <4>1
      <4>. QED  BY <3>2, <4>1
    <3>. QED  BY <3>1, <3>3
  <2>7. OnlyAssigned'
    BY <2>2, <2>3, <2>6 DEF OnlyAssigned
  <2>. QED  BY <2>4, <2>7
<1>4. ASSUME NEW o \in Operators, PersistMapping(o) \/ PersistFails(o)
      PROVE  AllKnown' /\ OnlyAssigned'
  <2> DEFINE p == op[o]
  <2>1. /\ p.at = "persist" /\ p.key \in Keys /\ p.tier \in Tiers /\ p.tier # NoTier
        /\ Persist /\ p.tier \in assigned[p.key]
    BY <1>4, OperationTyped, TierAssumption DEF PersistMapping, PersistFails, OnlyAssigned
  <2>2. /\ UNCHANGED <<request, cache, assigned>>
        /\ op' = [op EXCEPT ![o] = Idle]
        /\ mapping' = mapping \/ mapping' = [mapping EXCEPT ![p.key] = p.tier]
    BY <1>4 DEF PersistMapping, PersistFails, Done, history
  <2>3. \A k \in Keys : mapping'[k] = mapping[k] \/ (k = p.key /\ mapping'[k] = p.tier)
    BY <2>2 DEF TypeOK
  <2>4. AllKnown'
    BY <2>1, <2>2, <2>3, OthersKnown
  <2>5. OnlyAssigned'
    BY <2>1, <2>2, <2>3 DEF OnlyAssigned, TypeOK, Idle
  <2>. QED  BY <2>4, <2>5
<1>5. ASSUME NEW o \in Operators, WriteLimit(o) \/ Delete(o) \/ DeleteFails(o)
      PROVE  AllKnown' /\ OnlyAssigned'
  <2>1. UNCHANGED <<request, mapping, cache, assigned>> /\ op' = [op EXCEPT ![o] = Idle]
    BY <1>5 DEF WriteLimit, Delete, DeleteFails, Done, history
  <2>2. OnlyAssigned'
    BY <2>1 DEF OnlyAssigned, TypeOK, Idle
  <2>. QED  BY <2>1, <2>2, OthersKnown
<1>6. ASSUME UNCHANGED <<request, mapping, cache, assigned, op>>
      PROVE  AllKnown' /\ OnlyAssigned'
  BY <1>6, OthersKnown DEF OnlyAssigned
<1>7. ASSUME NEW n \in Nodes, Restart(n)
      PROVE  AllKnown' /\ OnlyAssigned'
  <2>1. /\ UNCHANGED <<mapping, assigned>>
        /\ \A m \in Nodes, k \in Keys :
             cache'[m][k] = IF m = n THEN NoTier ELSE cache[m][k]
        /\ \A c \in Callers :
             request'[c] = IF Runs(n, request[c]) THEN Idle ELSE request[c]
        /\ \A o \in Operators : op'[o] = IF Runs(n, op[o]) THEN Idle ELSE op[o]
    BY <1>7 DEF Restart, TypeOK
  <2>2. ASSUME NEW c \in Callers
        PROVE  Known(request'[c], mapping', cache', assigned')
    <3>1. CASE request'[c] = Idle
      BY <3>1, KnownIdle
    <3>2. CASE request'[c] # Idle
      <4>1. request'[c] = request[c] /\ request[c] \in Requests /\ request[c].node # n
        BY <2>1, <3>2 DEF Runs, TypeOK
      <4>2. request[c].node \in Nodes /\ request[c].key \in Keys
        BY <4>1 DEF Requests
      <4>3. Known(request[c], mapping, cache, assigned)
        BY DEF Promoted, AllKnown
      <4>4. cache'[request[c].node][request[c].key] = cache[request[c].node][request[c].key]
        BY <2>1, <4>1, <4>2
      <4>5. Known(request[c], mapping', cache', assigned')
        BY <2>1, <4>3, <4>4, KnownGrows
      <4>. QED  BY <4>1, <4>5
    <3>. QED  BY <3>1, <3>2
  <2>3. OnlyAssigned'
    BY <2>1 DEF OnlyAssigned, Idle
  <2>. QED  BY <2>2, <2>3 DEF AllKnown
<1>8. ASSUME NEW n \in Nodes, Close(n) \/ Disconnect(n)
      PROVE  UNCHANGED <<request, mapping, cache, assigned, op>>
  BY <1>8 DEF Close, Disconnect, history
<1>9. ASSUME \/ \E k \in Keys : Expire(k)
             \/ ManagerStep
      PROVE  UNCHANGED <<request, mapping, cache, assigned, op>>
  BY <1>9 DEF Expire, ManagerStep, history
<1>. QED  BY <1>2, <1>3, <1>4, <1>5, <1>6, <1>7, <1>8, <1>9 DEF Next

(* A key whose tier was persisted or cached when a call began is not       *)
(* demoted to the default, unless the backend fails the call (AllowN's and *)
(* GetKeyTier's reading of keyTiers and of the backend).                   *)
THEOREM TierNeverDemoted == Spec => []NeverDemoted
<1>1. Init => AllKnown /\ OnlyAssigned
  BY KnownIdle DEF Init, AllKnown, OnlyAssigned, Idle
<1>2. TypeOK /\ AllKnown /\ OnlyAssigned /\ [Next]_vars => (AllKnown /\ OnlyAssigned)'
  <2>1. ASSUME Promoted, UNCHANGED vars
        PROVE  AllKnown' /\ OnlyAssigned'
    BY <2>1, OthersKnown DEF vars, history, OnlyAssigned, Promoted
  <2>. QED  BY <2>1, CallStepsKnown, OtherStepsKnown DEF Promoted
<1>3. AllKnown => NeverDemoted
  BY DEF AllKnown, Known, NeverDemoted
<1>. QED  BY <1>1, <1>2, <1>3, TierTypeOK, PTL DEF Spec

-----------------------------------------------------------------------------
(* The tenant limiter.  Each of its steps is one of the tier limiter's or  *)
(* counts a decision, so that it implements the tier limiter and has what  *)
(* the theorems above say of it.                                           *)
LEMMA TenantStepIsTier == [TenantNext]_allVars => [Next]_vars
<1>1. ASSUME NEW c \in Callers,
             \/ \E n \in Nodes, k \in Keys : TenantAllowN(c, n, k) \/ GetKeyTenant(c, n, k)
             \/ ApplyLimit(c) \/ FindTenant(c) \/ ReadTenant(c)
             \/ TenantUpdateDecides(c) \/ TenantUpdateFails(c)
      PROVE  Next
  BY <1>1 DEF Next, TenantAllowN, GetKeyTenant, ApplyLimit, FindTenant, ReadTenant,
              TenantUpdateDecides, TenantUpdateFails
<1>2. ASSUME NEW c \in Callers, CountDecision(c) PROVE UNCHANGED vars
  BY <1>2 DEF CountDecision
<1>3. ASSUME NEW o \in Operators,
             \/ \E n \in Nodes, k \in Keys, t \in Tiers : AssignKeyToTenant(o, n, k, t)
             \/ \E n \in Nodes, t \in Tiers, l \in Limits : SetTenantLimit(o, n, t, l)
             \/ \E n \in Nodes, k \in Keys, l \in Limits : SetTenantLimitOfKey(o, n, k, l)
             \/ \E n \in Nodes, k \in Keys : TenantReset(o, n, k)
             \/ TenantAssign(o) \/ PersistTenant(o) \/ WriteTenantLimit(o) \/ DeleteState(o)
      PROVE  Next
  BY <1>3 DEF Next, AssignKeyToTenant, SetTenantLimit, SetTenantLimitOfKey, TenantReset,
              TenantAssign, PersistTenant, WriteTenantLimit, DeleteState
<1>4. ASSUME NEW n \in Nodes, TenantClose(n) \/ TenantRestart(n) PROVE Next
  BY <1>4 DEF Next, TenantClose, TenantRestart
<1>5. ASSUME NEW k \in Keys, TenantExpire(k) PROVE Next
  BY <1>5 DEF Next, TenantExpire
<1>6. ASSUME NEW n \in DynamicNodes, UpdateLimits(n) PROVE Next
  BY <1>6 DEF Next, UpdateLimits
<1>7. UNCHANGED allVars => UNCHANGED vars
  BY DEF allVars
<1>. QED  BY <1>1, <1>2, <1>3, <1>4, <1>5, <1>6, <1>7 DEF TenantNext

(* The tenant limiter implements the tier limiter: its statistics change   *)
(* nothing of what the tier limiter does (tenant.go against tier.go).      *)
THEOREM TenantImplementsTier == TenantSpec => Spec
<1>1. TenantInit => Init
  BY DEF TenantInit
<1>. QED  BY <1>1, TenantStepIsTier, PTL DEF TenantSpec, Spec

(* So no tenant's key is demoted to the default tenant, and an assignment  *)
(* stands on the node that made it (AssignKeyToTenant, AllowN).            *)
THEOREM TenantKeepsAssignments == TenantSpec => [](TypeOK /\ NeverDemoted /\ AssignmentStands)
BY TenantImplementsTier, TierTypeOK, TierNeverDemoted, TierAssignmentStands, PTL

-----------------------------------------------------------------------------
(* The decisions of tenant t with this outcome that node n has not counted *)
(* yet.                                                                    *)
Uncounted(n, t, outcome) ==
  {c \in counting : request[c].node = n /\ request[c].tier = t /\ request[c].at = outcome}

AllStats ==
  [totalKeys : Nat, allowedCount : Nat, deniedCount : Nat, totalRequests : Nat]

(* A tenant's statistics and the decisions still to be counted make up     *)
(* what was decided.                                                       *)
Balanced(n, t) ==
  /\ tenantStats[n][t].allowedCount + Cardinality(Uncounted(n, t, "allowed"))
       = decided[n][t].allowed
  /\ tenantStats[n][t].deniedCount + Cardinality(Uncounted(n, t, "denied"))
       = decided[n][t].denied
  /\ tenantStats[n][t].totalRequests
       = tenantStats[n][t].allowedCount + tenantStats[n][t].deniedCount

(* A call about to be counted is decided, with the tenant it is counted    *)
(* for, and stays so until it is counted.                                  *)
Countable(c) ==
  /\ request[c].at \in {"allowed", "denied"}
  /\ request[c].node \in Nodes /\ request[c].tier \in Tiers

StatsInv ==
  /\ counting \in SUBSET Callers /\ IsFiniteSet(counting)
  /\ \A c \in counting : Countable(c)
  /\ tenantStats \in [Nodes -> [Tiers -> AllStats]]
  /\ decided \in [Nodes -> [Tiers -> [allowed : Nat, denied : Nat]]]
  /\ \A n \in Nodes, t \in Tiers : Balanced(n, t)

LEMMA StatsInvAddsUp == StatsInv => StatsAddUp
BY DEF StatsInv, Balanced, Uncounted, StatsAddUp

LEMMA UncountedIsFinite ==
  ASSUME StatsInv, NEW n, NEW t, NEW outcome
  PROVE  /\ IsFiniteSet(Uncounted(n, t, outcome))
         /\ Cardinality(Uncounted(n, t, outcome)) \in Nat
<1>1. Uncounted(n, t, outcome) \in SUBSET counting /\ IsFiniteSet(counting)
  BY DEF Uncounted, StatsInv
<1>. QED  BY <1>1, FS_Subset, FS_CardinalityType

(* A step that does not touch the calls about to be counted.               *)
LEMMA QuietStats ==
  ASSUME StatsInv, UNCHANGED statistics, \A c \in counting : request'[c] = request[c]
  PROVE  StatsInv'
<1>1. \A n \in Nodes, t \in Tiers :
        /\ Uncounted(n, t, "allowed")' = Uncounted(n, t, "allowed")
        /\ Uncounted(n, t, "denied")' = Uncounted(n, t, "denied")
  BY DEF Uncounted, statistics
<1>2. \A c \in counting : Countable(c)'
  BY DEF StatsInv, Countable
<1>3. counting' = counting /\ tenantStats' = tenantStats /\ decided' = decided
  BY DEF statistics
<1>4. \A n \in Nodes, t \in Tiers : Balanced(n, t)'
  BY <1>1, <1>3 DEF StatsInv, Balanced
<1>. QED  BY <1>2, <1>3, <1>4 DEF StatsInv

LEMMA QuietCall ==
  ASSUME TypeOK, StatsInv, UNCHANGED statistics, NEW c \in Callers, c \notin counting,
         NEW r, Goes(c, r)
  PROVE  StatsInv'
<1>1. \A d \in counting : request'[d] = request[d]
  BY DEF StatsInv, Goes, TypeOK
<1>. QED  BY <1>1, QuietStats

LEMMA UpdateDecidesStats ==
  ASSUME TypeOK, StatsInv, NEW c \in Callers, TenantUpdateDecides(c)
  PROVE  StatsInv'
<1> DEFINE r == request[c]
<1>1. r.at = "update" /\ r \in Requests /\ r.node \in Nodes /\ r.tier \in Tiers
  BY CallTyped DEF TenantUpdateDecides, UpdateDecides, TypeOK, HasFound, Requests
<1>a. PICK outcome \in {"allowed", "denied"} :
        \E q : Goes(c, q) /\ q.at = outcome /\ q.node = r.node /\ q.tier = r.tier
  <2>1. \/ Goes(c, [r EXCEPT !.at = "allowed", !.charge = counter[r.key] + 1])
        \/ Goes(c, [r EXCEPT !.at = "denied"])
    BY DEF TenantUpdateDecides, UpdateDecides, At
  <2>2. /\ [r EXCEPT !.at = "allowed", !.charge = counter[r.key] + 1].at = "allowed"
        /\ [r EXCEPT !.at = "allowed", !.charge = counter[r.key] + 1].node = r.node
        /\ [r EXCEPT !.at = "allowed", !.charge = counter[r.key] + 1].tier = r.tier
        /\ [r EXCEPT !.at = "denied"].at = "denied"
        /\ [r EXCEPT !.at = "denied"].node = r.node
        /\ [r EXCEPT !.at = "denied"].tier = r.tier
    BY <1>1 DEF Requests
  <2>. QED  BY <2>1, <2>2
<1>2. PICK q : Goes(c, q) /\ q.at = outcome /\ q.node = r.node /\ q.tier = r.tier
  BY <1>a
<1>3. request'[c] = q /\ \A d \in Callers \ {c} : request'[d] = request[d]
  BY <1>2 DEF Goes, TypeOK
<1>4. /\ counting' = counting \cup {c} /\ tenantStats' = tenantStats
      /\ decided' = [decided EXCEPT ![r.node][r.tier][outcome] = @ + 1]
  BY <1>2, <1>3 DEF TenantUpdateDecides
<1>5. c \notin counting
  BY <1>1 DEF StatsInv, Countable
<1>6. counting' \in SUBSET Callers /\ IsFiniteSet(counting')
  BY <1>4, FS_AddElement DEF StatsInv
<1>7. \A d \in counting' : Countable(d)'
  BY <1>1, <1>2, <1>3, <1>4 DEF StatsInv, Countable
<1>8. \A n \in Nodes, t \in Tiers, o \in {"allowed", "denied"} :
        Uncounted(n, t, o)' = IF n = r.node /\ t = r.tier /\ o = outcome
                                THEN Uncounted(n, t, o) \cup {c} ELSE Uncounted(n, t, o)
  <2>1. \A d \in counting : request'[d] = request[d]
    BY <1>3, <1>5 DEF StatsInv
  <2> HIDE DEF r
  <2>. QED  BY <1>2, <1>3, <1>4, <2>1 DEF Uncounted
<1>9. decided' \in [Nodes -> [Tiers -> [allowed : Nat, denied : Nat]]]
  <2>1. decided[r.node][r.tier] \in [allowed : Nat, denied : Nat]
    BY <1>1 DEF StatsInv
  <2>2. [decided[r.node][r.tier] EXCEPT ![outcome] = @ + 1] \in [allowed : Nat, denied : Nat]
    BY <2>1
  <2>3. [decided[r.node] EXCEPT ![r.tier] = [decided[r.node][r.tier] EXCEPT ![outcome] = @ + 1]]
          \in [Tiers -> [allowed : Nat, denied : Nat]]
    BY <1>1, <2>2 DEF StatsInv
  <2>. QED  BY <1>1, <1>4, <2>3 DEF StatsInv
<1>10. ASSUME NEW n \in Nodes, NEW t \in Tiers PROVE Balanced(n, t)'
  <2>1. /\ decided[n][t] \in [allowed : Nat, denied : Nat]
        /\ decided'[n][t] = IF n = r.node /\ t = r.tier
                              THEN [decided[n][t] EXCEPT ![outcome] = @ + 1] ELSE decided[n][t]
    <3> HIDE DEF r
    <3>. QED  BY <1>1, <1>4 DEF StatsInv
  <2>2. /\ Balanced(n, t) /\ tenantStats[n][t] \in AllStats
    BY DEF StatsInv
  <2>3. \A o \in {"allowed", "denied"} :
          /\ IsFiniteSet(Uncounted(n, t, o)) /\ Cardinality(Uncounted(n, t, o)) \in Nat
          /\ c \notin Uncounted(n, t, o)
    <3>1. \A o \in {"allowed", "denied"} : c \notin Uncounted(n, t, o)
      BY <1>5 DEF Uncounted
    <3>. QED  BY <3>1, UncountedIsFinite
  <2>4. \A o \in {"allowed", "denied"} :
          Cardinality(Uncounted(n, t, o) \cup {c}) = Cardinality(Uncounted(n, t, o)) + 1
    BY <2>3, FS_AddElement
  <2>a. /\ \A f \in {"allowed", "denied"} : decided[n][t][f] \in Nat
        /\ tenantStats[n][t].allowedCount \in Nat /\ tenantStats[n][t].deniedCount \in Nat
    BY <2>1, <2>2 DEF AllStats
  <2>b. tenantStats'[n][t] = tenantStats[n][t]
    BY <1>4
  <2>5. CASE n = r.node /\ t = r.tier
    <3> HIDE DEF r
    <3>1. CASE outcome = "allowed"
      <4>1. /\ Uncounted(n, t, "allowed")' = Uncounted(n, t, "allowed") \cup {c}
            /\ Uncounted(n, t, "denied")' = Uncounted(n, t, "denied")
        BY <1>8, <2>5, <3>1
      <4>2. decided'[n][t].allowed = decided[n][t].allowed + 1
            /\ decided'[n][t].denied = decided[n][t].denied
        BY <2>1, <2>5, <3>1
      <4>3. /\ Cardinality(Uncounted(n, t, "allowed")') = Cardinality(Uncounted(n, t, "allowed")) + 1
            /\ Cardinality(Uncounted(n, t, "denied")') = Cardinality(Uncounted(n, t, "denied"))
        BY <2>4, <4>1
      <4>4. tenantStats'[n][t].allowedCount + Cardinality(Uncounted(n, t, "allowed")') = decided'[n][t].allowed
        <5>1. tenantStats[n][t].allowedCount + Cardinality(Uncounted(n, t, "allowed")) = decided[n][t].allowed
          BY <2>2 DEF Balanced
        <5>. QED  BY <2>3, <2>a, <2>b, <4>2, <4>3, <5>1
      <4>5. tenantStats'[n][t].deniedCount + Cardinality(Uncounted(n, t, "denied")') = decided'[n][t].denied
        BY <2>2, <2>b, <4>2, <4>3 DEF Balanced
      <4>. QED  BY <2>2, <2>b, <4>4, <4>5 DEF Balanced
    <3>2. CASE outcome = "denied"
      <4>1. /\ Uncounted(n, t, "denied")' = Uncounted(n, t, "denied") \cup {c}
            /\ Uncounted(n, t, "allowed")' = Uncounted(n, t, "allowed")
        BY <1>8, <2>5, <3>2
      <4>2. decided'[n][t].denied = decided[n][t].denied + 1
            /\ decided'[n][t].allowed = decided[n][t].allowed
        BY <2>1, <2>5, <3>2
      <4>3. /\ Cardinality(Uncounted(n, t, "denied")') = Cardinality(Uncounted(n, t, "denied")) + 1
            /\ Cardinality(Uncounted(n, t, "allowed")') = Cardinality(Uncounted(n, t, "allowed"))
        BY <2>4, <4>1
      <4>4. tenantStats'[n][t].deniedCount + Cardinality(Uncounted(n, t, "denied")') = decided'[n][t].denied
        <5>1. tenantStats[n][t].deniedCount + Cardinality(Uncounted(n, t, "denied")) = decided[n][t].denied
          BY <2>2 DEF Balanced
        <5>. QED  BY <2>3, <2>a, <2>b, <4>2, <4>3, <5>1
      <4>5. tenantStats'[n][t].allowedCount + Cardinality(Uncounted(n, t, "allowed")') = decided'[n][t].allowed
        BY <2>2, <2>b, <4>2, <4>3 DEF Balanced
      <4>. QED  BY <2>2, <2>b, <4>4, <4>5 DEF Balanced
    <3>. QED  BY <3>1, <3>2
  <2>6. CASE ~(n = r.node /\ t = r.tier)
    <3> HIDE DEF r
    <3>1. /\ Uncounted(n, t, "allowed")' = Uncounted(n, t, "allowed")
          /\ Uncounted(n, t, "denied")' = Uncounted(n, t, "denied")
          /\ decided'[n][t] = decided[n][t]
      BY <1>8, <2>1, <2>6
    <3>. QED  BY <1>4, <2>2, <3>1 DEF Balanced
  <2>. QED  BY <2>5, <2>6
<1>. QED  BY <1>4, <1>6, <1>7, <1>9, <1>10 DEF StatsInv

LEMMA CountDecisionStats ==
  ASSUME TypeOK, StatsInv, NEW c \in Callers, CountDecision(c)
  PROVE  StatsInv'
<1> DEFINE r == request[c]
<1>1. c \in counting /\ r.at \in {"allowed", "denied"} /\ r.node \in Nodes /\ r.tier \in Tiers
  BY DEF CountDecision, StatsInv, Countable
<1>2. /\ counting' = counting \ {c} /\ decided' = decided /\ request' = request
      /\ tenantStats' = [tenantStats EXCEPT ![r.node][r.tier] = Counted(@, r.at)]
  BY DEF CountDecision, vars
<1>3. counting' \in SUBSET Callers /\ IsFiniteSet(counting')
  BY <1>2, FS_RemoveElement DEF StatsInv
<1>4. \A d \in counting' : Countable(d)'
  BY <1>2 DEF StatsInv, Countable
<1>5. \A n \in Nodes, t \in Tiers, o \in {"allowed", "denied"} :
        /\ Uncounted(n, t, o)' = Uncounted(n, t, o) \ {c}
        /\ c \in Uncounted(n, t, o) <=> n = r.node /\ t = r.tier /\ o = r.at
  BY <1>1, <1>2 DEF Uncounted
<1>6. \A s \in AllStats :
        /\ Counted(s, r.at) \in AllStats
        /\ r.at = "allowed" => /\ Counted(s, r.at).allowedCount = s.allowedCount + 1
                               /\ Counted(s, r.at).deniedCount = s.deniedCount
        /\ r.at = "denied" => /\ Counted(s, r.at).deniedCount = s.deniedCount + 1
                              /\ Counted(s, r.at).allowedCount = s.allowedCount
        /\ Counted(s, r.at).totalRequests = s.totalRequests + 1
  <2> HIDE DEF r
  <2> SUFFICES ASSUME NEW s \in AllStats
               PROVE  /\ Counted(s, r.at) \in AllStats
                      /\ r.at = "allowed" => /\ Counted(s, r.at).allowedCount = s.allowedCount + 1
                                             /\ Counted(s, r.at).deniedCount = s.deniedCount
                      /\ r.at = "denied" => /\ Counted(s, r.at).deniedCount = s.deniedCount + 1
                                            /\ Counted(s, r.at).allowedCount = s.allowedCount
                      /\ Counted(s, r.at).totalRequests = s.totalRequests + 1
    OBVIOUS
  <2>1. CASE r.at = "allowed"
    <3>1. r.at # "denied"
      BY <2>1
    <3>2. Counted(s, r.at) \in AllStats
      <4>1. Counted(s, r.at) = [s EXCEPT !.totalRequests = s.totalRequests + 1,
                                         !.allowedCount = s.allowedCount + 1]
        BY <2>1, <3>1 DEF Counted, AllStats
      <4>2. s.totalRequests + 1 \in Nat /\ s.allowedCount + 1 \in Nat
        BY DEF AllStats
      <4>3. \A a, b \in Nat : [s EXCEPT !.totalRequests = a, !.allowedCount = b] \in AllStats
        BY DEF AllStats
      <4>. QED  BY <4>1, <4>2, <4>3
    <3>3. Counted(s, r.at).allowedCount = s.allowedCount + 1
      BY <2>1, <3>1 DEF Counted, AllStats
    <3>4. Counted(s, r.at).deniedCount = s.deniedCount
      BY <2>1, <3>1 DEF Counted, AllStats
    <3>5. Counted(s, r.at).totalRequests = s.totalRequests + 1
      BY <2>1, <3>1 DEF Counted, AllStats
    <3>. QED  BY <2>1, <3>1, <3>2, <3>3, <3>4, <3>5
  <2>2. CASE r.at = "denied"
    <3>1. r.at # "allowed"
      BY <2>2
    <3>2. Counted(s, r.at) \in AllStats
      <4>1. Counted(s, r.at) = [s EXCEPT !.totalRequests = s.totalRequests + 1,
                                         !.deniedCount = s.deniedCount + 1]
        BY <2>2, <3>1 DEF Counted, AllStats
      <4>2. s.totalRequests + 1 \in Nat /\ s.deniedCount + 1 \in Nat
        BY DEF AllStats
      <4>3. \A a, b \in Nat : [s EXCEPT !.totalRequests = a, !.deniedCount = b] \in AllStats
        BY DEF AllStats
      <4>. QED  BY <4>1, <4>2, <4>3
    <3>3. Counted(s, r.at).deniedCount = s.deniedCount + 1
      BY <2>2, <3>1 DEF Counted, AllStats
    <3>4. Counted(s, r.at).allowedCount = s.allowedCount
      BY <2>2, <3>1 DEF Counted, AllStats
    <3>5. Counted(s, r.at).totalRequests = s.totalRequests + 1
      BY <2>2, <3>1 DEF Counted, AllStats
    <3>. QED  BY <2>2, <3>1, <3>2, <3>3, <3>4, <3>5
  <2>. QED  BY <1>1, <2>1, <2>2 DEF r
<1>7. tenantStats' \in [Nodes -> [Tiers -> AllStats]]
  <2> HIDE DEF r
  <2>1. Counted(tenantStats[r.node][r.tier], r.at) \in AllStats
    BY <1>1, <1>6 DEF StatsInv
  <2>2. [tenantStats[r.node] EXCEPT ![r.tier] = Counted(@, r.at)] \in [Tiers -> AllStats]
    BY <1>1, <2>1 DEF StatsInv
  <2>. QED  BY <1>1, <1>2, <2>2 DEF StatsInv
<1>8. ASSUME NEW n \in Nodes, NEW t \in Tiers PROVE Balanced(n, t)'
  <2> HIDE DEF r
  <2>1. /\ tenantStats[n][t] \in AllStats /\ Balanced(n, t)
        /\ tenantStats'[n][t] = IF n = r.node /\ t = r.tier
                                  THEN Counted(tenantStats[n][t], r.at) ELSE tenantStats[n][t]
    BY <1>1, <1>2 DEF StatsInv
  <2>2. \A o \in {"allowed", "denied"} :
          /\ IsFiniteSet(Uncounted(n, t, o)) /\ Cardinality(Uncounted(n, t, o)) \in Nat
          /\ Cardinality(Uncounted(n, t, o)') \in Nat
    <3>1. \A o \in {"allowed", "denied"} :
            IsFiniteSet(Uncounted(n, t, o)) /\ Cardinality(Uncounted(n, t, o)) \in Nat
      BY UncountedIsFinite
    <3>2. \A o \in {"allowed", "denied"} :
            IsFiniteSet(Uncounted(n, t, o)')
      BY <1>5, <3>1, FS_RemoveElement
    <3>. QED  BY <3>1, <3>2, FS_CardinalityType
  <2>3. \A o \in {"allowed", "denied"} :
          Cardinality(Uncounted(n, t, o)') =
            IF n = r.node /\ t = r.tier /\ o = r.at
              THEN Cardinality(Uncounted(n, t, o)) - 1 ELSE Cardinality(Uncounted(n, t, o))
    BY <1>5, <2>2, FS_RemoveElement
  <2>4. CASE n = r.node /\ t = r.tier
    <3>1. CASE r.at = "allowed"
      <4>1. /\ Cardinality(Uncounted(n, t, "allowed")') = Cardinality(Uncounted(n, t, "allowed")) - 1
            /\ Cardinality(Uncounted(n, t, "denied")') = Cardinality(Uncounted(n, t, "denied"))
        BY <2>3, <2>4, <3>1
      <4>2. /\ tenantStats'[n][t].allowedCount = tenantStats[n][t].allowedCount + 1
            /\ tenantStats'[n][t].deniedCount = tenantStats[n][t].deniedCount
            /\ tenantStats'[n][t].totalRequests = tenantStats[n][t].totalRequests + 1
        BY <1>6, <2>1, <2>4, <3>1
      <4>. QED  BY <1>2, <2>1, <2>2, <4>1, <4>2 DEF Balanced, AllStats
    <3>2. CASE r.at = "denied"
      <4>1. /\ Cardinality(Uncounted(n, t, "denied")') = Cardinality(Uncounted(n, t, "denied")) - 1
            /\ Cardinality(Uncounted(n, t, "allowed")') = Cardinality(Uncounted(n, t, "allowed"))
        BY <2>3, <2>4, <3>2
      <4>2. /\ tenantStats'[n][t].deniedCount = tenantStats[n][t].deniedCount + 1
            /\ tenantStats'[n][t].allowedCount = tenantStats[n][t].allowedCount
            /\ tenantStats'[n][t].totalRequests = tenantStats[n][t].totalRequests + 1
        BY <1>6, <2>1, <2>4, <3>2
      <4>. QED  BY <1>2, <2>1, <2>2, <4>1, <4>2 DEF Balanced, AllStats
    <3>. QED  BY <1>1, <3>1, <3>2 DEF r
  <2>5. CASE ~(n = r.node /\ t = r.tier)
    <3>1. /\ Uncounted(n, t, "allowed")' = Uncounted(n, t, "allowed")
          /\ Uncounted(n, t, "denied")' = Uncounted(n, t, "denied")
          /\ tenantStats'[n][t] = tenantStats[n][t]
      <4>1. \A o \in {"allowed", "denied"} :
              Uncounted(n, t, o)' = Uncounted(n, t, o) \ {c} /\ c \notin Uncounted(n, t, o)
        BY <1>5, <2>5 DEF r
      <4>2. \A o \in {"allowed", "denied"} : Uncounted(n, t, o)' = Uncounted(n, t, o)
        BY <4>1
      <4>. QED  BY <2>1, <2>5, <4>2
    <3>. QED  BY <1>2, <2>1, <3>1 DEF Balanced
  <2>. QED  BY <2>4, <2>5
<1>. QED  BY <1>2, <1>3, <1>4, <1>7, <1>8 DEF StatsInv

LEMMA AssignStats ==
  ASSUME TypeOK, StatsInv, NEW o \in Operators, TenantAssign(o)
  PROVE  StatsInv'
<1> DEFINE p == op[o]
<1>1. p.node \in Nodes /\ p.tier \in Tiers
  BY OperationTyped DEF TenantAssign, Assign
<1>2. /\ counting' = counting /\ decided' = decided /\ request' = request
      /\ tenantStats' = [tenantStats EXCEPT ![p.node][p.tier].totalKeys = @ + 1]
  BY DEF TenantAssign, Assign
<1> HIDE DEF p
<1> DEFINE stats == tenantStats[p.node][p.tier]
           more == [stats EXCEPT !.totalKeys = @ + 1]
<1>a. stats \in AllStats
  BY <1>1 DEF StatsInv
<1> HIDE DEF stats
<1>b. /\ more \in AllStats /\ more.allowedCount = stats.allowedCount
      /\ more.deniedCount = stats.deniedCount /\ more.totalRequests = stats.totalRequests
  BY <1>a DEF AllStats
<1>c. tenantStats' = [tenantStats EXCEPT ![p.node][p.tier] = more]
  BY <1>2 DEF stats
<1> HIDE DEF more
<1>3. \A n \in Nodes, t \in Tiers :
        /\ tenantStats'[n][t] \in AllStats
        /\ tenantStats'[n][t].allowedCount = tenantStats[n][t].allowedCount
        /\ tenantStats'[n][t].deniedCount = tenantStats[n][t].deniedCount
        /\ tenantStats'[n][t].totalRequests = tenantStats[n][t].totalRequests
  <2>1. ASSUME NEW n \in Nodes, NEW t \in Tiers
        PROVE  /\ tenantStats[n][t] \in AllStats
               /\ tenantStats'[n][t] = IF n = p.node /\ t = p.tier THEN more ELSE tenantStats[n][t]
    BY <1>1, <1>c DEF StatsInv
  <2>. QED  BY <1>b, <2>1 DEF stats
<1>4. tenantStats' \in [Nodes -> [Tiers -> AllStats]]
  <2>1. [tenantStats[p.node] EXCEPT ![p.tier] = more] \in [Tiers -> AllStats]
    BY <1>1, <1>b DEF StatsInv
  <2>. QED  BY <1>1, <1>c, <2>1 DEF StatsInv
<1>5. \A n \in Nodes, t \in Tiers : Balanced(n, t)'
  <2>1. \A n \in Nodes, t \in Tiers :
          /\ Uncounted(n, t, "allowed")' = Uncounted(n, t, "allowed")
          /\ Uncounted(n, t, "denied")' = Uncounted(n, t, "denied")
    BY <1>2 DEF Uncounted
  <2>. QED  BY <1>2, <1>3, <2>1 DEF StatsInv, Balanced
<1>6. \A c \in counting' : Countable(c)'
  BY <1>2 DEF StatsInv, Countable
<1>. QED  BY <1>2, <1>4, <1>5, <1>6 DEF StatsInv

LEMMA RestartStats ==
  ASSUME TypeOK, StatsInv, NEW n \in Nodes, TenantRestart(n)
  PROVE  StatsInv'
<1>1. /\ tenantStats' = [tenantStats EXCEPT ![n] = [t \in Tiers |-> NoStats]]
      /\ counting' = {c \in counting : request[c].node # n}
      /\ decided' = [decided EXCEPT ![n] = [t \in Tiers |-> NoDecisions]]
      /\ request' = [c \in Callers |-> IF Runs(n, request[c]) THEN Idle ELSE request[c]]
  BY DEF TenantRestart, Restart
<1>2. \A c \in counting' : c \in counting /\ c \in Callers /\ request'[c] = request[c]
  BY <1>1 DEF StatsInv, Runs
<1>3. counting' \in SUBSET Callers /\ IsFiniteSet(counting')
  <2>1. counting' \in SUBSET counting
    BY <1>1
  <2>. QED  BY <2>1, FS_Subset DEF StatsInv
<1>4. \A c \in counting' : Countable(c)'
  BY <1>2 DEF StatsInv, Countable
<1>5. NoStats \in AllStats /\ NoDecisions \in [allowed : Nat, denied : Nat]
  BY DEF NoStats, AllStats, NoDecisions
<1>6. /\ tenantStats' \in [Nodes -> [Tiers -> AllStats]]
      /\ decided' \in [Nodes -> [Tiers -> [allowed : Nat, denied : Nat]]]
  BY <1>1, <1>5 DEF StatsInv
<1>7. ASSUME NEW m \in Nodes, NEW t \in Tiers PROVE Balanced(m, t)'
  <2>1. CASE m = n
    <3>1. \A o \in {"allowed", "denied"} : Uncounted(m, t, o)' = {}
      BY <1>1, <1>2, <2>1 DEF Uncounted
    <3>2. Cardinality({}) = 0
      BY FS_EmptySet
    <3>3. tenantStats'[m][t] = NoStats /\ decided'[m][t] = NoDecisions
      BY <1>1, <2>1 DEF StatsInv
    <3>. QED  BY <3>1, <3>2, <3>3 DEF Balanced, NoStats, NoDecisions
  <2>2. CASE m # n
    <3>1. \A o \in {"allowed", "denied"} : Uncounted(m, t, o)' = Uncounted(m, t, o)
      BY <1>1, <1>2, <2>2 DEF Uncounted
    <3>2. tenantStats'[m][t] = tenantStats[m][t] /\ decided'[m][t] = decided[m][t]
      BY <1>1, <2>2 DEF StatsInv
    <3>. QED  BY <3>1, <3>2 DEF StatsInv, Balanced
  <2>. QED  BY <2>1, <2>2
<1>. QED  BY <1>3, <1>4, <1>6, <1>7 DEF StatsInv

LEMMA TenantStepStats == TypeOK /\ StatsInv /\ [TenantNext]_allVars => StatsInv'
<1> SUFFICES ASSUME TypeOK, StatsInv, [TenantNext]_allVars
             PROVE  StatsInv'
  OBVIOUS
<1>1. ASSUME NEW c \in Callers, request[c].at \notin {"allowed", "denied"}
      PROVE  c \notin counting
  BY <1>1 DEF StatsInv, Countable
<1>2. ASSUME NEW c \in Callers,
             \E n \in Nodes, k \in Keys : TenantAllowN(c, n, k) \/ GetKeyTenant(c, n, k)
      PROVE  StatsInv'
  <2>1. UNCHANGED statistics /\ c \notin counting /\ \E r : Goes(c, r)
    BY <1>2 DEF TenantAllowN, GetKeyTenant, AllowN, GetKeyTier, Begin
  <2>. QED  BY <2>1, QuietCall
<1>3. ASSUME NEW c \in Callers,
             ApplyLimit(c) \/ FindTenant(c) \/ ReadTenant(c) \/ TenantUpdateFails(c)
      PROVE  StatsInv'
  <2>1. UNCHANGED statistics /\ request[c].at \notin {"allowed", "denied"}
    BY <1>3 DEF ApplyLimit, FindTenant, ReadTenant, TenantUpdateFails, AskDynamic, FindTarget,
                ApplyDynamic, Hit, Miss, Fetch, FetchFails, Store, ReadTable, UpdateFails
  <2>2. \E r : Goes(c, r)
    BY <1>3 DEF ApplyLimit, FindTenant, ReadTenant, TenantUpdateFails, AskDynamic, FindTarget,
                ApplyDynamic, Hit, Miss, Fetch, FetchFails, Store, ReadTable, UpdateFails, At
  <2>. QED  BY <1>1, <2>1, <2>2, QuietCall
<1>4. ASSUME UNCHANGED <<request, statistics>> PROVE StatsInv'
  BY <1>4, QuietStats
<1>5. ASSUME NEW o \in Operators,
             \/ \E n \in Nodes, k \in Keys, t \in Tiers : AssignKeyToTenant(o, n, k, t)
             \/ \E n \in Nodes, t \in Tiers, l \in Limits : SetTenantLimit(o, n, t, l)
             \/ \E n \in Nodes, k \in Keys, l \in Limits : SetTenantLimitOfKey(o, n, k, l)
             \/ \E n \in Nodes, k \in Keys : TenantReset(o, n, k)
             \/ PersistTenant(o) \/ WriteTenantLimit(o) \/ DeleteState(o)
      PROVE  StatsInv'
  <2>1. UNCHANGED <<request, statistics>>
    BY <1>5 DEF AssignKeyToTenant, SetTenantLimit, SetTenantLimitOfKey, TenantReset,
                PersistTenant, WriteTenantLimit, DeleteState, AssignKeyToTier, SetTierLimit,
                SetLimit, Reset, Start, PersistMapping, PersistFails, WriteLimit, Delete,
                DeleteFails
  <2>. QED  BY <1>4, <2>1
<1>6. ASSUME NEW n \in Nodes, TenantClose(n) PROVE StatsInv'
  BY <1>4, <1>6 DEF TenantClose, Close, Disconnect
<1>7. ASSUME NEW k \in Keys, TenantExpire(k) PROVE StatsInv'
  BY <1>4, <1>7 DEF TenantExpire, Expire
<1>8. ASSUME NEW n \in DynamicNodes, UpdateLimits(n) PROVE StatsInv'
  BY <1>4, <1>8 DEF UpdateLimits, ManagerStep
<1>9. ASSUME UNCHANGED allVars PROVE StatsInv'
  BY <1>4, <1>9 DEF allVars, vars
<1>. QED
  BY <1>2, <1>3, <1>5, <1>6, <1>7, <1>8, <1>9, UpdateDecidesStats, CountDecisionStats,
     AssignStats, RestartStats DEF TenantNext

LEMMA TenantInitStats == TenantInit => StatsInv
<1> SUFFICES ASSUME TenantInit PROVE StatsInv
  OBVIOUS
<1>1. IsFiniteSet({}) /\ Cardinality({}) = 0
  BY FS_EmptySet
<1>2. NoStats \in AllStats /\ NoDecisions \in [allowed : Nat, denied : Nat]
  BY DEF NoStats, AllStats, NoDecisions
<1>3. \A n \in Nodes, t \in Tiers, o \in {"allowed", "denied"} : Uncounted(n, t, o) = {}
  BY DEF TenantInit, Uncounted
<1>4. \A n \in Nodes, t \in Tiers : Balanced(n, t)
  <2>1. \A n \in Nodes, t \in Tiers : tenantStats[n][t] = NoStats /\ decided[n][t] = NoDecisions
    BY DEF TenantInit
  <2>2. \A n \in Nodes, t \in Tiers :
          /\ Cardinality(Uncounted(n, t, "allowed")) = 0
          /\ Cardinality(Uncounted(n, t, "denied")) = 0
    BY <1>1, <1>3
  <2>. QED  BY <2>1, <2>2 DEF Balanced, NoStats, NoDecisions
<1>. QED  BY <1>1, <1>2, <1>4 DEF TenantInit, StatsInv

(* The statistics of a tenant and the decisions about to be counted make   *)
(* up what its processes decided, whatever comes between the backend's     *)
(* answer and the count (AllowN's two sections).                           *)
THEOREM TenantStatsAddUp == TenantSpec => []StatsAddUp
<1>1. TenantSpec => []TypeOK
  BY TenantKeepsAssignments, PTL
<1>. QED
  BY <1>1, TenantInitStats, TenantStepStats, StatsInvAddsUp, PTL DEF TenantSpec
=============================================================================
