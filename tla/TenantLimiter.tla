---------------------------- MODULE TenantLimiter ----------------------------
(***************************************************************************)
(* The tenant limiter of limiters/tenant/tenant.go.  It does what the tier *)
(* limiter does, with tenants for tiers and the mapping under another      *)
(* prefix, and keeps statistics of each tenant: a decided request is       *)
(* counted in a section of its own after the backend's answer, a failed    *)
(* one is not.                                                             *)
(***************************************************************************)
EXTENDS TierLimiter, FiniteSets

CONSTANT MaxDecisions   \* bound: requests a node decides

VARIABLES
  tenantStats,   \* per node and tenant
  counting,      \* the calls that are decided and not counted yet
  decided        \* history: what each process decided, per tenant

statistics == <<tenantStats, counting, decided>>
allVars == <<vars, statistics>>

NoStats == [totalKeys |-> 0, allowedCount |-> 0, deniedCount |-> 0, totalRequests |-> 0]
NoDecisions == [allowed |-> 0, denied |-> 0]

TenantInit ==
  /\ Init
  /\ tenantStats = [n \in Nodes |-> [t \in Tiers |-> NoStats]]
  /\ counting = {}
  /\ decided = [n \in Nodes |-> [t \in Tiers |-> NoDecisions]]

-----------------------------------------------------------------------------
(* A call goes on as in the tier limiter, once it is counted if decided.   *)
TenantAllowN(c, n, k) == c \notin counting /\ AllowN(c, n, k) /\ UNCHANGED statistics
GetKeyTenant(c, n, k) == c \notin counting /\ GetKeyTier(c, n, k) /\ UNCHANGED statistics

ApplyLimit(c) == (AskDynamic(c) \/ FindTarget(c) \/ ApplyDynamic(c)) /\ UNCHANGED statistics
FindTenant(c) ==
  /\ Hit(c) \/ Miss(c) \/ Fetch(c) \/ FetchFails(c) \/ Store(c)
  /\ UNCHANGED statistics
ReadTenant(c) == ReadTable(c) /\ UNCHANGED statistics
TenantUpdateFails(c) == UpdateFails(c) /\ UNCHANGED statistics

TenantUpdateDecides(c) ==
  LET r == request[c] IN
  /\ UpdateDecides(c)
  /\ \A t \in Tiers : decided[r.node][t].allowed + decided[r.node][t].denied < MaxDecisions
  /\ counting' = counting \cup {c}
  /\ decided' = [decided EXCEPT ![r.node][r.tier][request'[c].at] = @ + 1]
  /\ UNCHANGED tenantStats

(* The statistics of tenant t after a decision.                            *)
Counted(stats, outcome) ==
  [stats EXCEPT !.totalRequests = @ + 1,
                !.allowedCount = IF outcome = "allowed" THEN @ + 1 ELSE @,
                !.deniedCount = IF outcome = "denied" THEN @ + 1 ELSE @]

(* Mutant: the tenant is looked up again for the statistics.               *)
CountDecision_Again(c) ==
  LET r == request[c] IN
  /\ c \in counting
  /\ counting' = counting \ {c}
  /\ tenantStats' = [tenantStats EXCEPT ![r.node][Target(r.node, r.key)] = Counted(@, r.at)]
  /\ UNCHANGED <<vars, decided>>

(* The decision is counted for the tenant it was made with.                *)
CountDecision(c) ==
  LET r == request[c] IN
  /\ c \in counting
  /\ counting' = counting \ {c}
  /\ tenantStats' = [tenantStats EXCEPT ![r.node][r.tier] = Counted(@, r.at)]
  /\ UNCHANGED <<vars, decided>>

-----------------------------------------------------------------------------
AssignKeyToTenant(o, n, k, t) == AssignKeyToTier(o, n, k, t) /\ UNCHANGED statistics

(* An assignment counts as a key, in the section that makes it.            *)
TenantAssign(o) ==
  /\ Assign(o)
  /\ tenantStats' = [tenantStats EXCEPT ![op[o].node][op[o].tier].totalKeys = @ + 1]
  /\ UNCHANGED <<counting, decided>>

PersistTenant(o) == (PersistMapping(o) \/ PersistFails(o)) /\ UNCHANGED statistics
SetTenantLimit(o, n, t, l) == SetTierLimit(o, n, t, l) /\ UNCHANGED statistics
SetTenantLimitOfKey(o, n, k, l) == SetLimit(o, n, k, l) /\ UNCHANGED statistics
WriteTenantLimit(o) == WriteLimit(o) /\ UNCHANGED statistics
TenantReset(o, n, k) == Reset(o, n, k) /\ UNCHANGED statistics
DeleteState(o) == (Delete(o) \/ DeleteFails(o)) /\ UNCHANGED statistics
TenantClose(n) == (Close(n) \/ Disconnect(n)) /\ UNCHANGED statistics
TenantExpire(k) == Expire(k) /\ UNCHANGED statistics

(* Limits are updated at the node's manager, for its tenants too.          *)
UpdateLimits(n) ==
  /\ \E l \in Limits :
       \/ \E k \in Keys : UpdateLimit(n, k, l)
       \/ \E t \in Tiers : UpdateLimitByTier(n, t, l)
       \/ UpdateDefaultLimit(n, l)
  /\ ManagerStep
  /\ UNCHANGED statistics

(* Statistics are the process's.                                           *)
TenantRestart(n) ==
  /\ Restart(n)
  /\ tenantStats' = [tenantStats EXCEPT ![n] = [t \in Tiers |-> NoStats]]
  /\ counting' = {c \in counting : request[c].node # n}
  /\ decided' = [decided EXCEPT ![n] = [t \in Tiers |-> NoDecisions]]

TenantNext ==
  \/ \E c \in Callers :
       \/ \E n \in Nodes, k \in Keys : TenantAllowN(c, n, k) \/ GetKeyTenant(c, n, k)
       \/ ApplyLimit(c) \/ FindTenant(c) \/ ReadTenant(c)
       \/ TenantUpdateDecides(c) \/ TenantUpdateFails(c) \/ CountDecision(c)
  \/ \E o \in Operators :
       \/ \E n \in Nodes, k \in Keys, t \in Tiers : AssignKeyToTenant(o, n, k, t)
       \/ \E n \in Nodes, t \in Tiers, l \in Limits : SetTenantLimit(o, n, t, l)
       \/ \E n \in Nodes, k \in Keys, l \in Limits : SetTenantLimitOfKey(o, n, k, l)
       \/ \E n \in Nodes, k \in Keys : TenantReset(o, n, k)
       \/ TenantAssign(o) \/ PersistTenant(o) \/ WriteTenantLimit(o) \/ DeleteState(o)
  \/ \E n \in Nodes : TenantClose(n) \/ TenantRestart(n)
  \/ \E k \in Keys : TenantExpire(k)
  \/ \E n \in DynamicNodes : UpdateLimits(n)

TenantSpec == TenantInit /\ [][TenantNext]_allVars

-----------------------------------------------------------------------------
(* The statistics of a tenant are what this process decided for it, but    *)
(* for the calls about to be counted, with no decision lost or counted for *)
(* another tenant when assignments, restarts and other calls come between  *)
(* the backend's answer and the count (AllowN's two sections).             *)
StatsAddUp ==
  \A n \in Nodes, t \in Tiers :
    LET stats == tenantStats[n][t]
        Pending(outcome) == Cardinality({c \in counting :
          request[c].node = n /\ request[c].tier = t /\ request[c].at = outcome})
    IN /\ stats.allowedCount + Pending("allowed") = decided[n][t].allowed
       /\ stats.deniedCount + Pending("denied") = decided[n][t].denied
       /\ stats.totalRequests = stats.allowedCount + stats.deniedCount
=============================================================================
