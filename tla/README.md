# Niyantrak in TLA+

A formal model of Niyantrak, a rate-limiting library for Go: five algorithms, four
storage backends, five limiters built from them, a failover manager, and the middleware
that answers HTTP and gRPC requests.  The modules here
are translations of the code under `src/`; TLC checks them on small instances and TLAPS
proves the theorems listed below for every value of the constants.

    tlasany  M.tla                                  # parse
    tlc -workers 2 -config X.cfg M                  # one run of PROJECT.json
    tlapm M.tla                                     # one of the *Proofs modules

## 1. The system

A request is `limiter.AllowN(ctx, key, n)`.  The limiter tests whether it is closed, and
hands the backend a function to apply to the key's stored state
(`backend.AtomicUpdate`).  The function runs the algorithm: `Reset` if there is no state,
then `Allow(state, n)`, which returns the new state and a decision.  The backend writes the
state back with a time to live and the limiter converts the decision for its caller.  If
the backend fails, the limiter reports it to the failover manager and lets the request
through if the fallback is active.

| Part | Source | State | Operations | What is hard |
|---|---|---|---|---|
| Algorithms | `algorithm/*.go` | none; they map a stored state, a clock and a cost to a state and a decision | `Allow`, `Reset`, retry and reset times | clocks of several nodes, integer division and remainder, window boundaries, states of an older version, expiry of the key |
| Backend interface | `backend/interfaces.go` | – | `AtomicBackend.Update`, `AtomicUpdate` | what "atomic" promises when the outcome is not known; a backend without `Update` is read and written in separate steps |
| Memory backend | `backend/memory/memory.go` | a map under a lock, a size limit, a collector goroutine | Get, Set, Update, IncrementAndGet, Delete, Clear, SetMaxSize, Close, sweeps | a sweep that is late, entries expired but present, Close and the goroutine |
| Redis backend | `backend/redis/redis.go` | a key at the server | Update (GET, then a Lua compare-and-set, up to ten times), Set, Delete, ... | writers between the two commands, lost commands and answers, resends by the client |
| PostgreSQL backend | `backend/postgresql/postgresql.go` | a row | Update (a transaction), IncrementAndGet, Set, Delete, CleanupExpired, Transaction, Close, ... | what FOR UPDATE locks, every way out of the transaction, statements that others' locks do not hold up |
| Custom backend | `backend/custom/custom.go` | a map under one lock | Get, Set, Update, IncrementAndGet, Delete, Execute's clear, cleanup and import, Close | expired entries stay in the map, where Get finds an error and Update nothing; imported values have no type |
| Failover manager | `features/failover.go` | a flag, the backend in use, an atomic count, two goroutines | OnBackendFailure, the switches, health and recovery checks, Close | probes outside the lock, verdicts that are stale when applied, liveness |
| Basic limiter | `limiters/basic/basic.go` | closed | AllowN, Reset, Close | Close between the test and the update; report and status read in two steps |
| Composite limiter | `limiters/composite/composite.go` | a map of named limits, closed | AllowN, AddLimit, RemoveLimit, Reset, Close | limits that come and go, partial charges, an unlocked read |
| Tier limiter | `limiters/tier/tier.go` | a table of tiers and a cache of each key's tier, per node; mappings in the backend; closed | AllowN, GetKeyTier, AssignKeyToTier, SetTierLimit, SetLimit, Reset, Close | a read-through cache filled in a section of its own, while other calls and nodes assign |
| Tenant limiter | `limiters/tenant/tenant.go` | the same, and statistics per tenant | the same, and GetTenantStats | a decision counted in a later section than it is made |
| Cost limiter | `limiters/cost/cost.go` | a table of costs, closed | AllowWithCost, GetOperationCost, SetOperationCost, Reset, Close | a price looked up before it is charged; Close between the test and the update |
| Middleware | `middleware/http`, `middleware/grpc`, `middleware/adapters` | none between requests | one request: skipped, refused for want of a key, or checked | what becomes of errors and of requests without a key, in six adapters; durations in whole seconds |
| Dynamic limits | `features/dynamic_limits.go` | tables of limits, hooks | updates and reads | a limit read from the manager and applied to a tier in three sections; hooks after the unlock |
| Builder, observability, envelope | | none between requests | | – |

## 2. The modules

| Module | Models | State and actions against the code |
|---|---|---|
| `TokenBucket`, `LeakyBucket`, `FixedWindow`, `SlidingWindow`, `GCRA` | one algorithm each: `ValidConfig`, `Fresh` (Reset), `Decide` (Allow) and its parts, as operators on the stored record | also what the algorithm promises (`Within`), how long its state must live (`Outlived`) and to whom its RetryAfter is a promise (`Retries`) |
| `LimitedKey` | one key, updated by all nodes that share a backend | `algorithm` (chosen at first), `now`, `stored`, `deadline`; `AllowN` is the whole update, `Reset` the delete, `Tick` real time.  A node's clock is `now + skew`.  `since` and `used` are history: a moment, any, and what has been granted from then on |
| `RateLimitHeaders` | extends `LimitedKey` with what a client is told of a decision | `Seconds` is `%.0f` of a duration, to the nearest and from the middle to the even; the reset time is cut off |
| `Updates`, `AtomicStore` | the callers of `Update` and the abstract promise of `AtomicBackend`: a call takes effect in one step or, when its outcome is an error, in one or none | refined by the Redis, memory and custom backends |
| `CounterLimiter` | the update function the backends are checked with, the counting of `fixed_window.go` and the error of a state of another type | |
| `RedisBackend` | `Update` as three steps (GET, script, answer) with locals per caller, Set, Delete, expiry, lost commands and answers | `Step` is the program counter of `Update`; `landed` and `changes` are history |
| `PostgresBackend` | `Update` as SELECT FOR UPDATE, upsert, COMMIT, with the row's lock (`owner`), aborts and a lost COMMIT answer; IncrementAndGet as its SELECT and one of two statements; Set, Delete, CleanupExpired, Close | READ COMMITTED: each statement sees the last committed row; a missing row cannot be locked.  `overtaken` is history: who has written the row since a call read it |
| `PostgresTransaction` | extends `PostgresBackend` with `Transaction` and the statements of its function | these go to the pool, so they take effect one by one; `uncommitted` is history |
| `MemoryBackend` | every operation that changes state, in one step as it holds the lock; the collector as tick, clock, lock | an `Update` is also a call and a return, so that it can be compared with `AtomicStore` |
| `FailoverManager` | the flag, the count, both goroutines with their probes (Set, then Get), the operator's switches, Close in its three steps | a probe's verdict (`healthy`, `unhealthy`) is applied in a step of its own, as the code takes the lock after it |
| `BasicLimiter` | extends `FailoverManager` with callers of `AllowN` and `Close` | the test of `closed`, the update, the report and the reading of the status are four steps; the algorithm's decision is left open |
| `CompositeLimiter` | callers of `AllowN` over a set of named limits, changes of the set, Reset, Close | one step per section under the lock and per limit asked, in any order as Go iterates a map; each limit's algorithm is a counter that its window's end restarts; an update may fail on an open backend too, before or after it was applied |
| `CustomBackend` | the custom backend on one key and both ways of `AtomicUpdate` | `native` says whether the backend has an `Update`: if so it is one step, if not a Get with the function and a Set.  `outdated` (whose Get has been overtaken) and `lost` (such a one has written) are history |
| `CostLimiter` | extends `CustomBackend`: callers of `AllowWithCost`, the cost table, Reset, Close | `request` is where a call is; looking up the cost, the test of `closed`, the steps of the update and the return are steps of their own; `granted` is history |
| `Middleware` | extends `CostLimiter` with requests that come through one of the six adapters | `response` is the answer; `NoKey` is what each adapter makes of a request without a key, by its options; callers in `Direct` use the limiter themselves |
| `DynamicLimits` | the dynamic limit managers, one per node that has one | tables of limits, 0 where none is set; one step per operation, as each is one section under the lock |
| `TierLimiter` | extends `DynamicLimits`: nodes with a tier limiter each over one backend, callers and operators | `cache` is `keyTiers`, `table` is `tiers`, `mapping` the backend's `__tier_mapping` entries.  A caller walks through AllowN's sections: asking for the dynamic limit, applying it, looking the key up, reading the backend, storing what was read, reading the table, the update.  `assigned` and `settled` are history.  A restart loses a node's tables and calls |
| `TenantLimiter` | extends `TierLimiter`: the same code with tenants for tiers, and the statistics | each action is the tier limiter's with what it does to `tenantStats`; `CountDecision` is the section that AllowN ends with |

`MC...` modules give the constants values TLC needs.  A definition named `X_Suffix` right
before `X`, with a comment that begins "Mutant:", is a plausible bug in that piece of
code.  It is no part of any specification: it is put in the place of `X` to see that the
property it is paired with in `PROJECT.json` notices.

Data that no property tells apart is left out: keys other than those compared, formats,
log lines, metrics, spans.  Arithmetic is not: divisions, truncations and remainders are
those of the code.  Floats are represented exactly instead: the token bucket counts in
units of 1/RefillPeriod of a token, and the sliding window's weighted estimate compares
integers after cross-multiplication, so rounding errors of float64 are not modelled.

## 3. The runs

Runs that pass:

| Run | Question | Bounds, and why they are enough |
|---|---|---|
| `LimitedKey` | For each algorithm: is what is granted from any moment on within what it promises (`AdmissionBound`); are RetryAfter, ResetTime and Remaining true (`RetryAfterHonest`, `ResetTimeHonest`, `RemainingIsSpendable`), and their headers in whole seconds (`HeadersHonest`); does a denial cost nothing (`DenialIsFree`); does expiry hand anything out (`ExpiryUnobservable`); does a migrated log keep its charge (`MigrationKeepsCharge`); does the last window still count (`PreviousStillCounts`); can a key be locked out (`LockoutBound`) | Limits of 2 and 3 with costs below, at and beyond them; rates and periods that leave remainders; clocks one tick apart; 8 ticks, more than two windows and a full refill; the shortest time to live that outlives each state; four ticks a second, so that times fall between seconds, in their middle and off it |
| `RedisBackend` | Does the loop implement `AtomicStore`; does an update fail for lack of attempts only by interference; does each update return | two callers, two attempts and one resend: a call loses one race and wins or loses the next, and can be applied twice; the theorems below need no bound |
| `PostgresBackend` | Are updates of an existing row serialised with all its writers, increments and statements inside a `Transaction` included (`RowUpdatesSerialised`); does every update and increment return (`EveryUpdateReturns`) | two callers, one of transactions, all other writers, abort at each step; limit 1, so that a lost update is a limit exceeded |
| `MemoryBackend` | Atomic updates, the size limit, sweeps nobody can see, expired entries reclaimed, the collector's end | one caller of `Update` (under the lock others are steps of the same kind) and two keys, so that the size limit and a sweep tell them apart; three ticks: written, expired, swept late |
| `FailoverManager` | Is the switch ever overdue; is an outage detected and a healthy primary gone back to; do both goroutines end | threshold 2, one more failure than that, the operator at any time |
| `BasicLimiter` | Is a request let through undecided only after the threshold, and never after Close (`FailOpenOnlyAfterFailures`); does the flag fall only by the recovery; does a lasting outage end in the fallback for good | two callers, threshold 2 |
| `CompositeLimiter` | While open, is every limit asked that was configured throughout the request; does no limit admit more than its budget in a window | two callers, two limits, budget 1: one caller's charge is the other's denial.  Callers and limits are symmetric; no liveness is checked.  `getLargestLimit` may end the program (section 5), so deadlock is allowed |
| `TierLimiter` | Is a key whose tier is persisted or cached ever demoted to the default (`NeverDemoted`); does an assignment hold on its node whatever the backend brings back (`AssignmentStands`); is every tier that is used one the table has (`TypeOK`) | two nodes, one with a dynamic limit manager; one key, as keys meet only in a tier's limit; one caller and one operator, who run between each other's steps (both properties are proved for any number of them); a second tier that only exists once an operator makes it; 4 operations, closings or restarts, enough to make a tier, assign it, and assign or restart on the other node.  Every call of the backend may fail with or without effect.  Deadlock is allowed, as operations are bounded |
| `TenantLimiter` | Are a tenant's statistics what was decided for it | one node, as statistics are per process; two callers, symmetric, so that one is counted while the other is decided; two operations, enough to move the key or restart in between |
| `Middleware` | Is no charge lost that no overtaken call has written (`ChargesKept`); does a checked request reach its handler if and only if it was charged or let through on purpose (`HandlerRunsIffCharged`); is the backend's own Update atomic (`ImplementsAtomicStore`); does a closed backend grant nothing (`ClosedGrantsNothing`) | one caller through the middleware and one of the limiter, so that a charge of 1 meets one of a looked-up cost of 1 or 2; limit 2, so that both are granted, or one keeps the other out; three ticks and times to live of none and one: an entry is written, expires and is written again; with and without an `Update` of the backend's own |

Runs that find the code to disagree with what is said of it (section 5):
`PostgresFirstUpdate`, `TierReadThrough`.

Bounds that the guards name: `MaxTime` ticks of a clock, `MaxFailures` counted failures,
`MaxCount` of an incremented
counter, `MaxEvents` operations, closings and restarts of the tier and tenant limiters, and
`MaxDecisions` a tenant's process makes.  The theorems hold for every value of them.
`granted` in `CostLimiter` is a history that stops counting one beyond the limit.

### What is assumed

- *Clocks.*  A node's clock is off by at most `MaxSkew` in either direction and may change
  between requests; real time moves a tick at a time.  A backend that applies the update
  function some time after it read the clock (Redis, between GET and script) is a node
  whose clock is behind by that time, so `MaxSkew` is to cover it.
- *Time to live.*  `AdmissionBound` and `ExpiryUnobservable` need a `KeyTTL` that outlives
  the state (`Outlived`); with a shorter one an expired key grants its limit again, as the
  code intends.  `Reset` by an operator starts the accounting over.  The run's costs fit
  the leaky bucket (`Sized`, section 5), and its token bucket starts full (`StartsFull`).
- *Backends are linearizable per command*: a Redis command or script, and a PostgreSQL
  statement under its row lock, is one step at the server.
- *RetryAfterHonest* is about a caller whose clock is not behind the bucket's (`Retries`),
  about requests that could ever be granted, and, for the token bucket whose times are
  truncated, up to one tick.  It leaves the sliding window out (`RetryAfterSuffices` in
  section 5).  `HeadersHonest` gives the same callers half a second more for the rounding
  of `Retry-After`, and a whole second of `X-RateLimit-Reset`.
- *Overtaken calls.*  `ChargesKept` says nothing once a call whose read was overtaken has
  written (`lost`): a backend without `Update` promises no more.  `ImplementsAtomicStore` of
  the custom backend is about one with `Update`.

### Fairness

- `RedisBackend`: weak fairness of each caller's next step; a goroutine that can run does,
  and a command is answered or lost.  Losing is never forced.
- `PostgresBackend` (`TxFairSpec`): strong fairness of each caller's step, as waiters for a
  row lock are served in order.  Nothing forces a `Transaction` to run or to end.
- `Middleware`, `LimitedKey`, `CompositeLimiter`, `TierLimiter`, `TenantLimiter`: none; their
  properties are about safety.
- `MemoryBackend` and `FailoverManager`: weak fairness of the tickers and of a goroutine's
  next step; strong fairness of taking the closed channel in a `select`, which Go chooses
  among ready cases at random.
- `BasicLimiter`: weak fairness of the manager's goroutines and of requests in progress.
- Nothing is assumed of when requests, operators, faults, recoveries of a backend or `Close`
  happen.

## 4. The proofs

All are checked by `tlapm`, from the constants' named assumptions alone.

| Theorem | States | Argument |
|---|---|---|
| `LimitedKeyProofs!LimitedKeyTypeOK` | `Spec => []TypeOK`: under each algorithm, any configuration that `ValidateConfig` accepts, any skew, cost and time to live, the stored state is one of its algorithm's: no bucket over-full or in debt, no counter beyond its limit | one lemma per algorithm says that `Decide` maps its states to its states; the key's state machine adds nothing |
| `LimitedKeyProofs!LimitedKeyAdmissionBound` | `Spec => [](Outlived /\ Sized => AdmissionBound)`, under each algorithm: with a time to live that outlives the state, from any moment on the nodes together grant at most what the algorithm promises | `TypeOK` and `AdmissionBound` are not inductive.  `KeyInv` adds that everything granted since is paid for *in the state itself*, as its own clock counts (`PaidIn`: tokens and refills, queue and leaks, the window's count and the windows since, the arrival time); that this clock is no further ahead of the entry's deadline than the clocks' error (`Dated`), so that what an expired state would still owe, a fresh one does not; and that windows are aligned and empty queues have no time of their own (`Tidy`).  Whichever node reports it, the state's clock only moves on, and with it what has been paid.  `Sized`: see section 5 |
| `LimitedKeyDenialIsFree`, `LimitedKeyRemainingIsSpendable`, `LimitedKeyRetryAfterHonest`, `LimitedKeyResetTimeHonest`, `LimitedKeyPreviousStillCounts`, `LimitedKeyMigrationKeepsCharge` | each is `Spec => []` of the property it is named after, for every configuration, skew, cost and stored state | these follow from `TypeOK`, by lemmas per algorithm of what two decisions one after another make of a state: that a refill, a leak or a roll in two steps is the one in one step, and that rounded quotients are what they are rounded from.  The lemmas on `\div` at the module's head carry them |
| `LimitedKeyLockoutBound` | `Spec => []LockoutBound` | not inductive when a key expires; from `Dated` |
| `LimitedKeyExpiryUnobservable` | `Spec => [](StartsFull => ExpiryUnobservable)` | from `Dated`: an entry whose deadline has come holds a state that has been left alone for its time to live, less what clocks differ.  `StartsFull`: a token bucket that starts with some of its tokens only (`InitialTokens`) grants less when fresh than when idle, so that there the expiry is seen; it takes tokens away |
| `HeadersAreHonest` | `Spec => []HeadersHonest` of `RateLimitHeaders` | from the retry and reset times being true, and `Seconds` being at most half a second off |
| `RedisBackendProofs!RedisTypeOK` | type correctness, for any callers, attempts, resends and update function | |
| `RedisBackendProofs!RedisExhaustedOnlyByInterference` | an update that has used up `k` attempts has met `k` writes | `Interfered`: a call whose key no longer holds what it read has seen one write more than it has lost attempts |
| `RedisBackendProofs!RedisImplementsAtomicStore` | `Spec => ImplementsAtomicStore`, a step simulation | `CallInv`: what a call is about to write and to return is what its function makes of the value it read; the script writes only if that value is still there |
| `RedisBackendProofs!RedisAppliedAtMostOnce`, `RedisTTLApplied` | `Spec => [](~Resends => AppliedAtMostOnce)`, `Spec => [](KeyTTL >= 1000 => TTLApplied)`: the two disagreements of section 5 have no other cause than a resend and a time to live below a millisecond | from `CallInv`: without resends, a call that is about to write has not been applied |
| `PostgresBackendProofs!PostgresTypeOK`, `PostgresRowUpdatesSerialised` | `Spec => []RowUpdatesSerialised`, for any callers, values and update function | not inductive: a writer must be kept from the row before the update is done.  The invariant adds that an update which has seen a row owns it from its SELECT to its COMMIT, so that every writer, which needs the row to be free, finds it taken |
| `PostgresTransactionImplementsBackend`, `PostgresUpdatesMeetNoTransaction` | `TxSpec => Spec`: with `Transaction` the backend does nothing it could not do without; hence `TxSpec => []RowUpdatesSerialised` | a statement inside is a `Set` or a `Delete`; beginning and ending change no row |
| `MemoryBackendProofs!MemorySizeBounded` | `Spec => []SizeBounded`, for any keys, values, limits and times | with the type invariant; the set of keys grows only by a write that has looked at the limit, by `FiniteSetTheorems`' facts of cardinalities |
| `MemoryBackendProofs!MemorySweepUnobservable` | `Spec => SweepUnobservable`, for any keys and times | `SweptBefore`: the time a sweep goes by is one that has been, so that what has expired by it has expired by now, whatever was written since |
| `MemoryBackendProofs!MemoryImplementsAtomicStore` | `Spec => ImplementsAtomicStore`, a step simulation, for any keys, callers, update function and times to live | `Pending`: a call in progress has no result yet.  The backend's other steps are overwrites by what is live then; an update on another key is a stutter |
| `MiddlewareProofs!MiddlewareChargesKept` | `Spec => []ChargesKept`, for any callers, operations, costs, limit and times to live | not inductive.  `ReadOf` adds that what a call is about to write is made of what is there, unless it has been overtaken; `Charged` that nothing is granted of a key that has expired or is not there, and that a closed backend has none.  `AlgorithmAssumption` says that the algorithm is the counter of `CounterLimiter` |
| `MiddlewareProofs!MiddlewareHandlerRunsIffCharged` | `Spec => []HandlerRunsIffCharged` | from `Control`: where a request is, its update is, and its answer |
| `MiddlewareProofs!MiddlewareClosedGrantsNothing` | `Spec => ClosedGrantsNothing` | one case per action, with a closed backend having no entry |
| `MiddlewareProofs!MiddlewareImplementsAtomicStore` | `Spec => ImplementsAtomicStore` of the custom backend with an Update of its own, a step simulation | one lemma per way in which a step concerns the backend's calls: it asks, updates, returns or leaves them alone; a backend without an Update has none to compare |
| `FailoverProofs!FailoverTypeOK`, `FailoverNotOverdue` | the flag and the backend in use agree, and a count at the threshold has switched, for any threshold | they are inductive only together: `SwitchToPrimary` is refused when the flag is down, and would leave a count behind |
| `FailoverProofs!FailoverRecoveryOwnsFlag` | without an operator, a recovery in progress finds the flag still up | from the invariant above, one case per action |
| `FailoverProofs!BasicKeepsManager` | `LimiterSpec => [](TypeOK /\ NotOverdue /\ RecoveryOwnsFlag)`: the manager's promises hold of the manager with a basic limiter and its `Close` around it | each step of the limiter is a report, a stutter or one of the manager's |
| `FailoverProofs!BasicFailOpenOnlyAfterFailures` | `LimiterSpec => []FailOpenOnlyAfterFailures`, for any callers and threshold | not inductive.  `Accounted` adds that, without an operator, the manager has counted no failure that was not reported, and that its flag is up only after `Threshold` reports; `ToldRightly` ties what a caller has been told to when it called |
| `CompositeLimiterProofs!CompositeTypeOK`, `CompositeEveryLimitAsked` | `Spec => []EveryLimitAsked`, for any limits and callers | not inductive: it speaks of requests that are allowed.  `Asked` follows a limit that was configured throughout from the map, over the request's list, to what it has granted |
| `CompositeLimiterProofs!CompositeAdmittedWithinEveryLimit` | `Spec => []AdmittedWithinEveryLimit`, for any limits, budgets and callers | not inductive: a limit's grants come before the request is allowed.  `Paid` counts those that a limit has granted in this window and that are still in progress beside those admitted: together they are within its counter.  Cardinalities of sets of calls, by `FiniteSetTheorems` |
| `TierLimiterProofs!TierTypeOK` | `Spec => []TypeOK` for any nodes, keys, callers, operators, tiers and limits: a call never goes on with a tier or a limit it has not found, and no key is granted more than the budget | inductive as it stands: `HasFound` ties a call's fields to where it is |
| `TierLimiterProofs!TierAssignmentStands` | `Spec => []AssignmentStands` | not inductive: a call that has missed the cache before the assignment would overwrite it.  `Standing` adds that while an assignment stands no call of its node is reading the key's tier, which holds because every such call starts with a miss, and the cache has the key |
| `TierLimiterProofs!TierNeverDemoted` | `Spec => []NeverDemoted`, for any nodes, keys, callers and operators | not inductive.  `Known` adds that as long as a call that must find its key's tier has not, the place it looks in next still has one; `OnlyAssigned` that what is cached, persisted or about to be persisted has been assigned |
| `TierLimiterProofs!TenantImplementsTier`, `TenantKeepsAssignments` | `TenantSpec => Spec`; hence `TenantSpec => [](TypeOK /\ NeverDemoted /\ AssignmentStands)` | each of the tenant limiter's steps is one of the tier limiter's, and counting a decision a stutter |
| `TierLimiterProofs!TenantStatsAddUp` | `TenantSpec => []StatsAddUp`, for any nodes, callers, operators and tenants | `StatsInv` adds that a decision about to be counted is one, of a tenant of the table, and stays so, and that a tenant's counts with the decisions about to be counted for it (`Uncounted`) make up what was decided |

Every invariant and every action property that a passing run checks is stated by one of
these theorems.  The three hypotheses in them are ones the code needs (`Outlived`, `Sized`,
`StartsFull`), and each was found or confirmed by a counterexample where it does not hold.

The proofs stand on the constants' assumptions, which the runs evaluate, and not on the
bounds: `MaxTime`, `MaxFailures` and the others may have any value.

Model-checked only: all liveness (`EveryUpdateReturns`, `ExpiredReclaimed`,
`CollectorStops`, `RecoversEventually`, `DetectsOutage`, `GoroutinesStop`,
`OutageFailsOpen`), as fairness and ENABLED are out of the prover's reach.

## 5. Where code and documentation disagree

Each is a counterexample of TLC.  The first two are runs of `PROJECT.json`.  The
configurations of the next group are kept and reproduce theirs as they are.

| Configuration (module) | Property | What happens | What is said |
|---|---|---|---|
| `PostgresFirstUpdate` (`MCPostgresBackend`) | `UpdatesSerialised` | two first updates of a key both read no row and both grant | `backend/interfaces.go:60-63`, `postgresql.go:279-282` |
| `TierReadThrough` (`MCTierLimiter`) | `NodesAgree` | a call that has read the old mapping caches it after `AssignKeyToTier` has cached and persisted the new one; that node keeps the old tier | `docs/architecture.md:439-442`, `tier/doc.go:4-7` |
| `GCRALimit` (`MCLimitedKey`) | `LimitPerPeriod` | the emission interval is `config.Period` itself; `config.Limit` is never read | `algorithm/interfaces.go:93-97`: Limit per Period |
| `SlidingWindowOverLimit` (`MCLimitedKey`) | `NeverOverLimitInWindow` | the weighted estimate lets more than Limit through in an interval that spans two windows | `README.md:204`, `docs/usage.md:132` |
| `FailoverScattered` (`FailoverManager`) | `SwitchOnlyAfterConsecutive` | failures with successes between them add up, as only a health check resets the count | `features/failover.go:48, 66` |
| `LeakyBucketOversize` (`MCLimitedKey`) | `AdmissionBound` | an empty leaky bucket takes over any clock.  A request larger than the capacity is denied, but on its way leaks what a clock that is ahead allows, and the next clock takes the time back: what has leaked then leaks again, and one moment can grant without end.  It takes clocks that differ and a request that can never be granted; without either the bound is proved (`Sized`) | – |
| `RedisShortTTL` (`MCRedisBackend`) | `TTLApplied` | a time to live below a millisecond is 0 milliseconds, and the state never expires | – |
| `TierLimit` (`MCTierLimiter`) | `LimitOfTierHolds` | the tier's limit is only reported: the algorithm decides with its own, so a key of a tier with limit 1 is granted 2 | `README.md:102`, `docs/usage.md:222` |
| `TierAgreement` (`MCTierLimiter`) | `NodesAgree` | a node with a cached tier never looks at the backend again, so it does not see another node's assignment | `docs/architecture.md:439-442` |
| `TierUnknown` (`MCTierLimiter`) | `AssignedTierKnown` | a tier made at run time is known to one node only; a request of its keys on another fails | `tier.go:434-440`: "Verify tier exists" |

The others are reproduced with the configuration named, with this one invariant in the
place of its invariants and properties:

| Configuration (module) | Property | What happens | What is said |
|---|---|---|---|
| `PostgresBackend` (`MCPostgresBackend`) | `TransactionsAtomic` | the statements inside a `Transaction` use the pool: others see them before its end, and they stay when it fails | `README.md:227`, `postgresql.go:513`, `backend/interfaces.go:159` |
| `PostgresBackend` (`MCPostgresBackend`) | `IncrementsAtomic` | two first increments of a key both see no row, and both write a 1 | `postgresql.go:198` |
| `RedisBackend` (`MCRedisBackend`) | `AppliedAtMostOnce` | a script whose answer was lost is sent again; if another update has restored the value, or the first copy left it as it was, it applies twice | – |
| `FailoverManager` (`FailoverManager`) | `SwitchAfterConsecutive` | a health check that passed before new failures wipes them out | `features/failover.go:66` |
| `BasicLimiter` (`BasicLimiter`) | `DecidedByBackendInUse` | with the fallback active the request is let through; the fallback backend is never asked | `docs/architecture.md:554` |
| `CompositeLimiter` (`MCCompositeLimiter`) | `GoroutineSafe` | `getLargestLimit` iterates over the map without the lock while a limit is added: the Go runtime may end the program | `README.md:332`, `composite.go:589` |
| `CompositeLimiter` (`MCCompositeLimiter`) | `AllLimitsSatisfied` | a Close between the test of `closed` and the copy of the limits leaves none to ask, and the request is allowed | `limiters/limiter.go:184-185` |
| `LimitedKey` (`MCLimitedKey`) | `RetryHeaderSuffices` | `Retry-After` is rounded to the nearest second: a client that waits it out may be half a second early | `middleware/http/README.md:205` |
| `SlidingWindowOverLimit` (`MCLimitedKey`) | `RetryAfterSuffices` | a caller that waits RetryAfter, alone, is denied again: the current count, which becomes the previous one, is left out of the wait | `sliding_window.go:48` |
| `GCRALimit` (`MCLimitedKey`) | `BurstWithinSize` | an idle key grants BurstSize + 1, or more with a last request of several | `gcra.go:45` |

`EveryLimitAsked` is therefore about an open limiter, and `RetryAfterHonest` leaves the
sliding window out.  `AssignmentStands` is about assignments made while no call of the node
was reading the key's tier, `HasFound` lets a call end with an unknown tier, and
`HeadersHonest` adds the half second.  Nothing else is weakened by these.

What the models show without a property:

- `UpdateLimitByTier` writes a table that no limiter reads, and a limiter with a manager
  applies the manager's default limit to the tier of every key that has none of its own.
- Over a backend without `Update`, an expired entry of the custom backend fails every
  request of its key with `ErrKeyExpired` until it is deleted or cleaned up.  An imported
  value fails every request of its key until it is deleted.
- A request without a key reaches its handler unchecked with gin and chi if `AbortOnError`
  is not set, and with echo and fiber if there is no `OnError` either; the comments of
  `gin.go:23`, `chi.go:23` and `fiber.go:22` say that it is answered with 400.
- An error of the limiter, and a closed one, is answered as a limit exceeded.  Every
  middleware asks for one, so that a table of costs has no effect behind it.  A gRPC
  `CustomStatusCode` of OK makes a refusal look like a success, though the handler has not
  run.

## 6. What is not modelled, and the plan

Not modelled, as they keep no state between requests or only write output: the builder and
entry points, the envelope, observability, mocks and examples.  Of modelled parts:
`IncrementAndGet` of Redis (no limiter calls it), PostgreSQL's maintenance, pure reads
(`GetStats`, `GetLimits`, `Ping`, ...), a second `Close` of the failover manager, which
panics, float rounding, and how the middleware finds the key of a request.

The failover handler of the composite, tier, tenant and cost limiters is a choice here; its
behaviour is in `BasicLimiter`.  Dynamic limits' update hooks are the user's code and left
out.  The algorithm behind the cost limiter is a counter: the five are in `LimitedKey`.

Next, in this order:

1. Update hooks, which see the updates of a key in another order than the table does; and
   `IncrementAndGet` of Redis.
2. What tier nodes do agree on: a node that has cached nothing for a key uses what is
   persisted, as long as no assignment of the key is in progress.
3. Proofs: what item 2 states; that the cost limiter's steps are those of the custom
   backend; that each limiter's `Update` may be replaced by the atomic store's.
