--------------------------- MODULE FailoverManager ---------------------------
(***************************************************************************)
(* The failover manager of features/failover.go: a flag, a count of        *)
(* failures and two goroutines, one that probes the primary backend and    *)
(* counts, and one that probes it while the fallback is active and         *)
(* switches back.  A probe runs outside of the manager's lock.             *)
(***************************************************************************)
EXTENDS Integers

CONSTANTS
  FailureThreshold,  \* FailoverConfig.FailureThreshold
  EnableFallback,    \* FailoverConfig.EnableFallback
  AutoRecovery,      \* FailoverConfig.AutoRecovery
  MaxFailures,       \* bound: the count of failures stops here
  HasOperator        \* SwitchToFallback and SwitchToPrimary are called by hand

VARIABLES
  up,         \* environment: the primary backend answers in time
  using,      \* isUsingFallback
  current,    \* currentBackend
  failures,   \* failureCount
  closing,    \* where Close is
  closed,     \* the backends Close has closed
  pc,         \* where each goroutine is
  streak      \* history: failures since anything succeeded, up to Threshold

manager == <<using, current, failures>>
vars == <<up, manager, closing, closed, pc, streak>>

(* NewFailoverManager turns 0 into 5, OnBackendFailure a negative into 3.  *)
Threshold ==
  IF FailureThreshold = 0 THEN 5 ELSE IF FailureThreshold < 0 THEN 3 ELSE FailureThreshold

ASSUME ManagerAssumption ==
  /\ FailureThreshold \in Int
  /\ EnableFallback \in BOOLEAN /\ AutoRecovery \in BOOLEAN
  /\ MaxFailures \in Nat /\ MaxFailures >= Threshold
  /\ HasOperator \in BOOLEAN

Goroutines == {"health", "recovery"}

(* The channel done is closed.                                             *)
done == closing # "open"

Init ==
  /\ up = TRUE
  /\ using = FALSE
  /\ current = "primary"
  /\ failures = 0
  /\ closing = "open"
  /\ closed = {}
  /\ pc = [g \in Goroutines |->
       IF EnableFallback /\ (g = "health" \/ AutoRecovery) THEN "select" ELSE "none"]
  /\ streak = 0

-----------------------------------------------------------------------------
(* Mutant: the flag is raised but the backend is not changed.              *)
OnBackendFailure_FlagOnly ==
  LET count == IF failures < MaxFailures THEN failures + 1 ELSE failures IN
  /\ failures' = count
  /\ using' = (using \/ count >= Threshold)
  /\ UNCHANGED current

(* A failure is reported: the count grows, and at the threshold the        *)
(* fallback becomes active.                                                *)
OnBackendFailure ==
  LET count == IF failures < MaxFailures THEN failures + 1 ELSE failures
      switch == ~using /\ count >= Threshold
  IN
  /\ failures' = count
  /\ using' = (using \/ switch)
  /\ current' = IF switch THEN "fallback" ELSE current

(* Mutant: the count is left as it is.                                     *)
ToPrimary_KeepsCount ==
  IF using
    THEN /\ using' = FALSE
         /\ current' = "primary"
         /\ UNCHANGED failures
    ELSE UNCHANGED manager

(* Back to the primary, with the count at zero; refused when there already. *)
ToPrimary ==
  IF using
    THEN /\ using' = FALSE
         /\ current' = "primary"
         /\ failures' = 0
    ELSE UNCHANGED manager

(* History: something failed, or something succeeded.                      *)
Failed == streak' = IF streak < Threshold THEN streak + 1 ELSE streak
Succeeded == streak' = 0

(* The operator's switches.                                                *)
SwitchToFallback ==
  /\ HasOperator
  /\ ~using
  /\ using' = TRUE
  /\ current' = "fallback"
  /\ UNCHANGED <<up, failures, closing, closed, pc, streak>>

SwitchToPrimary ==
  /\ HasOperator
  /\ using
  /\ ToPrimary
  /\ Succeeded
  /\ UNCHANGED <<up, closing, closed, pc>>

-----------------------------------------------------------------------------
Goto(g, label) == pc' = [pc EXCEPT ![g] = label]

(* The primary answers a call.                                             *)
Answers == up /\ "primary" \notin closed

(* The ticker fires; the recovery looks at the flag first.                 *)
HealthTick ==
  /\ pc["health"] = "select"
  /\ Goto("health", "set")
  /\ UNCHANGED <<up, manager, closing, closed, streak>>

(* Mutant: the flag's test is inverted.                                    *)
RecoveryTick_Inverted ==
  /\ pc["recovery"] = "select"
  /\ ~using
  /\ Goto("recovery", "set")
  /\ UNCHANGED <<up, manager, closing, closed, streak>>

RecoveryTick ==
  /\ pc["recovery"] = "select"
  /\ using
  /\ Goto("recovery", "set")
  /\ UNCHANGED <<up, manager, closing, closed, streak>>

(* IsHealthy sets a key, and reads it back.                                *)
ProbeSet(g) ==
  /\ pc[g] = "set"
  /\ Goto(g, IF Answers THEN "get" ELSE "unhealthy")
  /\ UNCHANGED <<up, manager, closing, closed, streak>>

(* A probe that has succeeded is a success of the primary.                 *)
ProbeGet(g) ==
  /\ pc[g] = "get"
  /\ Goto(g, IF Answers THEN "healthy" ELSE "unhealthy")
  /\ IF Answers THEN Succeeded ELSE UNCHANGED streak
  /\ UNCHANGED <<up, manager, closing, closed>>

(* Mutant: an unhealthy primary is only logged.                            *)
HealthFailed_OnlyLogged ==
  /\ pc["health"] = "unhealthy"
  /\ Goto("health", "select")
  /\ UNCHANGED <<up, manager, closing, closed, streak>>

HealthFailed ==
  /\ pc["health"] = "unhealthy"
  /\ OnBackendFailure
  /\ Failed
  /\ Goto("health", "select")
  /\ UNCHANGED <<up, closing, closed>>

(* Mutant: a healthy primary is gone back to at once.                      *)
HealthPassed_SwitchesBack ==
  /\ pc["health"] = "healthy"
  /\ ToPrimary
  /\ Goto("health", "select")
  /\ UNCHANGED <<up, closing, closed, streak>>

(* The count is reset under the lock, which is taken after the probe.      *)
HealthPassed ==
  /\ pc["health"] = "healthy"
  /\ failures' = 0
  /\ Goto("health", "select")
  /\ UNCHANGED <<up, using, current, closing, closed, streak>>

RecoveryFailed ==
  /\ pc["recovery"] = "unhealthy"
  /\ Goto("recovery", "select")
  /\ UNCHANGED <<up, manager, closing, closed, streak>>

RecoveryPassed ==
  /\ pc["recovery"] = "healthy"
  /\ ToPrimary
  /\ Goto("recovery", "select")
  /\ UNCHANGED <<up, closing, closed, streak>>

(* Mutant: only the health checks listen to done.                          *)
Stop_OnlyHealth(g) ==
  /\ pc[g] = "select"
  /\ done
  /\ g = "health"
  /\ Goto(g, "stopped")
  /\ UNCHANGED <<up, manager, closing, closed, streak>>

(* The select takes the closed channel.                                    *)
Stop(g) ==
  /\ pc[g] = "select"
  /\ done
  /\ Goto(g, "stopped")
  /\ UNCHANGED <<up, manager, closing, closed, streak>>

-----------------------------------------------------------------------------
(* Close tells the goroutines, then closes one backend after the other.    *)
Close ==
  /\ closing = "open"
  /\ closing' = "told"
  /\ UNCHANGED <<up, manager, closed, pc, streak>>

ClosePrimary ==
  /\ closing = "told"
  /\ closing' = "primaryClosed"
  /\ closed' = closed \cup {"primary"}
  /\ UNCHANGED <<up, manager, pc, streak>>

CloseFallback ==
  /\ closing = "primaryClosed"
  /\ closing' = "closed"
  /\ closed' = closed \cup {"fallback"}
  /\ UNCHANGED <<up, manager, pc, streak>>

-----------------------------------------------------------------------------
(* A limiter's request fails, for a reason of the primary's or of its own  *)
(* (a cancelled context, an error of the algorithm), and is reported.      *)
RequestFails ==
  /\ OnBackendFailure
  /\ Failed
  /\ UNCHANGED <<up, closing, closed, pc>>

(* A limiter's request succeeds: the manager is not told.                  *)
RequestSucceeds ==
  /\ Answers
  /\ Succeeded
  /\ UNCHANGED <<up, manager, closing, closed, pc>>

(* The primary goes down, or comes back.                                   *)
PrimaryChanges ==
  /\ up' = ~up
  /\ UNCHANGED <<manager, closing, closed, pc, streak>>

Probe(g) == ProbeSet(g) \/ ProbeGet(g)

Health == HealthTick \/ Probe("health") \/ HealthFailed \/ HealthPassed

Recovery == RecoveryTick \/ Probe("recovery") \/ RecoveryFailed \/ RecoveryPassed

Next ==
  \/ RequestFails \/ RequestSucceeds \/ PrimaryChanges
  \/ SwitchToFallback \/ SwitchToPrimary
  \/ HealthTick \/ HealthFailed \/ HealthPassed
  \/ RecoveryTick \/ RecoveryFailed \/ RecoveryPassed
  \/ \E g \in Goroutines : ProbeSet(g) \/ ProbeGet(g) \/ Stop(g)
  \/ Close \/ ClosePrimary \/ CloseFallback

Spec == Init /\ [][Next]_vars

(* The tickers tick and the goroutines run, until a select that may again  *)
(* and again take the closed channel takes it; nothing is assumed of the   *)
(* requests, the operator, the primary or the call of Close.               *)
FairSpec ==
  /\ Spec
  /\ WF_vars(Health) /\ WF_vars(Recovery)
  /\ \A g \in Goroutines : SF_vars(Stop(g))

-----------------------------------------------------------------------------
(* The types, and: the backend in use is the one the flag says.            *)
TypeOK ==
  /\ up \in BOOLEAN
  /\ using \in BOOLEAN
  /\ current = IF using THEN "fallback" ELSE "primary"
  /\ failures \in 0 .. MaxFailures
  /\ closing \in {"open", "told", "primaryClosed", "closed"}
  /\ closed \in SUBSET {"primary", "fallback"}
  /\ pc \in [Goroutines ->
       {"none", "select", "set", "get", "healthy", "unhealthy", "stopped"}]
  /\ streak \in 0 .. Threshold

(* A count that has reached the threshold has switched, whoever counted    *)
(* and whoever switched back in the meantime: no way back to the primary   *)
(* leaves a count behind that the next failure does not act on             *)
(* (OnBackendFailure, SwitchToPrimary, performHealthCheck).                *)
NotOverdue == failures >= Threshold => using

(* Without an operator only the recovery takes the flag down, so that what *)
(* it read before its probe still holds when it switches: its switch is    *)
(* never refused (checkAndRecovery's read, unlocked, against its switch).  *)
RecoveryOwnsFlag ==
  ~HasOperator /\ pc["recovery"] \notin {"none", "select", "stopped"} => using

(* A primary that stays up is gone back to, over and over if requests that *)
(* fail for reasons of their own switch away from it (checkAndRecovery).   *)
RecoversEventually ==
  EnableFallback /\ AutoRecovery => (<>[](up /\ ~done) => []<>~using)

(* A primary that stays down is noticed by the health checks alone, even   *)
(* if no request is made (performHealthCheck).                             *)
DetectsOutage == EnableFallback => (<>[](~up /\ ~done) => []<>using)

(* After Close both goroutines end (the selects on done).                  *)
GoroutinesStop == done ~> \A g \in Goroutines : pc[g] \in {"none", "stopped"}

(* What the documentation promises: the switch to the fallback comes after *)
(* FailureThreshold consecutive failures.                                  *)
SwitchOnlyAfterConsecutive ==
  [][~using /\ using' => streak' >= Threshold]_vars

(* What the documentation promises: after FailureThreshold consecutive     *)
(* failures the fallback is active.                                        *)
SwitchAfterConsecutive == streak >= Threshold => using
=============================================================================
