--------------------------- MODULE FailoverProofs ---------------------------
(***************************************************************************)
(* The failover manager, for every threshold, bound and configuration: the *)
(* flag and the backend in use agree, a count that has reached the         *)
(* threshold has switched, and without an operator only the recovery       *)
(* switches back.  The basic limiter, with any callers, keeps all of this, *)
(* and lets no request through undecided before the threshold is reached.  *)
(***************************************************************************)
EXTENDS BasicLimiter, TLAPS

LEMMA ThresholdIsPositive == Threshold \in Nat \ {0}
  BY ManagerAssumption DEF Threshold

(* The three functions of the manager that the goroutines, the requests    *)
(* and the operator share.                                                 *)
LEMMA OnBackendFailureKeeps ==
  ASSUME TypeOK, NotOverdue, OnBackendFailure
  PROVE  /\ using' \in BOOLEAN /\ (using => using')
         /\ current' = IF using' THEN "fallback" ELSE "primary"
         /\ failures' \in 0 .. MaxFailures
         /\ NotOverdue'
  <1>1. /\ using \in BOOLEAN /\ failures \in 0 .. MaxFailures
        /\ current = IF using THEN "fallback" ELSE "primary"
        /\ MaxFailures \in Nat /\ Threshold \in Nat
    BY ThresholdIsPositive, ManagerAssumption DEF TypeOK
  <1> DEFINE count == IF failures < MaxFailures THEN failures + 1 ELSE failures
             switch == ~using /\ count >= Threshold
  <1>2. /\ failures' = count
        /\ using' = (using \/ switch)
        /\ current' = IF switch THEN "fallback" ELSE current
    BY DEF OnBackendFailure
  <1>3. count \in 0 .. MaxFailures
    BY <1>1
  <1>4. (count >= Threshold) \in BOOLEAN
    OBVIOUS
  <1> HIDE DEF count
  <1>5. Threshold' = Threshold
    BY DEF Threshold
  <1>6. QED
    BY <1>1, <1>2, <1>3, <1>4, <1>5 DEF NotOverdue

LEMMA ToPrimaryKeeps ==
  ASSUME TypeOK, NotOverdue, ToPrimary
  PROVE  /\ using' = FALSE
         /\ current' = "primary"
         /\ failures' \in 0 .. MaxFailures
         /\ NotOverdue'
  BY ThresholdIsPositive, ManagerAssumption DEF TypeOK, NotOverdue, ToPrimary, manager, Threshold

LEMMA StreakKeeps ==
  ASSUME TypeOK, Failed \/ Succeeded \/ streak' = streak
  PROVE  streak' \in 0 .. Threshold
  BY ThresholdIsPositive DEF TypeOK, Failed, Succeeded

-----------------------------------------------------------------------------
(* Both are needed together: a count over the threshold with the flag down *)
(* would let SwitchToPrimary be refused and leave the count as it is.      *)
ManagerInv == TypeOK /\ NotOverdue

LEMMA InitManagerInv == Init => ManagerInv
  <1> SUFFICES ASSUME Init PROVE ManagerInv
    OBVIOUS
  <1>1. pc \in [Goroutines ->
          {"none", "select", "set", "get", "healthy", "unhealthy", "stopped"}]
    BY DEF Init
  <1>2. /\ failures = 0 /\ failures \in 0 .. MaxFailures
        /\ streak \in 0 .. Threshold /\ ~(failures >= Threshold)
    BY ThresholdIsPositive, ManagerAssumption DEF Init
  <1>3. QED
    BY <1>1, <1>2 DEF Init, ManagerInv, TypeOK, NotOverdue

(* A step of a goroutine that only moves it on.                            *)
LEMMA MovesOn ==
  ASSUME ManagerInv, NEW g \in Goroutines,
         NEW label \in {"none", "select", "set", "get", "healthy", "unhealthy", "stopped"},
         Goto(g, label), UNCHANGED <<up, manager, closing, closed>>,
         streak' = streak \/ Succeeded
  PROVE  ManagerInv'
  <1>1. streak' \in 0 .. Threshold
    BY StreakKeeps DEF ManagerInv
  <1>2. pc' \in [Goroutines ->
          {"none", "select", "set", "get", "healthy", "unhealthy", "stopped"}]
    BY DEF Goto, ManagerInv, TypeOK
  <1>3. QED
    BY <1>1, <1>2 DEF ManagerInv, TypeOK, NotOverdue, manager, Threshold

LEMMA StepManagerInv == ManagerInv /\ [Next]_vars => ManagerInv'
  <1> SUFFICES ASSUME ManagerInv, [Next]_vars PROVE ManagerInv'
    OBVIOUS
  <1> USE ThresholdIsPositive, ManagerAssumption DEF ManagerInv
  <1>1. CASE RequestFails
    <2>1. streak' \in 0 .. Threshold
      BY <1>1, StreakKeeps DEF RequestFails
    <2>2. QED
      BY <1>1, <2>1, OnBackendFailureKeeps DEF RequestFails, TypeOK, Threshold
  <1>2. CASE RequestSucceeds
    BY <1>2 DEF RequestSucceeds, Succeeded, TypeOK, NotOverdue, manager, Threshold
  <1>3. CASE PrimaryChanges
    BY <1>3 DEF PrimaryChanges, TypeOK, NotOverdue, manager, Threshold
  <1>4. CASE SwitchToFallback
    BY <1>4 DEF SwitchToFallback, TypeOK, NotOverdue, Threshold
  <1>5. CASE SwitchToPrimary
    <2>1. ToPrimary /\ Succeeded /\ UNCHANGED <<up, closing, closed, pc>>
      BY <1>5 DEF SwitchToPrimary
    <2>2. streak' \in 0 .. Threshold
      BY <2>1, StreakKeeps
    <2>3. QED
      BY <2>1, <2>2, ToPrimaryKeeps DEF TypeOK, Threshold
  <1>6. CASE HealthTick
    BY <1>6, MovesOn DEF HealthTick, Goroutines
  <1>7. CASE HealthFailed
    <2>1. /\ OnBackendFailure /\ Failed /\ Goto("health", "select")
          /\ UNCHANGED <<up, closing, closed>>
      BY <1>7 DEF HealthFailed
    <2>2. streak' \in 0 .. Threshold
      BY <2>1, StreakKeeps
    <2>3. pc' \in [Goroutines ->
            {"none", "select", "set", "get", "healthy", "unhealthy", "stopped"}]
      BY <2>1 DEF Goto, TypeOK
    <2>4. QED
      BY <2>1, <2>2, <2>3, OnBackendFailureKeeps DEF TypeOK, Threshold
  <1>8. CASE HealthPassed
    <2>1. pc' \in [Goroutines ->
            {"none", "select", "set", "get", "healthy", "unhealthy", "stopped"}]
      BY <1>8 DEF HealthPassed, Goto, TypeOK
    <2>2. QED
      BY <1>8, <2>1 DEF HealthPassed, TypeOK, NotOverdue, Threshold
  <1>9. CASE RecoveryTick
    BY <1>9, MovesOn DEF RecoveryTick, Goroutines
  <1>10. CASE RecoveryFailed
    BY <1>10, MovesOn DEF RecoveryFailed, Goroutines
  <1>11. CASE RecoveryPassed
    <2>1. ToPrimary /\ Goto("recovery", "select") /\ UNCHANGED <<up, closing, closed, streak>>
      BY <1>11 DEF RecoveryPassed
    <2>2. pc' \in [Goroutines ->
            {"none", "select", "set", "get", "healthy", "unhealthy", "stopped"}]
      BY <2>1 DEF Goto, TypeOK
    <2>3. QED
      BY <2>1, <2>2, ToPrimaryKeeps DEF TypeOK, Threshold
  <1>12. ASSUME NEW g \in Goroutines, ProbeSet(g) PROVE ManagerInv'
    BY <1>12, MovesOn DEF ProbeSet
  <1>13. ASSUME NEW g \in Goroutines, ProbeGet(g) PROVE ManagerInv'
    BY <1>13, MovesOn DEF ProbeGet
  <1>14. ASSUME NEW g \in Goroutines, Stop(g) PROVE ManagerInv'
    BY <1>14, MovesOn DEF Stop
  <1>15. CASE Close
    BY <1>15 DEF Close, TypeOK, NotOverdue, manager, Threshold
  <1>16. CASE ClosePrimary
    BY <1>16 DEF ClosePrimary, TypeOK, NotOverdue, manager, Threshold
  <1>17. CASE CloseFallback
    BY <1>17 DEF CloseFallback, TypeOK, NotOverdue, manager, Threshold
  <1>18. CASE UNCHANGED vars
    BY <1>18 DEF vars, TypeOK, NotOverdue, manager, Threshold
  <1>19. QED
    BY <1>1, <1>2, <1>3, <1>4, <1>5, <1>6, <1>7, <1>8, <1>9, <1>10, <1>11,
       <1>12, <1>13, <1>14, <1>15, <1>16, <1>17, <1>18 DEF Next

LEMMA SpecManagerInv == Spec => []ManagerInv
  BY InitManagerInv, StepManagerInv, PTL DEF Spec

(* The flag and the backend in use agree and the count stays in its range, *)
(* whatever the order of reports, probes, switches and Close.              *)
THEOREM FailoverTypeOK == Spec => []TypeOK
  <1>1. ManagerInv => TypeOK
    BY DEF ManagerInv
  <1>2. QED
    BY <1>1, SpecManagerInv, PTL

(* A count that has reached the threshold has switched to the fallback     *)
(* (OnBackendFailure, SwitchToPrimary, performHealthCheck).                *)
THEOREM FailoverNotOverdue == Spec => []NotOverdue
  <1>1. ManagerInv => NotOverdue
    BY DEF ManagerInv
  <1>2. QED
    BY <1>1, SpecManagerInv, PTL

-----------------------------------------------------------------------------
(* No step of the manager takes down the flag that its recovery, not yet   *)
(* through, has read.                                                      *)
LEMMA StepRecoveryOwnsFlag == ManagerInv /\ RecoveryOwnsFlag /\ [Next]_vars => RecoveryOwnsFlag'
  <1> SUFFICES ASSUME ManagerInv, RecoveryOwnsFlag, [Next]_vars, ~HasOperator,
                      pc'["recovery"] \notin {"none", "select", "stopped"}
               PROVE  using'
    BY DEF RecoveryOwnsFlag
  <1>1. /\ pc \in [Goroutines ->
             {"none", "select", "set", "get", "healthy", "unhealthy", "stopped"}]
        /\ using \in BOOLEAN
    BY DEF ManagerInv, TypeOK
  <1> USE <1>1 DEF Goroutines, Goto, manager, RecoveryOwnsFlag
  <1>2. CASE OnBackendFailure /\ pc'["recovery"] = pc["recovery"]
    BY <1>2, OnBackendFailureKeeps DEF ManagerInv
  <1>3. CASE using' = using /\ pc'["recovery"] = pc["recovery"]
    BY <1>3
  <1>4. RequestFails => using'
    BY <1>2 DEF RequestFails
  <1>5. HealthFailed => using'
    BY <1>2 DEF HealthFailed
  <1>6. RequestSucceeds \/ PrimaryChanges \/ Close \/ ClosePrimary \/ CloseFallback
          \/ UNCHANGED vars => using'
    BY <1>3 DEF RequestSucceeds, PrimaryChanges, Close, ClosePrimary, CloseFallback, vars
  <1>7. SwitchToFallback \/ SwitchToPrimary => using'
    BY DEF SwitchToFallback, SwitchToPrimary
  <1>8. HealthTick \/ HealthPassed => using'
    BY <1>3 DEF HealthTick, HealthPassed
  <1>9. RecoveryTick \/ RecoveryFailed \/ RecoveryPassed => using'
    BY DEF RecoveryTick, RecoveryFailed, RecoveryPassed
  <1>10. ASSUME NEW g \in Goroutines, ProbeSet(g) \/ ProbeGet(g) \/ Stop(g) PROVE using'
    <2>1. g = "health" \/ g = "recovery"
      OBVIOUS
    <2>2. pc[g] \in {"select", "set", "get"} /\ using' = using
      BY <1>10 DEF ProbeSet, ProbeGet, Stop
    <2>3. CASE g = "health"
      <3>1. pc'["recovery"] = pc["recovery"]
        BY <1>10, <2>3 DEF ProbeSet, ProbeGet, Stop
      <3>2. QED
        BY <1>3, <2>2, <3>1
    <2>4. CASE g = "recovery"
      <3>1. ~Stop(g)
        BY <2>4 DEF Stop
      <3>2. pc["recovery"] \in {"set", "get"}
        BY <1>10, <2>4, <3>1 DEF ProbeSet, ProbeGet
      <3>3. QED
        BY <2>2, <3>2
    <2>5. QED
      BY <2>1, <2>3, <2>4
  <1>11. QED
    BY <1>4, <1>5, <1>6, <1>7, <1>8, <1>9, <1>10 DEF Next

(* Without an operator, what the recovery read of the flag, unlocked,      *)
(* still holds when it switches (checkAndRecovery).                        *)
THEOREM FailoverRecoveryOwnsFlag == Spec => []RecoveryOwnsFlag
  <1>1. Init => RecoveryOwnsFlag
    BY DEF Init, RecoveryOwnsFlag, Goroutines
  <1>2. QED
    BY <1>1, StepRecoveryOwnsFlag, SpecManagerInv, PTL DEF Spec

-----------------------------------------------------------------------------
(* The basic limiter over the manager.  Its calls are steps of the manager *)
(* or leave it alone, but for Close, which closes the primary under it.    *)
LEMMA LimiterSteps ==
  ASSUME [LimiterNext]_allVars
  PROVE  [Next]_vars \/ (CloseLimiter /\ UNCHANGED <<manager, pc>>)
  <1>1. ManagerStep \/ HealthFailed => Next
    BY DEF ManagerStep, Next
  <1>2. ASSUME NEW c \in Callers, AllowN(c) \/ UpdateFails(c) \/ ReadStatus(c)
        PROVE  UNCHANGED vars
    BY <1>2 DEF AllowN, UpdateFails, ReadStatus
  <1>3. ASSUME NEW c \in Callers, UpdateDecides(c) PROVE RequestSucceeds
    BY <1>3 DEF UpdateDecides, RequestSucceeds
  <1>4. ASSUME NEW c \in Callers, ReportFailure(c) PROVE RequestFails
    BY <1>4 DEF ReportFailure, RequestFails
  <1>5. RequestSucceeds \/ RequestFails => Next
    BY DEF Next
  <1>6. CloseLimiter => UNCHANGED <<manager, pc>>
    BY DEF CloseLimiter
  <1>7. UNCHANGED allVars => UNCHANGED vars
    BY DEF allVars
  <1>. QED
    BY <1>1, <1>2, <1>3, <1>4, <1>5, <1>6, <1>7 DEF LimiterNext

LEMMA LimiterStepManagerInv ==
  ManagerInv /\ RecoveryOwnsFlag /\ [LimiterNext]_allVars => ManagerInv' /\ RecoveryOwnsFlag'
  <1>1. ManagerInv /\ CloseLimiter => ManagerInv'
    BY DEF CloseLimiter, ManagerInv, TypeOK, NotOverdue, manager, Threshold
  <1>2. RecoveryOwnsFlag /\ UNCHANGED <<manager, pc>> => RecoveryOwnsFlag'
    BY DEF RecoveryOwnsFlag, manager
  <1>. QED
    BY <1>1, <1>2, LimiterSteps, StepManagerInv, StepRecoveryOwnsFlag

(* Without an operator every failure the manager has counted is one that   *)
(* was reported, and the fallback is active only after Threshold of them.  *)
Accounted ==
  /\ reported \in 0 .. Threshold
  /\ ~HasOperator => failures <= reported \/ reported = Threshold
  /\ ~HasOperator => (using => reported = Threshold)

(* What callers have been told agrees with when they called and with the   *)
(* failures reported by then.                                              *)
ToldRightly ==
  /\ request \in [Callers -> InFlight \cup Outcomes \cup {"idle"}]
  /\ late \in [Callers -> BOOLEAN]
  /\ FailOpenOnlyAfterFailures

LimiterInv ==
  ManagerInv /\ RecoveryOwnsFlag /\ limiterClosed \in BOOLEAN /\ Accounted /\ ToldRightly

(* A report moves the count and its history alike.                         *)
LEMMA ReportAccounted ==
  ASSUME ManagerInv, Accounted, OnBackendFailure, Reported
  PROVE  /\ Accounted'
         /\ reported = Threshold => reported' = Threshold
  <1> DEFINE count == IF failures < MaxFailures THEN failures + 1 ELSE failures
  <1>1. /\ failures \in Nat /\ MaxFailures \in Nat /\ Threshold \in Nat \ {0}
        /\ reported \in 0 .. Threshold /\ using \in BOOLEAN
    BY ThresholdIsPositive, ManagerAssumption DEF ManagerInv, TypeOK, Accounted
  <1>2. failures' = count /\ (using' <=> using \/ count >= Threshold)
    BY <1>1 DEF OnBackendFailure
  <1>3. count \in Nat /\ count <= failures + 1
    BY <1>1
  <1>4. reported' = IF reported < Threshold THEN reported + 1 ELSE reported
    BY DEF Reported
  <1>5. Threshold' = Threshold
    BY DEF Threshold
  <1> HIDE DEF count
  <1>6. reported' \in 0 .. Threshold /\ (reported = Threshold => reported' = Threshold)
    BY <1>1, <1>4
  <1>7. ASSUME ~HasOperator PROVE failures' <= reported' \/ reported' = Threshold
    BY <1>1, <1>2, <1>3, <1>4, <1>7 DEF Accounted
  <1>8. ASSUME ~HasOperator, using' PROVE reported' = Threshold
    <2>1. CASE using
      BY <1>6, <1>8, <2>1 DEF Accounted
    <2>2. CASE count >= Threshold
      BY <1>1, <1>3, <1>4, <1>8, <2>2 DEF Accounted
    <2>. QED  BY <1>2, <1>8, <2>1, <2>2
  <1>. QED  BY <1>5, <1>6, <1>7, <1>8 DEF Accounted

(* No other step raises the flag or the count, unless an operator does.    *)
LEMMA OthersAccounted ==
  ASSUME ManagerInv, Accounted, UNCHANGED reported,
         HasOperator \/ (failures' \in {0, failures} /\ (using' => using))
  PROVE  Accounted'
  <1>1. failures \in Nat /\ Threshold \in Nat /\ Threshold' = Threshold
    BY ThresholdIsPositive, ManagerAssumption DEF ManagerInv, TypeOK, Threshold
  <1>. QED  BY <1>1 DEF Accounted

LEMMA ManagerStepQuiet ==
  ASSUME ManagerInv, ManagerStep
  PROVE  HasOperator \/ (failures' \in {0, failures} /\ (using' => using))
  <1>1. SwitchToFallback \/ SwitchToPrimary => HasOperator
    BY DEF SwitchToFallback, SwitchToPrimary
  <1>2. ToPrimary => failures' \in {0, failures} /\ (using' => using)
    BY DEF ToPrimary, manager
  <1>3. \A g \in Goroutines : ProbeSet(g) \/ ProbeGet(g) \/ Stop(g)
          => failures' = failures /\ using' = using
    BY DEF ProbeSet, ProbeGet, Stop, manager
  <1>4. PrimaryChanges \/ HealthTick \/ RecoveryTick \/ RecoveryFailed
          \/ Close \/ ClosePrimary \/ CloseFallback
          => failures' = failures /\ using' = using
    BY DEF PrimaryChanges, HealthTick, RecoveryTick, RecoveryFailed, Close, ClosePrimary,
           CloseFallback, manager
  <1>5. HealthPassed => failures' = 0 /\ using' = using
    BY DEF HealthPassed
  <1>6. RecoveryPassed => ToPrimary
    BY DEF RecoveryPassed
  <1>. QED  BY <1>1, <1>2, <1>3, <1>4, <1>5, <1>6 DEF ManagerStep

(* A caller that moves to where its call allows it leaves the others as    *)
(* they were.                                                              *)
LEMMA CallerToldRightly ==
  ASSUME ToldRightly, NEW c \in Callers,
         NEW label \in InFlight \cup Outcomes, At(c, label),
         reported = Threshold => reported' = Threshold,
         \/ late' = late /\ (late[c] => label = "closed")
         \/ \E l \in BOOLEAN : late' = [late EXCEPT ![c] = l] /\ (l => label = "closed"),
         label = "open" => HasOperator \/ reported' = Threshold
  PROVE  ToldRightly'
  <1>1. /\ request \in [Callers -> InFlight \cup Outcomes \cup {"idle"}]
        /\ late \in [Callers -> BOOLEAN]
        /\ request' = [request EXCEPT ![c] = label]
    BY DEF ToldRightly, At
  <1>2. /\ request'[c] = label
        /\ \A b \in Callers : b # c => request'[b] = request[b]
        /\ request' \in [Callers -> InFlight \cup Outcomes \cup {"idle"}]
    BY <1>1
  <1>3. /\ late' \in [Callers -> BOOLEAN]
        /\ late'[c] => label = "closed"
        /\ \A b \in Callers : b # c => late'[b] = late[b]
    BY <1>1
  <1>4. Threshold' = Threshold
    BY DEF Threshold
  <1>5. \A b \in Callers : late'[b] => request'[b] = "closed"
    BY <1>2, <1>3 DEF ToldRightly, FailOpenOnlyAfterFailures
  <1>6. ~HasOperator => \A b \in Callers : request'[b] = "open" => reported' = Threshold
    BY <1>2 DEF ToldRightly, FailOpenOnlyAfterFailures
  <1>. QED  BY <1>2, <1>3, <1>4, <1>5, <1>6 DEF ToldRightly, FailOpenOnlyAfterFailures

LEMMA OthersToldRightly ==
  ASSUME ToldRightly, UNCHANGED <<request, late>>, reported = Threshold => reported' = Threshold
  PROVE  ToldRightly'
  BY DEF ToldRightly, FailOpenOnlyAfterFailures, Threshold

LEMMA InitLimiterInv == LimiterInit => LimiterInv
  <1>1. LimiterInit => Accounted
    BY ThresholdIsPositive DEF LimiterInit, Init, Accounted
  <1>2. LimiterInit => ToldRightly /\ limiterClosed \in BOOLEAN
    BY DEF LimiterInit, ToldRightly, FailOpenOnlyAfterFailures
  <1>3. Init => RecoveryOwnsFlag
    BY DEF Init, RecoveryOwnsFlag, Goroutines
  <1>. QED  BY <1>1, <1>2, <1>3, InitManagerInv DEF LimiterInit, LimiterInv

LEMMA StepLimiterInv == LimiterInv /\ [LimiterNext]_allVars => LimiterInv'
  <1> SUFFICES ASSUME LimiterInv, [LimiterNext]_allVars
               PROVE  LimiterInv'
    OBVIOUS
  <1>1. ManagerInv /\ RecoveryOwnsFlag /\ limiterClosed \in BOOLEAN /\ Accounted /\ ToldRightly
    BY DEF LimiterInv
  <1>2. ManagerInv' /\ RecoveryOwnsFlag' /\ limiterClosed' \in BOOLEAN
    <2>1. limiterClosed' \in {limiterClosed, TRUE}
      BY DEF LimiterNext, limiter, allVars, AllowN, UpdateDecides, UpdateFails, ReportFailure,
             ReadStatus, CloseLimiter
    <2>. QED  BY <1>1, <2>1, LimiterStepManagerInv
  <1> SUFFICES Accounted' /\ ToldRightly'
    BY <1>2 DEF LimiterInv
  <1>3. \A c \in Callers : late[c] => request[c] = "closed"
    BY <1>1 DEF ToldRightly, FailOpenOnlyAfterFailures
  <1>4. CASE ManagerStep /\ UNCHANGED limiter
    BY <1>1, <1>4, ManagerStepQuiet, OthersAccounted, OthersToldRightly DEF limiter
  <1>5. CASE HealthFailed /\ Reported /\ UNCHANGED <<limiterClosed, request, late, consulted>>
    BY <1>1, <1>5, ReportAccounted, OthersToldRightly DEF HealthFailed
  <1>6. ASSUME NEW c \in Callers, AllowN(c) PROVE Accounted' /\ ToldRightly'
    <2>1. Accounted'
      BY <1>1, <1>6, OthersAccounted DEF AllowN, vars, manager
    <2> DEFINE label == IF limiterClosed THEN "closed" ELSE "update"
               l == limiterClosed
    <2>2. At(c, label) /\ late' = [late EXCEPT ![c] = l] /\ UNCHANGED reported
      BY <1>6 DEF AllowN
    <2>3. label \in InFlight \cup Outcomes /\ label # "open" /\ (l => label = "closed")
      BY DEF InFlight, Outcomes
    <2>4. l \in BOOLEAN
      BY <1>1
    <2> HIDE DEF label, l
    <2>. QED  BY <1>1, <2>1, <2>2, <2>3, <2>4, CallerToldRightly
  <1>7. ASSUME NEW c \in Callers, UpdateDecides(c) PROVE Accounted' /\ ToldRightly'
    <2>1. PICK outcome \in {"allowed", "denied"} : At(c, outcome)
      BY <1>7 DEF UpdateDecides
    <2>2. UNCHANGED <<manager, late, reported>> /\ ~late[c]
      BY <1>3, <1>7 DEF UpdateDecides
    <2>3. Accounted'
      BY <1>1, <2>2, OthersAccounted DEF manager
    <2>. QED  BY <1>1, <2>1, <2>2, <2>3, CallerToldRightly DEF Outcomes
  <1>8. ASSUME NEW c \in Callers, UpdateFails(c) PROVE Accounted' /\ ToldRightly'
    <2>1. At(c, "report") /\ UNCHANGED <<manager, late, reported>> /\ ~late[c]
      BY <1>3, <1>8 DEF UpdateFails, vars
    <2>2. Accounted'
      BY <1>1, <2>1, OthersAccounted DEF manager
    <2>. QED  BY <1>1, <2>1, <2>2, CallerToldRightly DEF InFlight
  <1>9. ASSUME NEW c \in Callers, ReportFailure(c) PROVE Accounted' /\ ToldRightly'
    <2>1. At(c, "status") /\ UNCHANGED late /\ ~late[c] /\ OnBackendFailure /\ Reported
      BY <1>3, <1>9 DEF ReportFailure
    <2>2. Accounted' /\ (reported = Threshold => reported' = Threshold)
      BY <1>1, <2>1, ReportAccounted
    <2>. QED  BY <1>1, <2>1, <2>2, CallerToldRightly DEF InFlight
  <1>10. ASSUME NEW c \in Callers, ReadStatus(c) PROVE Accounted' /\ ToldRightly'
    <2> DEFINE label == IF using THEN "open" ELSE "error"
    <2>1. At(c, label) /\ UNCHANGED <<manager, late, reported>> /\ ~late[c]
      BY <1>3, <1>10 DEF ReadStatus, vars
    <2>2. Accounted'
      BY <1>1, <2>1, OthersAccounted DEF manager
    <2>3. label \in Outcomes /\ (label = "open" => HasOperator \/ reported' = Threshold)
      BY <1>1, <2>1 DEF Outcomes, Accounted
    <2> HIDE DEF label
    <2>. QED  BY <1>1, <2>1, <2>2, <2>3, CallerToldRightly
  <1>11. CASE CloseLimiter
    BY <1>1, <1>11, OthersAccounted, OthersToldRightly DEF CloseLimiter, manager
  <1>12. CASE UNCHANGED allVars
    BY <1>1, <1>12, OthersAccounted, OthersToldRightly DEF allVars, limiter, vars, manager
  <1>. QED
    BY <1>4, <1>5, <1>6, <1>7, <1>8, <1>9, <1>10, <1>11, <1>12 DEF LimiterNext

LEMMA SpecLimiterInv == LimiterSpec => []LimiterInv
  BY InitLimiterInv, StepLimiterInv, PTL DEF LimiterSpec

(* The limiter's calls keep what the manager keeps, also when the limiter  *)
(* closes the primary that the manager still probes: the flag and the      *)
(* backend in use agree, a count at the threshold has switched, and the    *)
(* recovery owns the flag (Close of the limiter against the goroutines).   *)
THEOREM BasicKeepsManager == LimiterSpec => [](TypeOK /\ NotOverdue /\ RecoveryOwnsFlag)
  <1>1. LimiterInv => TypeOK /\ NotOverdue /\ RecoveryOwnsFlag
    BY DEF LimiterInv, ManagerInv
  <1>2. QED
    BY <1>1, SpecLimiterInv, PTL

(* No request is let through without the algorithm's decision before       *)
(* Threshold failures have been reported, and none that was made on a      *)
(* closed limiter (AllowN's test, its report and its reading of the status *)
(* are steps of their own).                                                *)
THEOREM BasicFailOpenOnlyAfterFailures == LimiterSpec => []FailOpenOnlyAfterFailures
  <1>1. LimiterInv => FailOpenOnlyAfterFailures
    BY DEF LimiterInv, ToldRightly
  <1>2. QED
    BY <1>1, SpecLimiterInv, PTL
=============================================================================
