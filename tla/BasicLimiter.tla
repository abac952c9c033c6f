----------------------------- MODULE BasicLimiter ----------------------------
(***************************************************************************)
(* The basic limiter of limiters/basic/basic.go over a primary backend     *)
(* that a failover manager watches: what becomes of requests when the      *)
(* backend fails, when the fallback is active and when the limiter is      *)
(* closed.  The decision of an update that succeeds is the algorithm's     *)
(* and is left open here.                                                  *)
(***************************************************************************)
EXTENDS FailoverManager

CONSTANT Callers

VARIABLES
  limiterClosed,
  request,     \* per caller: where its AllowN is, or how it ended
  late,        \* history: the call was made on a closed limiter
  consulted,   \* history: the backend in use has decided the call
  reported     \* history: failures reported by anyone, up to Threshold

limiter == <<limiterClosed, request, late, consulted, reported>>
allVars == <<vars, limiter>>

InFlight == {"update", "report", "status"}

(* Allowed and denied are the algorithm's; open is allowed with an error,  *)
(* error and closed are denied with one.                                   *)
Outcomes == {"allowed", "denied", "open", "error", "closed"}

LimiterInit ==
  /\ Init
  /\ limiterClosed = FALSE
  /\ request = [c \in Callers |-> "idle"]
  /\ late = [c \in Callers |-> FALSE]
  /\ consulted = [c \in Callers |-> FALSE]
  /\ reported = 0

(* History: a failure is reported.                                         *)
Reported == reported' = IF reported < Threshold THEN reported + 1 ELSE reported

At(c, label) == request' = [request EXCEPT ![c] = label]

-----------------------------------------------------------------------------
(* AllowN is called, and looks under the lock whether the limiter is closed. *)
AllowN(c) ==
  /\ request[c] \notin InFlight
  /\ At(c, IF limiterClosed THEN "closed" ELSE "update")
  /\ late' = [late EXCEPT ![c] = limiterClosed]
  /\ consulted' = [consulted EXCEPT ![c] = FALSE]
  /\ UNCHANGED <<vars, limiterClosed, reported>>

(* The update, always of the primary, succeeds and decides.                *)
UpdateDecides(c) ==
  /\ request[c] = "update"
  /\ Answers
  /\ \E outcome \in {"allowed", "denied"} : At(c, outcome)
  /\ consulted' = [consulted EXCEPT ![c] = (current = "primary")]
  /\ Succeeded
  /\ UNCHANGED <<up, manager, closing, closed, pc, limiterClosed, late, reported>>

(* The update fails, with the primary or on its own.                       *)
UpdateFails(c) ==
  /\ request[c] = "update"
  /\ At(c, "report")
  /\ UNCHANGED <<vars, limiterClosed, late, consulted, reported>>

ReportFailure(c) ==
  /\ request[c] = "report"
  /\ OnBackendFailure
  /\ Failed
  /\ Reported
  /\ At(c, "status")
  /\ UNCHANGED <<up, closing, closed, pc, limiterClosed, late, consulted>>

(* Mutant: a failed request is let through whatever the status.            *)
ReadStatus_AlwaysOpen(c) ==
  /\ request[c] = "status"
  /\ At(c, "open")
  /\ UNCHANGED <<vars, limiterClosed, late, consulted, reported>>

(* With the fallback active the request is let through, else refused.      *)
ReadStatus(c) ==
  /\ request[c] = "status"
  /\ At(c, IF using THEN "open" ELSE "error")
  /\ UNCHANGED <<vars, limiterClosed, late, consulted, reported>>

(* Close closes the backend, once.                                         *)
CloseLimiter ==
  /\ ~limiterClosed
  /\ limiterClosed' = TRUE
  /\ closed' = closed \cup {"primary"}
  /\ UNCHANGED <<up, manager, closing, pc, streak, request, late, consulted, reported>>

-----------------------------------------------------------------------------
Request(c) ==
  UpdateDecides(c) \/ UpdateFails(c) \/ ReportFailure(c) \/ ReadStatus(c)

(* What the manager does, but for its reports, and what is done to it.     *)
ManagerStep ==
  \/ PrimaryChanges \/ SwitchToFallback \/ SwitchToPrimary
  \/ HealthTick \/ HealthPassed
  \/ RecoveryTick \/ RecoveryFailed \/ RecoveryPassed
  \/ \E g \in Goroutines : ProbeSet(g) \/ ProbeGet(g) \/ Stop(g)
  \/ Close \/ ClosePrimary \/ CloseFallback

LimiterNext ==
  \/ ManagerStep /\ UNCHANGED limiter
  \/ HealthFailed /\ Reported /\ UNCHANGED <<limiterClosed, request, late, consulted>>
  \/ \E c \in Callers :
       \/ AllowN(c)
       \/ UpdateDecides(c) \/ UpdateFails(c) \/ ReportFailure(c) \/ ReadStatus(c)
  \/ CloseLimiter

LimiterSpec == LimiterInit /\ [][LimiterNext]_allVars
(* The manager's goroutines and the requests run.                          *)
LimiterFairSpec ==
  /\ LimiterSpec
  /\ WF_allVars(Health /\ LimiterNext) /\ WF_allVars(Recovery /\ LimiterNext)
  /\ \A c \in Callers : WF_allVars(Request(c))

-----------------------------------------------------------------------------
(* No request is let through without the algorithm's decision before the   *)
(* threshold of failures has been reached, by requests and health checks   *)
(* together, and none at all that was made on a closed limiter, also while *)
(* the fallback is active (AllowN's test before the update, its report and *)
(* its reading of the status, which are steps of their own).               *)
FailOpenOnlyAfterFailures ==
  /\ \A c \in Callers : late[c] => request[c] = "closed"
  /\ ~HasOperator =>
       \A c \in Callers : request[c] = "open" => reported = Threshold

(* An outage that lasts refuses requests only for a while: the fallback    *)
(* becomes active for good, even if a recovery that had seen the primary   *)
(* healthy switches back in between.                                       *)
OutageFailsOpen ==
  EnableFallback /\ ~HasOperator => (<>[](~up /\ ~done) => <>[]using)

(* What the documentation promises: with the fallback active, requests are *)
(* decided by the fallback backend.                                        *)
DecidedByBackendInUse ==
  \A c \in Callers : request[c] \in {"allowed", "denied", "open"} => consulted[c]
=============================================================================
