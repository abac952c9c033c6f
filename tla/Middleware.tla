------------------------------ MODULE Middleware ------------------------------
(***************************************************************************)
(* The middleware of middleware/http, middleware/grpc and                  *)
(* middleware/adapters in front of a cost limiter: a request is let        *)
(* through unchecked, answered because it has no key, or checked by a call *)
(* of Allow and answered by what the limiter decides.  Others call the     *)
(* limiter themselves.                                                     *)
(***************************************************************************)
EXTENDS CostLimiter

CONSTANT Direct   \* the callers that call the limiter themselves

ASSUME MiddlewareAssumption == Direct \subseteq Callers /\ 1 \in Args

VARIABLE response   \* per caller: the answer to its request, if it came this way

vars == <<backendVars, limiterVars, granted, response>>

Frameworks == {"http", "grpc", "gin", "chi", "echo", "fiber"}

(* The adapters' options; the others have none of these.                   *)
Options == [OnError : BOOLEAN, AbortOnError : BOOLEAN]

(* handler: the handler behind the middleware has run; refusal: what the   *)
(* middleware has answered itself, with a default answer or a hook's.      *)
Responses ==
  [at : {"none", "waiting", "answered"}, checked : BOOLEAN,
   handler : BOOLEAN, refusal : {"none", "exceeded", "error"}]

NoResponse == [at |-> "none", checked |-> FALSE, handler |-> FALSE, refusal |-> "none"]

Waiting == [NoResponse EXCEPT !.at = "waiting", !.checked = TRUE]

Init ==
  /\ CostInit
  /\ response = [c \in Callers |-> NoResponse]

Respond(c, r) == response' = [response EXCEPT ![c] = r]

Answer(checked, handler, refusal) ==
  [at |-> "answered", checked |-> checked, handler |-> handler, refusal |-> refusal]

Handler(checked) == Answer(checked, TRUE, "none")

(* The answers to a request without a key.  HTTP and gRPC refuse it.       *)
InvalidKey == Answer(FALSE, FALSE, "error")

(* With gin and chi the handler runs after OnError unless the request is   *)
(* aborted.                                                                *)
ChiNoKey(o) ==
  Answer(FALSE, ~o.AbortOnError, IF o.OnError \/ o.AbortOnError THEN "error" ELSE "none")

(* With echo and fiber OnError's answer is final.                          *)
FiberNoKey(o) == IF o.OnError \/ o.AbortOnError THEN InvalidKey ELSE Handler(FALSE)

NoKey(f, o) ==
  CASE f \in {"http", "grpc"}  -> InvalidKey
    [] f \in {"gin", "chi"}    -> ChiNoKey(o)
    [] f \in {"echo", "fiber"} -> FiberNoKey(o)

-----------------------------------------------------------------------------
Arrives(c) == c \notin Direct /\ NoRequest(c) /\ response[c].at # "waiting"

(* A path or a method is configured to be let through.                     *)
Skip(c) ==
  /\ Arrives(c)
  /\ Respond(c, Handler(FALSE))
  /\ UNCHANGED <<backendVars, limiterVars, granted>>

RejectKey(c) ==
  /\ Arrives(c)
  /\ \E r \in {NoKey(f, o) : f \in Frameworks, o \in Options} : Respond(c, r)
  /\ UNCHANGED <<backendVars, limiterVars, granted>>

(* Every middleware asks for one, whatever the operation.                  *)
CheckLimit(c) ==
  /\ Arrives(c)
  /\ AllowWithCost(c, 1)
  /\ UNCHANGED price
  /\ Respond(c, Waiting)

(* Mutant: an error of the limiter is taken for leave to go on.            *)
Finish_FailsOpen(c) ==
  /\ response[c].at = "waiting"
  /\ request[c] \in Outcomes
  /\ Respond(c, IF request[c] # "denied" THEN Handler(TRUE) ELSE Answer(TRUE, FALSE, "exceeded"))
  /\ UNCHANGED <<backendVars, limiterVars, granted>>

(* The limiter's result is answered, its errors as a limit exceeded, with  *)
(* the default answer or that of a hook, which may look like a success (a  *)
(* gRPC CustomStatusCode of OK): the handler has not run then either.      *)
Finish(c) ==
  /\ response[c].at = "waiting"
  /\ request[c] \in Outcomes
  /\ Respond(c, IF request[c] \in {"allowed", "open"} THEN Handler(TRUE)
                ELSE Answer(TRUE, FALSE, "exceeded"))
  /\ UNCHANGED <<backendVars, limiterVars, granted>>

-----------------------------------------------------------------------------
(* A caller of the limiter itself looks up what its operation costs.       *)
AskCost(c) == c \in Direct /\ \E op \in Operations : GetOperationCost(c, op)

LimiterStep(c) ==
  AllowPriced(c) \/ UpdateStep(c) \/ UpdateReturns(c) \/ UpdateFailed(c)

Next ==
  \/ \E c \in Callers :
       \/ Skip(c) \/ RejectKey(c) \/ CheckLimit(c) \/ Finish(c)
       \/ (AskCost(c) \/ LimiterStep(c)) /\ UNCHANGED response
  \/ \E op \in Operations, n \in Args : SetOperationCost(op, n) /\ UNCHANGED response
  \/ Reset /\ UNCHANGED response
  \/ CloseLimiter /\ UNCHANGED response
  \/ ClearBackend /\ UNCHANGED response
  \/ CloseBackend /\ UNCHANGED response
  \/ UseBackend /\ UNCHANGED response
  \/ TimePasses /\ UNCHANGED response

Spec == Init /\ [][Next]_vars

-----------------------------------------------------------------------------
(* A checked request reaches its handler if and only if the key has been   *)
(* charged for it or the limiter has let it through on the failover        *)
(* handler's word, whatever has become of limiter and backend since: an    *)
(* error, a close or a failed update is a refusal (Wrap, UnaryInterceptor  *)
(* and the adapters over AllowWithCost and AtomicUpdate).                  *)
HandlerRunsIffCharged ==
  \A c \in Callers :
    response[c].at = "answered" /\ response[c].checked =>
      /\ response[c].handler =
           \/ request[c] = "open"
           \/ request[c] # "closed" /\ call[c].phase = "replied" /\ call[c].result.allowed
      /\ response[c].handler = (response[c].refusal = "none")

(* Once the backend is closed nothing is charged or granted any more, also *)
(* not to a call that has passed the limiter's test or has read the key    *)
(* before (Close against AllowWithCost's update).                          *)
ClosedGrantsNothing == [][closed => UNCHANGED <<entry, granted>>]_vars
=============================================================================
