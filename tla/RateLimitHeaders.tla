-------------------------- MODULE RateLimitHeaders --------------------------
(***************************************************************************)
(* What the middleware tells the client of a decision: the headers of      *)
(* middleware/http/formatters.go, and those of the adapters and the gRPC   *)
(* metadata, which are computed alike.  Durations and times become whole   *)
(* seconds.                                                                *)
(***************************************************************************)
EXTENDS LimitedKey

CONSTANT TicksPerSecond

ASSUME TicksAssumption == TicksPerSecond \in Nat \ {0} /\ TicksPerSecond % 2 = 0

(* Mutant: the fraction of a second is cut off.                            *)
Seconds_Truncated(ticks) == ticks \div TicksPerSecond

(* "%.0f" of a duration's seconds: to the nearest, from the middle to the  *)
(* even one.                                                               *)
Seconds(ticks) ==
  LET whole == ticks \div TicksPerSecond
      rest == 2 * (ticks % TicksPerSecond)
  IN IF rest > TicksPerSecond \/ (rest = TicksPerSecond /\ whole % 2 = 1)
       THEN whole + 1 ELSE whole

(* Retry-After is only sent to a denied request that has to wait.  The     *)
(* gRPC metadata ask for a wait alone, which only a denied one has.        *)
SendsRetryAfter(d) == ~d.allowed /\ d.retryAfter > 0

(* X-RateLimit-Reset is a Unix time, the fraction of a second cut off.     *)
ResetHeader(d) == d.resetTime \div TicksPerSecond

(* A client that was refused and waits the seconds of Retry-After, and     *)
(* half a second for the rounding, is granted then, at every algorithm     *)
(* whose RetryAfter is a promise; and a client that stays away until the   *)
(* second after X-RateLimit-Reset finds the key as good as new             *)
(* (FormatHeaders over convertResult and calculateRetryAfter).             *)
HeadersHonest ==
  stored # NoState =>
    \A n \in Ns, skew \in Skews :
      LET t == now + skew
          d == Decide(stored, t, n)
          back == t + TicksPerSecond * Seconds(d.retryAfter) + TicksPerSecond \div 2
          later == TicksPerSecond * (ResetHeader(d) + 1)
      IN /\ SendsRetryAfter(d) /\ Retries(stored, t, n) =>
              Decide(d.state, back + Slack, n).allowed
         /\ algorithm # "sliding_window" /\ CaughtUp(stored, t) =>
              \A m \in Ns : Decide(Fresh(later), later, m).allowed =>
                Decide(d.state, later, m).allowed

(* What the documentation promises: Retry-After is how many seconds to     *)
(* wait before retrying.                                                   *)
RetryHeaderSuffices ==
  stored # NoState =>
    \A n \in Ns :
      LET d == Decide(stored, now, n)
      IN SendsRetryAfter(d) /\ Retries(stored, now, n) =>
           Decide(d.state, now + TicksPerSecond * Seconds(d.retryAfter) + Slack, n).allowed
=============================================================================
