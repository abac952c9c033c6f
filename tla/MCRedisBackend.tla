--------------------------- MODULE MCRedisBackend ---------------------------
(* The Redis backend under a counting limiter.                             *)
EXTENDS RedisBackend, CounterLimiter
=============================================================================
