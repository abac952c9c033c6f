--------------------------- MODULE MCMemoryBackend --------------------------
(* The in-memory backend under a counting limiter.                         *)
EXTENDS MemoryBackend, CounterLimiter
=============================================================================
