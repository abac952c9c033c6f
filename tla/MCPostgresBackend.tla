-------------------------- MODULE MCPostgresBackend -------------------------
(* The PostgreSQL backend under a counting limiter.                        *)
EXTENDS PostgresTransaction, CounterLimiter
=============================================================================
