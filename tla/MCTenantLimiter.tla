--------------------------- MODULE MCTenantLimiter ---------------------------
EXTENDS TenantLimiter, TLC

BothTenants == [t \in Tiers |-> 1]
Symmetric == Permutations(Callers)
=============================================================================
