---------------------------- MODULE DynamicLimits ----------------------------
(***************************************************************************)
(* The dynamic limit managers of features/dynamic_limits.go, one in the    *)
(* process of each node that has one: limits that an operator sets for a   *)
(* key or for a tier while requests run.  Every operation is one section   *)
(* under the manager's lock; the update hooks called after it are the      *)
(* user's and are left out.                                                *)
(***************************************************************************)
EXTENDS Integers

CONSTANTS
  DynamicNodes,    \* nodes with a manager
  Keys,
  Tiers,
  Limits,          \* the limits operators set
  DefaultLimit     \* the default a manager is made with, unchecked

ASSUME DynamicAssumption == Limits \subseteq Nat \ {0} /\ DefaultLimit \in Limits \cup {0}

VARIABLES
  keyLimits,    \* the managers' limits, 0 where none is set
  tierLimits,   \* the managers' tierLimits, 0 where none is set
  defaultLimit  \* the managers' defaultLimit

dynamics == <<keyLimits, tierLimits, defaultLimit>>

DynamicInit ==
  /\ keyLimits = [n \in DynamicNodes |-> [k \in Keys |-> 0]]
  /\ tierLimits = [n \in DynamicNodes |-> [t \in Tiers |-> 0]]
  /\ defaultLimit = [n \in DynamicNodes |-> DefaultLimit]

UpdateLimit(n, k, limit) ==
  /\ keyLimits' = [keyLimits EXCEPT ![n][k] = limit]
  /\ UNCHANGED <<tierLimits, defaultLimit>>

(* The limits of tiers; those of tenants are a table of their own with the *)
(* same operations.                                                        *)
UpdateLimitByTier(n, t, limit) ==
  /\ tierLimits' = [tierLimits EXCEPT ![n][t] = limit]
  /\ UNCHANGED <<keyLimits, defaultLimit>>

UpdateDefaultLimit(n, limit) ==
  /\ defaultLimit' = [defaultLimit EXCEPT ![n] = limit]
  /\ UNCHANGED <<keyLimits, tierLimits>>

(* What a limiter is told of a key: the limits of tiers do not matter.     *)
GetCurrentLimit(n, k) ==
  IF keyLimits[n][k] = 0 THEN defaultLimit[n] ELSE keyLimits[n][k]

(* The manager of a node starts anew with its process.                     *)
NewDynamicLimitManager(n) ==
  /\ keyLimits' = [keyLimits EXCEPT ![n] = [k \in Keys |-> 0]]
  /\ tierLimits' = [tierLimits EXCEPT ![n] = [t \in Tiers |-> 0]]
  /\ defaultLimit' = [defaultLimit EXCEPT ![n] = DefaultLimit]

DynamicTypeOK ==
  /\ keyLimits \in [DynamicNodes -> [Keys -> Limits \cup {0}]]
  /\ tierLimits \in [DynamicNodes -> [Tiers -> Limits \cup {0}]]
  /\ defaultLimit \in [DynamicNodes -> Limits \cup {0}]
=============================================================================
