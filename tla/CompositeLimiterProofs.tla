----------------------- MODULE CompositeLimiterProofs -----------------------
(***************************************************************************)
(* The composite limiter's two promises, for any number of callers and     *)
(* limits, any budget, and whatever is added, removed, reset, expired or   *)
(* closed in between.                                                      *)
(*                                                                         *)
(* Neither is inductive.  EveryLimitAsked needs that a limit owed to a     *)
(* request is in the map until the request has copied it, and on its list  *)
(* until it has granted (Asked).  AdmittedWithinEveryLimit needs that each *)
(* request still in progress which a limit has granted in this window is   *)
(* paid for there, beside those admitted already (Paid).                   *)
(***************************************************************************)
EXTENDS CompositeLimiter, FiniteSetTheorems, TLAPS

(* What is still owed to call c while the limiter is open.                 *)
AskedOf(c) ==
  /\ request[c] = "list" => owed[c] \subseteq limiters
  /\ request[c] = "check" => owed[c] \subseteq passed[c] \cup todo[c]
  /\ request[c] \in {"largest", "allowed"} => owed[c] \subseteq passed[c]

Asked == ~closed => \A c \in Callers : AskedOf(c)

(* The requests in progress that limit l has granted in its window.        *)
Holders(l) == {c \in Callers : request[c] \in {"check", "largest"} /\ l \in fresh[c]}

PaidOf(l) ==
  /\ IsFiniteSet(Holders(l))
  /\ admitted[l] + Cardinality(Holders(l)) <= counter[l]

Unpaid == \A c \in Callers : request[c] = "list" => fresh[c] = {}

Paid == Unpaid /\ \A l \in Limits : PaidOf(l)

-----------------------------------------------------------------------------
LEMMA CompositeInitType == Init => TypeOK
<1> SUFFICES ASSUME Init PROVE TypeOK
  OBVIOUS
<1>1. /\ counter \in [Limits -> 0 .. Budget] /\ admitted \in [Limits -> Nat]
      /\ request \in [Callers -> {"idle"} \cup InFlight \cup Outcomes]
  BY CompositeAssumption DEF Init
<1>2. /\ todo \in [Callers -> SUBSET Limits] /\ owed \in [Callers -> SUBSET Limits]
      /\ passed \in [Callers -> SUBSET Limits] /\ fresh \in [Callers -> SUBSET Limits]
  BY DEF Init
<1>3. /\ limiters \subseteq Limits /\ resetting \subseteq Limits
      /\ closed \in BOOLEAN /\ crashed \in BOOLEAN /\ backend = "open"
  BY CompositeAssumption DEF Init
<1>. QED  BY <1>1, <1>2, <1>3 DEF TypeOK

LEMMA CompositeStepType == TypeOK /\ [Next]_vars => TypeOK'
<1> SUFFICES ASSUME TypeOK, [Next]_vars PROVE TypeOK'
  OBVIOUS
<1> USE CompositeAssumption DEF TypeOK, InFlight, Outcomes
<1>1. ASSUME NEW c \in Callers, AllowN(c) PROVE TypeOK'
  BY <1>1 DEF AllowN, At
<1>2. ASSUME NEW c \in Callers, ListLimits(c) PROVE TypeOK'
  BY <1>2 DEF ListLimits, At, history
<1>3. ASSUME NEW c \in Callers, NEW l \in Limits, Pass(c, l) PROVE TypeOK'
  BY <1>3 DEF Pass
<1>4. ASSUME NEW c \in Callers, NEW l \in Limits, Deny(c, l) PROVE TypeOK'
  BY <1>4 DEF Deny, At, history
<1>5. ASSUME NEW c \in Callers, NEW l \in Limits, CheckFails(c, l) PROVE TypeOK'
  BY <1>5 DEF CheckFails, At, history
<1>6. ASSUME NEW c \in Callers, AllPassed(c) PROVE TypeOK'
  BY <1>6 DEF AllPassed, At, history
<1>7. ASSUME NEW c \in Callers, Answer(c) PROVE TypeOK'
  BY <1>7 DEF Answer, At
<1>8. ASSUME NEW l \in Limits, AddLimit(l) PROVE TypeOK'
  BY <1>8 DEF AddLimit, WriteMap, calls, history
<1>9. ASSUME NEW l \in Limits, RemoveLimit(l) PROVE TypeOK'
  BY <1>9 DEF RemoveLimit, WriteMap, calls
<1>10. ASSUME NEW l \in Limits, ResetLimit(l) PROVE TypeOK'
  BY <1>10 DEF ResetLimit, Forget, calls
<1>11. ASSUME NEW l \in Limits, Expire(l) PROVE TypeOK'
  BY <1>11 DEF Expire, Forget, calls
<1>12. CASE Close \/ Reset \/ ResetFails \/ BackendChanges
  BY <1>12 DEF Close, Reset, ResetFails, BackendChanges, calls, history
<1>13. CASE UNCHANGED vars
  BY <1>13 DEF vars, calls, history
<1>. QED
  BY <1>1, <1>2, <1>3, <1>4, <1>5, <1>6, <1>7, <1>8, <1>9, <1>10, <1>11, <1>12, <1>13 DEF Next

(* No limit is charged beyond its budget, and a limiter whose backend is   *)
(* closed has no limits (Close, Update's counter).                         *)
THEOREM CompositeTypeOK == Spec => []TypeOK
BY CompositeInitType, CompositeStepType, PTL DEF Spec

-----------------------------------------------------------------------------
LEMMA AskedStep == TypeOK /\ Asked /\ [Next]_vars => Asked'
<1> SUFFICES ASSUME TypeOK, Asked, [Next]_vars PROVE Asked'
  OBVIOUS
<1> USE DEF TypeOK
<1>1. ASSUME NEW c \in Callers, AllowN(c) PROVE Asked'
  BY <1>1 DEF AllowN, At, Asked, AskedOf
<1>2. ASSUME NEW c \in Callers, ListLimits(c) PROVE Asked'
  BY <1>2 DEF ListLimits, At, history, Asked, AskedOf
<1>3. ASSUME NEW c \in Callers, NEW l \in Limits, Pass(c, l) PROVE Asked'
  BY <1>3 DEF Pass, Asked, AskedOf
<1>4. ASSUME NEW c \in Callers, NEW l \in Limits, Deny(c, l) PROVE Asked'
  BY <1>4 DEF Deny, At, history, Asked, AskedOf
<1>5. ASSUME NEW c \in Callers, NEW l \in Limits, CheckFails(c, l) PROVE Asked'
  BY <1>5 DEF CheckFails, At, history, Asked, AskedOf
<1>6. ASSUME NEW c \in Callers, AllPassed(c) PROVE Asked'
  BY <1>6 DEF AllPassed, At, history, Asked, AskedOf
<1>7. ASSUME NEW c \in Callers, Answer(c) PROVE Asked'
  BY <1>7 DEF Answer, At, Asked, AskedOf
<1>8. ASSUME NEW l \in Limits, AddLimit(l) PROVE Asked'
  BY <1>8 DEF AddLimit, calls, history, Asked, AskedOf
<1>9. ASSUME NEW l \in Limits, RemoveLimit(l) PROVE Asked'
  BY <1>9 DEF RemoveLimit, calls, Asked, AskedOf
<1>10. ASSUME NEW l \in Limits, ResetLimit(l) \/ Expire(l) PROVE Asked'
  BY <1>10 DEF ResetLimit, Expire, calls, Asked, AskedOf
<1>11. CASE Close
  BY <1>11 DEF Close, Asked
<1>12. CASE Reset \/ ResetFails \/ BackendChanges \/ UNCHANGED vars
  BY <1>12 DEF Reset, ResetFails, BackendChanges, vars, calls, history, Asked, AskedOf
<1>. QED
  BY <1>1, <1>2, <1>3, <1>4, <1>5, <1>6, <1>7, <1>8, <1>9, <1>10, <1>11, <1>12 DEF Next

(* While the limiter is open, a request is allowed only if every limit     *)
(* that was configured from its call to its answer has granted it, however *)
(* limits come and go in the meantime (AllowN's copy of the limits and its *)
(* loop).                                                                  *)
THEOREM CompositeEveryLimitAsked == Spec => []EveryLimitAsked
<1>1. Init => Asked
  BY DEF Init, Asked, AskedOf
<1>2. Asked => EveryLimitAsked
  BY DEF Asked, AskedOf, EveryLimitAsked
<1>. QED  BY <1>1, <1>2, AskedStep, CompositeTypeOK, PTL DEF Spec

-----------------------------------------------------------------------------
(* A limit with no smaller charge and no more holders is still paid for.   *)
LEMMA FewerHolders ==
  ASSUME TypeOK, TypeOK', NEW l \in Limits, PaidOf(l), Holders(l)' \subseteq Holders(l),
         counter'[l] >= counter[l], admitted'[l] = admitted[l]
  PROVE  PaidOf(l)'
<1>1. IsFiniteSet(Holders(l)') /\ Cardinality(Holders(l)') <= Cardinality(Holders(l))
  BY FS_Subset DEF PaidOf
<1>2. Cardinality(Holders(l)') \in Nat /\ Cardinality(Holders(l)) \in Nat
  BY <1>1, FS_CardinalityType DEF PaidOf
<1>. QED  BY <1>1, <1>2 DEF PaidOf, TypeOK

(* What a limit has forgotten nobody holds.                                *)
LEMMA ForgottenPaid ==
  ASSUME TypeOK, TypeOK', Paid, NEW l \in Limits, Forget(l), request' = request
  PROVE  Paid'
<1>1. ASSUME NEW k \in Limits, k # l PROVE PaidOf(k)'
  <2>1. Holders(k)' \subseteq Holders(k)
    BY <1>1 DEF Holders, Forget, TypeOK
  <2>. QED  BY <1>1, <2>1, FewerHolders DEF Forget, TypeOK, Paid
<1>2. PaidOf(l)'
  <2>1. Holders(l)' = {}
    BY DEF Holders, Forget, TypeOK
  <2>2. IsFiniteSet(Holders(l)') /\ Cardinality(Holders(l)') = 0
    BY <2>1, FS_EmptySet
  <2>3. counter'[l] = 0 /\ admitted'[l] = 0
    BY DEF Forget, TypeOK
  <2>. QED  BY <2>2, <2>3 DEF PaidOf
<1>3. Unpaid'
  BY DEF Unpaid, Paid, Forget
<1>. QED  BY <1>1, <1>2, <1>3 DEF Paid

(* The pass of a limit charges it once, for one more holder at most.       *)
LEMMA PassPaid ==
  ASSUME TypeOK, Paid, NEW c \in Callers, NEW l \in Limits, Pass(c, l)
  PROVE  Paid'
<1>1. ASSUME NEW k \in Limits, k # l PROVE PaidOf(k)'
  <2>1. Holders(k)' = Holders(k)
    BY <1>1 DEF Holders, Pass, TypeOK
  <2>. QED  BY <1>1, <2>1 DEF Pass, TypeOK, Paid, PaidOf
<1>2. PaidOf(l)'
  <2>1. Holders(l)' \subseteq Holders(l) \cup {c}
    BY DEF Holders, Pass, TypeOK
  <2>2. IsFiniteSet(Holders(l)) /\ Cardinality(Holders(l)) \in Nat
    BY FS_CardinalityType DEF Paid, PaidOf
  <2>3. /\ IsFiniteSet(Holders(l) \cup {c})
        /\ Cardinality(Holders(l) \cup {c}) <= Cardinality(Holders(l)) + 1
    <3>1. /\ IsFiniteSet(Holders(l) \cup {c})
          /\ \/ Cardinality(Holders(l) \cup {c}) = Cardinality(Holders(l))
             \/ Cardinality(Holders(l) \cup {c}) = Cardinality(Holders(l)) + 1
      BY <2>2, FS_AddElement, Zenon
    <3>. QED  BY <2>2, <3>1
  <2>4. /\ IsFiniteSet(Holders(l)')
        /\ Cardinality(Holders(l)') <= Cardinality(Holders(l) \cup {c})
    BY <2>1, <2>3, FS_Subset
  <2>5. Cardinality(Holders(l)') \in Nat /\ Cardinality(Holders(l) \cup {c}) \in Nat
    BY <2>3, <2>4, FS_CardinalityType
  <2>6. Cardinality(Holders(l)') <= Cardinality(Holders(l)) + 1
    BY <2>2, <2>3, <2>4, <2>5
  <2>7. /\ counter'[l] = counter[l] + 1 /\ admitted'[l] = admitted[l]
        /\ counter[l] \in Nat /\ admitted[l] \in Nat
        /\ admitted[l] + Cardinality(Holders(l)) <= counter[l]
    BY DEF Pass, TypeOK, Paid, PaidOf
  <2>8. admitted'[l] + Cardinality(Holders(l)') <= counter'[l]
    BY <2>2, <2>5, <2>6, <2>7
  <2>. QED  BY <2>4, <2>8 DEF PaidOf
<1>3. Unpaid'
  BY DEF Unpaid, Paid, Pass, TypeOK
<1>. QED  BY <1>1, <1>2, <1>3 DEF Paid

(* An answer admits a request at the limits that it holds, and gives up    *)
(* its hold.                                                               *)
LEMMA AnswerPaid ==
  ASSUME TypeOK, Paid, NEW c \in Callers, Answer(c)
  PROVE  Paid'
<1>1. ASSUME NEW l \in Limits PROVE PaidOf(l)'
  <2>1. Holders(l)' = Holders(l) \ {c}
    BY DEF Holders, Answer, At, TypeOK
  <2>2. c \in Holders(l) <=> l \in fresh[c]
    BY DEF Holders, Answer
  <2>3. /\ IsFiniteSet(Holders(l)) /\ Cardinality(Holders(l)) \in Nat
        /\ IsFiniteSet(Holders(l) \ {c})
        /\ Cardinality(Holders(l) \ {c}) =
             IF c \in Holders(l) THEN Cardinality(Holders(l)) - 1 ELSE Cardinality(Holders(l))
    BY FS_CardinalityType, FS_RemoveElement DEF Paid, PaidOf
  <2>4. /\ counter'[l] = counter[l] /\ counter[l] \in Nat /\ admitted[l] \in Nat
        /\ admitted'[l] = IF l \in fresh[c] THEN admitted[l] + 1 ELSE admitted[l]
        /\ admitted[l] + Cardinality(Holders(l)) <= counter[l]
    BY DEF Answer, TypeOK, Paid, PaidOf
  <2>5. admitted'[l] + Cardinality(Holders(l) \ {c}) <= counter'[l]
    BY <2>2, <2>3, <2>4
  <2>. QED  BY <2>1, <2>3, <2>5 DEF PaidOf
<1>2. Unpaid'
  BY DEF Unpaid, Paid, Answer, At, TypeOK
<1>. QED  BY <1>1, <1>2 DEF Paid

LEMMA PaidStep == TypeOK /\ Paid /\ [Next]_vars => Paid'
<1> SUFFICES ASSUME TypeOK, TypeOK', Paid, [Next]_vars PROVE Paid'
  BY CompositeStepType
<1>1. ASSUME Unpaid',
             \A l \in Limits : counter'[l] >= counter[l] /\ admitted'[l] = admitted[l],
             \A l \in Limits : Holders(l)' \subseteq Holders(l)
      PROVE  Paid'
  BY <1>1, FewerHolders DEF Paid
<1> USE DEF Unpaid, Holders, TypeOK
<1>2. ASSUME NEW c \in Callers, AllowN(c) PROVE Paid'
  <2>1. Unpaid' /\ \A l \in Limits : Holders(l)' \subseteq Holders(l)
    BY <1>2 DEF AllowN, At, Paid
  <2>. QED  BY <1>1, <1>2, <2>1 DEF AllowN
<1>3. ASSUME NEW c \in Callers, ListLimits(c) PROVE Paid'
  <2>1. Unpaid' /\ \A l \in Limits : Holders(l)' \subseteq Holders(l)
    BY <1>3 DEF ListLimits, At, history, Paid
  <2>. QED  BY <1>1, <1>3, <2>1 DEF ListLimits, history
<1>4. ASSUME NEW c \in Callers, NEW l \in Limits, Deny(c, l) PROVE Paid'
  <2>1. Unpaid' /\ \A k \in Limits : Holders(k)' \subseteq Holders(k)
    BY <1>4 DEF Deny, At, history, Paid
  <2>. QED  BY <1>1, <1>4, <2>1 DEF Deny, history
<1>5. ASSUME NEW c \in Callers, NEW l \in Limits, CheckFails(c, l) PROVE Paid'
  <2>1. Unpaid' /\ \A k \in Limits : Holders(k)' \subseteq Holders(k)
    BY <1>5 DEF CheckFails, At, history, Paid
  <2>2. \A k \in Limits : counter'[k] >= counter[k] /\ admitted'[k] = admitted[k]
    BY <1>5 DEF CheckFails, history
  <2>. QED  BY <1>1, <2>1, <2>2
<1>6. ASSUME NEW c \in Callers, AllPassed(c) PROVE Paid'
  <2>1. Unpaid' /\ \A l \in Limits : Holders(l)' \subseteq Holders(l)
    BY <1>6 DEF AllPassed, At, history, Paid
  <2>. QED  BY <1>1, <1>6, <2>1 DEF AllPassed, history
<1>7. ASSUME UNCHANGED <<counter, admitted, request, fresh>> PROVE Paid'
  BY <1>1, <1>7 DEF Paid
<1>8. ASSUME NEW l \in Limits, AddLimit(l) \/ RemoveLimit(l) PROVE Paid'
  BY <1>7, <1>8 DEF AddLimit, RemoveLimit, calls, history
<1>9. ASSUME NEW l \in Limits, ResetLimit(l) \/ Expire(l) PROVE Paid'
  BY <1>9, ForgottenPaid DEF ResetLimit, Expire, calls
<1>10. CASE Close \/ Reset \/ ResetFails \/ BackendChanges \/ UNCHANGED vars
  BY <1>7, <1>10 DEF Close, Reset, ResetFails, BackendChanges, vars, calls, history
<1>. QED
  BY <1>2, <1>3, <1>4, <1>5, <1>6, <1>8, <1>9, <1>10, PassPaid, AnswerPaid DEF Next

(* In one window of a limit, no more of the requests it has granted are    *)
(* allowed than its budget, whatever other limits answer, whoever resets   *)
(* the key, and whichever windows begin between a request's limits         *)
(* (AllowN's loop, Reset, the expiry of a limit's state).                  *)
THEOREM CompositeAdmittedWithinEveryLimit == Spec => []AdmittedWithinEveryLimit
<1>1. Init => Paid
  <2> SUFFICES ASSUME Init PROVE Paid
    OBVIOUS
  <2>1. \A l \in Limits : Holders(l) = {}
    BY DEF Init, Holders
  <2>. QED  BY <2>1, FS_EmptySet DEF Init, Paid, PaidOf, Unpaid
<1>2. TypeOK /\ Paid => AdmittedWithinEveryLimit
  <2> SUFFICES ASSUME TypeOK, Paid, NEW l \in Limits PROVE admitted[l] <= Budget
    BY DEF AdmittedWithinEveryLimit
  <2>1. Cardinality(Holders(l)) \in Nat
    BY FS_CardinalityType DEF Paid, PaidOf
  <2>2. counter[l] \in 0 .. Budget /\ admitted[l] \in Nat
    BY DEF TypeOK
  <2>3. admitted[l] + Cardinality(Holders(l)) <= counter[l]
    BY DEF Paid, PaidOf
  <2>. QED  BY <2>1, <2>2, <2>3, CompositeAssumption
<1>. QED  BY <1>1, <1>2, PaidStep, CompositeTypeOK, PTL DEF Spec
=============================================================================
