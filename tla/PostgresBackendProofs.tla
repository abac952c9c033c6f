------------------------ MODULE PostgresBackendProofs -----------------------
(***************************************************************************)
(* Updates of an existing row are serialised with every other writer, for  *)
(* any callers, update function and rows.                                  *)
(*                                                                         *)
(* RowUpdatesSerialised is not inductive: it says nothing of calls that    *)
(* have not replied yet.  Holds adds that a call that has found a row has  *)
(* the key from then on until it ends, that one about to commit has it in  *)
(* any case, and that while it does nobody has overtaken it.               *)
(*                                                                         *)
(* With Transaction's statements going to the pool one by one, the backend *)
(* with transactions implements the one without, and keeps all of this.    *)
(***************************************************************************)
EXTENDS PostgresTransaction, TLAPS

Applies(c) == Fn(Current(local[c].seen), local[c].arg).ok

Holds(c) ==
  /\ pc[c] = "select" => overtaken[c] = {}
  /\ pc[c] \in {"upsert", "commit"} => Applies(c)
  /\ pc[c] = "commit" => owner = c
  /\ pc[c] = "upsert" /\ local[c].seen # Missing => owner = c
  /\ pc[c] \in {"upsert", "commit", "replied"} /\ local[c].seen # Missing =>
       overtaken[c] = {}

AllHold == \A c \in Callers : Holds(c)

IInv == TypeOK /\ AllHold

(* What a function makes of a row is a row.                                *)
LEMMA NewRowType ==
  ASSUME TypeOK, NEW c \in Callers, Applies(c)
  PROVE  NewRow(c) \in Rows
<1>1. /\ local[c].arg \in Args
      /\ local[c].seen \in Rows
  BY DEF TypeOK, Locals
<1>2. Current(local[c].seen) \in Values \cup {Missing}
  BY <1>1 DEF Current, Rows
<1>. QED  BY <1>1, <1>2, FnAssumption DEF Applies, NewRow, Rows

LEMMA InitHolds == Init => IInv
BY BackendAssumption DEF Init, IInv, TypeOK, AllHold, Holds, Rows, Locals, Idle

(* Overtake changes what is known of no call that the key has kept others  *)
(* away from.                                                              *)
LEMMA OvertakeType ==
  ASSUME TypeOK, NEW writer \in Writers, NEW c, Overtake(writer, c)
  PROVE  overtaken' \in [Callers -> SUBSET Writers]
BY DEF TypeOK, Overtake

(* A write by whoever has the key, or of a key nobody has, leaves the      *)
(* others as they were.                                                    *)
LEMMA WriteHolds ==
  ASSUME IInv, NEW writer \in Writers, NEW c, owner \in {Nobody, c},
         Overtake(writer, c), UNCHANGED local,
         owner' = owner \/ owner' = Nobody,
         \A d \in Callers : d # c => pc'[d] = pc[d]
  PROVE  \A d \in Callers : d # c => Holds(d)'
<1> SUFFICES ASSUME NEW d \in Callers, d # c
             PROVE  Holds(d)'
  OBVIOUS
<1>1. Holds(d) /\ pc[d] = pc'[d] /\ owner # d
  BY BackendAssumption DEF IInv, AllHold
<1>2. /\ pc[d] # "commit"
      /\ pc[d] = "upsert" => local[d].seen = Missing
  BY <1>1 DEF Holds
<1>3. pc[d] \in {"select", "replied"} => overtaken'[d] = overtaken[d]
  BY DEF IInv, TypeOK, Overtake
<1>. QED  BY <1>1, <1>2, <1>3 DEF Holds, Applies

LEMMA StepHolds == ASSUME IInv, [Next]_vars PROVE IInv'
<1> USE BackendAssumption DEF IInv, AllHold, Idle, InFlight, Writers
<1>1. ASSUME NEW c \in Callers, NEW n \in Args, Update(c, n)
      PROVE  IInv'
  <2>1. TypeOK'
    BY <1>1 DEF Update, TypeOK, Rows, Locals
  <2>2. \A d \in Callers : Holds(d)'
    BY <1>1 DEF Update, TypeOK, Holds, Applies
  <2>. QED  BY <2>1, <2>2
<1>2. ASSUME NEW c \in Callers, IncrementAndGet(c)
      PROVE  IInv'
  <2>1. TypeOK'
    BY <1>2 DEF IncrementAndGet, TypeOK
  <2>2. \A d \in Callers : Holds(d)'
    BY <1>2 DEF IncrementAndGet, TypeOK, Holds, Applies
  <2>. QED  BY <2>1, <2>2
<1>3. ASSUME NEW c \in Callers, SelectForUpdate(c)
      PROVE  IInv'
  <2> DEFINE f == Fn(Current(row), local[c].arg)
  <2>1. f.ok => f.result \in Results
    BY FnAssumption DEF TypeOK, Locals, Rows, Current
  <2>2. CASE ~f.ok
    <3>1. TypeOK'
      BY <1>3, <2>2 DEF SelectForUpdate, TypeOK
    <3>2. \A d \in Callers : Holds(d)'
      BY <1>3, <2>2 DEF SelectForUpdate, TypeOK, Holds, Applies
    <3>. QED  BY <3>1, <3>2
  <2>3. CASE f.ok
    <3>1. TypeOK'
      BY <1>3, <2>1, <2>3 DEF SelectForUpdate, TypeOK, Locals, Rows, Free
    <3>2. ASSUME NEW d \in Callers, d # c
          PROVE  Holds(d)'
      BY <1>3, <2>3, <3>2 DEF SelectForUpdate, TypeOK, Holds, Applies, Free
    <3>3. overtaken'[c] = overtaken[c] /\ local'[c].seen = row /\ local'[c].arg = local[c].arg
      BY <1>3, <2>3 DEF SelectForUpdate, TypeOK, Locals
    <3>. QED  BY <1>3, <2>3, <3>1, <3>2, <3>3 DEF SelectForUpdate, TypeOK, Holds, Applies
  <2>. QED  BY <2>2, <2>3
<1>4. ASSUME NEW c \in Callers, Upsert(c)
      PROVE  IInv'
  <2>1. TypeOK'
    BY <1>4 DEF Upsert, TypeOK
  <2>2. \A d \in Callers : Holds(d)'
    BY <1>4 DEF Upsert, TypeOK, Holds, Applies, Free
  <2>. QED  BY <2>1, <2>2
<1>5. ASSUME NEW c \in Callers, pc[c] = "commit", row' = NewRow(c), Release(c),
             Overtake("update", c), UNCHANGED <<closed, local>>,
             NEW end \in {"replied", "failed"}, pc' = [pc EXCEPT ![c] = end]
      PROVE  IInv'
  <2>1. owner = c /\ owner' = Nobody
    BY <1>5 DEF Holds, Release
  <2>2. NewRow(c) \in Rows
    BY <1>5, NewRowType DEF Holds
  <2>3. overtaken' \in [Callers -> SUBSET Writers]
    BY <1>5, OvertakeType
  <2>4. TypeOK'
    BY <1>5, <2>1, <2>2, <2>3 DEF TypeOK
  <2>5. \A d \in Callers : d # c => pc'[d] = pc[d]
    BY <1>5 DEF TypeOK
  <2>6. \A d \in Callers : d # c => Holds(d)'
    BY <1>5, <2>1, <2>5, WriteHolds
  <2>7. overtaken'[c] = overtaken[c] /\ local'[c] = local[c]
    BY <1>5 DEF Overtake, TypeOK
  <2>8. Holds(c)'
    BY <1>5, <2>7 DEF Holds, TypeOK
  <2>. QED  BY <2>4, <2>6, <2>8
<1>6. ASSUME NEW c \in Callers, Commit(c) \/ CommitAnswerLost(c)
      PROVE  IInv'
  BY <1>5, <1>6 DEF Commit, CommitAnswerLost
<1>7. ASSUME NEW c \in Callers, Abort(c)
      PROVE  IInv'
  <2>1. TypeOK'
    BY <1>7 DEF Abort, TypeOK, Release
  <2>2. \A d \in Callers : Holds(d)'
    BY <1>7 DEF Abort, TypeOK, Holds, Applies, Release
  <2>. QED  BY <2>1, <2>2
<1>8. ASSUME NEW c \in Callers, SelectCount(c)
      PROVE  IInv'
  <2>1. TypeOK'
    BY <1>8 DEF SelectCount, TypeOK
  <2>2. \A d \in Callers : Holds(d)'
    BY <1>8 DEF SelectCount, TypeOK, Holds, Applies
  <2>. QED  BY <2>1, <2>2
<1>9. ASSUME NEW c \in Callers, InsertOne(c) \/ AddOne(c)
      PROVE  IInv'
  <2> DEFINE One == [value |-> Number, expired |-> FALSE]
  <2>1. UNCHANGED <<owner, closed, local>> /\ row' \in Rows
    <3>1. One \in Rows
      BY DEF Rows
    <3>2. row # Missing => [row EXCEPT !.expired = FALSE] \in Rows
      BY DEF TypeOK, Rows
    <3>3. CASE InsertOne(c)
      BY <3>1, <3>3 DEF InsertOne
    <3>4. CASE AddOne(c)
      <4>1. row \in Rows
        BY DEF TypeOK
      <4>2. row' = row \/ (row # Missing /\ row' = [row EXCEPT !.expired = FALSE])
        BY <3>4 DEF AddOne
      <4>. QED  BY <3>2, <3>4, <4>1, <4>2 DEF AddOne
    <3>. QED  BY <1>9, <3>3, <3>4
  <2>2. PICK end \in {"counted", "failed"} : pc' = [pc EXCEPT ![c] = end]
    BY <1>9 DEF InsertOne, AddOne
  <2>3. \/ owner = Nobody /\ Overtake("other", c)
        \/ UNCHANGED <<row, overtaken>>
    <3>1. CASE InsertOne(c)
      BY <3>1 DEF InsertOne
    <3>2. CASE AddOne(c)
      <4>1. CASE row # Missing /\ row.value = Number
        BY <3>2, <4>1 DEF AddOne
      <4>2. CASE ~(row # Missing /\ row.value = Number)
        BY <3>2, <4>2 DEF AddOne
      <4>. QED  BY <4>1, <4>2
    <3>. QED  BY <1>9, <3>1, <3>2
  <2>4. TypeOK'
    <3>1. overtaken' \in [Callers -> SUBSET Writers]
      BY <2>3, OvertakeType DEF TypeOK
    <3>2. owner # c
      BY <1>9 DEF InsertOne, AddOne, TypeOK
    <3>. QED  BY <2>1, <2>2, <3>1, <3>2 DEF TypeOK
  <2>5. \A d \in Callers : d # c => pc'[d] = pc[d]
    BY <2>2 DEF TypeOK
  <2>6. \A d \in Callers : d # c => Holds(d)'
    <3>1. CASE owner = Nobody /\ Overtake("other", c)
      BY <2>1, <2>5, <3>1, WriteHolds
    <3>2. CASE UNCHANGED <<row, overtaken>>
      BY <2>1, <2>5, <3>2 DEF Holds, Applies
    <3>. QED  BY <2>3, <3>1, <3>2
  <2>7. Holds(c)'
    BY <2>2 DEF Holds, TypeOK
  <2>. QED  BY <2>4, <2>6, <2>7
<1>10. ASSUME owner = Nobody, row' \in Rows, Overtake("other", Nobody),
              UNCHANGED <<owner, closed, pc, local>>
       PROVE  IInv'
  <2>1. TypeOK'
    BY <1>10, OvertakeType DEF TypeOK
  <2>2. \A d \in Callers : d # Nobody => Holds(d)'
    BY <1>10, WriteHolds
  <2>. QED  BY <2>1, <2>2
<1>11. ASSUME Delete \/ CleanupExpired \/ \E v \in Values : SetRow(v)
       PROVE  IInv'
  <2>1. Missing \in Rows /\ \A v \in Values : [value |-> v, expired |-> FALSE] \in Rows
    BY DEF Rows
  <2>2. row' \in Rows
    BY <1>11, <2>1 DEF Delete, CleanupExpired, SetRow
  <2>. QED  BY <1>10, <1>11, <2>2 DEF Delete, CleanupExpired, SetRow
<1>12. ASSUME Expire
       PROVE  IInv'
  <2>1. TypeOK'
    BY <1>12 DEF Expire, TypeOK, Rows
  <2>2. \A d \in Callers : Holds(d)'
    BY <1>12 DEF Expire, Holds, Applies
  <2>. QED  BY <2>1, <2>2
<1>13. ASSUME Close \/ UNCHANGED vars
       PROVE  IInv'
  BY <1>13 DEF Close, vars, TypeOK, Holds, Applies
<1>. QED
  BY <1>1, <1>2, <1>3, <1>4, <1>6, <1>7, <1>8, <1>9, <1>11, <1>12, <1>13
  DEF Next, Step

-----------------------------------------------------------------------------
LEMMA InvariantHolds == Spec => []IInv
<1>1. Init => IInv
  BY InitHolds
<1>2. IInv /\ [Next]_vars => IInv'
  BY StepHolds
<1>. QED  BY <1>1, <1>2, PTL DEF Spec

(* For any callers and update function, the key is held by a transaction   *)
(* that has written or found its row, or by nobody (Update, its Commit and *)
(* its Rollback).                                                          *)
THEOREM PostgresTypeOK == Spec => []TypeOK
<1>1. IInv => TypeOK
  BY DEF IInv
<1>. QED  BY <1>1, InvariantHolds, PTL

(* For any callers, update function, expiry and faults, an update that has *)
(* found a row is serialised with every other writer of it: updates, sets, *)
(* deletes, increments and cleanups (Update's SELECT FOR UPDATE).          *)
THEOREM PostgresRowUpdatesSerialised == Spec => []RowUpdatesSerialised
<1>1. IInv => RowUpdatesSerialised
  BY DEF IInv, AllHold, Holds, RowUpdatesSerialised
<1>. QED  BY <1>1, InvariantHolds, PTL
-----------------------------------------------------------------------------
(* A transaction's statements are steps of the backend.                    *)
LEMMA TransactionStep == ASSUME [TxNext]_txVars PROVE [Next]_vars
<1>1. ASSUME NEW c \in Transactors, Transaction(c) \/ EndTransaction(c) PROVE UNCHANGED vars
  BY <1>1 DEF Transaction, EndTransaction
<1>2. ASSUME NEW c \in Transactors, StatementInside(c) PROVE Next
  BY <1>2 DEF StatementInside, Next
<1>. QED  BY <1>1, <1>2 DEF TxNext, txVars

(* Over the pool, a Transaction is nothing but its function's statements:  *)
(* whoever begins and ends one, the backend does what it does without      *)
(* (Transaction of postgresql.go and the backend it makes).                *)
THEOREM PostgresTransactionImplementsBackend == TxSpec => Spec
<1>1. TxInit => Init
  BY DEF TxInit
<1>. QED  BY <1>1, TransactionStep, PTL DEF TxSpec, Spec

(* So an update that has found a row is serialised with the statements     *)
(* inside any Transaction too (Update's SELECT FOR UPDATE, Transaction).   *)
THEOREM PostgresUpdatesMeetNoTransaction == TxSpec => []RowUpdatesSerialised
BY PostgresTransactionImplementsBackend, PostgresRowUpdatesSerialised, PTL
=============================================================================
