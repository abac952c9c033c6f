--------------------------- MODULE PostgresBackend --------------------------
(***************************************************************************)
(* The PostgreSQL backend of backend/postgresql/postgresql.go on the row   *)
(* of one key.                                                             *)
(*                                                                         *)
(* Update is a READ COMMITTED transaction: SELECT FOR UPDATE, the update   *)
(* function, INSERT ON CONFLICT DO UPDATE, COMMIT.  A row that exists is   *)
(* locked from the SELECT on; a row that does not exist cannot be, and the *)
(* INSERT is the first statement that makes others wait.  IncrementAndGet  *)
(* is a SELECT that locks nothing, and then one of two statements.         *)
(***************************************************************************)
EXTENDS Updates

CONSTANTS
  Nobody,    \* no transaction holds the key
  HasTTL,    \* rows are written with an expires_at
  Number     \* a number, which IncrementAndGet stores, as Update's function finds it

VARIABLES
  row,       \* the committed row of the key, or Missing
  owner,     \* the transaction that has locked or inserted it
  closed,    \* the backend is closed
  pc,        \* where each caller is
  local,     \* the variables of its call
  overtaken  \* history: who has written the row since the call's SELECT

vars == <<row, owner, closed, pc, local, overtaken>>

ASSUME BackendAssumption ==
  Nobody \notin Callers /\ HasTTL \in BOOLEAN /\ Number \in Values

Rows == [value : Values, expired : BOOLEAN] \cup {Missing}

(* The call's argument, the row its SELECT returned, and fn's result.      *)
Locals == [arg : Args, seen : Rows, result : Results \cup {NoResult}]

Idle == {"idle", "replied", "counted", "failed"}

(* An update in "upsert" or "commit" has read the row, an increment in     *)
(* "insert" or "add".                                                      *)
InFlight == {"select", "upsert", "commit", "count", "insert", "add"}

Writers == {"update", "other"}

(* History: a write of the row overtakes the calls that have read it.      *)
Overtake(writer, c) ==
  overtaken' = [d \in Callers |->
    IF d # c /\ pc[d] \in {"upsert", "commit", "insert"} THEN overtaken[d] \cup {writer}
    ELSE overtaken[d]]

Init ==
  /\ row = Missing
  /\ owner = Nobody
  /\ closed = FALSE
  /\ pc = [c \in Callers |-> "idle"]
  /\ local \in [Callers -> {l \in Locals : l.seen = Missing /\ l.result = NoResult}]
  /\ overtaken = [c \in Callers |-> {}]

(* What fn is given: nothing for no row or an expired one.                 *)
Current(r) == IF r = Missing \/ r.expired THEN Missing ELSE r.value

(* A statement on the key by a transaction, or by none, has not to wait.   *)
Free(c) == owner \in {Nobody, c}

(* The end of a transaction gives up the key.                              *)
Release(c) == owner' = IF owner = c THEN Nobody ELSE owner

-----------------------------------------------------------------------------
(* Update is called: on a closed backend it fails at once.                 *)
Update(c, n) ==
  /\ pc[c] \in Idle
  /\ pc' = [pc EXCEPT ![c] = IF closed THEN "failed" ELSE "select"]
  /\ local' = [local EXCEPT ![c] = [arg |-> n, seen |-> Missing, result |-> NoResult]]
  /\ overtaken' = [overtaken EXCEPT ![c] = {}]
  /\ UNCHANGED <<row, owner, closed>>

(* Mutant: the row is read without locking it.                             *)
SelectForUpdate_NoLock(c) ==
  LET f == Fn(Current(row), local[c].arg) IN
  /\ pc[c] = "select"
  /\ row # Missing => Free(c)
  /\ IF f.ok
       THEN /\ pc' = [pc EXCEPT ![c] = "upsert"]
            /\ local' = [local EXCEPT ![c].seen = row, ![c].result = f.result]
       ELSE /\ pc' = [pc EXCEPT ![c] = "failed"]
            /\ UNCHANGED local
  /\ UNCHANGED <<row, owner, closed, overtaken>>

(* Mutant: an error of fn returns without rolling back.                    *)
SelectForUpdate_NoRollback(c) ==
  LET f == Fn(Current(row), local[c].arg) IN
  /\ pc[c] = "select"
  /\ row # Missing => Free(c)
  /\ owner' = IF row # Missing THEN c ELSE owner
  /\ IF f.ok
       THEN /\ pc' = [pc EXCEPT ![c] = "upsert"]
            /\ local' = [local EXCEPT ![c].seen = row, ![c].result = f.result]
       ELSE /\ pc' = [pc EXCEPT ![c] = "failed"]
            /\ UNCHANGED local
  /\ UNCHANGED <<row, closed, overtaken>>

(* SELECT FOR UPDATE and fn: a row is locked, after waiting for whoever    *)
(* holds it; of no row, and of one another transaction has inserted but    *)
(* not committed, nothing is seen and nothing locked.  An error of fn      *)
(* rolls back.                                                             *)
SelectForUpdate(c) ==
  LET f == Fn(Current(row), local[c].arg) IN
  /\ pc[c] = "select"
  /\ row # Missing => Free(c)
  /\ IF f.ok
       THEN /\ pc' = [pc EXCEPT ![c] = "upsert"]
            /\ owner' = IF row # Missing THEN c ELSE owner
            /\ local' = [local EXCEPT ![c].seen = row, ![c].result = f.result]
       ELSE /\ pc' = [pc EXCEPT ![c] = "failed"]
            /\ UNCHANGED <<local, owner>>
  /\ UNCHANGED <<row, closed, overtaken>>

(* The upsert waits for whoever holds the key, and holds it then.          *)
Upsert(c) ==
  /\ pc[c] = "upsert"
  /\ Free(c)
  /\ owner' = c
  /\ pc' = [pc EXCEPT ![c] = "commit"]
  /\ UNCHANGED <<row, closed, local, overtaken>>

(* The row as the upsert wrote it.                                         *)
NewRow(c) ==
  [value |-> Fn(Current(local[c].seen), local[c].arg).state, expired |-> FALSE]

Commit(c) ==
  /\ pc[c] = "commit"
  /\ row' = NewRow(c)
  /\ Release(c)
  /\ Overtake("update", c)
  /\ pc' = [pc EXCEPT ![c] = "replied"]
  /\ UNCHANGED <<closed, local>>

(* A statement fails, or the caller's context is cancelled: rolled back.   *)
Abort(c) ==
  /\ pc[c] \in InFlight
  /\ Release(c)
  /\ pc' = [pc EXCEPT ![c] = "failed"]
  /\ UNCHANGED <<row, closed, local, overtaken>>

(* The COMMIT is done but its answer is lost: the caller gets an error.    *)
CommitAnswerLost(c) ==
  /\ pc[c] = "commit"
  /\ row' = NewRow(c)
  /\ Release(c)
  /\ Overtake("update", c)
  /\ pc' = [pc EXCEPT ![c] = "failed"]
  /\ UNCHANGED <<closed, local>>

-----------------------------------------------------------------------------
(* IncrementAndGet is called.                                              *)
IncrementAndGet(c) ==
  /\ pc[c] \in Idle
  /\ pc' = [pc EXCEPT ![c] = IF closed THEN "failed" ELSE "count"]
  /\ overtaken' = [overtaken EXCEPT ![c] = {}]
  /\ UNCHANGED <<row, owner, closed, local>>

(* Its SELECT waits for nobody.  A limiter's state, expired or not, is no  *)
(* number, which is an error.                                              *)
SelectCount(c) ==
  /\ pc[c] = "count"
  /\ pc' = [pc EXCEPT ![c] =
       IF row = Missing THEN "insert"
       ELSE IF row.value # Number THEN "failed"
       ELSE IF row.expired THEN "insert" ELSE "add"]
  /\ UNCHANGED <<row, owner, closed, local, overtaken>>

(* A first increment writes a 1, whatever the row is by then; its answer   *)
(* may be lost.                                                            *)
InsertOne(c) ==
  /\ pc[c] = "insert"
  /\ owner = Nobody
  /\ row' = [value |-> Number, expired |-> FALSE]
  /\ Overtake("other", c)
  /\ \E end \in {"counted", "failed"} : pc' = [pc EXCEPT ![c] = end]
  /\ UNCHANGED <<owner, closed, local>>

(* A later one adds to what it finds, also if that has expired.  Where no  *)
(* row is to be seen it waits for nobody.                                  *)
AddOne(c) ==
  /\ pc[c] = "add"
  /\ row # Missing => owner = Nobody
  /\ IF row # Missing /\ row.value = Number
       THEN /\ row' = [row EXCEPT !.expired = FALSE]
            /\ Overtake("other", c)
            /\ \E end \in {"counted", "failed"} : pc' = [pc EXCEPT ![c] = end]
       ELSE /\ pc' = [pc EXCEPT ![c] = "failed"]
            /\ UNCHANGED <<row, overtaken>>
  /\ UNCHANGED <<owner, closed, local>>

-----------------------------------------------------------------------------
(* Set is an upsert of its own, Delete waits for whoever holds the row.    *)
SetRow(v) ==
  /\ ~closed
  /\ owner = Nobody
  /\ row' = [value |-> v, expired |-> FALSE]
  /\ Overtake("other", Nobody)
  /\ UNCHANGED <<owner, closed, pc, local>>

Delete ==
  /\ ~closed
  /\ owner = Nobody
  /\ row' = Missing
  /\ Overtake("other", Nobody)
  /\ UNCHANGED <<owner, closed, pc, local>>

(* CleanupExpired deletes expired rows nobody holds.                       *)
CleanupExpired ==
  /\ ~closed
  /\ owner = Nobody
  /\ row # Missing /\ row.expired
  /\ row' = Missing
  /\ Overtake("other", Nobody)
  /\ UNCHANGED <<owner, closed, pc, local>>

(* Time passes the row's expires_at.                                       *)
Expire ==
  /\ HasTTL
  /\ row # Missing
  /\ row' = [row EXCEPT !.expired = TRUE]
  /\ UNCHANGED <<owner, closed, pc, local, overtaken>>

(* Close waits for the calls that hold the backend's read lock.            *)
Close ==
  /\ \A c \in Callers : pc[c] \notin InFlight
  /\ closed' = TRUE
  /\ UNCHANGED <<row, owner, pc, local, overtaken>>

-----------------------------------------------------------------------------
(* The steps a call has begun.                                             *)
Step(c) ==
  \/ SelectForUpdate(c) \/ Upsert(c) \/ Commit(c)
  \/ SelectCount(c) \/ InsertOne(c) \/ AddOne(c)

Next ==
  \/ \E c \in Callers, n \in Args : Update(c, n)
  \/ \E c \in Callers : IncrementAndGet(c)
  \/ \E c \in Callers : Step(c) \/ Abort(c) \/ CommitAnswerLost(c)
  \/ \E v \in Values : SetRow(v)
  \/ Delete \/ CleanupExpired \/ Expire \/ Close

Spec == Init /\ [][Next]_vars

(* Waiters for a row are served in order, so that one that can go on       *)
(* infinitely often does.                                                  *)
FairSpec == Spec /\ \A c \in Callers : SF_vars(Step(c))

-----------------------------------------------------------------------------
(* The types, and: a key is held by a transaction in flight, or by nobody. *)
TypeOK ==
  /\ row \in Rows
  /\ owner \in Callers \cup {Nobody}
  /\ owner # Nobody => pc[owner] \in {"upsert", "commit"}
  /\ closed \in BOOLEAN
  /\ pc \in [Callers -> Idle \cup InFlight]
  /\ local \in [Callers -> Locals]
  /\ overtaken \in [Callers -> SUBSET Writers]

(* An update that found a row, expired or not, was overtaken by no other   *)
(* writer of any kind before it was done: with a row to lock, updates are  *)
(* serialised with everything else (Update's SELECT FOR UPDATE).           *)
RowUpdatesSerialised ==
  \A c \in Callers :
    pc[c] = "replied" /\ local[c].seen # Missing => overtaken[c] = {}

(* What the interface promises: no other Update of the key interleaves     *)
(* with an Update, between the state it read and the state it wrote.       *)
UpdatesSerialised ==
  \A c \in Callers : pc[c] = "replied" => "update" \notin overtaken[c]

(* What IncrementAndGet's comment promises: nobody else writes the row     *)
(* between the state an increment has read and the one it has written.     *)
IncrementsAtomic ==
  \A c \in Callers : pc[c] = "counted" => overtaken[c] = {}

(* Every call that has begun returns, with a result or an error: the key   *)
(* is given up on every way out (Update's Commit and deferred Rollback).   *)
EveryUpdateReturns ==
  \A c \in Callers : pc[c] \in {"select", "count"} ~> pc[c] \in Idle
=============================================================================
