------------------------- MODULE PostgresTransaction ------------------------
(***************************************************************************)
(* Transaction of backend/postgresql/postgresql.go: it begins a            *)
(* transaction and runs a function over a backend that was made for it,    *)
(* but whose statements go to connections of the pool.  They are committed *)
(* one by one, and the end of the transaction has nothing to commit or to  *)
(* roll back.                                                              *)
(***************************************************************************)
EXTENDS PostgresBackend

CONSTANT Transactors   \* who calls Transaction

VARIABLES
  running,     \* whose transactions have begun and not ended
  uncommitted  \* history: whose statement the row holds, with no commit after it

txVars == <<vars, running, uncommitted>>

(* A new backend, and no transaction.                                      *)
TxInit ==
  /\ Init
  /\ running = {}
  /\ uncommitted = {}

(* Transaction is called: it looks whether the backend is closed, and      *)
(* gives the lock back.                                                    *)
Transaction(c) ==
  /\ ~closed
  /\ c \notin running
  /\ running' = running \cup {c}
  /\ UNCHANGED <<vars, uncommitted>>

(* What the function does with the backend it is given, which has a lock   *)
(* and a flag of its own but shares the pool.                              *)
StatementInside(c) ==
  /\ c \in running
  /\ Delete \/ \E v \in Values : SetRow(v)
  /\ uncommitted' = {c}
  /\ UNCHANGED running

(* The function has returned: with an error the transaction is rolled      *)
(* back, else it is committed, which may fail too.                         *)
EndTransaction(c) ==
  /\ c \in running
  /\ running' = running \ {c}
  /\ uncommitted' \in {uncommitted, uncommitted \ {c}}
  /\ UNCHANGED vars

TxNext ==
  \/ \E c \in Transactors : Transaction(c) \/ StatementInside(c) \/ EndTransaction(c)
  \/ /\ Next
     /\ uncommitted' = IF row' = row THEN uncommitted ELSE {}
     /\ UNCHANGED running

TxSpec == TxInit /\ [][TxNext]_txVars

TxFairSpec == TxSpec /\ \A c \in Callers : SF_vars(Step(c))

-----------------------------------------------------------------------------
(* What the documentation promises: nobody sees anything of a transaction  *)
(* that has not committed, and nothing stays of one that has failed.       *)
TransactionsAtomic == uncommitted = {}
=============================================================================
