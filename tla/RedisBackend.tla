---------------------------- MODULE RedisBackend ----------------------------
(***************************************************************************)
(* The Redis backend of backend/redis/redis.go on the state of one key.    *)
(*                                                                         *)
(* Update reads the state, computes, and has a Lua script write the new    *)
(* state if the key still holds the bytes that were read, up to            *)
(* MaxAttempts times.  A command travels to the server and its answer      *)
(* back: either may be lost, and the client library sends a command it has *)
(* no answer to again, up to CmdRetries times.                             *)
(***************************************************************************)
EXTENDS Updates, Naturals

CONSTANTS
  MaxAttempts,   \* maxRetries of Update
  CmdRetries,    \* RedisOptions.MaxRetries
  Faulty,        \* TRUE: commands and answers may be lost
  KeyTTL         \* ttl in microseconds

VARIABLES
  value,         \* the state key at the server, or Missing
  expires,       \* the state key has a time to live
  pc,            \* where each caller is
  local,         \* its local variables
  changes,       \* history: writes to the key seen by a call, up to MaxAttempts
  landed         \* history: how often a call was applied, up to 2, and the result

server == <<value, expires>>
history == <<changes, landed>>
vars == <<server, pc, local, history>>

ASSUME BackendAssumption ==
  /\ MaxAttempts \in Nat \ {0}
  /\ CmdRetries \in Nat
  /\ Faulty \in BOOLEAN
  /\ KeyTTL \in Nat

Resends == Faulty /\ CmdRetries > 0

(* The variables of Update: the call's n, the attempt, what was read, the  *)
(* result computed from it, whether the script said OK, and how often the  *)
(* client has sent it again.  What Update would write is computed from old. *)
Locals ==
  [arg : Args, attempt : 0 .. MaxAttempts, old : Contents,
   result : Results \cup {NoResult}, ok : BOOLEAN, resent : 0 .. CmdRetries]

Idle == {"idle", "replied", "failed"}

NotLanded == [times |-> 0, result |-> NoResult]

Landed(c) ==
  landed' = [landed EXCEPT ![c].times = IF @ < 2 THEN @ + 1 ELSE @,
                           ![c].result = local[c].result]

Init ==
  /\ value = Missing
  /\ expires = FALSE
  /\ pc = [c \in Callers |-> "idle"]
  /\ local \in [Callers -> {l \in Locals :
       /\ l.attempt = 0 /\ l.old = Missing /\ l.result = NoResult
       /\ ~l.ok /\ l.resent = 0}]
  /\ changes = [c \in Callers |-> 0]
  /\ landed = [c \in Callers |-> NotLanded]

(* History: a write to the key is seen by every call.                      *)
Seen ==
  changes' = [c \in Callers |->
    IF value' # value /\ changes[c] < MaxAttempts THEN changes[c] + 1 ELSE changes[c]]

-----------------------------------------------------------------------------
(* Update is called.                                                       *)
Update(c, n) ==
  /\ pc[c] \in Idle
  /\ pc' = [pc EXCEPT ![c] = "get"]
  /\ local' = [local EXCEPT ![c] =
       [arg |-> n, attempt |-> 0, old |-> Missing, result |-> NoResult,
        ok |-> FALSE, resent |-> 0]]
  /\ changes' = [changes EXCEPT ![c] = 0]
  /\ landed' = [landed EXCEPT ![c] = NotLanded]
  /\ UNCHANGED server

(* GET answers and fn is applied to what it read; an error of Unwrap or of *)
(* fn ends the call with nothing written.                                  *)
UpdateRead(c) ==
  LET f == Fn(value, local[c].arg) IN
  /\ pc[c] = "get"
  /\ IF f.ok
       THEN /\ pc' = [pc EXCEPT ![c] = "cas"]
            /\ local' = [local EXCEPT ![c].old = value, ![c].result = f.result,
                                      ![c].resent = 0]
       ELSE /\ pc' = [pc EXCEPT ![c] = "failed"]
            /\ UNCHANGED local
  /\ UNCHANGED <<server, history>>

(* The new state, computed from what was read.                             *)
NewState(c) == Fn(local[c].old, local[c].arg).state

(* Mutant: the script writes without comparing.                            *)
UpdateCAS_Blind(c) ==
  /\ pc[c] = "cas"
  /\ pc' = [pc EXCEPT ![c] = "answer"]
  /\ value' = NewState(c)
  /\ expires' = (KeyTTL \div 1000 > 0)
  /\ Landed(c)
  /\ local' = [local EXCEPT ![c].ok = TRUE]
  /\ Seen

(* luaConditionalSet runs at the server, with the ttl in whole             *)
(* milliseconds: a plain SET, which also clears a time to live, when that  *)
(* is none.                                                                *)
UpdateCAS(c) ==
  /\ pc[c] = "cas"
  /\ pc' = [pc EXCEPT ![c] = "answer"]
  /\ IF value = local[c].old
       THEN /\ value' = NewState(c)
            /\ expires' = (KeyTTL \div 1000 > 0)
            /\ Landed(c)
       ELSE UNCHANGED <<server, landed>>
  /\ local' = [local EXCEPT ![c].ok = (value = local[c].old)]
  /\ Seen

(* Mutant: a conflict does not use up an attempt.                          *)
UpdateAnswer_Forever(c) ==
  /\ pc[c] = "answer"
  /\ pc' = [pc EXCEPT ![c] = IF local[c].ok THEN "replied" ELSE "get"]
  /\ UNCHANGED <<server, local, history>>

(* Mutant: one attempt too many.                                           *)
UpdateAnswer_OneMore(c) ==
  LET next == local[c].attempt + 1 IN
  /\ pc[c] = "answer"
  /\ IF local[c].ok
       THEN /\ pc' = [pc EXCEPT ![c] = "replied"]
            /\ UNCHANGED local
       ELSE /\ pc' = [pc EXCEPT ![c] = IF next <= MaxAttempts THEN "get" ELSE "failed"]
            /\ local' = [local EXCEPT ![c].attempt = next]
  /\ UNCHANGED <<server, history>>

(* Mutant: a lost race is counted twice.                                   *)
UpdateAnswer_CountsTwice(c) ==
  LET next == local[c].attempt + 2 IN
  /\ pc[c] = "answer"
  /\ IF local[c].ok
       THEN /\ pc' = [pc EXCEPT ![c] = "replied"]
            /\ UNCHANGED local
       ELSE /\ pc' = [pc EXCEPT ![c] = IF next < MaxAttempts THEN "get" ELSE "failed"]
            /\ local' = [local EXCEPT ![c].attempt = IF next < MaxAttempts THEN next ELSE MaxAttempts]
  /\ UNCHANGED <<server, history>>

(* The script's answer arrives: OK returns the result, CONFLICT starts the *)
(* next attempt or, after the last one, fails the call.                    *)
UpdateAnswer(c) ==
  LET next == local[c].attempt + 1 IN
  /\ pc[c] = "answer"
  /\ IF local[c].ok
       THEN /\ pc' = [pc EXCEPT ![c] = "replied"]
            /\ UNCHANGED local
       ELSE /\ pc' = [pc EXCEPT ![c] = IF next < MaxAttempts THEN "get" ELSE "failed"]
            /\ local' = [local EXCEPT ![c].attempt = next]
  /\ UNCHANGED <<server, history>>

(* The client library gives up on a command that never reached the server. *)
CommandLost(c) ==
  /\ Faulty
  /\ pc[c] \in {"get", "cas"}
  /\ pc' = [pc EXCEPT ![c] = "failed"]
  /\ UNCHANGED <<server, local, history>>

(* The answer of the script is lost: the library sends it again, or gives  *)
(* up and the call fails although its write is done.                       *)
AnswerLost(c) ==
  /\ Faulty
  /\ pc[c] = "answer"
  /\ IF local[c].resent < CmdRetries
       THEN /\ pc' = [pc EXCEPT ![c] = "cas"]
            /\ local' = [local EXCEPT ![c].resent = @ + 1]
       ELSE /\ pc' = [pc EXCEPT ![c] = "failed"]
            /\ UNCHANGED local
  /\ UNCHANGED <<server, history>>

-----------------------------------------------------------------------------
(* Set writes whatever state it is given.                                  *)
SetState(v) ==
  /\ value' = v
  /\ expires' = (KeyTTL > 0)
  /\ Seen
  /\ UNCHANGED <<pc, local, landed>>

(* Delete removes the key, and so does Flush.                              *)
Delete ==
  /\ value' = Missing
  /\ expires' = FALSE
  /\ Seen
  /\ UNCHANGED <<pc, local, landed>>

(* The server drops a key whose time has come.                             *)
ExpireState ==
  /\ expires
  /\ value' = Missing
  /\ expires' = FALSE
  /\ Seen
  /\ UNCHANGED <<pc, local, landed>>

-----------------------------------------------------------------------------
(* The steps a caller has begun and the scheduler owes it.                 *)
Step(c) == UpdateRead(c) \/ UpdateCAS(c) \/ UpdateAnswer(c)

Next ==
  \/ \E c \in Callers, n \in Args : Update(c, n)
  \/ \E c \in Callers : Step(c) \/ CommandLost(c) \/ AnswerLost(c)
  \/ \E v \in Values : SetState(v)
  \/ Delete \/ ExpireState

Spec == Init /\ [][Next]_vars

(* Goroutines run, and the server answers what reaches it.                 *)
FairSpec == Spec /\ \A c \in Callers : WF_vars(Step(c))

-----------------------------------------------------------------------------
(* The types: among them, no call meets more conflicts than it has         *)
(* attempts, and its script runs at most twice in the server, once more    *)
(* than asked for.                                                         *)
TypeOK ==
  /\ value \in Contents
  /\ expires \in BOOLEAN
  /\ pc \in [Callers -> Idle \cup {"get", "cas", "answer"}]
  /\ local \in [Callers -> Locals]
  /\ changes \in [Callers -> 0 .. MaxAttempts]
  /\ landed \in [Callers -> [times : 0 .. 2, result : Results \cup {NoResult}]]

(* Each call, as the caller of an AtomicBackend sees it.                   *)
PhaseBar(c) ==
  IF pc[c] \in Idle THEN pc[c]
  ELSE IF landed[c].times > 0 THEN "committed" ELSE "pending"

Bar(c) ==
  [phase  |-> PhaseBar(c),
   arg    |-> local[c].arg,
   result |-> IF PhaseBar(c) \in {"committed", "replied"} THEN landed[c].result ELSE NoResult]

callBar == [c \in Callers |-> Bar(c)]

Store == INSTANCE AtomicStore WITH store <- value, call <- callBar

(* A Redis update is an atomic update: whatever the interleaving of reads  *)
(* and scripts, of conflicts and attempts, each result a caller gets is    *)
(* what the function made of the state that its write replaced, and a call *)
(* is applied again only when the library resends a command (Update,       *)
(* luaConditionalSet).                                                     *)
ImplementsAtomicStore == Store!Spec

(* An update gives up only after as many writes of others, or its own lost *)
(* ones, as it has attempts: without interference none fails (the retry    *)
(* loop's count against the script's CONFLICT).                            *)
ExhaustedOnlyByInterference ==
  \A c \in Callers : pc[c] # "idle" => local[c].attempt <= changes[c]

(* Every state an update has written expires, when it was given a time to  *)
(* live (the script's PX against Milliseconds).                            *)
TTLApplied == KeyTTL > 0 /\ value # Missing => expires

(* An Update is applied at most once.                                      *)
AppliedAtMostOnce == \A c \in Callers : landed[c].times <= 1

(* Every update returns, whatever the others do to the key: the attempts   *)
(* are bounded (Update's for loop).                                        *)
EveryUpdateReturns == \A c \in Callers : pc[c] = "get" ~> pc[c] \in Idle
=============================================================================
