------------------------- MODULE RedisBackendProofs -------------------------
(***************************************************************************)
(* For every set of callers, every update function, every number of        *)
(* attempts and of resends: the Redis backend implements the atomic store, *)
(* and no update gives up without interference.                            *)
(***************************************************************************)
EXTENDS RedisBackend, TLAPS

(* What a call at each place knows of its variables.                       *)
CallInv(c) ==
  /\ pc[c] \in {"get", "cas", "answer"} => local[c].attempt < MaxAttempts
  /\ pc[c] \in {"cas", "answer"} =>
       /\ Fn(local[c].old, local[c].arg).ok
       /\ local[c].result = Fn(local[c].old, local[c].arg).result
  /\ pc[c] = "answer" /\ local[c].ok =>
       landed[c].times > 0 /\ landed[c].result = local[c].result
  /\ pc[c] = "replied" => landed[c].times > 0
  /\ pc[c] \in {"get", "cas"} \/ (pc[c] = "answer" /\ ~local[c].ok) =>
       (landed[c].times > 0 => Resends)

(* A call has seen as many writes as it has lost races, and one more when  *)
(* the key no longer holds what it read.                                   *)
Interfered(c) ==
  /\ local[c].attempt <= changes[c]
  /\ pc[c] \in {"cas", "answer"} /\ value # local[c].old => local[c].attempt < changes[c]
  /\ pc[c] = "answer" /\ ~local[c].ok => local[c].attempt < changes[c]

IInv ==
  /\ TypeOK
  /\ \A c \in Callers : CallInv(c) /\ Interfered(c)

-----------------------------------------------------------------------------
LEMMA InitIInv == Init => IInv
  <1> SUFFICES ASSUME Init PROVE IInv
    OBVIOUS
  <1>1. local \in [Callers -> Locals]
    BY DEF Init
  <1>2. TypeOK
    <2>1. value \in Contents /\ expires \in BOOLEAN
      BY DEF Init, Contents
    <2>2. pc \in [Callers -> Idle \cup {"get", "cas", "answer"}]
      BY DEF Init, Idle
    <2>3. changes \in [Callers -> 0 .. MaxAttempts]
      BY BackendAssumption DEF Init
    <2>4. landed \in [Callers -> [times : 0 .. 2, result : Results \cup {NoResult}]]
      BY DEF Init, NotLanded
    <2>5. QED
      BY <1>1, <2>1, <2>2, <2>3, <2>4 DEF TypeOK
  <1>3. ASSUME NEW c \in Callers PROVE CallInv(c) /\ Interfered(c)
    <2>1. pc[c] = "idle" /\ local[c].attempt = 0 /\ changes[c] = 0
      BY DEF Init
    <2>2. QED
      BY <2>1 DEF CallInv, Interfered
  <1>4. QED
    BY <1>2, <1>3 DEF IInv

(* What Seen does: a count that may only grow, and grows when the key's    *)
(* value changes unless it is at MaxAttempts.                              *)
LEMMA SeenEffect ==
  ASSUME TypeOK, Seen
  PROVE  /\ changes' \in [Callers -> 0 .. MaxAttempts]
         /\ \A c \in Callers :
              /\ changes[c] <= changes'[c]
              /\ value' # value => changes'[c] > changes[c] \/ changes'[c] = MaxAttempts
  <1>1. ASSUME NEW c \in Callers
        PROVE  /\ changes'[c] \in 0 .. MaxAttempts
               /\ changes[c] <= changes'[c]
               /\ value' # value => changes'[c] > changes[c] \/ changes'[c] = MaxAttempts
    <2>1. /\ changes[c] \in 0 .. MaxAttempts
          /\ changes'[c] = IF value' # value /\ changes[c] < MaxAttempts
                             THEN changes[c] + 1 ELSE changes[c]
      BY DEF TypeOK, Seen
    <2>2. QED
      BY <2>1, BackendAssumption
  <1>2. changes' = [c \in Callers |-> changes'[c]]
    BY DEF Seen
  <1>3. QED
    BY <1>1, <1>2

LEMMA UpdateIInv ==
  ASSUME IInv, NEW c \in Callers, NEW n \in Args, Update(c, n)
  PROVE  IInv'
  <1>1. TypeOK'
    BY BackendAssumption DEF IInv, TypeOK, Update, Locals, NotLanded, Contents, Idle, server
  <1>2. ASSUME NEW d \in Callers PROVE CallInv(d)' /\ Interfered(d)'
    <2>1. CASE d = c
      BY <2>1, BackendAssumption
         DEF IInv, TypeOK, Update, CallInv, Interfered, NotLanded, Idle, server
    <2>2. CASE d # c
      BY <2>2 DEF IInv, TypeOK, Update, CallInv, Interfered, NotLanded, server
    <2>3. QED
      BY <2>1, <2>2
  <1>3. QED
    BY <1>1, <1>2 DEF IInv

LEMMA UpdateReadIInv ==
  ASSUME IInv, NEW c \in Callers, UpdateRead(c)
  PROVE  IInv'
  <1>0. local[c].arg \in Args /\ value \in Contents /\ local[c] \in Locals
    BY DEF IInv, TypeOK, Locals
  <1>1. TypeOK'
    <2>1. Fn(value, local[c].arg).ok => Fn(value, local[c].arg).result \in Results
      BY <1>0, FnAssumption DEF Contents
    <2>2. local' \in [Callers -> Locals]
      BY <1>0, <2>1, BackendAssumption DEF IInv, TypeOK, UpdateRead, Locals
    <2>3. QED
      BY <2>2 DEF IInv, TypeOK, UpdateRead, Idle, server, history
  <1>2. ASSUME NEW d \in Callers PROVE CallInv(d)' /\ Interfered(d)'
    <2>1. CASE d = c
      BY <2>1, <1>0
         DEF IInv, TypeOK, UpdateRead, CallInv, Interfered, Idle, server, history, Locals
    <2>2. CASE d # c
      BY <2>2 DEF IInv, TypeOK, UpdateRead, CallInv, Interfered, server, history
    <2>3. QED
      BY <2>1, <2>2
  <1>3. QED
    BY <1>1, <1>2 DEF IInv

LEMMA UpdateCASIInv ==
  ASSUME IInv, NEW c \in Callers, UpdateCAS(c)
  PROVE  IInv'
  <1>0. /\ local[c].arg \in Args /\ local[c].old \in Contents /\ local[c] \in Locals
        /\ landed[c] \in [times : 0 .. 2, result : Results \cup {NoResult}]
        /\ pc[c] = "cas"
    BY DEF IInv, TypeOK, Locals, UpdateCAS
  <1>1. Fn(local[c].old, local[c].arg).state \in Values
    BY <1>0, FnAssumption DEF IInv, CallInv, Contents
  <1>2. /\ changes' \in [Callers -> 0 .. MaxAttempts]
        /\ \A d \in Callers :
             /\ changes[d] <= changes'[d]
             /\ value' # value => changes'[d] > changes[d] \/ changes'[d] = MaxAttempts
    BY SeenEffect DEF IInv, UpdateCAS
  <1>3. TypeOK'
    <2>1. value' \in Contents
      BY <1>1 DEF IInv, TypeOK, UpdateCAS, NewState, Contents, server
    <2>5. expires' \in BOOLEAN
      <3>1. (KeyTTL \div 1000 > 0) \in BOOLEAN
        OBVIOUS
      <3>2. expires' = expires \/ expires' = (KeyTTL \div 1000 > 0)
        BY DEF UpdateCAS, server
      <3>3. expires \in BOOLEAN
        BY DEF IInv, TypeOK
      <3>4. CASE expires' = expires
        BY ONLY <3>3, <3>4
      <3>5. CASE expires' = (KeyTTL \div 1000 > 0)
        BY ONLY <3>1, <3>5
      <3>6. QED
        BY ONLY <3>2, <3>4, <3>5
    <2>2. local' \in [Callers -> Locals] /\ pc' \in [Callers -> Idle \cup {"get", "cas", "answer"}]
      BY <1>0 DEF IInv, TypeOK, UpdateCAS, Locals
    <2>3. landed' \in [Callers -> [times : 0 .. 2, result : Results \cup {NoResult}]]
      BY <1>0 DEF IInv, TypeOK, UpdateCAS, Landed, Locals
    <2>4. QED
      BY <2>1, <2>2, <2>3, <2>5, <1>2 DEF TypeOK
  <1>4. ASSUME NEW d \in Callers PROVE CallInv(d)'
    <2>1. CASE d = c
      <3>1. /\ pc'[c] = "answer"
            /\ local'[c] = [local[c] EXCEPT !.ok = (value = local[c].old)]
        BY <1>0 DEF IInv, TypeOK, UpdateCAS
      <3>2. /\ local'[c].attempt = local[c].attempt /\ local'[c].old = local[c].old
            /\ local'[c].arg = local[c].arg /\ local'[c].result = local[c].result
            /\ local'[c].ok <=> value = local[c].old
        BY <3>1, <1>0 DEF Locals
      <3>3. CallInv(c)
        BY DEF IInv
      <3>4. CASE value = local[c].old
        <4>1. landed'[c] = [landed[c] EXCEPT !.times = IF @ < 2 THEN @ + 1 ELSE @,
                                             !.result = local[c].result]
          BY <3>4 DEF IInv, TypeOK, UpdateCAS, Landed
        <4>2. landed'[c].times > 0 /\ landed'[c].result = local[c].result
          BY <4>1, <1>0
        <4>3. QED
          BY <2>1, <3>1, <3>2, <3>3, <3>4, <4>2, <1>0 DEF CallInv
      <3>5. CASE value # local[c].old
        <4>1. landed' = landed
          BY <3>5 DEF UpdateCAS
        <4>2. QED
          BY <2>1, <3>1, <3>2, <3>3, <3>5, <4>1, <1>0 DEF CallInv
      <3>6. QED
        BY <3>4, <3>5
    <2>2. CASE d # c
      BY <2>2 DEF IInv, TypeOK, UpdateCAS, CallInv, Landed
    <2>3. QED
      BY <2>1, <2>2
  <1>5. ASSUME NEW d \in Callers PROVE Interfered(d)'
    <2>0. changes[d] \in Nat /\ changes'[d] \in Nat /\ changes[d] <= changes'[d]
          /\ local[d].attempt \in Nat /\ MaxAttempts \in Nat
      BY <1>2, BackendAssumption DEF IInv, TypeOK, Locals
    <2>1. CASE d = c
      <3>1. /\ pc'[c] = "answer"
            /\ local'[c] = [local[c] EXCEPT !.ok = (value = local[c].old)]
        BY <1>0 DEF IInv, TypeOK, UpdateCAS
      <3>2. /\ local'[c].attempt = local[c].attempt
            /\ local'[c].ok <=> value = local[c].old
        BY <3>1, <1>0 DEF Locals
      <3>3. Interfered(c) /\ local[c].attempt < MaxAttempts
        BY <1>0 DEF IInv, CallInv
      <3>4. local'[c].old = local[c].old
        BY <3>1, <1>0 DEF Locals
      <3>5. value' # value => changes'[c] > changes[c] \/ changes'[c] = MaxAttempts
        BY <1>2
      <3>6. QED
        BY <2>0, <2>1, <1>0, <3>1, <3>2, <3>3, <3>4, <3>5 DEF Interfered
    <2>2. CASE d # c
      <3>1. local'[d] = local[d] /\ pc'[d] = pc[d]
        BY <2>2 DEF IInv, TypeOK, UpdateCAS
      <3>2. pc[d] \in {"cas", "answer"} => local[d].attempt < MaxAttempts
        BY DEF IInv, CallInv
      <3>3. Interfered(d)
        BY DEF IInv
      <3>4. value' # value => changes'[d] > changes[d] \/ changes'[d] = MaxAttempts
        BY <1>2
      <3>5. QED
        BY <3>1, <3>2, <3>3, <3>4, <2>0 DEF Interfered
    <2>3. QED
      BY <2>1, <2>2
  <1>6. QED
    BY <1>3, <1>4, <1>5 DEF IInv

LEMMA UpdateAnswerIInv ==
  ASSUME IInv, NEW c \in Callers, UpdateAnswer(c)
  PROVE  IInv'
  <1>0. local[c] \in Locals /\ local[c].attempt \in Nat /\ MaxAttempts \in Nat
        /\ local[c].attempt < MaxAttempts
    BY BackendAssumption DEF IInv, TypeOK, Locals, UpdateAnswer, CallInv
  <1>1. TypeOK'
    <2>1. local' \in [Callers -> Locals]
      <3>1. [local[c] EXCEPT !.attempt = local[c].attempt + 1] \in Locals
        BY <1>0 DEF Locals
      <3>2. local' = local \/ local' = [local EXCEPT
               ![c] = [local[c] EXCEPT !.attempt = local[c].attempt + 1]]
        BY <1>0 DEF UpdateAnswer
      <3>3. QED
        BY <3>1, <3>2 DEF IInv, TypeOK
    <2>2. QED
      BY <2>1 DEF IInv, TypeOK, UpdateAnswer, Idle, server, history
  <1>2. ASSUME NEW d \in Callers PROVE CallInv(d)' /\ Interfered(d)'
    <2>0. changes[d] \in Nat
      BY DEF IInv, TypeOK
    <2>1. CASE d = c
      BY <2>0, <2>1, <1>0
         DEF IInv, TypeOK, UpdateAnswer, CallInv, Interfered, Idle, server, history, Locals
    <2>2. CASE d # c
      BY <2>2 DEF IInv, TypeOK, UpdateAnswer, CallInv, Interfered, server, history
    <2>3. QED
      BY <2>1, <2>2
  <1>3. QED
    BY <1>1, <1>2 DEF IInv

LEMMA LostIInv ==
  ASSUME IInv, NEW c \in Callers, CommandLost(c) \/ AnswerLost(c)
  PROVE  IInv'
  <1>0. local[c] \in Locals /\ local[c].resent \in Nat /\ CmdRetries \in Nat
    BY BackendAssumption DEF IInv, TypeOK, Locals
  <1>1. TypeOK'
    <2>1. local' \in [Callers -> Locals]
      BY <1>0 DEF IInv, TypeOK, CommandLost, AnswerLost, Locals
    <2>2. QED
      BY <2>1 DEF IInv, TypeOK, CommandLost, AnswerLost, Idle, server, history
  <1>2. ASSUME NEW d \in Callers PROVE CallInv(d)' /\ Interfered(d)'
    <2>1. CASE d = c
      <3>1. /\ local'[c].attempt = local[c].attempt /\ local'[c].old = local[c].old
            /\ local'[c].arg = local[c].arg /\ local'[c].result = local[c].result
            /\ local'[c].ok = local[c].ok
        BY <1>0 DEF IInv, TypeOK, CommandLost, AnswerLost, Locals
      <3>2. /\ changes'[c] = changes[c] /\ landed'[c] = landed[c] /\ value' = value
        BY DEF CommandLost, AnswerLost, server, history
      <3>3. \/ pc'[c] = "failed"
            \/ pc[c] = "answer" /\ pc'[c] = "cas" /\ Faulty /\ CmdRetries > 0
        BY <1>0 DEF IInv, TypeOK, CommandLost, AnswerLost
      <3>4. CallInv(c) /\ Interfered(c)
        BY DEF IInv
      <3>5. CASE pc'[c] = "failed"
        BY <2>1, <3>1, <3>2, <3>4, <3>5 DEF CallInv, Interfered
      <3>6. CASE pc[c] = "answer" /\ pc'[c] = "cas" /\ Faulty /\ CmdRetries > 0
        BY <2>1, <3>1, <3>2, <3>4, <3>6 DEF CallInv, Interfered, Resends
      <3>7. QED
        BY <3>3, <3>5, <3>6
    <2>2. CASE d # c
      BY <2>2 DEF IInv, TypeOK, CommandLost, AnswerLost, CallInv, Interfered, server, history
    <2>3. QED
      BY <2>1, <2>2
  <1>3. QED
    BY <1>1, <1>2 DEF IInv

(* Writes that are no update's: Set, Delete and expiry.                    *)
LEMMA OverwriteIInv ==
  ASSUME IInv, (\E v \in Values : SetState(v)) \/ Delete \/ ExpireState
  PROVE  IInv'
  <1>1. /\ Seen
        /\ UNCHANGED <<pc, local, landed>>
        /\ value' \in Contents
    BY DEF SetState, Delete, ExpireState, Contents
  <1>6. expires' \in BOOLEAN
    <2>1. expires' = FALSE \/ expires' = (KeyTTL > 0)
      BY DEF SetState, Delete, ExpireState
    <2>2. (KeyTTL > 0) \in BOOLEAN
      OBVIOUS
    <2>3. QED
      BY <2>1, <2>2, Zenon
  <1>2. /\ changes' \in [Callers -> 0 .. MaxAttempts]
        /\ \A d \in Callers :
             /\ changes[d] <= changes'[d]
             /\ value' # value => changes'[d] > changes[d] \/ changes'[d] = MaxAttempts
    BY <1>1, SeenEffect DEF IInv
  <1>3. TypeOK'
    BY <1>1, <1>2, <1>6 DEF IInv, TypeOK
  <1>4. ASSUME NEW d \in Callers PROVE CallInv(d)' /\ Interfered(d)'
    <2>0. changes[d] \in Nat /\ changes'[d] \in Nat /\ changes[d] <= changes'[d]
          /\ local[d].attempt \in Nat /\ MaxAttempts \in Nat
      BY <1>2, BackendAssumption DEF IInv, TypeOK, Locals
    <2>1. value' # value => changes'[d] > changes[d] \/ changes'[d] = MaxAttempts
      BY <1>2
    <2>2. CallInv(d)'
      BY <1>1 DEF IInv, CallInv
    <2>3. Interfered(d)'
      BY <1>1, <2>0, <2>1 DEF IInv, CallInv, Interfered
    <2>4. QED
      BY <2>2, <2>3
  <1>5. QED
    BY <1>3, <1>4 DEF IInv

LEMMA StutterIInv == IInv /\ UNCHANGED vars => IInv'
  BY DEF IInv, TypeOK, CallInv, Interfered, vars, server, history

LEMMA NextIInv == IInv /\ [Next]_vars => IInv'
  <1> SUFFICES ASSUME IInv, [Next]_vars PROVE IInv'
    OBVIOUS
  <1>1. CASE \E c \in Callers, n \in Args : Update(c, n)
    BY <1>1, UpdateIInv
  <1>2. CASE \E c \in Callers : Step(c)
    BY <1>2, UpdateReadIInv, UpdateCASIInv, UpdateAnswerIInv DEF Step
  <1>3. CASE \E c \in Callers : CommandLost(c) \/ AnswerLost(c)
    BY <1>3, LostIInv
  <1>4. CASE (\E v \in Values : SetState(v)) \/ Delete \/ ExpireState
    BY <1>4, OverwriteIInv
  <1>5. CASE UNCHANGED vars
    BY <1>5, StutterIInv
  <1>6. QED
    BY <1>1, <1>2, <1>3, <1>4, <1>5 DEF Next

LEMMA SpecIInv == Spec => []IInv
  BY InitIInv, NextIInv, PTL DEF Spec

-----------------------------------------------------------------------------
(* A step that changes one call, as its caller sees it, changes callBar    *)
(* at that caller only.                                                    *)
LEMMA BarStep ==
  ASSUME NEW c \in Callers, TypeOK, NEW b,
         \A d \in Callers \ {c} : /\ pc'[d] = pc[d]
                                  /\ local'[d].arg = local[d].arg
                                  /\ landed'[d] = landed[d],
         Bar(c)' = b
  PROVE  callBar' = [callBar EXCEPT ![c] = b]
  <1>1. ASSUME NEW d \in Callers \ {c} PROVE Bar(d)' = Bar(d)
    BY DEF Bar, PhaseBar
  <1>2. callBar' = [d \in Callers |-> Bar(d)']
    BY DEF callBar
  <1>3. QED
    BY <1>1, <1>2 DEF callBar

LEMMA UpdateRefines ==
  ASSUME IInv, NEW c \in Callers, NEW n \in Args, Update(c, n)
  PROVE  Store!Invoke(c, n)
  <1>1. /\ pc'[c] = "get" /\ local'[c].arg = n /\ landed'[c].times = 0
        /\ pc[c] \in Idle
        /\ \A d \in Callers \ {c} : pc'[d] = pc[d] /\ local'[d] = local[d] /\ landed'[d] = landed[d]
    BY DEF IInv, TypeOK, Update, NotLanded
  <1>2. Bar(c)' = [phase |-> "pending", arg |-> n, result |-> NoResult]
    BY <1>1 DEF Bar, PhaseBar, Idle
  <1>3. callBar' = [callBar EXCEPT ![c] = [phase |-> "pending", arg |-> n, result |-> NoResult]]
    BY <1>1, <1>2, BarStep DEF IInv
  <1>4. callBar[c].phase \in {"idle", "replied", "failed"}
    BY <1>1 DEF callBar, Bar, PhaseBar, Idle
  <1>5. QED
    BY <1>3, <1>4 DEF Store!Invoke, Update, server

LEMMA UpdateReadRefines ==
  ASSUME IInv, NEW c \in Callers, UpdateRead(c)
  PROVE  Store!Fail(c) \/ UNCHANGED <<value, callBar>>
  <1>1. /\ pc[c] = "get" /\ value' = value /\ landed' = landed
        /\ local'[c].arg = local[c].arg
        /\ \A d \in Callers \ {c} : pc'[d] = pc[d] /\ local'[d] = local[d]
    BY DEF IInv, TypeOK, UpdateRead, Locals, server, history
  <1>2. CASE pc'[c] = "failed"
    <2>1. Bar(c)' = [phase |-> "failed", arg |-> local[c].arg, result |-> NoResult]
      BY <1>1, <1>2 DEF Bar, PhaseBar, Idle
    <2>2. callBar[c].phase \in {"pending", "committed"} /\ callBar[c] = Bar(c)
          /\ callBar[c].arg = local[c].arg
      BY <1>1 DEF callBar, Bar, PhaseBar, Idle
    <2>3. callBar' = [callBar EXCEPT ![c] =
                        [phase |-> "failed", arg |-> local[c].arg, result |-> NoResult]]
      BY <1>1, <2>1, BarStep DEF IInv
    <2>4. callBar' = [callBar EXCEPT ![c].phase = "failed", ![c].result = NoResult]
      BY <2>2, <2>3 DEF callBar, Bar
    <2>5. QED
      BY <1>1, <2>2, <2>4 DEF Store!Fail
  <1>3. CASE pc'[c] = "cas"
    <2>1. Bar(c)' = Bar(c)
      BY <1>1, <1>3 DEF Bar, PhaseBar, Idle
    <2>2. callBar' = [callBar EXCEPT ![c] = Bar(c)]
      BY <1>1, <2>1, BarStep DEF IInv
    <2>3. QED
      BY <1>1, <2>2 DEF callBar
  <1>4. QED
    BY <1>2, <1>3 DEF UpdateRead, IInv, TypeOK

LEMMA UpdateCASRefines ==
  ASSUME IInv, NEW c \in Callers, UpdateCAS(c)
  PROVE  Store!Commit(c) \/ UNCHANGED <<value, callBar>>
  <1> DEFINE f == Fn(local[c].old, local[c].arg)
  <1>1. /\ pc[c] = "cas" /\ pc'[c] = "answer"
        /\ local'[c].arg = local[c].arg
        /\ \A d \in Callers \ {c} : /\ pc'[d] = pc[d] /\ local'[d] = local[d]
                                     /\ landed'[d] = landed[d]
    BY DEF IInv, TypeOK, UpdateCAS, Locals, Landed
  <1>2. /\ f.ok /\ local[c].result = f.result
        /\ landed[c].times > 0 => Resends
        /\ landed[c] \in [times : 0 .. 2, result : Results \cup {NoResult}]
    BY <1>1 DEF IInv, CallInv, TypeOK
  <1>3. CASE value = local[c].old
    <2>1. value' = f.state
      BY <1>3 DEF UpdateCAS, NewState
    <2>2. landed'[c].times > 0 /\ landed'[c].result = f.result
      <3>1. landed'[c] = [landed[c] EXCEPT !.times = IF @ < 2 THEN @ + 1 ELSE @,
                                           !.result = local[c].result]
        BY <1>3 DEF IInv, TypeOK, UpdateCAS, Landed
      <3>2. QED
        BY <3>1, <1>2
    <2>3. Bar(c)' = [phase |-> "committed", arg |-> local[c].arg, result |-> f.result]
      BY <1>1, <2>2 DEF Bar, PhaseBar, Idle
    <2>4. callBar' = [callBar EXCEPT ![c] =
                        [phase |-> "committed", arg |-> local[c].arg, result |-> f.result]]
      BY <1>1, <2>3, BarStep DEF IInv
    <2>5. callBar[c] = Bar(c) /\ callBar[c].arg = local[c].arg
          /\ callBar[c].phase = IF landed[c].times > 0 THEN "committed" ELSE "pending"
      BY <1>1 DEF callBar, Bar, PhaseBar, Idle
    <2>6. callBar' = [callBar EXCEPT ![c].phase = "committed", ![c].result = f.result]
      BY <2>4, <2>5 DEF callBar, Bar
    <2>7. QED
      BY <1>2, <1>3, <2>1, <2>5, <2>6 DEF Store!Commit
  <1>4. CASE value # local[c].old
    <2>1. value' = value /\ landed' = landed
      BY <1>4 DEF UpdateCAS, server
    <2>2. Bar(c)' = Bar(c)
      BY <1>1, <2>1 DEF Bar, PhaseBar, Idle
    <2>3. callBar' = [callBar EXCEPT ![c] = Bar(c)]
      BY <1>1, <2>2, BarStep DEF IInv
    <2>4. QED
      BY <2>1, <2>3 DEF callBar
  <1>5. QED
    BY <1>3, <1>4

(* The steps after the script: the answer arrives, or a message is lost.   *)
LEMMA AnswerRefines ==
  ASSUME IInv, NEW c \in Callers, UpdateAnswer(c) \/ CommandLost(c) \/ AnswerLost(c)
  PROVE  Store!Reply(c) \/ Store!Fail(c) \/ UNCHANGED <<value, callBar>>
  <1>1. /\ pc[c] \in {"get", "cas", "answer"} /\ value' = value /\ landed' = landed
        /\ local'[c].arg = local[c].arg
        /\ \A d \in Callers \ {c} : pc'[d] = pc[d] /\ local'[d] = local[d]
    BY DEF IInv, TypeOK, UpdateAnswer, CommandLost, AnswerLost, Locals, server, history
  <1>2. callBar[c] = Bar(c) /\ callBar[c].arg = local[c].arg
        /\ callBar[c].phase = IF landed[c].times > 0 THEN "committed" ELSE "pending"
    BY <1>1 DEF callBar, Bar, PhaseBar, Idle
  <1>3. CASE pc'[c] = "failed"
    <2>1. Bar(c)' = [phase |-> "failed", arg |-> local[c].arg, result |-> NoResult]
      BY <1>1, <1>3 DEF Bar, PhaseBar, Idle
    <2>2. callBar' = [callBar EXCEPT ![c] =
                        [phase |-> "failed", arg |-> local[c].arg, result |-> NoResult]]
      BY <1>1, <2>1, BarStep DEF IInv
    <2>3. callBar' = [callBar EXCEPT ![c].phase = "failed", ![c].result = NoResult]
      BY <1>2, <2>2 DEF callBar, Bar
    <2>4. QED
      BY <1>1, <1>2, <2>3 DEF Store!Fail
  <1>4. CASE pc'[c] = "replied"
    <2>1. landed[c].times > 0
      BY <1>4 DEF IInv, CallInv, TypeOK, UpdateAnswer, CommandLost, AnswerLost
    <2>2. Bar(c)' = [phase |-> "replied", arg |-> local[c].arg, result |-> landed[c].result]
      BY <1>1, <1>4, <2>1 DEF Bar, PhaseBar, Idle
    <2>3. callBar' = [callBar EXCEPT ![c] =
            [phase |-> "replied", arg |-> local[c].arg, result |-> landed[c].result]]
      BY <1>1, <2>2, BarStep DEF IInv
    <2>4. callBar[c].result = landed[c].result
      BY <1>1, <2>1 DEF callBar, Bar, PhaseBar, Idle
    <2>5. callBar' = [callBar EXCEPT ![c].phase = "replied"]
      BY <1>2, <2>3, <2>4 DEF callBar, Bar
    <2>6. QED
      BY <1>1, <1>2, <2>1, <2>5 DEF Store!Reply
  <1>5. CASE pc'[c] \in {"get", "cas"}
    <2>1. Bar(c)' = Bar(c)
      BY <1>1, <1>5 DEF Bar, PhaseBar, Idle
    <2>2. callBar' = [callBar EXCEPT ![c] = Bar(c)]
      BY <1>1, <2>1, BarStep DEF IInv
    <2>3. QED
      BY <1>1, <2>2 DEF callBar
  <1>6. QED
    BY <1>3, <1>4, <1>5 DEF IInv, TypeOK, UpdateAnswer, CommandLost, AnswerLost

LEMMA OverwriteRefines ==
  ASSUME IInv, (\E v \in Values : SetState(v)) \/ Delete \/ ExpireState
  PROVE  \E v \in Contents : Store!Overwrite(v)
  <1>1. /\ UNCHANGED <<pc, local, landed>>
        /\ value' \in Contents
    BY DEF SetState, Delete, ExpireState, Contents
  <1>2. callBar' = callBar
    BY <1>1 DEF callBar, Bar, PhaseBar
  <1>3. QED
    BY <1>1, <1>2 DEF Store!Overwrite

LEMMA NextRefines == IInv /\ [Next]_vars => [Store!Next]_(Store!vars)
  <1> SUFFICES ASSUME IInv, [Next]_vars PROVE Store!Next \/ UNCHANGED <<value, callBar>>
    BY DEF Store!vars
  <1>1. CASE \E c \in Callers, n \in Args : Update(c, n)
    BY <1>1, UpdateRefines DEF Store!Next
  <1>2. CASE \E c \in Callers : UpdateRead(c)
    BY <1>2, UpdateReadRefines DEF Store!Next
  <1>3. CASE \E c \in Callers : UpdateCAS(c)
    BY <1>3, UpdateCASRefines DEF Store!Next
  <1>4. CASE \E c \in Callers : UpdateAnswer(c) \/ CommandLost(c) \/ AnswerLost(c)
    BY <1>4, AnswerRefines DEF Store!Next
  <1>5. CASE (\E v \in Values : SetState(v)) \/ Delete \/ ExpireState
    BY <1>5, OverwriteRefines DEF Store!Next, Store!Contents, Contents
  <1>6. CASE UNCHANGED vars
    BY <1>6 DEF vars, server, history, callBar, Bar, PhaseBar
  <1>7. QED
    BY <1>1, <1>2, <1>3, <1>4, <1>5, <1>6 DEF Next, Step

LEMMA InitRefines == Init => Store!Init
  <1> SUFFICES ASSUME Init PROVE Store!Init
    OBVIOUS
  <1>1. ASSUME NEW c \in Callers
        PROVE  callBar[c] \in {b \in Store!Calls : b.phase = "idle" /\ b.result = NoResult}
    <2>1. local[c].arg \in Args /\ pc[c] = "idle"
      BY DEF Init, Locals
    <2>2. QED
      BY <2>1 DEF callBar, Bar, PhaseBar, Idle, Store!Calls, Store!Phases
  <1>2. callBar \in [Callers -> {b \in Store!Calls : b.phase = "idle" /\ b.result = NoResult}]
    BY <1>1 DEF callBar
  <1>3. QED
    BY <1>2 DEF Init, Store!Init

-----------------------------------------------------------------------------
(* The state at the server and every call's variables keep their types.    *)
THEOREM RedisTypeOK == Spec => []TypeOK
  <1>1. IInv => TypeOK
    BY DEF IInv
  <1>2. QED
    BY <1>1, SpecIInv, PTL

(* Whatever the number of callers and attempts, an update that gives up    *)
(* has seen at least as many writes to its key as it has made attempts.    *)
THEOREM RedisExhaustedOnlyByInterference == Spec => []ExhaustedOnlyByInterference
  <1>1. IInv => ExhaustedOnlyByInterference
    BY DEF IInv, Interfered, ExhaustedOnlyByInterference
  <1>2. QED
    BY <1>1, SpecIInv, PTL

(* Redis's Update implements the atomic store for every update function.   *)
THEOREM RedisImplementsAtomicStore == Spec => ImplementsAtomicStore
  BY SpecIInv, InitRefines, NextRefines, PTL DEF Spec, Store!Spec, ImplementsAtomicStore

-----------------------------------------------------------------------------
(* Without resends a call that has not reached its script, or whose script *)
(* met a conflict, has not been applied (CallInv), so that it is never     *)
(* applied again: the resend alone breaks AppliedAtMostOnce (the client    *)
(* library's MaxRetries against Update's script).                          *)
THEOREM RedisAppliedAtMostOnce == Spec => [](~Resends => AppliedAtMostOnce)
<1> DEFINE Inv == ~Resends => AppliedAtMostOnce
<1>1. Init => Inv
  <2> SUFFICES ASSUME Init, NEW c \in Callers PROVE landed[c].times <= 1
    BY DEF AppliedAtMostOnce
  <2>1. landed[c] = NotLanded
    BY DEF Init
  <2>. QED  BY <2>1 DEF NotLanded
<1>2. ASSUME IInv, Inv, [Next]_vars PROVE Inv'
  <2> SUFFICES ASSUME ~Resends, NEW c \in Callers PROVE landed'[c].times <= 1
    BY DEF AppliedAtMostOnce, Resends
  <2>1. landed[c].times <= 1 /\ TypeOK
    BY <1>2 DEF AppliedAtMostOnce, IInv
  <2>2. CASE \E d \in Callers, n \in Args : Update(d, n)
    BY <2>1, <2>2 DEF Update, TypeOK, NotLanded
  <2>3. ASSUME NEW d \in Callers, UpdateCAS(d) PROVE landed'[c].times <= 1
    <3>1. landed[d].times = 0
      <4>1. pc[d] = "cas" /\ ~(landed[d].times > 0) /\ landed[d].times \in 0 .. 2
        BY <1>2, <2>3 DEF IInv, CallInv, UpdateCAS, TypeOK
      <4>. QED  BY <4>1
    <3>2. landed' = landed \/ (landed'[d].times = 1 /\ (c # d => landed'[c] = landed[c]))
      BY <2>1, <2>3, <3>1 DEF UpdateCAS, Landed, TypeOK
    <3>. QED  BY <2>1, <3>2
  <2>4. CASE ~\E d \in Callers : UpdateCAS(d) \/ \E n \in Args : Update(d, n)
    <3>1. landed' = landed
      BY <1>2, <2>4 DEF Next, Step, UpdateRead, UpdateAnswer, CommandLost, AnswerLost,
                        SetState, Delete, ExpireState, vars, history
    <3>. QED  BY <2>1, <3>1
  <2>. QED  BY <2>2, <2>3, <2>4
<1>. QED  BY <1>1, <1>2, SpecIInv, PTL DEF Spec

(* Every state that an update or a Set has written expires, when its time  *)
(* to live is a millisecond at least: the truncation alone breaks          *)
(* TTLApplied (luaConditionalSet's PX against Milliseconds).               *)
THEOREM RedisTTLApplied == Spec => [](KeyTTL >= 1000 => TTLApplied)
<1> DEFINE Inv == KeyTTL >= 1000 => TTLApplied
<1>1. Init => Inv
  BY DEF Init, TTLApplied
<1>2. ASSUME Inv, [Next]_vars PROVE Inv'
  <2> SUFFICES ASSUME KeyTTL >= 1000 PROVE value' # Missing => expires'
    BY DEF TTLApplied
  <2>1. KeyTTL \in Nat /\ KeyTTL > 0 /\ KeyTTL \div 1000 > 0
    BY BackendAssumption
  <2>2. value # Missing => expires
    BY <1>2, <2>1 DEF TTLApplied
  <2>3. CASE \E c \in Callers : UpdateCAS(c)
    BY <2>1, <2>2, <2>3 DEF UpdateCAS, server
  <2>4. CASE (\E v \in Values : SetState(v)) \/ Delete \/ ExpireState
    BY <2>1, <2>4 DEF SetState, Delete, ExpireState
  <2>5. CASE UNCHANGED server
    BY <2>2, <2>5 DEF server
  <2>. QED  BY <1>2, <2>3, <2>4, <2>5 DEF Next, Step, Update, UpdateRead, UpdateAnswer,
                                      CommandLost, AnswerLost, vars
<1>. QED  BY <1>1, <1>2, PTL DEF Spec
=============================================================================
