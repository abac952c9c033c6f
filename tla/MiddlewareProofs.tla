-------------------------- MODULE MiddlewareProofs --------------------------
(***************************************************************************)
(* No charge is lost, no handler runs unpaid and nothing is granted by a   *)
(* closed backend, for any number of callers and operations, any costs,    *)
(* limit, times to live and bounds.                                        *)
(*                                                                         *)
(* ChargesKept is not inductive: a call in progress writes what it makes   *)
(* of a value it has read before.  Charged adds that this value is still   *)
(* there unless the call has been overtaken, and that nothing is granted   *)
(* of a key that is not there or has expired.  HandlerRunsIffCharged needs *)
(* how a caller's request, its call and its answer go together (Control).  *)
(* Last, the backend's own Update implements the atomic store.             *)
(***************************************************************************)
EXTENDS Middleware, TLAPS

Labels == Outcomes \cup {"idle", "priced", "update"}

TypeInv ==
  /\ now \in Times /\ native \in BOOLEAN /\ closed \in BOOLEAN
  /\ entry \in Entries \cup {Absent}
  /\ call \in [Callers -> CallTypes]
  /\ lost \in BOOLEAN
  /\ granted \in Nat
  /\ costMap \in [Operations -> Args]
  /\ request \in [Callers -> Labels]
  /\ price \in [Callers -> Args \cup {0}]
  /\ response \in [Callers -> Responses]

(* Where a caller's request is, its update is, and its answer.             *)
ControlOf(c) ==
  /\ call[c].phase \in {"pending", "write", "committed"} => request[c] = "update"
  /\ call[c].phase \in {"committed", "replied"} => call[c].result \in Results
  /\ request[c] = "allowed" => call[c].phase = "replied" /\ call[c].result.allowed
  /\ request[c] = "denied" => call[c].phase = "replied" /\ ~call[c].result.allowed
  /\ request[c] \in {"error", "open"} => call[c].phase = "failed"
  /\ request[c] = "priced" => c \in Direct /\ price[c] \in Args
  /\ response[c].at # "none" => c \notin Direct
  /\ response[c].at = "answered" => NoRequest(c)
  /\ response[c].at = "answered" /\ response[c].checked =>
       /\ request[c] \in Outcomes
       /\ IF request[c] \in {"allowed", "open"}
            THEN response[c].handler = TRUE /\ response[c].refusal = "none"
            ELSE response[c].handler = FALSE /\ response[c].refusal # "none"

Control == \A c \in Callers : ControlOf(c)

Held == IF entry = Absent THEN Missing ELSE entry.value

(* What a call is about to write is made of what is there, unless it has   *)
(* been overtaken.                                                         *)
ReadOf(c) ==
  call[c].phase = "write" =>
    /\ ~native
    /\ call[c].read # Foreign
    /\ c \notin outdated /\ ~closed => call[c].read = Held

Charged ==
  /\ closed => entry = Absent
  /\ native => ~lost /\ outdated = {}
  /\ Expired => granted = 0
  /\ entry = Absent /\ ~closed => granted = 0
  /\ ~lost => granted <= Limit
  /\ ~lost /\ entry # Absent /\ entry.value # Foreign /\ ~Expired =>
       IF native THEN granted = entry.value ELSE granted <= entry.value

Reads == \A c \in Callers : ReadOf(c)

IInv == TypeInv /\ Control /\ Charged /\ Reads

-----------------------------------------------------------------------------
Count(v) == IF v = Missing THEN 0 ELSE v

(* What the algorithm makes of a value: an error of a foreign one, and of  *)
(* another the count with what is granted.                                 *)
LEMMA FnFacts ==
  ASSUME NEW v \in Contents, NEW n \in Args
  PROVE  /\ Fn(v, n).ok <=> v # Foreign
         /\ v # Foreign =>
              /\ Fn(v, n).state \in Values /\ Fn(v, n).state # Foreign
              /\ Fn(v, n).state \in 0 .. Limit /\ Count(v) \in 0 .. Limit
              /\ Fn(v, n).result \in Results /\ Fn(v, n).result.allowed \in BOOLEAN
              /\ Fn(v, n).result.allowed => Fn(v, n).state = Count(v) + n
              /\ ~Fn(v, n).result.allowed => Fn(v, n).state = Count(v)
<1>1. Fn(v, n) = CounterFn(v, n) /\ n \in Nat
  BY AlgorithmAssumption
<1>2. Missing # Foreign /\ Missing \notin 0 .. Limit
  BY AlgorithmAssumption, MissingAssumption DEF CounterValues
<1>3. v # Foreign => v = Missing \/ v \in 0 .. Limit
  BY AlgorithmAssumption DEF Contents, CounterValues
<1>4. CASE v = Foreign
  BY <1>1, <1>4 DEF CounterFn
<1>5. CASE v # Foreign
  <2>1. Count(v) \in 0 .. Limit
    BY <1>3, <1>5, AlgorithmAssumption DEF Count
  <2>2. \A k \in 0 .. Limit : k \in Values /\ k # Foreign
    BY AlgorithmAssumption DEF CounterValues
  <2>3. \A k \in 0 .. Limit :
          [allowed |-> TRUE, count |-> k] \in Results /\ [allowed |-> FALSE, count |-> k] \in Results
    BY AlgorithmAssumption DEF CounterResults
  <2>4. CASE Count(v) + n <= Limit
    <3>1. Fn(v, n) = [ok |-> TRUE, state |-> Count(v) + n,
                      result |-> [allowed |-> TRUE, count |-> Count(v) + n]]
      BY <1>1, <1>5, <2>4 DEF CounterFn, Count
    <3>2. Count(v) + n \in 0 .. Limit
      BY <1>1, <2>1, <2>4, AlgorithmAssumption
    <3>3. /\ Fn(v, n).ok /\ Fn(v, n).state = Count(v) + n
          /\ Fn(v, n).result = [allowed |-> TRUE, count |-> Count(v) + n]
      BY <3>1
    <3>4. Fn(v, n).result \in Results
      BY <2>3, <3>2, <3>3
    <3>5. Fn(v, n).result.allowed = TRUE
      BY <3>3
    <3>. QED  BY <1>5, <2>1, <2>2, <3>2, <3>3, <3>4, <3>5
  <2>5. CASE ~(Count(v) + n <= Limit)
    <3>1. Fn(v, n) = [ok |-> TRUE, state |-> Count(v),
                      result |-> [allowed |-> FALSE, count |-> Count(v)]]
      BY <1>1, <1>5, <2>5 DEF CounterFn, Count
    <3>2. /\ Fn(v, n).ok /\ Fn(v, n).state = Count(v)
          /\ Fn(v, n).result = [allowed |-> FALSE, count |-> Count(v)]
      BY <3>1
    <3>3. Fn(v, n).result \in Results
      BY <2>1, <2>3, <3>2
    <3>4. Fn(v, n).result.allowed = FALSE
      BY <3>2
    <3>. QED  BY <1>5, <2>1, <2>2, <3>2, <3>3, <3>4
  <2>. QED  BY <2>4, <2>5
<1>. QED  BY <1>4, <1>5

(* What is written is an entry that has not expired.                       *)
LEMMA EntryFacts ==
  ASSUME TypeInv, NEW v \in Values, NEW ttl \in TTLs
  PROVE  /\ Entry(v, ttl) \in Entries
         /\ Entry(v, ttl) # Absent
         /\ Entry(v, ttl).value = v
         /\ ~ExpiredAt(Entry(v, ttl), now)
<1>1. ttl \in Nat /\ now \in Nat
  BY CustomAssumption DEF TypeInv, Times
<1>2. Entry(v, ttl) \in Entries
  BY <1>1 DEF Entry, Entries
<1>. QED  BY <1>1, <1>2, AbsentAssumption DEF Entry, ExpiredAt

(* The two ends of an update.                                              *)
LEMMA FailsFacts ==
  ASSUME TypeInv, NEW c \in Callers, Fails(c)
  PROVE  /\ call' \in [Callers -> CallTypes] /\ call'[c].phase = "failed"
         /\ \A d \in Callers \ {c} : call'[d] = call[d]
<1>1. call' = [call EXCEPT ![c] = [call[c] EXCEPT !.phase = "failed", !.read = Missing]]
  BY DEF Fails
<1>2. call[c] \in CallTypes /\ call \in [Callers -> CallTypes]
  BY DEF TypeInv
<1>3. /\ [call[c] EXCEPT !.phase = "failed", !.read = Missing] \in CallTypes
      /\ [call[c] EXCEPT !.phase = "failed", !.read = Missing].phase = "failed"
  BY <1>2 DEF CallTypes, Idle, Contents
<1>. QED  BY <1>1, <1>2, <1>3

LEMMA SucceedsFacts ==
  ASSUME TypeInv, NEW c \in Callers, NEW r \in Results, Succeeds(c, r)
  PROVE  /\ call' \in [Callers -> CallTypes] /\ call'[c].phase = "committed"
         /\ call'[c].result = r /\ call'[c].arg = call[c].arg
         /\ \A d \in Callers \ {c} : call'[d] = call[d]
<1> DEFINE l == [call[c] EXCEPT !.phase = "committed", !.read = Missing, !.result = r]
<1>1. call' = [call EXCEPT ![c] = l]
  BY DEF Succeeds
<1>2. call[c] \in CallTypes /\ call \in [Callers -> CallTypes]
  BY DEF TypeInv
<1>3. l \in CallTypes /\ l.phase = "committed" /\ l.result = r /\ l.arg = call[c].arg
  BY <1>2 DEF CallTypes, Idle, Contents
<1> HIDE DEF l
<1>. QED  BY <1>1, <1>2, <1>3

(* A write overtakes the reads of all others.                              *)
LEMMA OvertakenReads ==
  ASSUME TypeInv, Reads, NEW c, Overtakes(c), native' = native,
         \A d \in Callers \ {c} : call'[d] = call[d],
         c \in Callers => call'[c].phase # "write"
  PROVE  Reads'
BY DEF Reads, ReadOf, Overtakes

(* The control of a caller is kept by what others do and by what befalls   *)
(* the backend.                                                            *)
LEMMA ControlOfOthers ==
  ASSUME NEW d \in Callers, ControlOf(d), call'[d] = call[d],
         request'[d] = request[d], price'[d] = price[d], response'[d] = response[d]
  PROVE  ControlOf(d)'
BY DEF ControlOf, NoRequest

(* A call that does not come to write, of itself, changes nothing of what  *)
(* was charged.                                                            *)
LEMMA NoWriteHolds ==
  ASSUME IInv, NEW c \in Callers, UNCHANGED <<now, native, entry, closed, histories, granted>>,
         \A d \in Callers \ {c} : call'[d] = call[d],
         call'[c] = call[c] \/ call'[c].phase # "write"
  PROVE  Charged' /\ Reads'
<1>1. Charged'
  BY DEF IInv, Charged, Expired, histories
<1>2. Reads'
  BY DEF IInv, Reads, ReadOf, Held, histories
<1>. QED  BY <1>1, <1>2

(* Nor does what others do with an open backend, if nothing is granted of  *)
(* a key that goes, and if they leave no count.                            *)
LEMMA OthersHold ==
  ASSUME IInv, Overtakes(Missing), UNCHANGED <<now, native, closed, call>>, ~closed,
         \/ entry' = Absent /\ granted' = 0 /\ (lost' => lost)
         \/ /\ entry' # Absent /\ entry'.value = Foreign /\ (Expired' => Expired)
            /\ UNCHANGED <<granted, lost>>
  PROVE  Charged' /\ Reads'
<1>1. Reads'
  BY OvertakenReads, CustomAssumption DEF IInv
<1>2. native => outdated' = {}
  BY DEF IInv, Charged, Reads, ReadOf, Overtakes
<1>3. 0 <= Limit
  BY AlgorithmAssumption
<1>4. CASE entry' = Absent /\ granted' = 0 /\ (lost' => lost)
  <2>1. ~Expired'
    BY <1>4 DEF Expired, ExpiredAt
  <2>2. native' => ~lost' /\ outdated' = {}
    BY <1>2, <1>4 DEF IInv, Charged
  <2>3. ~closed'
    OBVIOUS
  <2>4. ~lost' => granted' <= Limit
    BY <1>3, <1>4
  <2>. QED  BY <1>1, <1>4, <2>1, <2>2, <2>3, <2>4 DEF Charged
<1>5. CASE /\ entry' # Absent /\ entry'.value = Foreign /\ (Expired' => Expired)
           /\ UNCHANGED <<granted, lost>>
  <2>1. entry' # Absent /\ entry'.value = Foreign /\ granted' = granted /\ lost' = lost
    BY <1>5
  <2>2. Expired' => granted' = 0
    BY <1>5 DEF IInv, Charged
  <2>3. native' => ~lost' /\ outdated' = {}
    BY <1>2, <2>1 DEF IInv, Charged
  <2>4. ~lost' => granted' <= Limit
    BY <2>1 DEF IInv, Charged
  <2>5. ~closed'
    OBVIOUS
  <2>. QED  BY <1>1, <2>1, <2>2, <2>3, <2>4, <2>5 DEF Charged
<1>. QED  BY <1>1, <1>4, <1>5

-----------------------------------------------------------------------------
LEMMA InitHolds == Init => IInv
<1> SUFFICES ASSUME Init PROVE IInv
  OBVIOUS
<1> USE DEF Init, CostInit, BackendInit
<1>1. NoCall \in CallTypes /\ NoCall.phase = "idle"
  <2>1. (CHOOSE n \in Args : TRUE) \in Args
    BY MiddlewareAssumption
  <2>. QED  BY <2>1, CustomAssumption DEF NoCall, CallTypes, Idle, Contents
<1>2. TypeInv
  <2>1. NoResponse \in Responses
    BY DEF Responses, NoResponse
  <2>2. now \in Times /\ call \in [Callers -> CallTypes]
    BY <1>1, CustomAssumption DEF Times
  <2>3. request \in [Callers -> Labels] /\ price \in [Callers -> Args \cup {0}]
    BY DEF Labels
  <2>. QED  BY <2>1, <2>2, <2>3 DEF TypeInv
<1>3. Control
  BY <1>1 DEF Control, ControlOf, NoRequest, Outcomes, NoResponse
<1>4. Charged
  BY AlgorithmAssumption DEF Charged, Expired, ExpiredAt
<1>5. Reads
  BY <1>1 DEF Reads, ReadOf
<1>. QED  BY <1>2, <1>3, <1>4, <1>5 DEF IInv

-----------------------------------------------------------------------------
(* What is written of a value that all that was granted is counted in      *)
(* counts all that is granted.                                             *)
LEMMA WrittenCharge ==
  ASSUME IInv, NEW v \in Contents, NEW n \in Args, NEW ttl \in TTLs,
         v # Foreign, ~closed, UNCHANGED <<now, native, closed>>,
         entry' = Entry(Fn(v, n).state, ttl),
         granted' = IF Fn(v, n).result.allowed THEN Capped(granted + n) ELSE granted,
         native => ~lost' /\ outdated' = {},
         ~lost' => IF native THEN granted = Count(v) ELSE granted <= Count(v)
  PROVE  entry' \in Entries /\ granted' \in Nat /\ Charged'
<1> DEFINE f == Fn(v, n)
<1>1. n \in Nat /\ Limit \in Nat /\ granted \in Nat
  BY AlgorithmAssumption DEF IInv, TypeInv
<1>2. /\ f.state \in Values /\ f.state \in 0 .. Limit /\ Count(v) \in 0 .. Limit
      /\ f.result.allowed => f.state = Count(v) + n
      /\ ~f.result.allowed => f.state = Count(v)
  BY FnFacts
<1>3. entry' \in Entries /\ entry' # Absent /\ entry'.value = f.state /\ ~Expired'
  BY <1>2, EntryFacts DEF IInv, Expired, ExpiredAt
<1>4. granted' \in Nat
  BY <1>1 DEF Capped
<1>5. ~lost' => /\ granted' <= Limit
                /\ IF native THEN granted' = f.state ELSE granted' <= f.state
  <2>1. CASE f.result.allowed
    <3>1. ~lost' => granted' = granted + n
      BY <1>1, <1>2, <2>1 DEF Capped
    <3>. QED  BY <1>1, <1>2, <2>1, <3>1
  <2>2. CASE ~f.result.allowed
    BY <1>1, <1>2, <2>2
  <2>. QED  BY <2>1, <2>2
<1>6. ~closed' /\ native' = native
  OBVIOUS
<1>. QED  BY <1>3, <1>4, <1>5, <1>6 DEF Charged

(* The three steps of an update.                                           *)
LEMMA UpdateHolds ==
  ASSUME IInv, NEW c \in Callers, Update(c), UpdateStep(c)
  PROVE  entry' \in Entries \cup {Absent} /\ granted' \in Nat /\ Charged' /\ Reads'
<1> DEFINE n == call[c].arg
           f == Fn(Live, n)
<1>1. /\ native /\ call[c].phase = "pending" /\ n \in Args /\ call[c].ttl \in TTLs
      /\ UNCHANGED <<now, native, closed, outdated, lost>>
      /\ c \in DOMAIN call
  BY DEF Update, IInv, TypeInv, CallTypes, histories
<1>2. Live \in Contents
  BY DEF IInv, TypeInv, Live, Entries, Contents
<1>3. ~lost /\ outdated = {} /\ \A d \in Callers : call[d].phase # "write"
  BY <1>1 DEF IInv, Charged, Reads, ReadOf
<1>. TypeInv
  BY DEF IInv
<1>. f.ok => Live # Foreign /\ f.result \in Results
  BY <1>1, <1>2, FnFacts
<1>4. Reads'
  <2>1. call'[c].phase # "write" /\ \A d \in Callers \ {c} : call'[d] = call[d]
    <3>1. CASE closed \/ ~f.ok
      BY <3>1, FailsFacts DEF Update
    <3>2. CASE ~(closed \/ ~f.ok)
      BY <3>2, SucceedsFacts DEF Update
    <3>. QED  BY <3>1, <3>2
  <2>. QED  BY <1>3, <2>1 DEF Reads, ReadOf
<1>5. CASE closed \/ ~f.ok
  <2>1. entry' = IF Expired THEN Absent ELSE entry
    BY <1>5 DEF Update
  <2>2. granted' = granted
    <3>1. call'[c].phase = "failed"
      BY <1>5, FailsFacts DEF Update
    <3>. QED  BY <3>1 DEF UpdateStep
  <2>3. entry' \in Entries \cup {Absent} /\ granted' \in Nat
    BY <2>1, <2>2 DEF IInv, TypeInv
  <2>4. CASE Expired
    <3>1. entry' = Absent /\ granted' = 0 /\ ~Expired'
      BY <2>1, <2>2, <2>4 DEF IInv, Charged, Expired, ExpiredAt
    <3>. QED  BY <1>1, <1>3, <1>4, <2>3, <3>1, AlgorithmAssumption DEF Charged
  <2>5. CASE ~Expired
    <3>1. entry' = entry /\ ~Expired'
      BY <1>1, <2>1, <2>5 DEF Expired
    <3>. QED  BY <1>1, <1>3, <1>4, <2>2, <2>3, <2>5, <3>1 DEF IInv, Charged
  <2>. QED  BY <2>4, <2>5
<1>6. CASE ~closed /\ f.ok
  <2>1. Live # Foreign
    BY <1>6
  <2>2. /\ entry' = Entry(f.state, call[c].ttl)
        /\ call'[c].phase = "committed" /\ call'[c].result = f.result /\ call'[c].arg = n
    BY <1>6, SucceedsFacts DEF Update
  <2>3. granted' = IF f.result.allowed THEN Capped(granted + n) ELSE granted
    BY <2>2 DEF UpdateStep
  <2>4. granted = Count(Live)
    <3>1. CASE entry = Absent \/ Expired
      BY <1>6, <3>1 DEF IInv, Charged, Live, Count
    <3>2. CASE entry # Absent /\ ~Expired
      <4>1. Live = entry.value /\ entry.value # Missing
        BY <3>2, MissingAssumption DEF Live, IInv, TypeInv, Entries
      <4>. QED  BY <1>1, <1>3, <2>1, <3>2, <4>1 DEF IInv, Charged, Count
    <3>. QED  BY <3>1, <3>2
  <2>5. entry' \in Entries /\ granted' \in Nat /\ Charged'
    BY <1>1, <1>2, <1>3, <1>6, <2>1, <2>2, <2>3, <2>4, WrittenCharge
  <2>. QED  BY <1>4, <2>5
<1>. QED  BY <1>5, <1>6, <1>2, <1>1, FnFacts

LEMMA GetThenFnHolds ==
  ASSUME IInv, NEW c \in Callers, GetThenFn(c), UpdateStep(c)
  PROVE  UNCHANGED <<entry, granted>> /\ Charged' /\ Reads'
<1>1. /\ UNCHANGED <<now, native, entry, closed, outdated, lost>> /\ ~native
      /\ call[c].phase = "pending" /\ call[c].arg \in Args
  BY DEF GetThenFn, IInv, TypeInv, CallTypes, histories
<1>2. Live \in Contents
  BY DEF IInv, TypeInv, Live, Entries, Contents
<1>3. /\ call'[c].phase \in {"failed", "write"}
      /\ call'[c].phase = "write" =>
           /\ ~Expired /\ Fn(Live, call[c].arg).ok
           /\ call'[c].read = Live
      /\ \A d \in Callers \ {c} : call'[d] = call[d]
  <2>1. CASE closed \/ Expired \/ ~Fn(Live, call[c].arg).ok
    BY <2>1, FailsFacts DEF GetThenFn, IInv
  <2>2. CASE ~(closed \/ Expired \/ ~Fn(Live, call[c].arg).ok)
    <3>1. call' = [call EXCEPT ![c] = [call[c] EXCEPT !.phase = "write", !.read = Live]]
      BY <2>2 DEF GetThenFn
    <3>2. call \in [Callers -> CallTypes]
      BY DEF IInv, TypeInv
    <3>. QED  BY <2>2, <3>1, <3>2 DEF CallTypes
  <2>. QED  BY <2>1, <2>2
<1>4. granted' = granted
  BY <1>3 DEF UpdateStep
<1>5. Charged'
  BY <1>1, <1>4 DEF IInv, Charged, Expired
<1>6. ReadOf(c)'
  <2>1. call'[c].phase = "write" => Live # Foreign /\ Live = Held
    BY <1>1, <1>2, <1>3, FnFacts DEF Live, Held
  <2>2. Held' = Held
    BY <1>1 DEF Held
  <2>. QED  BY <1>1, <1>3, <2>1, <2>2 DEF ReadOf
<1>7. \A d \in Callers \ {c} : ReadOf(d)'
  BY <1>1, <1>3 DEF IInv, Reads, ReadOf, Held
<1>. QED  BY <1>1, <1>4, <1>5, <1>6, <1>7 DEF Reads

LEMMA ThenSetHolds ==
  ASSUME IInv, NEW c \in Callers, ThenSet(c), UpdateStep(c)
  PROVE  entry' \in Entries \cup {Absent} /\ granted' \in Nat /\ lost' \in BOOLEAN
         /\ Charged' /\ Reads'
<1> DEFINE v == call[c].read
           n == call[c].arg
           f == Fn(v, n)
<1>1. /\ UNCHANGED <<now, native, closed>> /\ call[c].phase = "write"
      /\ n \in Args /\ v \in Contents /\ call[c].ttl \in TTLs
  BY DEF ThenSet, IInv, TypeInv, CallTypes
<1>2. ~native /\ v # Foreign
  BY <1>1 DEF IInv, Reads, ReadOf
<1>3. CASE closed
  <2>1. /\ UNCHANGED <<entry, lost>> /\ call'[c].phase = "failed"
        /\ outdated' = outdated \ {c}
        /\ \A d \in Callers \ {c} : call'[d] = call[d]
    BY <1>3, FailsFacts DEF ThenSet, IInv
  <2>2. granted' = granted
    BY <2>1 DEF UpdateStep
  <2>3. Charged'
    BY <1>1, <1>2, <2>1, <2>2 DEF IInv, Charged, Expired
  <2>4. Reads'
    BY <1>1, <1>3, <2>1 DEF IInv, Reads, ReadOf
  <2>. QED  BY <2>1, <2>2, <2>3, <2>4 DEF IInv, TypeInv
<1>4. CASE ~closed
  <2>1. /\ entry' = Entry(f.state, call[c].ttl) /\ Overtakes(c)
        /\ lost' = (c \in outdated \/ (lost /\ v # Missing))
        /\ call'[c].phase = "committed" /\ call'[c].result = f.result /\ call'[c].arg = n
        /\ \A d \in Callers \ {c} : call'[d] = call[d]
    <3>1. f.result \in Results
      BY <1>1, <1>2, FnFacts
    <3>. QED  BY <1>4, <3>1, SucceedsFacts DEF ThenSet, IInv
  <2>2. granted' = IF f.result.allowed THEN Capped(granted + n) ELSE granted
    BY <2>1 DEF UpdateStep
  <2>3. ~lost' => granted <= Count(v)
    <3> SUFFICES ASSUME ~lost' PROVE granted <= Count(v)
      OBVIOUS
    <3>1. v = Held
      BY <1>1, <1>4, <2>1 DEF IInv, Reads, ReadOf
    <3>2. CASE entry = Absent
      <4>1. granted = 0 /\ Count(v) = 0
        BY <1>4, <3>1, <3>2 DEF IInv, Charged, Held, Count
      <4>. QED  BY <4>1
    <3>3. CASE entry # Absent
      <4>1. v = entry.value /\ v # Missing /\ ~lost
        BY <2>1, <3>1, <3>3, MissingAssumption DEF Held, IInv, TypeInv, Entries
      <4>2. Count(v) = entry.value /\ Count(v) \in 0 .. Limit
        BY <1>1, <1>2, <4>1, FnFacts DEF Count
      <4>3. CASE Expired
        BY <4>2, <4>3, AlgorithmAssumption DEF IInv, Charged
      <4>4. CASE ~Expired
        BY <1>2, <3>3, <4>1, <4>2, <4>4 DEF IInv, Charged
      <4>. QED  BY <4>3, <4>4
    <3>. QED  BY <3>2, <3>3
  <2>4. entry' \in Entries /\ granted' \in Nat /\ Charged'
    BY <1>1, <1>2, <1>4, <2>1, <2>2, <2>3, WrittenCharge
  <2>5. Reads'
    BY <1>1, <2>1, OvertakenReads DEF IInv
  <2>. QED  BY <2>1, <2>4, <2>5
<1>. QED  BY <1>3, <1>4

LEMMA UpdateStepHolds ==
  ASSUME IInv, NEW c \in Callers, UpdateStep(c), UNCHANGED response
  PROVE  IInv'
<1>1. /\ call[c].phase \in {"pending", "write"} /\ request[c] = "update"
      /\ UNCHANGED <<now, native, closed, costMap, request, price>>
  <2>1. /\ call[c].phase \in {"pending", "write"}
        /\ UNCHANGED <<now, native, closed, costMap, request, price>>
    BY DEF UpdateStep, Update, GetThenFn, ThenSet, limiterVars
  <2>. QED  BY <2>1 DEF IInv, Control, ControlOf
<1>2. /\ entry' \in Entries \cup {Absent} /\ granted' \in Nat /\ lost' \in BOOLEAN
      /\ Charged' /\ Reads'
  <2>1. CASE Update(c)
    BY <2>1, UpdateHolds DEF Update, histories, IInv, TypeInv
  <2>2. CASE GetThenFn(c)
    BY <2>2, GetThenFnHolds DEF GetThenFn, histories, IInv, TypeInv
  <2>3. CASE ThenSet(c)
    BY <2>3, ThenSetHolds
  <2>. QED  BY <2>1, <2>2, <2>3 DEF UpdateStep
<1> DEFINE Acts == /\ call' \in [Callers -> CallTypes]
                   /\ call'[c].phase \in {"write", "committed", "failed"}
                   /\ call'[c].phase = "committed" => call'[c].result \in Results
                   /\ \A d \in Callers \ {c} : call'[d] = call[d]
<1>3. Acts
  <2>. call \in [Callers -> CallTypes] /\ call[c].arg \in Args /\ TypeInv
    BY DEF IInv, TypeInv, CallTypes
  <2>1. Live \in Contents
    BY DEF IInv, TypeInv, Live, Entries, Contents
  <2>2. ASSUME NEW v \in Contents, Succeeds(c, Fn(v, call[c].arg).result), v # Foreign
        PROVE  Acts
    BY <2>2, FnFacts, SucceedsFacts
  <2>3. ASSUME Fails(c)
        PROVE  Acts
    BY <2>3, FailsFacts
  <2>4. CASE Update(c)
    <3>1. Fn(Live, call[c].arg).ok => Live # Foreign
      BY <2>1, FnFacts
    <3>. QED  BY <2>1, <2>2, <2>3, <2>4, <3>1 DEF Update
  <2>5. CASE GetThenFn(c)
    <3>1. CASE Fails(c)
      BY <2>3, <3>1
    <3>2. CASE call' = [call EXCEPT ![c].phase = "write", ![c].read = Live]
      <4>1. call' = [call EXCEPT ![c] = [call[c] EXCEPT !.phase = "write", !.read = Live]]
        BY <3>2
      <4>2. call[c] \in CallTypes
        OBVIOUS
      <4>. QED  BY <2>1, <4>1, <4>2 DEF CallTypes
    <3>. QED  BY <2>5, <3>1, <3>2 DEF GetThenFn
  <2>6. CASE ThenSet(c)
    <3>1. call[c].read \in Contents /\ call[c].read # Foreign
      BY <2>6 DEF ThenSet, IInv, Reads, ReadOf, CallTypes
    <3>. QED  BY <2>2, <2>3, <2>6, <3>1 DEF ThenSet
  <2>. QED  BY <2>4, <2>5, <2>6 DEF UpdateStep
<1>4. TypeInv'
  BY <1>1, <1>2, <1>3 DEF IInv, TypeInv
<1>5. ControlOf(c)'
  <2>1. response[c].at # "answered"
    BY <1>1 DEF IInv, Control, ControlOf, NoRequest, Outcomes
  <2>2. request'[c] = "update" /\ response' = response
    BY <1>1
  <2>3. response[c].at # "none" => c \notin Direct
    BY DEF IInv, Control, ControlOf
  <2>. QED  BY <1>3, <2>1, <2>2, <2>3 DEF ControlOf
<1>6. \A d \in Callers \ {c} : ControlOf(d)'
  BY <1>1, <1>3, ControlOfOthers DEF IInv, Control
<1>. QED  BY <1>2, <1>4, <1>5, <1>6 DEF IInv, Control

(* The call of AllowWithCost, from where there is no update in progress.   *)
LEMMA AllowHolds ==
  ASSUME IInv, NEW c \in Callers, NEW n \in Args, AllowWithCost(c, n), request[c] # "update"
  PROVE  /\ call' \in [Callers -> CallTypes] /\ request' \in [Callers -> Labels]
         /\ \/ request'[c] = "closed" /\ call' = call
            \/ request'[c] = "update" /\ call'[c].phase = "pending"
         /\ \A d \in Callers \ {c} : call'[d] = call[d] /\ request'[d] = request[d]
         /\ Charged' /\ Reads'
<1>. call \in [Callers -> CallTypes] /\ request \in [Callers -> Labels]
  BY DEF IInv, TypeInv
<1>1. CASE limiterClosed
  <2>1. call' = call /\ request' = [request EXCEPT ![c] = "closed"]
    BY <1>1 DEF AllowWithCost, At
  <2>2. Charged' /\ Reads'
    BY <2>1, NoWriteHolds DEF AllowWithCost
  <2>. QED  BY <2>1, <2>2 DEF Labels, Outcomes
<1>2. CASE ~limiterClosed
  <2> DEFINE l == [phase |-> "pending", arg |-> n, ttl |-> KeyTTL, read |-> Missing,
                   result |-> NoResult]
  <2>1. call' = [call EXCEPT ![c] = l] /\ request' = [request EXCEPT ![c] = "update"]
    BY <1>2 DEF AllowWithCost, AtomicUpdate, At
  <2>2. l \in CallTypes /\ l.phase = "pending"
    BY CostAssumption DEF CallTypes, Idle, Contents
  <2> HIDE DEF l
  <2>3. Charged' /\ Reads'
    BY <2>1, <2>2, NoWriteHolds DEF AllowWithCost
  <2>. QED  BY <2>1, <2>2, <2>3 DEF Labels
<1>. QED  BY <1>1, <1>2

-----------------------------------------------------------------------------
(* The answers.                                                            *)
LEMMA AnswerFacts ==
  ASSUME NEW k \in BOOLEAN, NEW h \in BOOLEAN, NEW e \in {"none", "exceeded", "error"}
  PROVE  /\ Answer(k, h, e) \in Responses /\ Answer(k, h, e).at = "answered"
         /\ Answer(k, h, e).checked = k /\ Answer(k, h, e).handler = h
         /\ Answer(k, h, e).refusal = e
BY DEF Answer, Responses

LEMMA NoKeyFacts ==
  ASSUME NEW f \in Frameworks, NEW o \in Options
  PROVE  /\ NoKey(f, o) \in Responses /\ NoKey(f, o).at = "answered"
         /\ NoKey(f, o).checked = FALSE
<1> DEFINE Unchecked(r) == r \in Responses /\ r.at = "answered" /\ r.checked = FALSE
<1>1. Unchecked(InvalidKey) /\ Unchecked(Handler(FALSE))
  BY AnswerFacts DEF InvalidKey, Handler
<1>2. Unchecked(ChiNoKey(o))
  <2>1. o.AbortOnError \in BOOLEAN
    BY DEF Options
  <2>2. CASE o.AbortOnError
    <3>1. ChiNoKey(o) = Answer(FALSE, FALSE, "error")
      BY <2>2 DEF ChiNoKey
    <3>. QED  BY <3>1, AnswerFacts
  <2>3. CASE ~o.AbortOnError
    <3>1. \E e \in {"none", "error"} : ChiNoKey(o) = Answer(FALSE, TRUE, e)
      BY <2>3 DEF ChiNoKey
    <3>. QED  BY <3>1, AnswerFacts
  <2>. QED  BY <2>1, <2>2, <2>3
<1>3. Unchecked(FiberNoKey(o))
  BY <1>1 DEF FiberNoKey
<1>. QED  BY <1>1, <1>2, <1>3 DEF NoKey, Frameworks

LEMMA StepHolds == ASSUME IInv, [Next]_vars PROVE IInv'
<1>. TypeInv /\ Control /\ Charged /\ Reads
  BY DEF IInv
<1>1. ASSUME NEW c \in Callers, Skip(c) \/ RejectKey(c)
      PROVE  IInv'
  <2>1. PICK r \in Responses : /\ response' = [response EXCEPT ![c] = r]
                              /\ r.at = "answered" /\ r.checked = FALSE
    <3>1. CASE Skip(c)
      <4>1. response' = [response EXCEPT ![c] = Answer(FALSE, TRUE, "none")]
        BY <3>1 DEF Skip, Respond, Handler
      <4>. QED  BY <4>1, AnswerFacts
    <3>2. CASE RejectKey(c)
      <4>1. PICK f \in Frameworks, o \in Options : Respond(c, NoKey(f, o))
        BY <3>2 DEF RejectKey
      <4>. QED  BY <4>1, NoKeyFacts DEF Respond
    <3>. QED  BY <1>1, <3>1, <3>2
  <2>2. Arrives(c) /\ UNCHANGED <<backendVars, limiterVars, granted>>
    <3>1. CASE Skip(c)
      BY <3>1 DEF Skip
    <3>2. CASE RejectKey(c)
      BY <3>2 DEF RejectKey
    <3>. QED  BY <1>1, <3>1, <3>2
  <2>3. TypeInv'
    BY <2>1, <2>2 DEF TypeInv, backendVars, histories, limiterVars
  <2>4. Charged' /\ Reads'
    BY <2>2, NoWriteHolds DEF backendVars, histories
  <2>5. \A d \in Callers \ {c} : ControlOf(d)'
    BY <2>1, <2>2, ControlOfOthers DEF Control, TypeInv, backendVars, limiterVars
  <2>6. ControlOf(c)'
    BY <2>1, <2>2 DEF Arrives, NoRequest, Control, ControlOf, TypeInv, backendVars, limiterVars
  <2>. QED  BY <2>3, <2>4, <2>5, <2>6 DEF IInv, Control
<1>2. ASSUME NEW c \in Callers, CheckLimit(c)
      PROVE  IInv'
  <2>1. /\ c \notin Direct /\ request[c] # "update" /\ 1 \in Args
        /\ AllowWithCost(c, 1)
        /\ UNCHANGED <<now, native, entry, closed, lost, costMap, granted, price>>
        /\ response' = [response EXCEPT ![c] = Waiting]
    BY <1>2, MiddlewareAssumption
    DEF CheckLimit, Arrives, NoRequest, Outcomes, AllowWithCost, Respond, histories
  <2>2. Waiting \in Responses /\ Waiting.at = "waiting"
    BY DEF Waiting, NoResponse, Responses
  <2>3. /\ call' \in [Callers -> CallTypes] /\ request' \in [Callers -> Labels]
        /\ \/ request'[c] = "closed" /\ call' = call
           \/ request'[c] = "update" /\ call'[c].phase = "pending"
        /\ \A d \in Callers \ {c} : call'[d] = call[d] /\ request'[d] = request[d]
        /\ Charged' /\ Reads'
    BY <2>1, AllowHolds
  <2>4. TypeInv'
    BY <2>1, <2>2, <2>3 DEF TypeInv
  <2>5. \A d \in Callers \ {c} : ControlOf(d)'
    BY <2>1, <2>3, ControlOfOthers DEF Control, TypeInv
  <2>6. ControlOf(c)'
    BY <2>1, <2>2, <2>3 DEF Control, ControlOf, TypeInv
  <2>. QED  BY <2>3, <2>4, <2>5, <2>6 DEF IInv, Control
<1>3. ASSUME NEW c \in Callers, Finish(c)
      PROVE  IInv'
  <2> DEFINE r == IF request[c] \in {"allowed", "open"} THEN Handler(TRUE)
                  ELSE Answer(TRUE, FALSE, "exceeded")
  <2>1. /\ response' = [response EXCEPT ![c] = r]
        /\ response[c].at = "waiting" /\ request[c] \in Outcomes
        /\ UNCHANGED <<backendVars, limiterVars, granted>>
    BY <1>3 DEF Finish, Respond
  <2>2. /\ r \in Responses /\ r.at = "answered"
        /\ IF request[c] \in {"allowed", "open"} THEN r.handler = TRUE /\ r.refusal = "none"
           ELSE r.handler = FALSE /\ r.refusal # "none"
    <3>1. CASE request[c] \in {"allowed", "open"}
      <4>1. r = Answer(TRUE, TRUE, "none")
        BY <3>1 DEF Handler
      <4>. QED  BY <3>1, <4>1, AnswerFacts
    <3>2. CASE request[c] \notin {"allowed", "open"}
      <4>1. r = Answer(TRUE, FALSE, "exceeded")
        BY <3>2
      <4>. QED  BY <3>2, <4>1, AnswerFacts
    <3>. QED  BY <3>1, <3>2
  <2> HIDE DEF r
  <2>3. TypeInv'
    BY <2>1, <2>2 DEF TypeInv, backendVars, histories, limiterVars
  <2>4. Charged' /\ Reads'
    BY <2>1, NoWriteHolds DEF backendVars, histories
  <2>5. \A d \in Callers \ {c} : ControlOf(d)'
    BY <2>1, ControlOfOthers DEF Control, TypeInv, backendVars, limiterVars
  <2>6. ControlOf(c)'
    BY <2>1, <2>2 DEF NoRequest, Control, ControlOf, TypeInv, backendVars, limiterVars
  <2>. QED  BY <2>3, <2>4, <2>5, <2>6 DEF IInv, Control
<1>4. ASSUME NEW c \in Callers, AskCost(c), UNCHANGED response
      PROVE  IInv'
  <2>1. PICK op \in Operations : GetOperationCost(c, op)
    BY <1>4 DEF AskCost
  <2>2. /\ c \in Direct /\ NoRequest(c) /\ UNCHANGED <<backendVars, costMap, granted>>
        /\ request' = [request EXCEPT ![c] = "priced"]
        /\ price' = [price EXCEPT ![c] = costMap[op]] /\ costMap[op] \in Args
    BY <1>4, <2>1 DEF AskCost, GetOperationCost, At, TypeInv
  <2>3. TypeInv'
    BY <1>4, <2>2 DEF TypeInv, Labels, backendVars, histories
  <2>4. Charged' /\ Reads'
    BY <2>2, NoWriteHolds DEF backendVars, histories
  <2>5. \A d \in Callers \ {c} : ControlOf(d)'
    BY <1>4, <2>2, ControlOfOthers DEF Control, TypeInv, backendVars
  <2>6. ControlOf(c)'
    BY <1>4, <2>2 DEF NoRequest, Outcomes, Control, ControlOf, TypeInv, backendVars
  <2>. QED  BY <2>3, <2>4, <2>5, <2>6 DEF IInv, Control
<1>5. ASSUME NEW c \in Callers, AllowPriced(c), UNCHANGED response
      PROVE  IInv'
  <2>1. /\ request[c] = "priced" /\ c \in Direct /\ price[c] \in Args
        /\ AllowWithCost(c, price[c])
        /\ UNCHANGED <<now, native, entry, closed, lost, costMap, granted>>
        /\ price' = [price EXCEPT ![c] = 0]
    BY <1>5 DEF AllowPriced, AllowWithCost, histories, Control, ControlOf
  <2>2. /\ call' \in [Callers -> CallTypes] /\ request' \in [Callers -> Labels]
        /\ \/ request'[c] = "closed" /\ call' = call
           \/ request'[c] = "update" /\ call'[c].phase = "pending"
        /\ \A d \in Callers \ {c} : call'[d] = call[d] /\ request'[d] = request[d]
        /\ Charged' /\ Reads'
    BY <2>1, AllowHolds
  <2>3. TypeInv'
    BY <1>5, <2>1, <2>2 DEF TypeInv
  <2>4. \A d \in Callers \ {c} : ControlOf(d)'
    BY <1>5, <2>1, <2>2, ControlOfOthers DEF Control, TypeInv
  <2>5. ControlOf(c)'
    BY <1>5, <2>1, <2>2 DEF NoRequest, Control, ControlOf, TypeInv
  <2>. QED  BY <2>2, <2>3, <2>4, <2>5 DEF IInv, Control
<1>6. ASSUME NEW c \in Callers, UpdateReturns(c), UNCHANGED response
      PROVE  IInv'
  <2> DEFINE l == [call[c] EXCEPT !.phase = "replied"]
             end == IF call[c].result.allowed THEN "allowed" ELSE "denied"
  <2>1. /\ call[c].phase = "committed" /\ call' = [call EXCEPT ![c] = l]
        /\ request' = [request EXCEPT ![c] = end]
        /\ UNCHANGED <<now, native, entry, closed, histories, costMap, price, granted>>
    BY <1>6 DEF UpdateReturns, Return, At
  <2>2. request[c] = "update" /\ call[c].result \in Results /\ call[c] \in CallTypes
    BY <2>1 DEF Control, ControlOf, TypeInv
  <2>3. l \in CallTypes /\ l.phase = "replied" /\ l.result = call[c].result
    BY <2>2 DEF CallTypes, Idle
  <2> HIDE DEF l
  <2>4. TypeInv'
    BY <1>6, <2>1, <2>3 DEF TypeInv, Labels, Outcomes, histories
  <2>5. Charged' /\ Reads'
    BY <2>1, <2>3, NoWriteHolds DEF TypeInv
  <2>6. \A d \in Callers \ {c} : ControlOf(d)'
    BY <1>6, <2>1, ControlOfOthers DEF Control, TypeInv
  <2>7. ControlOf(c)'
    <3>1. call'[c] = l /\ request'[c] = end /\ response' = response
      BY <1>6, <2>1 DEF TypeInv
    <3>2. response[c].at # "answered" /\ (response[c].at # "none" => c \notin Direct)
      BY <2>2 DEF Control, ControlOf, NoRequest, Outcomes
    <3>. QED  BY <2>2, <2>3, <3>1, <3>2 DEF ControlOf
  <2>. QED  BY <2>4, <2>5, <2>6, <2>7 DEF IInv, Control
<1>7. ASSUME NEW c \in Callers, UpdateFailed(c), UNCHANGED response
      PROVE  IInv'
  <2>1. PICK end \in {"error", "open"} : request' = [request EXCEPT ![c] = end]
    BY <1>7 DEF UpdateFailed, At
  <2>2. /\ request[c] = "update" /\ call[c].phase = "failed"
        /\ UNCHANGED <<backendVars, costMap, price, granted>>
    BY <1>7 DEF UpdateFailed
  <2>3. TypeInv'
    BY <1>7, <2>1, <2>2 DEF TypeInv, Labels, Outcomes, backendVars, histories
  <2>4. Charged' /\ Reads'
    BY <2>2, NoWriteHolds DEF backendVars, histories
  <2>5. \A d \in Callers \ {c} : ControlOf(d)'
    BY <1>7, <2>1, <2>2, ControlOfOthers DEF Control, TypeInv, backendVars
  <2>6. ControlOf(c)'
    BY <1>7, <2>1, <2>2 DEF NoRequest, Outcomes, Control, ControlOf, TypeInv, backendVars
  <2>. QED  BY <2>3, <2>4, <2>5, <2>6 DEF IInv, Control
<1>8. ASSUME UNCHANGED <<call, request, price, response>>
      PROVE  Control'
  BY <1>8, ControlOfOthers DEF Control
<1>9. ASSUME NEW op \in Operations, NEW n \in Args, SetOperationCost(op, n), UNCHANGED response
      PROVE  IInv'
  <2>1. /\ UNCHANGED <<backendVars, granted, request, price>>
        /\ costMap' = [costMap EXCEPT ![op] = n]
    BY <1>9 DEF SetOperationCost
  <2>2. TypeInv'
    BY <1>9, <2>1 DEF TypeInv, backendVars, histories
  <2>3. Charged' /\ Reads'
    BY <2>1 DEF backendVars, histories, Charged, Reads, ReadOf, Held, Expired
  <2>. QED  BY <1>8, <1>9, <2>1, <2>2, <2>3 DEF IInv, backendVars
<1>10. ASSUME Delete, granted' = 0, UNCHANGED <<limiterVars, response>>
       PROVE  IInv'
  <2>1. TypeInv'
    BY <1>10 DEF Delete, StartsOver, TypeInv, limiterVars
  <2>2. Charged' /\ Reads'
    BY <1>10, OthersHold DEF Delete, StartsOver
  <2>. QED  BY <1>8, <1>10, <2>1, <2>2 DEF IInv, Delete, limiterVars
<1>11. ASSUME Close, UNCHANGED <<now, native, call, histories, costMap, request, price, granted>>,
              UNCHANGED response
       PROVE  IInv'
  <2>1. closed' = TRUE /\ entry' = Absent
    BY <1>11 DEF Close
  <2>2. TypeInv'
    BY <1>11, <2>1 DEF TypeInv, histories
  <2>3. Charged'
    BY <1>11, <2>1 DEF Charged, Expired, ExpiredAt, histories
  <2>4. Reads'
    BY <1>11, <2>1 DEF Reads, ReadOf, histories
  <2>. QED  BY <1>8, <1>11, <2>2, <2>3, <2>4 DEF IInv
<1>12. ASSUME UseBackend, UNCHANGED response
       PROVE  IInv'
  <2>1. /\ Overtakes(Missing) /\ ~closed
        /\ UNCHANGED <<now, native, closed, call, lost, granted, limiterVars>>
    BY <1>12 DEF UseBackend, Cleanup, Import, IncrementAndGet
  <2>2. Foreign \in Values /\ 0 \in TTLs
    BY AlgorithmAssumption, CustomAssumption DEF CounterValues
  <2>3. \/ entry' = Absent /\ granted' = 0
        \/ /\ entry' \in Entries /\ entry' # Absent
           /\ entry'.value = Foreign /\ (Expired' => Expired)
    <3>1. CASE Cleanup
      BY <2>1, <3>1 DEF Cleanup, Charged
    <3>2. CASE Import
      <4>1. entry' = Entry(Foreign, 0)
        BY <3>2 DEF Import
      <4>. QED  BY <2>1, <2>2, <4>1, EntryFacts DEF Expired, ExpiredAt
    <3>3. ASSUME NEW ttl \in TTLs, IncrementAndGet(ttl)
          PROVE  <2>3
      <4>1. CASE Live = Missing \/ ttl > 0
        <5>1. entry' = Entry(Foreign, ttl)
          BY <3>3, <4>1 DEF IncrementAndGet
        <5>. QED  BY <2>1, <2>2, <5>1, EntryFacts DEF Expired, ExpiredAt
      <4>2. CASE ~(Live = Missing \/ ttl > 0)
        <5>1. entry' = [entry EXCEPT !.value = Foreign] /\ entry \in Entries
          BY <3>3, <4>2 DEF IncrementAndGet, Live, TypeInv
        <5>2. /\ entry' \in Entries /\ entry'.value = Foreign
              /\ entry'.expires = entry.expires
          BY <2>2, <5>1 DEF Entries
        <5>3. entry # Absent /\ entry' # Absent
          BY <5>1, <5>2, AbsentAssumption
        <5>. QED  BY <2>1, <5>2, <5>3 DEF Expired, ExpiredAt
      <4>. QED  BY <4>1, <4>2
    <3>. QED  BY <1>12, <3>1, <3>2, <3>3 DEF UseBackend
  <2>4. TypeInv'
    BY <1>12, <2>1, <2>3 DEF TypeInv, limiterVars
  <2>5. Charged' /\ Reads'
    BY <2>1, <2>3, OthersHold
  <2>. QED  BY <1>8, <1>12, <2>1, <2>4, <2>5 DEF IInv, limiterVars
<1>13. ASSUME TimePasses, UNCHANGED response
       PROVE  IInv'
  <2>1. /\ UNCHANGED <<native, entry, closed, call, histories, limiterVars>>
        /\ now < MaxTime /\ now' = now + 1
        /\ granted' = IF Expired' THEN 0 ELSE granted
    BY <1>13 DEF TimePasses, Tick, Expired
  <2>2. now \in Nat /\ MaxTime \in Nat /\ 0 <= Limit
    BY CustomAssumption, AlgorithmAssumption DEF TypeInv, Times
  <2>3. TypeInv'
    BY <1>13, <2>1, <2>2 DEF TypeInv, Times, histories, limiterVars
  <2>4. Expired => Expired'
    BY <2>1, <2>2 DEF Expired, ExpiredAt, TypeInv, Entries
  <2>5. Charged'
    BY <2>1, <2>2, <2>4 DEF Charged, histories
  <2>6. Reads'
    BY <2>1 DEF Reads, ReadOf, Held, histories
  <2>. QED  BY <1>8, <1>13, <2>1, <2>3, <2>5, <2>6 DEF IInv, limiterVars
<1>14. CASE UNCHANGED vars
  <2>1. /\ UNCHANGED <<now, native, entry, closed, call, outdated, lost>>
        /\ UNCHANGED <<costMap, limiterClosed, request, price, granted, response>>
    BY <1>14 DEF vars, backendVars, histories, limiterVars
  <2>2. TypeInv'
    BY <2>1 DEF TypeInv
  <2>3. Charged' /\ Reads'
    BY <2>1 DEF Charged, Reads, ReadOf, Held, Expired
  <2>. QED  BY <1>8, <2>1, <2>2, <2>3 DEF IInv
<1>15. CASE Next
  <2>1. ASSUME NEW c \in Callers, LimiterStep(c), UNCHANGED response
        PROVE  IInv'
    BY <2>1, <1>5, <1>6, <1>7, UpdateStepHolds DEF LimiterStep
  <2>2. ASSUME NEW op \in Operations, NEW n \in Args,
               SetOperationCost(op, n) /\ UNCHANGED response
        PROVE  IInv'
    BY <2>2, <1>9
  <2>3. CASE (Reset \/ ClearBackend) /\ UNCHANGED response
    BY <1>10, <2>3 DEF Reset, ClearBackend, Clear
  <2>4. CASE (CloseLimiter \/ CloseBackend) /\ UNCHANGED response
    <3>1. /\ Close
          /\ UNCHANGED <<now, native, call, histories, costMap, request, price, granted>>
      BY <2>4 DEF CloseLimiter, CloseBackend, limiterVars
    <3>. QED  BY <1>11, <2>4, <3>1
  <2>. QED  BY <1>1, <1>2, <1>3, <1>4, <1>12, <1>13, <1>15, <2>1, <2>2, <2>3, <2>4 DEF Next
<1>. QED  BY <1>14, <1>15

-----------------------------------------------------------------------------
LEMMA InvariantHolds == Spec => []IInv
BY InitHolds, StepHolds, PTL DEF Spec

(* While no call that was overtaken has written, no charge is lost and the *)
(* limit holds (AtomicUpdate with and without a backend's own Update).     *)
THEOREM MiddlewareChargesKept == Spec => []ChargesKept
<1>1. IInv => ChargesKept
  BY AlgorithmAssumption, MissingAssumption
  DEF IInv, TypeInv, Charged, ChargesKept, Live, Entries
<1>. QED  BY <1>1, InvariantHolds, PTL

(* A checked request's handler runs if and only if it was charged or let   *)
(* through on the failover handler's word (Wrap, UnaryInterceptor and the  *)
(* adapters).                                                              *)
THEOREM MiddlewareHandlerRunsIffCharged == Spec => []HandlerRunsIffCharged
<1>1. IInv => HandlerRunsIffCharged
  BY DEF IInv, Control, ControlOf, Outcomes, HandlerRunsIffCharged
<1>. QED  BY <1>1, InvariantHolds, PTL

(* No step of a closed backend's callers or users grants or writes.        *)
LEMMA ClosedStep ==
  ASSUME IInv, [Next]_vars, closed
  PROVE  UNCHANGED <<entry, granted>>
<1>1. entry = Absent /\ ~Expired
  BY DEF IInv, Charged, Expired, ExpiredAt
<1>2. ASSUME NEW c \in Callers, UpdateStep(c)
      PROVE  UNCHANGED <<entry, granted>>
  <2>1. Fails(c) /\ entry' = entry
    BY <1>1, <1>2 DEF UpdateStep, Update, GetThenFn, ThenSet
  <2>2. call'[c].phase = "failed"
    BY <2>1, FailsFacts DEF IInv
  <2>. QED  BY <1>2, <2>1, <2>2 DEF UpdateStep
<1>3. ASSUME NEW c \in Callers,
             \/ Skip(c) \/ RejectKey(c) \/ CheckLimit(c) \/ Finish(c)
             \/ AskCost(c) \/ AllowPriced(c) \/ UpdateReturns(c) \/ UpdateFailed(c)
      PROVE  UNCHANGED <<entry, granted>>
  <2>1. CASE Skip(c) \/ RejectKey(c) \/ Finish(c)
    <3>1. CASE Skip(c)
      BY <3>1 DEF Skip, backendVars
    <3>2. CASE RejectKey(c)
      BY <3>2 DEF RejectKey, backendVars
    <3>3. CASE Finish(c)
      BY <3>3 DEF Finish, backendVars
    <3>. QED  BY <2>1, <3>1, <3>2, <3>3
  <2>2. CASE CheckLimit(c) \/ AllowPriced(c)
    BY <2>2 DEF CheckLimit, AllowPriced, AllowWithCost
  <2>3. CASE AskCost(c)
    BY <2>3 DEF AskCost, GetOperationCost, backendVars
  <2>4. CASE UpdateReturns(c) \/ UpdateFailed(c)
    BY <2>4 DEF UpdateReturns, UpdateFailed, backendVars
  <2>. QED  BY <1>3, <2>1, <2>2, <2>3, <2>4
<1>4. CASE \E op \in Operations, n \in Args : SetOperationCost(op, n)
  BY <1>4 DEF SetOperationCost, backendVars
<1>5. CASE Reset \/ ClearBackend \/ UseBackend
  BY <1>5 DEF Reset, ClearBackend, Clear, Delete, UseBackend, Cleanup, Import, IncrementAndGet
<1>6. CASE CloseLimiter \/ CloseBackend
  BY <1>1, <1>6 DEF CloseLimiter, CloseBackend, Close
<1>7. CASE TimePasses
  BY <1>1, <1>7 DEF TimePasses, Tick, ExpiredAt
<1>8. CASE UNCHANGED vars
  BY <1>8 DEF vars, backendVars
<1>. QED  BY <1>2, <1>3, <1>4, <1>5, <1>6, <1>7, <1>8 DEF Next, LimiterStep

(* Once the backend is closed nothing is charged or granted any more       *)
(* (Close against AllowWithCost's update).                                 *)
THEOREM MiddlewareClosedGrantsNothing == Spec => ClosedGrantsNothing
<1>1. IInv /\ [Next]_vars => [closed => UNCHANGED <<entry, granted>>]_vars
  BY ClosedStep
<1>. QED  BY <1>1, InvariantHolds, PTL DEF Spec, ClosedGrantsNothing

-----------------------------------------------------------------------------
(* The backend's own Update implements the atomic store.  A pending call   *)
(* has no result of an earlier one, as the abstract one has none.          *)
Pending == \A c \in Callers : call[c].phase = "pending" => call[c].result = NoResult

(* The four ways in which a step concerns the backend's calls.             *)
Asks(c, n) ==
  /\ call[c].phase \in Idle
  /\ AtomicUpdate(c, n, KeyTTL)
  /\ UNCHANGED <<now, native, entry>>

Returns(c) == Return(c) /\ UNCHANGED <<now, native, entry>>

Untouched == UNCHANGED <<native, call>>

LEMMA Changes ==
  ASSUME IInv, [Next]_vars
  PROVE  \/ Untouched
         \/ \E c \in Callers : (\E n \in Args : Asks(c, n)) \/ UpdateStep(c) \/ Returns(c)
<1>1. ASSUME NEW c \in Callers, NEW n \in Args, AllowWithCost(c, n),
             request[c] = "priced" \/ NoRequest(c)
      PROVE  Untouched \/ Asks(c, n)
  <2>1. call[c].phase \in Idle
    <3>1. call[c].phase \notin {"pending", "write", "committed"}
      BY <1>1 DEF IInv, Control, ControlOf, NoRequest, Outcomes
    <3>. QED  BY <3>1 DEF IInv, TypeInv, CallTypes
  <2>. QED  BY <1>1, <2>1 DEF AllowWithCost, Asks, Untouched
<1>2. ASSUME NEW c \in Callers, CheckLimit(c)
      PROVE  Untouched \/ Asks(c, 1)
  BY <1>1, <1>2, MiddlewareAssumption DEF CheckLimit, Arrives
<1>3. ASSUME NEW c \in Callers, AllowPriced(c)
      PROVE  Untouched \/ \E n \in Args : Asks(c, n)
  <2>1. price[c] \in Args
    BY <1>3 DEF AllowPriced, IInv, Control, ControlOf
  <2>. QED  BY <1>1, <1>3, <2>1 DEF AllowPriced
<1>4. ASSUME NEW c \in Callers,
             Skip(c) \/ RejectKey(c) \/ Finish(c) \/ AskCost(c) \/ UpdateFailed(c)
      PROVE  Untouched
  <2>1. CASE Skip(c)
    BY <2>1 DEF Skip, backendVars, Untouched
  <2>2. CASE RejectKey(c)
    BY <2>2 DEF RejectKey, backendVars, Untouched
  <2>3. CASE Finish(c)
    BY <2>3 DEF Finish, backendVars, Untouched
  <2>4. CASE AskCost(c) \/ UpdateFailed(c)
    BY <2>4 DEF AskCost, GetOperationCost, UpdateFailed, backendVars, Untouched
  <2>. QED  BY <1>4, <2>1, <2>2, <2>3, <2>4
<1>5. ASSUME NEW c \in Callers, UpdateReturns(c)
      PROVE  Returns(c)
  BY <1>5 DEF UpdateReturns, Returns
<1>6. CASE \E op \in Operations, n \in Args : SetOperationCost(op, n)
  BY <1>6 DEF SetOperationCost, backendVars, Untouched
<1>7. CASE Reset \/ ClearBackend \/ UseBackend
  BY <1>7 DEF Reset, ClearBackend, Clear, Delete, UseBackend, Cleanup, Import,
              IncrementAndGet, Untouched
<1>8. CASE CloseLimiter \/ CloseBackend
  BY <1>8 DEF CloseLimiter, CloseBackend, Untouched
<1>9. CASE TimePasses
  BY <1>9 DEF TimePasses, Tick, Untouched
<1>10. CASE UNCHANGED vars
  BY <1>10 DEF vars, backendVars, Untouched
<1>11. ASSUME NEW c \in Callers,
              \/ Skip(c) \/ RejectKey(c) \/ CheckLimit(c) \/ Finish(c)
              \/ AskCost(c) \/ LimiterStep(c)
       PROVE  Untouched \/ (\E n \in Args : Asks(c, n)) \/ UpdateStep(c) \/ Returns(c)
  <2>1. CASE CheckLimit(c)
    BY <1>2, <2>1, MiddlewareAssumption
  <2>2. CASE LimiterStep(c)
    BY <1>3, <1>4, <1>5, <2>2 DEF LimiterStep
  <2>. QED  BY <1>4, <1>11, <2>1, <2>2
<1>12. CASE Next
  <2>1. \/ \E c \in Callers :
             \/ Skip(c) \/ RejectKey(c) \/ CheckLimit(c) \/ Finish(c)
             \/ AskCost(c) \/ LimiterStep(c)
        \/ \E op \in Operations, n \in Args : SetOperationCost(op, n)
        \/ Reset \/ ClearBackend \/ UseBackend \/ CloseLimiter \/ CloseBackend \/ TimePasses
    BY <1>12 DEF Next
  <2>. QED  BY <2>1, <1>6, <1>7, <1>8, <1>9, <1>11
<1>. QED  BY <1>10, <1>12

LEMMA AsksFacts ==
  ASSUME TypeInv, NEW c \in Callers, NEW n \in Args, Asks(c, n)
  PROVE  /\ call'[c].phase = "pending" /\ call'[c].arg = n /\ call'[c].result = NoResult
         /\ \A d \in Callers \ {c} : call'[d] = call[d]
<1>1. call \in [Callers -> CallTypes]
  BY DEF TypeInv
<1>. QED  BY <1>1 DEF Asks, AtomicUpdate

LEMMA ReturnsFacts ==
  ASSUME TypeInv, NEW c \in Callers, Return(c)
  PROVE  /\ call'[c] = [call[c] EXCEPT !.phase = "replied"]
         /\ \A d \in Callers \ {c} : call'[d] = call[d]
<1>1. call' = [call EXCEPT ![c] = [call[c] EXCEPT !.phase = "replied"]]
  BY DEF Return
<1>2. call \in [Callers -> CallTypes]
  BY DEF TypeInv
<1>. QED  BY <1>1, <1>2

(* What an update's step does to the call: it fails, or goes on with what  *)
(* the function has made of a value it can work on.                        *)
LEMMA UpdateStepPhase ==
  ASSUME IInv, NEW c \in Callers, UpdateStep(c)
  PROVE  /\ call'[c].phase \in {"write", "committed", "failed"}
         /\ \A d \in Callers \ {c} : call'[d] = call[d]
<1>. TypeInv /\ call \in [Callers -> CallTypes] /\ call[c].arg \in Args
  BY DEF IInv, TypeInv, CallTypes
<1>1. Live \in Contents /\ call[c].read \in Contents
  BY DEF IInv, TypeInv, Live, Entries, Contents, CallTypes
<1>2. CASE Update(c)
  <2>1. Fn(Live, call[c].arg).ok => Fn(Live, call[c].arg).result \in Results
    BY <1>1, FnFacts
  <2>. QED  BY <1>2, <2>1, FailsFacts, SucceedsFacts DEF Update
<1>3. CASE GetThenFn(c)
  <2>1. CASE Fails(c)
    BY <2>1, FailsFacts
  <2>2. CASE call' = [call EXCEPT ![c].phase = "write", ![c].read = Live]
    <3>1. call' = [call EXCEPT ![c] = [call[c] EXCEPT !.phase = "write", !.read = Live]]
      BY <2>2
    <3>2. call[c] \in CallTypes
      OBVIOUS
    <3>. QED  BY <3>1, <3>2 DEF CallTypes
  <2>. QED  BY <1>3, <2>1, <2>2 DEF GetThenFn
<1>4. CASE ThenSet(c)
  <2>1. call[c].read # Foreign
    BY <1>4 DEF ThenSet, IInv, Reads, ReadOf
  <2>2. Fn(call[c].read, call[c].arg).result \in Results
    BY <1>1, <2>1, FnFacts
  <2>. QED  BY <1>4, <2>2, FailsFacts, SucceedsFacts DEF ThenSet
<1>. QED  BY <1>2, <1>3, <1>4 DEF UpdateStep

LEMMA PendingStep ==
  ASSUME IInv, Pending, [Next]_vars
  PROVE  Pending'
<1>. TypeInv /\ call \in [Callers -> CallTypes]
  BY DEF IInv, TypeInv
<1>1. CASE Untouched
  BY <1>1 DEF Untouched, Pending
<1>2. ASSUME NEW c \in Callers, NEW n \in Args, Asks(c, n)
      PROVE  Pending'
  BY <1>2, AsksFacts DEF Pending
<1>3. ASSUME NEW c \in Callers, UpdateStep(c)
      PROVE  Pending'
  <2>1. /\ call'[c].phase # "pending"
        /\ \A d \in Callers \ {c} : call'[d] = call[d]
    BY <1>3, UpdateStepPhase
  <2>. QED  BY <2>1 DEF Pending
<1>4. ASSUME NEW c \in Callers, Returns(c)
      PROVE  Pending'
  <2>1. /\ call'[c].phase # "pending"
        /\ \A d \in Callers \ {c} : call'[d] = call[d]
    BY <1>4, ReturnsFacts DEF Returns, CallTypes
  <2>. QED  BY <2>1 DEF Pending
<1>. QED  BY <1>1, <1>2, <1>3, <1>4, Changes

-----------------------------------------------------------------------------
(* The refinement, one step of a native backend's call at a time.          *)
LEMMA BarStep ==
  ASSUME NEW c \in Callers, native' = native, \A d \in Callers \ {c} : call'[d] = call[d]
  PROVE  callBar' = [callBar EXCEPT ![c] = Bar(c)']
<1>1. \A d \in Callers \ {c} : Bar(d)' = Bar(d)
  BY DEF Bar
<1>2. callBar' = [d \in Callers |-> Bar(d)']
  BY DEF callBar, Bar
<1>. QED  BY <1>1, <1>2 DEF callBar

LEMMA UntouchedRefines ==
  ASSUME TypeInv', Untouched
  PROVE  Store!Next
<1>1. liveBar' \in Store!Contents
  BY DEF liveBar, Live, TypeInv, Entries, Store!Contents
<1>2. callBar' = callBar
  BY DEF callBar, Bar, Untouched
<1>3. Store!Overwrite(liveBar')
  BY <1>2 DEF Store!Overwrite
<1>. QED  BY <1>1, <1>3 DEF Store!Next

(* A backend without an Update has no calls to be compared.                *)
LEMMA FallbackRefines ==
  ASSUME ~native, native' = native
  PROVE  UNCHANGED <<liveBar, callBar>>
BY DEF liveBar, callBar, Bar

LEMMA AsksRefines ==
  ASSUME IInv, native, NEW c \in Callers, NEW n \in Args, Asks(c, n)
  PROVE  Store!Next
<1>1. Bar(c)' = [phase |-> "pending", arg |-> n, result |-> NoResult]
  BY AsksFacts DEF IInv, Bar, Asks
<1>2. callBar' = [callBar EXCEPT ![c] = [phase |-> "pending", arg |-> n, result |-> NoResult]]
  BY <1>1, AsksFacts, BarStep DEF IInv, Asks
<1>3. liveBar' = liveBar
  BY DEF Asks, liveBar, Live, Expired, ExpiredAt
<1>4. callBar[c].phase \in {"idle", "replied", "failed"}
  BY DEF Asks, callBar, Bar, Idle
<1>. QED  BY <1>2, <1>3, <1>4 DEF Store!Next, Store!Invoke

LEMMA ReturnsRefines ==
  ASSUME IInv, native, NEW c \in Callers, Returns(c)
  PROVE  Store!Next
<1>1. call[c] \in CallTypes /\ call[c].phase = "committed"
  BY DEF IInv, TypeInv, Returns, Return
<1> DEFINE l == call[c]
<1>2. /\ call'[c] = [l EXCEPT !.phase = "replied"] /\ native' = native
      /\ \A d \in Callers \ {c} : call'[d] = call[d]
  BY ReturnsFacts DEF IInv, Returns
<1>3. Bar(c)' = [phase |-> "replied", arg |-> l.arg, result |-> l.result]
  BY <1>1, <1>2 DEF Bar, CallTypes
<1>4. callBar' = [callBar EXCEPT ![c] = [phase |-> "replied", arg |-> l.arg, result |-> l.result]]
  BY <1>2, <1>3, BarStep
<1>5. callBar[c] = [phase |-> "committed", arg |-> l.arg, result |-> l.result]
  BY <1>1 DEF callBar, Bar
<1>7. callBar' = [callBar EXCEPT ![c].phase = "replied"] /\ callBar[c].phase = "committed"
  BY <1>4, <1>5 DEF callBar, Bar
<1>6. liveBar' = liveBar
  BY DEF Returns, liveBar, Live, Expired, ExpiredAt
<1>. QED  BY <1>6, <1>7 DEF Store!Next, Store!Reply

LEMMA UpdateRefines ==
  ASSUME IInv, Pending, native, NEW c \in Callers, Update(c)
  PROVE  Store!Next
<1> DEFINE f == Fn(Live, call[c].arg)
<1>1. /\ TypeInv /\ call[c] \in CallTypes /\ call[c].phase = "pending"
      /\ call[c].arg \in Args /\ call[c].ttl \in TTLs /\ call[c].result = NoResult
      /\ native' = native /\ now' = now
  BY DEF IInv, TypeInv, Update, Pending, CallTypes
<1>2. callBar[c] = [phase |-> "pending", arg |-> call[c].arg, result |-> NoResult]
  BY <1>1 DEF callBar, Bar
<1>3. Live \in Contents
  BY DEF IInv, TypeInv, Live, Entries, Contents
<1>4. CASE closed \/ ~f.ok
  <2>1. Fails(c) /\ entry' = IF Expired THEN Absent ELSE entry
    BY <1>4 DEF Update
  <2>2. /\ call'[c] = [call[c] EXCEPT !.phase = "failed", !.read = Missing]
        /\ \A d \in Callers \ {c} : call'[d] = call[d]
    <3>1. call' = [call EXCEPT ![c] = [call[c] EXCEPT !.phase = "failed", !.read = Missing]]
      BY <2>1 DEF Fails
    <3>2. call \in [Callers -> CallTypes]
      BY <1>1 DEF TypeInv
    <3>. QED  BY <3>1, <3>2
  <2>3. Bar(c)' = [phase |-> "failed", arg |-> call[c].arg, result |-> NoResult]
    BY <1>1, <2>2 DEF Bar, CallTypes
  <2>4. callBar' = [callBar EXCEPT ![c] =
                      [phase |-> "failed", arg |-> call[c].arg, result |-> NoResult]]
    BY <1>1, <2>2, <2>3, BarStep
  <2>5. callBar' = [callBar EXCEPT ![c].phase = "failed", ![c].result = NoResult]
    BY <1>2, <2>4 DEF callBar, Bar
  <2>6. liveBar' = liveBar
    BY <1>1, <2>1 DEF liveBar, Live, Expired, ExpiredAt
  <2>7. callBar[c].phase = "pending"
    BY <1>2
  <2>. QED  BY <2>5, <2>6, <2>7 DEF Store!Next, Store!Fail
<1>5. CASE ~closed /\ f.ok
  <2>1. entry' = Entry(f.state, call[c].ttl) /\ Succeeds(c, f.result)
    BY <1>5 DEF Update
  <2>2. f.result \in Results /\ f.state \in Values
    BY <1>1, <1>3, <1>5, FnFacts
  <2>3. /\ call'[c].phase = "committed" /\ call'[c].result = f.result
        /\ call'[c].arg = call[c].arg
        /\ \A d \in Callers \ {c} : call'[d] = call[d]
    BY <1>1, <2>1, <2>2, SucceedsFacts
  <2>4. Bar(c)' = [phase |-> "committed", arg |-> call[c].arg, result |-> f.result]
    BY <1>1, <2>3 DEF Bar
  <2>5. callBar' = [callBar EXCEPT ![c] =
                      [phase |-> "committed", arg |-> call[c].arg, result |-> f.result]]
    BY <1>1, <2>3, <2>4, BarStep
  <2>6. callBar' = [callBar EXCEPT ![c].phase = "committed", ![c].result = f.result]
    BY <1>2, <2>5 DEF callBar, Bar
  <2>7. liveBar' = f.state
    <3>1. entry' # Absent /\ entry'.value = f.state /\ ~ExpiredAt(entry', now)
      BY <1>1, <2>1, <2>2, EntryFacts
    <3>. QED  BY <1>1, <3>1 DEF liveBar, Live, Expired
  <2>8. liveBar = Live
    BY DEF liveBar
  <2>9. callBar[c].phase = "pending" /\ callBar[c].arg = call[c].arg
    BY <1>2
  <2>10. Store!Commit(c)
    BY <1>5, <2>6, <2>7, <2>8, <2>9 DEF Store!Commit
  <2>. QED  BY <2>10 DEF Store!Next
<1>. QED  BY <1>4, <1>5

LEMMA StepRefines ==
  ASSUME IInv, TypeInv', Pending, [Next]_vars
  PROVE  [Store!Next]_(Store!vars)
<1> SUFFICES Store!Next \/ UNCHANGED <<liveBar, callBar>>
  BY DEF Store!vars
<1>1. CASE Untouched
  BY <1>1, UntouchedRefines
<1>2. ASSUME NEW c \in Callers, (\E n \in Args : Asks(c, n)) \/ UpdateStep(c) \/ Returns(c)
      PROVE  Store!Next \/ UNCHANGED <<liveBar, callBar>>
  <2>1. native' = native
    BY <1>2 DEF Asks, Returns, UpdateStep, Update, GetThenFn, ThenSet
  <2>2. CASE ~native
    BY <2>1, <2>2, FallbackRefines
  <2>3. CASE native
    <3>1. UpdateStep(c) => Update(c)
      BY <2>3 DEF UpdateStep, GetThenFn, ThenSet, IInv, Reads, ReadOf
    <3>. QED  BY <1>2, <2>3, <3>1, AsksRefines, UpdateRefines, ReturnsRefines
  <2>. QED  BY <2>2, <2>3, <1>2 DEF IInv, TypeInv
<1>. QED  BY <1>1, <1>2, Changes

(* Whatever expires, is imported, counted or cleaned up beside it, the     *)
(* backend's own Update is an atomic update of what its readers are given. *)
THEOREM MiddlewareImplementsAtomicStore == Spec => ImplementsAtomicStore
<1>1. Init => Store!Init
  <2> SUFFICES ASSUME Init PROVE Store!Init
    OBVIOUS
  <2>1. NoCall.phase = "idle" /\ NoCall.result = NoResult /\ NoCall.arg \in Args
    BY MiddlewareAssumption DEF NoCall
  <2>2. \A c \in Callers : Bar(c) = [phase |-> "idle", arg |-> NoCall.arg, result |-> NoResult]
    BY <2>1 DEF Init, CostInit, BackendInit, Bar
  <2>3. [phase |-> "idle", arg |-> NoCall.arg, result |-> NoResult] \in Store!Calls
    BY <2>1 DEF Store!Calls, Store!Phases
  <2>4. callBar \in [Callers -> {b \in Store!Calls : b.phase = "idle" /\ b.result = NoResult}]
    BY <2>2, <2>3 DEF callBar
  <2>5. liveBar = Missing
    BY DEF Init, CostInit, BackendInit, liveBar, Live
  <2>. QED  BY <2>4, <2>5 DEF Store!Init
<1>2. Init => Pending
  BY DEF Init, CostInit, BackendInit, NoCall, Pending
<1>3. IInv => TypeInv
  BY DEF IInv
<1>4. IInv /\ Pending /\ [Next]_vars => Pending'
  BY PendingStep
<1>5. IInv /\ TypeInv' /\ Pending /\ [Next]_vars => [Store!Next]_(Store!vars)
  BY StepRefines
<1>. QED
  BY <1>1, <1>2, <1>3, <1>4, <1>5, InvariantHolds, PTL
  DEF Spec, Store!Spec, ImplementsAtomicStore
=============================================================================
