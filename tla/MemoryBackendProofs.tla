------------------------- MODULE MemoryBackendProofs ------------------------
(***************************************************************************)
(* The memory backend keeps its size limit, stays empty once closed, hides *)
(* its sweeps and updates atomically, for any keys, callers, update        *)
(* function and times to live.                                             *)
(*                                                                         *)
(* With the types, SizeBounded is inductive: an operation that occupies a  *)
(* new key has found room, every other occupies no more than there was.    *)
(* SweepUnobservable needs that the sweep's time has been (SweptBefore),   *)
(* the refinement that a call in progress has no result yet (Pending).     *)
(***************************************************************************)
EXTENDS MemoryBackend, FiniteSetTheorems, TLAPS

Occupied(d) == {k \in Keys : d[k] # Absent}

Bounded(d) == maxSize > 0 => Cardinality(Occupied(d)) <= maxSize

Maps == [Keys -> Entries \cup {Absent}]

IInv == TypeOK /\ SizeBounded

LEMMA OccupiedFinite ==
  ASSUME NEW d
  PROVE  IsFiniteSet(Occupied(d)) /\ Cardinality(Occupied(d)) \in Nat
<1>1. IsFiniteSet(Occupied(d))
  BY FS_Subset, BackendAssumption DEF Occupied
<1>. QED  BY <1>1, FS_CardinalityType

(* A map that occupies no more keys than one within the limit is within it. *)
LEMMA FewerBounded ==
  ASSUME NEW d, NEW e, Occupied(e) \subseteq Occupied(d), Bounded(d), maxSize \in Nat
  PROVE  Bounded(e)
<1>1. Cardinality(Occupied(e)) <= Cardinality(Occupied(d))
  BY OccupiedFinite, FS_Subset
<1>. QED  BY <1>1, OccupiedFinite DEF Bounded

(* What is written when there is room keeps the map within the limit.      *)
LEMMA WrittenBounded ==
  ASSUME NEW d \in Maps, NEW k \in Keys, NEW e \in Entries,
         Bounded(d), ~Full(d, k), maxSize \in Nat
  PROVE  Bounded([d EXCEPT ![k] = e])
<1> DEFINE w == [d EXCEPT ![k] = e]
<1>1. Occupied(w) \subseteq Occupied(d) \cup {k}
  BY DEF Occupied, Maps
<1>2. CASE d[k] # Absent
  <2>1. Occupied(w) \subseteq Occupied(d)
    BY <1>1, <1>2 DEF Occupied
  <2>. QED  BY <2>1, FewerBounded
<1>3. CASE d[k] = Absent
  <2>1. maxSize > 0 => ~(Cardinality(Occupied(d)) >= maxSize)
    BY <1>3 DEF Full, Occupied
  <2>2. k \notin Occupied(d)
    BY <1>3 DEF Occupied
  <2>3. /\ IsFiniteSet(Occupied(d) \cup {k})
        /\ Cardinality(Occupied(d) \cup {k}) = Cardinality(Occupied(d)) + 1
    BY <2>2, OccupiedFinite, FS_AddElement
  <2>4. Cardinality(Occupied(w)) <= Cardinality(Occupied(d)) + 1
    BY <1>1, <2>3, FS_Subset
  <2>. QED  BY <2>1, <2>4, OccupiedFinite DEF Bounded
<1>. QED  BY <1>2, <1>3

LEMMA EntryType ==
  ASSUME TypeOK, NEW v \in Values, NEW ttl \in TTLs
  PROVE  Entry(v, ttl) \in Entries
BY BackendAssumption DEF TypeOK, Entry, Entries, Times

LEMMA InitHolds == Init => IInv
<1> SUFFICES ASSUME Init PROVE IInv
  OBVIOUS
<1>1. 0 \in 0 .. Cardinality(Keys)
  BY BackendAssumption, FS_CardinalityType
<1>2. TypeOK
  <2>1. call \in [Callers -> CallTypes]
    BY DEF Init
  <2>2. /\ now \in Times /\ swept \in 0 .. MaxTime /\ maxSize \in 0 .. Cardinality(Keys)
        /\ data \in [Keys -> Entries \cup {Absent}]
    BY <1>1, BackendAssumption DEF Init, Times
  <2>3. gcDone = (closed /\ HasGC) /\ gc \in {"none", "select", "sweep", "stopped"}
    BY DEF Init
  <2>. QED  BY <2>1, <2>2, <2>3 DEF Init, TypeOK
<1>3. SizeBounded
  BY DEF Init, SizeBounded
<1>. QED  BY <1>2, <1>3 DEF IInv

(* An operation that changes the map, and of the rest at most the calls,   *)
(* need only keep the map's type, its limit and a closed backend empty.    *)
LEMMA MapChanges ==
  ASSUME IInv, UNCHANGED <<now, maxSize, closed, gcDone, gc, swept>>,
         call' \in [Callers -> CallTypes],
         data' \in Maps, Bounded(data'), closed => UNCHANGED data
  PROVE  IInv'
<1>1. Present' = Occupied(data')
  BY DEF Present, Occupied
<1>2. TypeOK'
  BY DEF IInv, TypeOK, Maps
<1>3. closed => Present' = {}
  BY <1>1 DEF IInv, SizeBounded, Present, Occupied
<1>4. SizeBounded'
  BY <1>1, <1>3 DEF SizeBounded, Bounded
<1>. QED  BY <1>2, <1>4 DEF IInv

LEMMA Dropping ==
  ASSUME NEW d \in Maps, NEW e \in Maps, Bounded(d), maxSize \in Nat,
         \A k \in Keys : e[k] \in {d[k], Absent}
  PROVE  Bounded(e)
<1>1. Occupied(e) \subseteq Occupied(d)
  BY DEF Occupied
<1>. QED  BY <1>1, FewerBounded

LEMMA StepHolds == ASSUME IInv, [Next]_vars PROVE IInv'
<1> USE DEF IInv
<1>1. /\ maxSize \in Nat /\ Cardinality(Keys) \in Nat
      /\ data \in Maps /\ Bounded(data)
  <2>1. Present = Occupied(data)
    BY DEF Present, Occupied
  <2>2. Cardinality(Keys) \in Nat
    BY BackendAssumption, FS_CardinalityType
  <2>. QED  BY <2>1, <2>2 DEF TypeOK, SizeBounded, Bounded, Maps
<1>2. ASSUME NEW c \in Callers, NEW n \in Args, NEW ttl \in TTLs, CallUpdate(c, n, ttl)
      PROVE  IInv'
  <2>1. call[c] \in CallTypes
    BY DEF TypeOK
  <2>2. [call[c] EXCEPT !.phase = "pending", !.arg = n, !.ttl = ttl,
                        !.result = NoResult] \in CallTypes
    BY <2>1 DEF CallTypes
  <2>3. call' = [call EXCEPT ![c] = [call[c] EXCEPT !.phase = "pending", !.arg = n,
                                       !.ttl = ttl, !.result = NoResult]]
    BY <1>2 DEF CallUpdate, TypeOK
  <2>4. call' \in [Callers -> CallTypes]
    BY <2>2, <2>3 DEF TypeOK
  <2>. QED  BY <1>1, <1>2, <2>4, MapChanges DEF CallUpdate
<1>3. ASSUME NEW c \in Callers, Update(c)
      PROVE  IInv'
  <2> DEFINE k == call[c].key
             kept == IF ExpiredAt(data[k], now) THEN [data EXCEPT ![k] = Absent] ELSE data
             f == Fn(Live(k), call[c].arg)
             new == Entry(f.state, call[c].ttl)
  <2>1. call[c] \in CallTypes /\ k \in Keys /\ call[c].arg \in Args /\ call[c].ttl \in TTLs
    BY DEF TypeOK, CallTypes
  <2>2. kept \in Maps /\ Bounded(kept)
    <3>1. kept \in Maps
      BY <1>1 DEF Maps
    <3>2. \A j \in Keys : kept[j] \in {data[j], Absent}
      BY <1>1, <2>1 DEF Maps
    <3>. QED  BY <1>1, <3>1, <3>2, Dropping
  <2>3. Live(k) \in Values \cup {Missing}
    BY <1>1, <2>1 DEF Live, Maps, Entries
  <2>4. f.ok => f.state \in Values /\ f.result \in Results
    BY <2>1, <2>3, FnAssumption
  <2>5. CASE closed
    <3>1. call' \in [Callers -> CallTypes]
      BY <1>3, <2>5 DEF Update, Fails, TypeOK, CallTypes
    <3>. QED  BY <1>1, <1>3, <2>5, <3>1, MapChanges DEF Update
  <2>6. CASE ~closed /\ (~f.ok \/ Full(kept, k))
    <3>1. call' \in [Callers -> CallTypes]
      BY <1>3, <2>6 DEF Update, Fails, TypeOK, CallTypes
    <3>2. data' = kept
      BY <1>3, <2>6 DEF Update
    <3>. QED  BY <1>3, <2>2, <2>6, <3>1, <3>2, MapChanges DEF Update
  <2>7. CASE ~closed /\ f.ok /\ ~Full(kept, k)
    <3>1. call' \in [Callers -> CallTypes]
      BY <1>3, <2>4, <2>7 DEF Update, Succeeds, TypeOK, CallTypes
    <3>2. data' = [kept EXCEPT ![k] = new]
      BY <1>3, <2>7 DEF Update
    <3>3. new \in Entries
      BY <2>1, <2>4, <2>7, EntryType
    <3>4. data' \in Maps
      BY <2>2, <3>2, <3>3 DEF Maps
    <3>5. Bounded(data')
      BY <1>1, <2>1, <2>2, <2>7, <3>2, <3>3, WrittenBounded
    <3>. QED  BY <1>3, <2>7, <3>1, <3>4, <3>5, MapChanges DEF Update
  <2>. QED  BY <2>5, <2>6, <2>7
<1>4. ASSUME NEW c \in Callers, Return(c)
      PROVE  IInv'
  <2>1. call' \in [Callers -> CallTypes]
    BY <1>4 DEF Return, TypeOK, CallTypes
  <2>. QED  BY <1>1, <1>4, <2>1, MapChanges DEF Return
<1>5. ASSUME ~closed, data' \in Maps, \A k \in Keys : data'[k] \in {data[k], Absent},
             UNCHANGED <<now, maxSize, closed, gcDone, gc, swept, call>>
      PROVE  IInv'
  <2>1. Bounded(data')
    BY <1>1, <1>5, Dropping
  <2>. QED  BY <1>5, <2>1, MapChanges DEF TypeOK
<1>6. ASSUME NEW k \in Keys, Get(k) \/ Delete(k) \/ Clear
      PROVE  IInv'
  BY <1>1, <1>5, <1>6 DEF Get, Delete, Clear, Maps
<1>7. ASSUME NEW k \in Keys, NEW e \in Entries, ~closed, ~Full(data, k),
             data' = [data EXCEPT ![k] = e],
             UNCHANGED <<now, maxSize, closed, gcDone, gc, swept, call>>
      PROVE  IInv'
  <2>1. data' \in Maps
    BY <1>1, <1>7 DEF Maps
  <2>2. Bounded(data')
    BY <1>1, <1>7, WrittenBounded
  <2>. QED  BY <1>7, <2>1, <2>2, MapChanges DEF TypeOK
<1>8. ASSUME NEW k \in Keys, NEW v \in Values, NEW ttl \in TTLs, Set(k, v, ttl)
      PROVE  IInv'
  BY <1>7, <1>8, EntryType DEF Set
<1>9. ASSUME NEW k \in Keys, NEW ttl \in TTLs, IncrementAndGet(k, ttl)
      PROVE  IInv'
  <2>1. Count(k) + 1 \in Values
    BY <1>9, BackendAssumption DEF IncrementAndGet, Count
  <2>2. Entry(Count(k) + 1, ttl) \in Entries
    BY <2>1, EntryType
  <2>. QED  BY <1>7, <1>9, <2>2 DEF IncrementAndGet
<1>10. ASSUME NEW size \in 0 .. Cardinality(Keys), SetMaxSize(size)
       PROVE  IInv'
  BY <1>10, BackendAssumption DEF SetMaxSize, TypeOK, SizeBounded, Present
<1>11. ASSUME Close
       PROVE  IInv'
  <2>1. TypeOK'
    BY <1>11, BackendAssumption DEF Close, TypeOK
  <2>2. Present' = {}
    BY <1>11 DEF Close, Present
  <2>3. SizeBounded'
    BY <1>1, <1>11, <2>2, FS_EmptySet DEF Close, SizeBounded
  <2>. QED  BY <2>1, <2>3
<1>12. ASSUME SweepBegins \/ StopGC \/ Tick
       PROVE  IInv'
  <2>1. now' \in Times /\ swept' \in 0 .. MaxTime
    BY <1>12, BackendAssumption DEF SweepBegins, StopGC, Tick, TypeOK, Times
  <2>2. UNCHANGED <<data, maxSize, closed, gcDone, call>>
    BY <1>12 DEF SweepBegins, StopGC, Tick
  <2>3. gc' \in {"none", "select", "sweep", "stopped"}
    BY <1>12 DEF SweepBegins, StopGC, Tick, TypeOK
  <2>. QED  BY <2>1, <2>2, <2>3 DEF TypeOK, SizeBounded, Present
<1>13. ASSUME SweepExpired
       PROVE  IInv'
  <2>1. data' \in Maps /\ \A k \in Keys : data'[k] \in {data[k], Absent}
    BY <1>1, <1>13 DEF SweepExpired, Maps
  <2>2. Bounded(data')
    BY <1>1, <2>1, Dropping
  <2>3. Present' \subseteq Present /\ Present' = Occupied(data')
    BY <2>1 DEF Present, Occupied
  <2>4. TypeOK'
    BY <1>13, <2>1 DEF SweepExpired, TypeOK, Maps
  <2>5. SizeBounded'
    BY <1>13, <2>2, <2>3 DEF SweepExpired, SizeBounded, Bounded
  <2>. QED  BY <2>4, <2>5
<1>14. ASSUME UNCHANGED vars
       PROVE  IInv'
  BY <1>14 DEF vars, TypeOK, SizeBounded, Present
<1>15. CASE \E k \in Keys : Get(k) \/ Delete(k) \/ Clear
  BY <1>6, <1>15
<1>16. CASE Clear
  <2>1. PICK k \in Keys : TRUE
    BY BackendAssumption
  <2>. QED  BY <1>6, <1>16, <2>1
<1>. QED
  BY <1>2, <1>3, <1>4, <1>8, <1>9, <1>10, <1>11, <1>12, <1>13, <1>14, <1>15, <1>16
  DEF Next

-----------------------------------------------------------------------------
LEMMA InvariantHolds == Spec => []IInv
<1>1. Init => IInv
  BY InitHolds
<1>2. IInv /\ [Next]_vars => IInv'
  BY StepHolds
<1>. QED  BY <1>1, <1>2, PTL DEF Spec

(* For any finite set of keys, any callers, update function and times to   *)
(* live, the map stays within its limit, whatever the order of writes and  *)
(* changes of the limit, and a closed backend stays empty (Update, Set,    *)
(* IncrementAndGet, SetMaxSize and Close).                                 *)
THEOREM MemorySizeBounded == Spec => []SizeBounded
<1>1. IInv => SizeBounded
  BY DEF IInv
<1>. QED  BY <1>1, InvariantHolds, PTL
-----------------------------------------------------------------------------
(* The sweep goes by a time that has been.                                 *)
SweptBefore == swept <= now

Pending == \A c \in Callers : call[c].phase = "pending" => call[c].result = NoResult

(* A step that does not concern the calls.                                 *)
MapStep ==
  \/ \E k \in Keys :
       \/ Get(k) \/ Delete(k)
       \/ \E ttl \in TTLs : IncrementAndGet(k, ttl) \/ \E v \in Values : Set(k, v, ttl)
  \/ \E size \in 0 .. Cardinality(Keys) : SetMaxSize(size)
  \/ Clear \/ Close
  \/ SweepBegins \/ SweepExpired \/ StopGC
  \/ Tick
  \/ UNCHANGED vars

CallStep(c) ==
  \/ \E n \in Args, ttl \in TTLs : CallUpdate(c, n, ttl)
  \/ Update(c) \/ Return(c)

LEMMA Steps ==
  ASSUME [Next]_vars
  PROVE  MapStep \/ \E c \in Callers : CallStep(c)
BY DEF Next, MapStep, CallStep

LEMMA MapStepFacts == ASSUME MapStep PROVE UNCHANGED call
BY DEF MapStep, Get, Delete, IncrementAndGet, Set, SetMaxSize, Clear, Close,
       SweepBegins, SweepExpired, StopGC, Tick, vars

LEMMA CallStepFacts ==
  ASSUME NEW c \in Callers, CallStep(c)
  PROVE  UNCHANGED <<now, maxSize, closed, gcDone, gc, swept>>
BY DEF CallStep, CallUpdate, Update, Return

LEMMA SweptBeforeStep ==
  ASSUME TypeOK, SweptBefore, [Next]_vars
  PROVE  SweptBefore'
<1>. now \in Nat /\ swept \in Nat
  BY BackendAssumption DEF TypeOK, Times
<1>1. CASE MapStep
  BY <1>1 DEF SweptBefore, MapStep, Get, Delete, IncrementAndGet, Set, SetMaxSize, Clear,
              Close, SweepBegins, SweepExpired, StopGC, Tick, vars
<1>2. ASSUME NEW c \in Callers, CallStep(c)
      PROVE  SweptBefore'
  BY <1>2, CallStepFacts DEF SweptBefore
<1>. QED  BY <1>1, <1>2, Steps

(* However late the collector gets the lock, what it takes has expired for *)
(* every reader already (sweepExpired, Get, Update).                       *)
THEOREM MemorySweepUnobservable == Spec => SweepUnobservable
<1>1. Init => SweptBefore
  BY DEF Init, SweptBefore
<1>2. IInv => TypeOK
  BY DEF IInv
<1>3. TypeOK /\ SweptBefore /\ [Next]_vars => SweptBefore'
  BY SweptBeforeStep
<1>4. ASSUME TypeOK, SweptBefore, SweepExpired, NEW k \in Keys
      PROVE  Live(k)' = Live(k)
  <2>1. /\ now \in Nat /\ swept \in Nat
        /\ data[k] # Absent => data[k].expires \in Nat
    BY <1>4, BackendAssumption DEF TypeOK, Times, Entries
  <2>2. ExpiredAt(data[k], swept) => ExpiredAt(data[k], now)
    BY <1>4, <2>1 DEF ExpiredAt, SweptBefore
  <2>3. /\ data'[k] = IF ExpiredAt(data[k], swept) THEN Absent ELSE data[k]
        /\ now' = now
    BY <1>4 DEF SweepExpired
  <2>. QED  BY <2>2, <2>3 DEF Live, ExpiredAt
<1>5. TypeOK /\ SweptBefore /\ [Next]_vars
        => [SweepExpired => \A k \in Keys : Live(k)' = Live(k)]_vars
  BY <1>4
<1>. QED
  BY <1>1, <1>2, <1>3, <1>5, InvariantHolds, PTL DEF Spec, SweepUnobservable
-----------------------------------------------------------------------------
(* What a step of call c makes of it, and that it leaves the others alone. *)
Of(c, phase, arg, result) ==
  /\ call'[c].phase = phase /\ call'[c].arg = arg /\ call'[c].result = result
  /\ call'[c].key = call[c].key
  /\ \A d \in Callers \ {c} : call'[d] = call[d]

LEMMA CallUpdateFacts ==
  ASSUME TypeOK, NEW c \in Callers, NEW n \in Args, NEW ttl \in TTLs,
         CallUpdate(c, n, ttl)
  PROVE  Of(c, "pending", n, NoResult)
<1>1. call' = [call EXCEPT ![c] = [call[c] EXCEPT !.phase = "pending", !.arg = n, !.ttl = ttl,
                                     !.result = NoResult]]
  BY DEF CallUpdate
<1>2. call[c] \in CallTypes /\ call \in [Callers -> CallTypes]
  BY DEF TypeOK
<1>3. /\ call'[c] = [call[c] EXCEPT !.phase = "pending", !.arg = n, !.ttl = ttl,
                                    !.result = NoResult]
      /\ \A d \in Callers \ {c} : call'[d] = call[d]
  BY <1>1, <1>2
<1>. QED  BY <1>2, <1>3 DEF CallTypes, Of

LEMMA FailsFacts ==
  ASSUME TypeOK, NEW c \in Callers, Fails(c)
  PROVE  Of(c, "failed", call[c].arg, call[c].result)
<1>1. call' = [call EXCEPT ![c] = [call[c] EXCEPT !.phase = "failed"]]
  BY DEF Fails
<1>2. call[c] \in CallTypes /\ call \in [Callers -> CallTypes]
  BY DEF TypeOK
<1>3. /\ call'[c] = [call[c] EXCEPT !.phase = "failed"]
      /\ \A d \in Callers \ {c} : call'[d] = call[d]
  BY <1>1, <1>2
<1>. QED  BY <1>2, <1>3 DEF CallTypes, Of

LEMMA SucceedsFacts ==
  ASSUME TypeOK, NEW c \in Callers, NEW r, Succeeds(c, r)
  PROVE  Of(c, "committed", call[c].arg, r)
<1>1. call' = [call EXCEPT ![c] = [call[c] EXCEPT !.phase = "committed", !.result = r]]
  BY DEF Succeeds
<1>2. call[c] \in CallTypes /\ call \in [Callers -> CallTypes]
  BY DEF TypeOK
<1>3. /\ call'[c] = [call[c] EXCEPT !.phase = "committed", !.result = r]
      /\ \A d \in Callers \ {c} : call'[d] = call[d]
  BY <1>1, <1>2
<1>. QED  BY <1>2, <1>3 DEF CallTypes, Of

LEMMA ReturnFacts ==
  ASSUME TypeOK, NEW c \in Callers, Return(c)
  PROVE  Of(c, "replied", call[c].arg, call[c].result)
<1>1. call' = [call EXCEPT ![c] = [call[c] EXCEPT !.phase = "replied"]]
  BY DEF Return
<1>2. call[c] \in CallTypes /\ call \in [Callers -> CallTypes]
  BY DEF TypeOK
<1>3. /\ call'[c] = [call[c] EXCEPT !.phase = "replied"]
      /\ \A d \in Callers \ {c} : call'[d] = call[d]
  BY <1>1, <1>2
<1>. QED  BY <1>2, <1>3 DEF CallTypes, Of

LEMMA PendingStep ==
  ASSUME TypeOK, Pending, [Next]_vars
  PROVE  Pending'
<1>. \A c \in Callers : call[c] \in CallTypes
  BY DEF TypeOK
<1>1. CASE MapStep
  BY <1>1, MapStepFacts DEF Pending
<1>2. ASSUME NEW c \in Callers, CallStep(c)
      PROVE  Pending'
  <2>1. ASSUME NEW phase, NEW arg, NEW result, Of(c, phase, arg, result),
               phase = "pending" => result = NoResult
        PROVE  Pending'
    BY <2>1 DEF Of, Pending
  <2>2. ASSUME NEW n \in Args, NEW ttl \in TTLs, CallUpdate(c, n, ttl)
        PROVE  Pending'
    BY <2>1, <2>2, CallUpdateFacts
  <2>3. CASE Update(c)
    <3>1. Fails(c) \/ \E r : Succeeds(c, r)
      BY <2>3 DEF Update
    <3>2. CASE Fails(c)
      BY <2>1, <3>2, FailsFacts
    <3>3. ASSUME NEW r, Succeeds(c, r)
          PROVE  Pending'
      BY <2>1, <3>3, SucceedsFacts
    <3>. QED  BY <3>1, <3>2, <3>3
  <2>4. CASE Return(c)
    BY <2>1, <2>4, ReturnFacts
  <2>. QED  BY <1>2, <2>2, <2>3, <2>4 DEF CallStep
<1>. QED  BY <1>1, <1>2, Steps

(* What the step shows of a call on Key, and of no other.                  *)
LEMMA BarStep ==
  ASSUME NEW c \in Callers, NEW phase, NEW arg, NEW result, Of(c, phase, arg, result),
         call[c].key = Key
  PROVE  callBar' = [callBar EXCEPT ![c] = [phase |-> phase, arg |-> arg, result |-> result]]
<1>1. \A d \in Callers \ {c} : Bar(d)' = Bar(d)
  BY DEF Bar, Of
<1>2. Bar(c)' = [phase |-> phase, arg |-> arg, result |-> result]
  BY DEF Bar, Of
<1>3. callBar' = [d \in Callers |-> Bar(d)']
  BY DEF callBar
<1>. QED  BY <1>1, <1>2, <1>3 DEF callBar

LEMMA MapStepRefines ==
  ASSUME TypeOK', MapStep
  PROVE  Store!Next
<1>1. liveBar' \in Store!Contents
  BY BackendAssumption DEF liveBar, Live, TypeOK, Entries, Store!Contents
<1>2. callBar' = callBar
  BY MapStepFacts DEF callBar, Bar
<1>3. Store!Overwrite(liveBar')
  BY <1>2 DEF Store!Overwrite
<1>. QED  BY <1>1, <1>3 DEF Store!Next

(* An update on another key touches neither.                               *)
LEMMA OtherKeyStutters ==
  ASSUME TypeOK, NEW c \in Callers, call[c].key # Key, CallStep(c)
  PROVE  UNCHANGED <<liveBar, callBar>>
<1>. call[c] \in CallTypes /\ data \in Maps
  BY DEF TypeOK, Maps
<1>1. \E phase, arg, result : Of(c, phase, arg, result)
  <2>1. Update(c) => Fails(c) \/ \E r : Succeeds(c, r)
    BY DEF Update
  <2>. QED  BY <2>1, CallUpdateFacts, FailsFacts, SucceedsFacts, ReturnFacts DEF CallStep
<1>2. \A d \in Callers : Bar(d)' = Bar(d)
  BY <1>1 DEF Bar, Of
<1>3. callBar' = callBar
  BY <1>2 DEF callBar
<1>4. data'[Key] = data[Key] /\ now' = now
  <2>1. CASE Update(c)
    <3> DEFINE k == call[c].key
               kept == IF ExpiredAt(data[k], now) THEN [data EXCEPT ![k] = Absent] ELSE data
    <3>1. kept \in Maps /\ kept[Key] = data[Key]
      BY BackendAssumption DEF Maps, CallTypes
    <3>2. data' = data \/ data' = kept \/ \E e : data' = [kept EXCEPT ![k] = e]
      BY <2>1 DEF Update
    <3>3. now' = now
      BY <2>1 DEF Update
    <3>4. data'[Key] = data[Key]
      BY <3>1, <3>2, BackendAssumption DEF Maps
    <3>. QED  BY <3>3, <3>4
  <2>. QED  BY <2>1 DEF CallStep, CallUpdate, Return
<1>5. liveBar' = liveBar
  BY <1>4 DEF liveBar, Live
<1>. QED  BY <1>3, <1>5

LEMMA CallUpdateRefines ==
  ASSUME TypeOK, NEW c \in Callers, call[c].key = Key, NEW n \in Args, NEW ttl \in TTLs,
         CallUpdate(c, n, ttl)
  PROVE  Store!Next
<1>. call[c] \in CallTypes
  BY DEF TypeOK
<1>1. callBar' = [callBar EXCEPT ![c] = [phase |-> "pending", arg |-> n, result |-> NoResult]]
  BY CallUpdateFacts, BarStep
<1>2. liveBar' = liveBar
  BY DEF CallUpdate, liveBar, Live
<1>3. callBar[c].phase \in {"idle", "replied", "failed"}
  BY DEF CallUpdate, callBar, Bar, Idle
<1>. QED  BY <1>1, <1>2, <1>3 DEF Store!Next, Store!Invoke

LEMMA ReturnRefines ==
  ASSUME TypeOK, NEW c \in Callers, call[c].key = Key, Return(c)
  PROVE  Store!Next
<1> DEFINE l == call[c]
<1>1. l \in CallTypes /\ l.phase = "committed"
  BY DEF TypeOK, Return
<1>2. callBar' = [callBar EXCEPT ![c] = [phase |-> "replied", arg |-> l.arg, result |-> l.result]]
  BY ReturnFacts, BarStep
<1>3. callBar[c] = [phase |-> "committed", arg |-> l.arg, result |-> l.result]
  BY <1>1 DEF callBar, Bar
<1>4. callBar' = [callBar EXCEPT ![c].phase = "replied"] /\ callBar[c].phase = "committed"
  BY <1>2, <1>3 DEF callBar, Bar
<1>5. liveBar' = liveBar
  BY DEF Return, liveBar, Live
<1>. QED  BY <1>4, <1>5 DEF Store!Next, Store!Reply

(* An expired entry is not live, so that dropping it shows nobody anything. *)
LEMMA UpdateRefines ==
  ASSUME TypeOK, Pending, NEW c \in Callers, call[c].key = Key, Update(c)
  PROVE  Store!Next
<1> DEFINE kept == IF ExpiredAt(data[Key], now) THEN [data EXCEPT ![Key] = Absent] ELSE data
           f == Fn(Live(Key), call[c].arg)
<1>1. /\ call[c] \in CallTypes /\ call[c].phase = "pending"
      /\ call[c].arg \in Args /\ call[c].ttl \in TTLs /\ call[c].result = NoResult
      /\ now' = now /\ now \in Nat /\ Key \in Keys /\ data \in Maps
  BY BackendAssumption DEF TypeOK, Update, Pending, CallTypes, Times, Maps
<1>2. callBar[c] = [phase |-> "pending", arg |-> call[c].arg, result |-> NoResult]
  BY <1>1 DEF callBar, Bar
<1>3. Live(Key) \in Contents
  BY <1>1 DEF Live, Maps, Entries, Contents
<1>4. kept \in Maps
  BY <1>1 DEF Maps
<1>5. CASE closed \/ ~f.ok \/ Full(kept, Key)
  <2>1. Fails(c) /\ data' \in {data, kept}
    BY <1>5 DEF Update
  <2>2. callBar' = [callBar EXCEPT ![c] =
                      [phase |-> "failed", arg |-> call[c].arg, result |-> NoResult]]
    BY <1>1, <2>1, FailsFacts, BarStep
  <2>3. callBar' = [callBar EXCEPT ![c].phase = "failed", ![c].result = NoResult]
    BY <1>2, <2>2 DEF callBar, Bar
  <2>4. data'[Key] = data[Key] \/ (ExpiredAt(data[Key], now) /\ data'[Key] = Absent)
    BY <1>1, <2>1 DEF Maps
  <2>5. liveBar' = liveBar
    BY <1>1, <2>4 DEF liveBar, Live, ExpiredAt
  <2>6. callBar[c].phase = "pending"
    BY <1>2
  <2>. QED  BY <2>3, <2>5, <2>6 DEF Store!Next, Store!Fail
<1>6. CASE ~closed /\ f.ok /\ ~Full(kept, Key)
  <2>1. data' = [kept EXCEPT ![Key] = Entry(f.state, call[c].ttl)] /\ Succeeds(c, f.result)
    BY <1>6 DEF Update
  <2>2. f.state \in Values
    BY <1>1, <1>3, <1>6, FnAssumption DEF Contents
  <2>3. callBar' = [callBar EXCEPT ![c] =
                      [phase |-> "committed", arg |-> call[c].arg, result |-> f.result]]
    BY <2>1, SucceedsFacts, BarStep
  <2>4. callBar' = [callBar EXCEPT ![c].phase = "committed", ![c].result = f.result]
    BY <1>2, <2>3 DEF callBar, Bar
  <2>5. liveBar' = f.state
    <3>1. data'[Key] = Entry(f.state, call[c].ttl)
      BY <1>1, <1>4, <2>1 DEF Maps
    <3>2. Entry(f.state, call[c].ttl) \in Entries
      BY <1>1, <2>2, EntryType
    <3>3. data'[Key] # Absent /\ data'[Key].value = f.state
      BY <3>1, <3>2, AbsentAssumption DEF Entry
    <3>4. data'[Key].expires = IF call[c].ttl > 0 THEN now + call[c].ttl ELSE 0
      BY <3>1 DEF Entry
    <3>5. call[c].ttl \in Nat
      BY <1>1, BackendAssumption
    <3>6. ~ExpiredAt(data'[Key], now)
      BY <1>1, <3>4, <3>5 DEF ExpiredAt
    <3>. QED  BY <1>1, <3>3, <3>6 DEF liveBar, Live
  <2>6. liveBar = Live(Key)
    BY DEF liveBar
  <2>7. callBar[c].phase = "pending" /\ callBar[c].arg = call[c].arg
    BY <1>2
  <2>8. Store!Commit(c)
    BY <1>6, <2>4, <2>5, <2>6, <2>7 DEF Store!Commit
  <2>. QED  BY <2>8 DEF Store!Next
<1>. QED  BY <1>5, <1>6

LEMMA StepRefines ==
  ASSUME TypeOK, TypeOK', Pending, [Next]_vars
  PROVE  [Store!Next]_(Store!vars)
<1> SUFFICES Store!Next \/ UNCHANGED <<liveBar, callBar>>
  BY DEF Store!vars
<1>1. CASE MapStep
  BY <1>1, MapStepRefines
<1>2. ASSUME NEW c \in Callers, CallStep(c)
      PROVE  Store!Next \/ UNCHANGED <<liveBar, callBar>>
  <2>1. CASE call[c].key # Key
    BY <1>2, <2>1, OtherKeyStutters
  <2>2. CASE call[c].key = Key
    BY <1>2, <2>2, CallUpdateRefines, UpdateRefines, ReturnRefines DEF CallStep
  <2>. QED  BY <2>1, <2>2
<1>. QED  BY <1>1, <1>2, Steps

(* For any keys, callers, update function and times to live: whatever      *)
(* expires, is swept, counted or set beside it, and whichever other keys   *)
(* are updated, an Update is an atomic update of what a reader would be    *)
(* given (Update, Get, sweepExpired).                                      *)
THEOREM MemoryImplementsAtomicStore == Spec => ImplementsAtomicStore
<1>1. Init => Store!Init
  <2> SUFFICES ASSUME Init PROVE Store!Init
    OBVIOUS
  <2>1. \A c \in Callers :
          /\ call[c].phase = "idle" /\ call[c].result = NoResult
          /\ call[c].arg \in Args /\ NoBar.arg \in Args
    BY DEF Init, CallTypes, NoBar
  <2>2. \A c \in Callers : Bar(c) \in Store!Calls /\ Bar(c).phase = "idle" /\ Bar(c).result = NoResult
    BY <2>1 DEF Bar, NoBar, Store!Calls, Store!Phases
  <2>3. callBar \in [Callers -> {b \in Store!Calls : b.phase = "idle" /\ b.result = NoResult}]
    BY <2>2 DEF callBar
  <2>4. liveBar = Missing
    BY BackendAssumption DEF Init, liveBar, Live
  <2>. QED  BY <2>3, <2>4 DEF Store!Init
<1>2. Init => Pending
  BY DEF Init, Pending
<1>3. IInv => TypeOK
  BY DEF IInv
<1>4. TypeOK /\ Pending /\ [Next]_vars => Pending'
  BY PendingStep
<1>5. TypeOK /\ TypeOK' /\ Pending /\ [Next]_vars => [Store!Next]_(Store!vars)
  BY StepRefines
<1>. QED
  BY <1>1, <1>2, <1>3, <1>4, <1>5, InvariantHolds, PTL
  DEF Spec, Store!Spec, ImplementsAtomicStore
=============================================================================
