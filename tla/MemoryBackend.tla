---------------------------- MODULE MemoryBackend ----------------------------
(***************************************************************************)
(* The in-memory backend of backend/memory/memory.go.                      *)
(*                                                                         *)
(* Every operation runs under the backend's lock.  An expired entry stays  *)
(* in the map until an operation that reads it, or the collector's sweep,  *)
(* drops it.  The collector takes its time before it takes the lock.       *)
(***************************************************************************)
EXTENDS Updates, Integers, FiniteSets

CONSTANTS
  Keys,
  Key,       \* the one of them whose updates are compared with the promise
  TTLs,      \* the times to live operations are called with, 0 for none
  MaxCount,  \* bound: IncrementAndGet counts up to here
  MaxTime,   \* bound: time stops here
  HasGC,     \* made by NewMemoryBackendWithGC
  Absent     \* no entry in the map

VARIABLES
  now,
  data,      \* the map
  maxSize,   \* 0 for unlimited
  closed,
  gcDone,    \* the channel that stops the collector is closed
  gc,        \* where the collector's goroutine is
  swept,     \* the time its sweep goes by
  call       \* per caller: the Update in progress

vars == <<now, data, maxSize, closed, gcDone, gc, swept, call>>

ASSUME BackendAssumption ==
  /\ IsFiniteSet(Keys) /\ Key \in Keys
  /\ TTLs \subseteq Nat
  /\ MaxCount \in Nat /\ 1 .. MaxCount \subseteq Values
  /\ MaxTime \in Nat \ {0}
  /\ HasGC \in BOOLEAN

Times == 1 .. MaxTime

(* A time of expiry of 0 is Go's zero time: the entry does not expire.     *)
Entries == [value : Values, expires : Nat]

ASSUME AbsentAssumption == Absent \notin Entries

Present == {k \in Keys : data[k] # Absent}

ExpiredAt(e, t) == e # Absent /\ e.expires # 0 /\ e.expires < t

(* What a reader is given.                                                 *)
Live(k) ==
  IF data[k] = Absent \/ ExpiredAt(data[k], now) THEN Missing ELSE data[k].value

Entry(v, ttl) == [value |-> v, expires |-> IF ttl > 0 THEN now + ttl ELSE 0]

(* A new key does not fit; expired entries count.                          *)
Full(d, k) ==
  maxSize > 0 /\ Cardinality({j \in Keys : d[j] # Absent}) >= maxSize /\ d[k] = Absent

Idle == {"idle", "replied", "failed"}

CallTypes ==
  [phase : {"idle", "pending", "committed", "replied", "failed"},
   key : Keys, arg : Args, ttl : TTLs, result : Results \cup {NoResult}]

Init ==
  /\ now = 1
  /\ data = [k \in Keys |-> Absent]
  /\ maxSize = 0
  /\ closed = FALSE
  /\ gcDone = FALSE
  /\ gc = IF HasGC THEN "select" ELSE "none"
  /\ swept = 0
  /\ call \in [Callers -> {c \in CallTypes : c.phase = "idle" /\ c.result = NoResult}]

-----------------------------------------------------------------------------
(* Update is called, and waits for the lock.  A caller keeps to its key.   *)
CallUpdate(c, n, ttl) ==
  /\ call[c].phase \in Idle
  /\ call' = [call EXCEPT ![c].phase = "pending", ![c].arg = n, ![c].ttl = ttl,
                          ![c].result = NoResult]
  /\ UNCHANGED <<now, data, maxSize, closed, gcDone, gc, swept>>

Fails(c) == call' = [call EXCEPT ![c].phase = "failed"]

Succeeds(c, result) ==
  call' = [call EXCEPT ![c].phase = "committed", ![c].result = result]

(* Mutant: an expired entry is handed to the function.                     *)
Update_ReadsExpired(c) ==
  LET k == call[c].key
      f == Fn(IF data[k] = Absent THEN Missing ELSE data[k].value, call[c].arg)
  IN
  /\ call[c].phase = "pending"
  /\ IF closed \/ ~f.ok \/ Full(data, k)
       THEN Fails(c) /\ UNCHANGED data
       ELSE /\ data' = [data EXCEPT ![k] = Entry(f.state, call[c].ttl)]
            /\ Succeeds(c, f.result)
  /\ UNCHANGED <<now, maxSize, closed, gcDone, gc, swept>>

(* Mutant: a new key is written without looking for room.                  *)
Update_NoLimit(c) ==
  LET k == call[c].key
      f == Fn(Live(k), call[c].arg)
  IN
  /\ call[c].phase = "pending"
  /\ IF closed \/ ~f.ok
       THEN Fails(c) /\ UNCHANGED data
       ELSE /\ data' = [data EXCEPT ![k] = Entry(f.state, call[c].ttl)]
            /\ Succeeds(c, f.result)
  /\ UNCHANGED <<now, maxSize, closed, gcDone, gc, swept>>

(* Update under the lock: an expired entry is dropped, the function gets   *)
(* the live state or none, and what it returns is written if there is room. *)
Update(c) ==
  LET k == call[c].key
      kept == IF ExpiredAt(data[k], now) THEN [data EXCEPT ![k] = Absent] ELSE data
      f == Fn(Live(k), call[c].arg)
  IN
  /\ call[c].phase = "pending"
  /\ IF closed
       THEN Fails(c) /\ UNCHANGED data
       ELSE IF ~f.ok \/ Full(kept, k)
         THEN Fails(c) /\ data' = kept
         ELSE /\ data' = [kept EXCEPT ![k] = Entry(f.state, call[c].ttl)]
              /\ Succeeds(c, f.result)
  /\ UNCHANGED <<now, maxSize, closed, gcDone, gc, swept>>

(* The lock is given up and the result returned.                           *)
Return(c) ==
  /\ call[c].phase = "committed"
  /\ call' = [call EXCEPT ![c].phase = "replied"]
  /\ UNCHANGED <<now, data, maxSize, closed, gcDone, gc, swept>>

-----------------------------------------------------------------------------
Get(k) ==
  /\ ~closed
  /\ ExpiredAt(data[k], now)
  /\ data' = [data EXCEPT ![k] = Absent]
  /\ UNCHANGED <<now, maxSize, closed, gcDone, gc, swept, call>>

Set(k, v, ttl) ==
  /\ ~closed
  /\ ~Full(data, k)
  /\ data' = [data EXCEPT ![k] = Entry(v, ttl)]
  /\ UNCHANGED <<now, maxSize, closed, gcDone, gc, swept, call>>

(* A live entry that is not a counter counts from 0 too.                   *)
Count(k) == IF Live(k) \in 1 .. MaxCount THEN Live(k) ELSE 0

IncrementAndGet(k, ttl) ==
  /\ ~closed
  /\ Count(k) < MaxCount
  /\ ~Full(data, k)
  /\ data' = [data EXCEPT ![k] = Entry(Count(k) + 1, ttl)]
  /\ UNCHANGED <<now, maxSize, closed, gcDone, gc, swept, call>>

Delete(k) ==
  /\ ~closed
  /\ data' = [data EXCEPT ![k] = Absent]
  /\ UNCHANGED <<now, maxSize, closed, gcDone, gc, swept, call>>

Clear ==
  /\ ~closed
  /\ data' = [k \in Keys |-> Absent]
  /\ UNCHANGED <<now, maxSize, closed, gcDone, gc, swept, call>>

SetMaxSize(size) ==
  /\ ~closed
  /\ size = 0 \/ Cardinality(Present) <= size
  /\ maxSize' = size
  /\ UNCHANGED <<now, data, closed, gcDone, gc, swept, call>>

(* Mutant: the test for an earlier Close is inverted.                      *)
Close_Again ==
  /\ closed' = TRUE
  /\ gcDone' = (HasGC /\ (gcDone \/ closed))
  /\ data' = [k \in Keys |-> Absent]
  /\ UNCHANGED <<now, maxSize, gc, swept, call>>

(* Close may be called again; the collector's channel is closed once.      *)
Close ==
  /\ closed' = TRUE
  /\ gcDone' = HasGC
  /\ data' = [k \in Keys |-> Absent]
  /\ UNCHANGED <<now, maxSize, gc, swept, call>>

-----------------------------------------------------------------------------
(* Mutant: the time is taken once, when the goroutine starts.              *)
SweepBegins_Once ==
  /\ gc = "select"
  /\ gc' = "sweep"
  /\ swept' = IF swept = 0 THEN now ELSE swept
  /\ UNCHANGED <<now, data, maxSize, closed, gcDone, call>>

(* The ticker fires: the sweep's time is taken, before the lock is.        *)
SweepBegins ==
  /\ gc = "select"
  /\ gc' = "sweep"
  /\ swept' = now
  /\ UNCHANGED <<now, data, maxSize, closed, gcDone, call>>

(* Mutant: the zero time is taken for a time.                              *)
SweepExpired_ZeroTime ==
  /\ gc = "sweep"
  /\ gc' = "select"
  /\ data' = [k \in Keys |->
       IF data[k] # Absent /\ data[k].expires < swept THEN Absent ELSE data[k]]
  /\ UNCHANGED <<now, maxSize, closed, gcDone, swept, call>>

(* The sweep itself, under the lock, also after a Close.                   *)
SweepExpired ==
  /\ gc = "sweep"
  /\ gc' = "select"
  /\ data' = [k \in Keys |-> IF ExpiredAt(data[k], swept) THEN Absent ELSE data[k]]
  /\ UNCHANGED <<now, maxSize, closed, gcDone, swept, call>>

(* The select takes the closed channel.                                    *)
StopGC ==
  /\ gc = "select"
  /\ gcDone
  /\ gc' = "stopped"
  /\ UNCHANGED <<now, data, maxSize, closed, gcDone, swept, call>>

Tick ==
  /\ now < MaxTime
  /\ now' = now + 1
  /\ UNCHANGED <<data, maxSize, closed, gcDone, gc, swept, call>>
-----------------------------------------------------------------------------
Next ==
  \/ \E c \in Callers :
       \/ \E n \in Args, ttl \in TTLs : CallUpdate(c, n, ttl)
       \/ Update(c) \/ Return(c)
  \/ \E k \in Keys :
       \/ Get(k) \/ Delete(k)
       \/ \E ttl \in TTLs : IncrementAndGet(k, ttl) \/ \E v \in Values : Set(k, v, ttl)
  \/ \E size \in 0 .. Cardinality(Keys) : SetMaxSize(size)
  \/ Clear \/ Close
  \/ SweepBegins \/ SweepExpired \/ StopGC
  \/ Tick

Spec == Init /\ [][Next]_vars

(* The ticker goes on ticking, the goroutine runs and gets the lock; a     *)
(* select that may again and again take the closed channel takes it.       *)
FairSpec == Spec /\ WF_vars(SweepBegins) /\ WF_vars(SweepExpired) /\ SF_vars(StopGC)

-----------------------------------------------------------------------------
(* The types of the state; the collector's channel is closed only with the *)
(* backend.                                                                *)
TypeOK ==
  /\ now \in Times
  /\ data \in [Keys -> Entries \cup {Absent}]
  /\ maxSize \in 0 .. Cardinality(Keys)
  /\ closed \in BOOLEAN
  /\ gcDone \in BOOLEAN
  /\ gc \in {"none", "select", "sweep", "stopped"}
  /\ swept \in 0 .. MaxTime
  /\ call \in [Callers -> CallTypes]
  /\ gcDone = (closed /\ HasGC)

(* No operation, in any order with changes of the limit, with expired and  *)
(* dropped entries, takes the map over the limit, and none that has waited *)
(* for the lock while Close held it fills the map again (Set, Update and   *)
(* IncrementAndGet against SetMaxSize and Close).                          *)
SizeBounded ==
  /\ maxSize > 0 => Cardinality(Present) <= maxSize
  /\ closed => Present = {}

(* The collector never takes a live entry away, however late it gets the   *)
(* lock after having looked at the clock, and whatever was written to the  *)
(* key in between (sweepExpired).                                          *)
SweepUnobservable ==
  [][SweepExpired => \A k \in Keys : Live(k)' = Live(k)]_vars

(* The calls of Update on Key, as the caller of an AtomicBackend sees      *)
(* them: a call on another key is none.                                    *)
NoBar == [phase |-> "idle", arg |-> CHOOSE n \in Args : TRUE, result |-> NoResult]

Bar(c) ==
  IF call[c].key = Key
    THEN [phase |-> call[c].phase, arg |-> call[c].arg, result |-> call[c].result]
    ELSE NoBar

callBar == [c \in Callers |-> Bar(c)]

liveBar == Live(Key)

Store == INSTANCE AtomicStore WITH
  store <- liveBar, call <- callBar, Resends <- FALSE

(* On any key a memory update is an atomic update of what a reader would   *)
(* be given: an expired entry is no state, whether it has been dropped or  *)
(* not, and what an update has written is live (Update, Get, sweepExpired). *)
ImplementsAtomicStore == Store!Spec

(* An entry that has expired is not kept: the collector reclaims it even   *)
(* if nobody ever reads the key again (runGC, sweepExpired).               *)
ExpiredReclaimed ==
  \A k \in Keys : ExpiredAt(data[k], now) ~> ~ExpiredAt(data[k], now)

(* After a Close the collector's goroutine ends (Close, runGC's select).   *)
CollectorStops == closed ~> gc # "select" /\ gc # "sweep"
=============================================================================
