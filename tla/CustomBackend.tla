---------------------------- MODULE CustomBackend ----------------------------
(***************************************************************************)
(* The custom backend of backend/custom/custom.go on one key, and the two  *)
(* ways in which backend.AtomicUpdate updates a key: with the backend's    *)
(* own Update, in one section under its lock, or, of a backend that has no *)
(* Update, with a Get, the function and a Set, between which anything may  *)
(* happen.  A user's backend that wraps this one may hide its Update.      *)
(*                                                                         *)
(* An expired entry stays in the map: Get gives an error for it, Update    *)
(* drops it.  A number, and what has been imported, is of a foreign type,   *)
(* for which the algorithm returns an error.                               *)
(***************************************************************************)
EXTENDS CounterLimiter, Integers

CONSTANTS
  TTLs,      \* the times to live that operations are called with, 0 for none
  MaxTime,   \* bound: time stops here
  Absent     \* no entry in the map

VARIABLES
  now,
  native,    \* the backend implements AtomicBackend
  entry,     \* the key's entry in the map
  closed,
  call,      \* per caller: its AtomicUpdate
  outdated,  \* history: those whose Get a later write has overtaken
  lost       \* history: such a one has written, since the key was started

histories == <<outdated, lost>>
backendVars == <<now, native, entry, closed, call, histories>>

ASSUME CustomAssumption ==
  /\ 0 \in TTLs /\ TTLs \subseteq Nat
  /\ Missing \notin Callers
  /\ MaxTime \in Nat \ {0}

Times == 1 .. MaxTime

(* A time of expiry of 0 stands for hasExpiry being false.                 *)
Entries == [value : Values, expires : Nat]

ASSUME AbsentAssumption == Absent \notin Entries

ExpiredAt(e, t) == e # Absent /\ e.expires # 0 /\ e.expires < t

Expired == ExpiredAt(entry, now)

(* What an Update works on.                                                *)
Live == IF entry = Absent \/ Expired THEN Missing ELSE entry.value

Entry(v, ttl) == [value |-> v, expires |-> IF ttl > 0 THEN now + ttl ELSE 0]

Idle == {"idle", "replied", "failed"}

(* In "write" the function has been applied and the Set is to come.        *)
CallTypes ==
  [phase : Idle \cup {"pending", "write", "committed"},
   arg : Args, ttl : TTLs, read : Contents, result : Results \cup {NoResult}]

NoCall ==
  [phase |-> "idle", arg |-> CHOOSE n \in Args : TRUE, ttl |-> 0,
   read |-> Missing, result |-> NoResult]

BackendInit ==
  /\ now = 1
  /\ native \in BOOLEAN
  /\ entry = Absent
  /\ closed = FALSE
  /\ call = [c \in Callers |-> NoCall]
  /\ outdated = {}
  /\ lost = FALSE

-----------------------------------------------------------------------------
(* History: a write by c, or by none, overtakes the calls that have read.  *)
Overtakes(c) ==
  outdated' = (outdated \cup {d \in Callers : call[d].phase = "write"}) \ {c}

(* History: nothing of what the key was charged counts any more.           *)
StartsOver ==
  /\ Overtakes(Missing)
  /\ lost' = FALSE

Fails(c) == call' = [call EXCEPT ![c].phase = "failed", ![c].read = Missing]

Succeeds(c, result) ==
  call' = [call EXCEPT ![c].phase = "committed", ![c].read = Missing, ![c].result = result]

(* AtomicUpdate is called.                                                 *)
AtomicUpdate(c, n, ttl) ==
  call' = [call EXCEPT ![c] =
    [phase |-> "pending", arg |-> n, ttl |-> ttl, read |-> Missing, result |-> NoResult]]

(* Mutant: an expired entry is handed to the function.                     *)
Update_ReadsExpired(c) ==
  LET f == Fn(IF entry = Absent THEN Missing ELSE entry.value, call[c].arg) IN
  /\ native
  /\ call[c].phase = "pending"
  /\ IF closed \/ ~f.ok
       THEN Fails(c) /\ UNCHANGED entry
       ELSE entry' = Entry(f.state, call[c].ttl) /\ Succeeds(c, f.result)
  /\ UNCHANGED <<now, native, closed, histories>>

(* Update, under the lock: an expired entry is dropped, also if the        *)
(* function fails then.                                                    *)
Update(c) ==
  LET f == Fn(Live, call[c].arg) IN
  /\ native
  /\ call[c].phase = "pending"
  /\ IF closed \/ ~f.ok
       THEN Fails(c) /\ entry' = IF Expired THEN Absent ELSE entry
       ELSE entry' = Entry(f.state, call[c].ttl) /\ Succeeds(c, f.result)
  /\ UNCHANGED <<now, native, closed, histories>>

(* The fallback's Get and function.  A missing key is no error, an expired *)
(* one is.                                                                 *)
GetThenFn(c) ==
  LET f == Fn(Live, call[c].arg) IN
  /\ ~native
  /\ call[c].phase = "pending"
  /\ IF closed \/ Expired \/ ~f.ok
       THEN Fails(c)
       ELSE call' = [call EXCEPT ![c].phase = "write", ![c].read = Live]
  /\ UNCHANGED <<now, native, entry, closed, histories>>

(* Mutant: the Set does not look at closed.                                *)
ThenSet_AfterClose(c) ==
  LET f == Fn(call[c].read, call[c].arg)
      late == c \in outdated
  IN
  /\ call[c].phase = "write"
  /\ entry' = Entry(f.state, call[c].ttl)
  /\ Succeeds(c, f.result)
  /\ Overtakes(c)
  /\ lost' = (late \/ (lost /\ call[c].read # Missing))
  /\ UNCHANGED <<now, native, closed>>

(* The fallback's Set of what the function made of what had been read.     *)
ThenSet(c) ==
  LET f == Fn(call[c].read, call[c].arg)
      late == c \in outdated
  IN
  /\ call[c].phase = "write"
  /\ IF closed
       THEN Fails(c) /\ outdated' = outdated \ {c} /\ UNCHANGED <<entry, lost>>
       ELSE /\ entry' = Entry(f.state, call[c].ttl)
            /\ Succeeds(c, f.result)
            /\ Overtakes(c)
            /\ lost' = (late \/ (lost /\ call[c].read # Missing))
  /\ UNCHANGED <<now, native, closed>>

(* The result is returned.                                                 *)
Return(c) ==
  /\ call[c].phase = "committed"
  /\ call' = [call EXCEPT ![c].phase = "replied"]

-----------------------------------------------------------------------------
(* A live value that is no number counts from 0; with a time to live of 0  *)
(* a live entry keeps its time of expiry.                                  *)
IncrementAndGet(ttl) ==
  /\ ~closed
  /\ entry' = IF Live = Missing \/ ttl > 0 THEN Entry(Foreign, ttl)
              ELSE [entry EXCEPT !.value = Foreign]
  /\ Overtakes(Missing)
  /\ UNCHANGED <<now, native, closed, call, lost>>

Delete ==
  /\ ~closed
  /\ entry' = Absent
  /\ StartsOver
  /\ UNCHANGED <<now, native, closed, call>>

(* Execute("clear") drops every entry, Execute("cleanup") the expired.     *)
Clear == Delete

(* Mutant: entries are dropped without a look at their time of expiry.     *)
Cleanup_Everything ==
  /\ ~closed
  /\ entry' = Absent
  /\ Overtakes(Missing)
  /\ UNCHANGED <<now, native, closed, call, lost>>

Cleanup ==
  /\ ~closed
  /\ Expired
  /\ entry' = Absent
  /\ Overtakes(Missing)
  /\ UNCHANGED <<now, native, closed, call, lost>>

(* Execute("import") of a file with the key, exported or not: the value is *)
(* what JSON makes of a state, and does not expire.                        *)
Import ==
  /\ ~closed
  /\ entry' = Entry(Foreign, 0)
  /\ Overtakes(Missing)
  /\ UNCHANGED <<now, native, closed, call, lost>>

Close ==
  /\ closed' = TRUE
  /\ entry' = Absent

Tick ==
  /\ now < MaxTime
  /\ now' = now + 1
  /\ UNCHANGED <<native, entry, closed, call, histories>>

-----------------------------------------------------------------------------
(* The calls of a backend that implements AtomicBackend, as their callers  *)
(* see them; those of another are none.                                    *)
Bar(c) ==
  LET l == IF native THEN call[c] ELSE NoCall
  IN [phase |-> l.phase, arg |-> l.arg, result |-> l.result]

callBar == [c \in Callers |-> Bar(c)]

liveBar == IF native THEN Live ELSE Missing

Store == INSTANCE AtomicStore WITH
  store <- liveBar, call <- callBar, Resends <- FALSE

(* The backend's own Update is an atomic update of what its readers are    *)
(* given, whatever expires, is imported, counted or cleaned up in between  *)
(* (Update, Execute).                                                      *)
ImplementsAtomicStore == Store!Spec
=============================================================================
