---------------------------- MODULE FlowStoreTypes ----------------------------
(* The inductive invariant of FlowStore, and the proof that every step of every
   goroutine keeps the types; used by FlowStoreProofs. *)
EXTENDS FlowStore, SequenceTheorems, TLAPS

-----------------------------------------------------------------------------
(* Facts about the insertion-order list *)

\* container/list Remove: the i-th element leaves, later ones move one place up.
LEMMA ListRemoveIs ==
  ASSUME NEW S, NEW s \in Seq(S), NEW i \in 1..Len(s)
  PROVE  /\ ListRemove(s, i) \in Seq(S)
         /\ Len(ListRemove(s, i)) = Len(s) - 1
         /\ \A j \in 1..Len(s) - 1 : ListRemove(s, i)[j] = IF j < i THEN s[j] ELSE s[j + 1]
<1> DEFINE a == SubSeq(s, 1, i - 1)
           b == SubSeq(s, i + 1, Len(s))
<1>1. Len(s) \in Nat
  BY LenProperties
<1>2. /\ a \in Seq(S) /\ Len(a) = i - 1
      /\ \A j \in 1..i - 1 : a[j] = s[j]
  BY <1>1, ElementOfSeq, SMT
<1>3. /\ b \in Seq(S) /\ Len(b) = Len(s) - i
      /\ \A j \in 1..Len(s) - i : b[j] = s[i + j]
  BY <1>1, ElementOfSeq, SMT
<1>4. /\ a \o b \in Seq(S) /\ Len(a \o b) = Len(s) - 1
      /\ \A j \in 1..Len(s) - 1 : (a \o b)[j] = IF j <= Len(a) THEN a[j] ELSE b[j - Len(a)]
  <2> HIDE DEF a, b
  <2>1. /\ a \o b \in Seq(S) /\ Len(a \o b) = Len(a) + Len(b)
        /\ \A j \in 1..Len(a) + Len(b) : (a \o b)[j] = IF j <= Len(a) THEN a[j] ELSE b[j - Len(a)]
    BY <1>2, <1>3, ConcatProperties
  <2> QED
    BY <1>1, <1>2, <1>3, <2>1
<1>5. ListRemove(s, i) = a \o b
  BY DEF ListRemove
<1>6. \A j \in 1..Len(s) - 1 : (a \o b)[j] = IF j < i THEN s[j] ELSE s[j + 1]
  <2> HIDE DEF a, b
  <2> TAKE j \in 1..Len(s) - 1
  <2>1. CASE j < i
    BY <1>1, <1>2, <1>4, <2>1
  <2>2. CASE ~(j < i)
    <3>1. j - Len(a) \in 1..Len(s) - i /\ i + (j - Len(a)) = j + 1 /\ ~(j <= Len(a))
      BY <1>1, <1>2, <2>2
    <3>2. (a \o b)[j] = b[j - Len(a)]
      BY <1>4, <3>1
    <3>3. b[j - Len(a)] = s[i + (j - Len(a))]
      BY <1>3, <3>1
    <3> QED
      BY <2>2, <3>1, <3>2, <3>3
  <2> QED
    BY ZenonT(30), <2>1, <2>2
<1> QED
  <2> HIDE DEF a, b
  <2> QED
    BY <1>4, <1>5, <1>6
\* Removing the node of k from a list that holds each key of entries once: the
\* result holds the other keys once, and the last one is still last.
LEMMA UnlinkIs ==
  ASSUME order \in Seq(Keys), OrderMatchesEntries, NEW k
  PROVE  /\ Unlink(k) \in Seq(Keys)
         /\ Range(Unlink(k)) = entries \ {k}
         /\ \A i, j \in DOMAIN Unlink(k) : Unlink(k)[i] = Unlink(k)[j] => i = j
         /\ order # <<>> /\ Back(order) # k => Unlink(k) # <<>> /\ Back(Unlink(k)) = Back(order)
<1>1. Len(order) \in Nat /\ DOMAIN order = 1..Len(order)
  BY LenProperties
<1>2. CASE k \notin Range(order)
  BY <1>2 DEF Unlink, Range, OrderMatchesEntries
<1>3. CASE k \in Range(order)
  <2> DEFINE i == CHOOSE n \in DOMAIN order : order[n] = k
  <2>1. i \in 1..Len(order) /\ order[i] = k /\ Unlink(k) = ListRemove(order, i)
    BY <1>1, <1>3 DEF Unlink, Range
  <2> HIDE DEF i
  <2> DEFINE u == Unlink(k)
  <2>2. /\ u \in Seq(Keys) /\ Len(u) = Len(order) - 1
        /\ \A n \in 1..Len(order) - 1 : u[n] = IF n < i THEN order[n] ELSE order[n + 1]
    BY ZenonT(30), <2>1, ListRemoveIs
  <2>3. DOMAIN u = 1..Len(order) - 1
    BY <2>2, LenProperties
  <2> HIDE DEF u
  <2>4. \A n \in 1..Len(order) : order[n] = k => n = i
    BY <1>1, <2>1 DEF OrderMatchesEntries
  <2>5. \A m, n \in DOMAIN u : u[m] = u[n] => m = n
    <3> SUFFICES ASSUME NEW m \in DOMAIN u, NEW n \in DOMAIN u, u[m] = u[n] PROVE m = n
      OBVIOUS
    <3> DEFINE mm == IF m < i THEN m ELSE m + 1
               nn == IF n < i THEN n ELSE n + 1
    <3>1. mm \in DOMAIN order /\ nn \in DOMAIN order /\ order[mm] = order[nn]
      BY <1>1, <2>1, <2>2, <2>3
    <3>2. mm = nn
      BY <3>1 DEF OrderMatchesEntries
    <3> QED
      BY <1>1, <2>1, <2>3, <3>2
  <2>6. Range(u) \subseteq entries \ {k}
    <3> SUFFICES ASSUME NEW n \in DOMAIN u PROVE u[n] \in entries \ {k}
      BY DEF Range
    <3> DEFINE nn == IF n < i THEN n ELSE n + 1
    <3>1. nn \in 1..Len(order) /\ nn # i /\ u[n] = order[nn]
      BY <1>1, <2>1, <2>2, <2>3
    <3> HIDE DEF nn
    <3> QED
      BY <1>1, <2>4, <3>1 DEF Range, OrderMatchesEntries
  <2>7. entries \ {k} \subseteq Range(u)
    <3> SUFFICES ASSUME NEW x \in entries \ {k} PROVE \E n \in DOMAIN u : u[n] = x
      BY DEF Range
    <3>1. PICK m \in 1..Len(order) : order[m] = x
      BY <1>1 DEF Range, OrderMatchesEntries
    <3>2. m # i
      BY <2>1, <3>1
    <3> DEFINE n == IF m < i THEN m ELSE m - 1
    <3>3. n \in DOMAIN u /\ u[n] = order[m]
      BY <1>1, <2>1, <2>2, <2>3, <3>2
    <3> QED
      BY <3>1, <3>3
  <2>8. ASSUME Back(order) # k PROVE u # <<>> /\ Back(u) = Back(order)
    <3>1. i < Len(order) /\ Len(order) - 1 \in 1..Len(order) - 1
      BY <1>1, <2>1, <2>8 DEF Back
    <3>2. u[Len(order) - 1] = order[Len(order)] /\ u # <<>>
      BY <1>1, <2>1, <2>2, <3>1
    <3> QED
      BY <2>2, <3>2 DEF Back
  <2> QED
    BY <2>2, <2>5, <2>6, <2>7, <2>8 DEF u
<1> QED
  BY <1>2, <1>3
-----------------------------------------------------------------------------
(* The inductive invariant *)

\* A goroutine is inside a multi-step critical section iff it holds mu.
LockInv == \A p \in Procs : pc[p] \in {"scan", "evict", "flush"} <=> mu = p

\* A sweep points at a list position, and a goroutine fires only if it has events.
LocalInv ==
  \A p \in Procs : /\ pc[p] = "scan" => cursor[p] >= 1
                   /\ pc[p] = "fire" => events[p] # <<>>

\* Types, control and contents together: each is needed to preserve another.
\* Types need the list to match the map (a removed node exists), the list needs
\* the lock (one goroutine at a time changes it), the size limit needs the new
\* entry to be the last one and the map to have as many keys as the list.
IInv ==
  /\ TypeOK /\ LockInv /\ LocalInv
  /\ OrderMatchesEntries /\ NewEntrySurvives /\ SizeBounded

\* What the options of NewStore may be: durations and a limit that are not negative.
LEMMA Bounds == DefaultTTL \in Nat /\ TTLs \subseteq Nat \ {0} /\ MaxSize \in Nat
BY StoreAssumption

\* The zero value is a value; "no value" and "no goroutine" are none.
LEMMA Names == ZeroValue \in Values /\ NoValue \notin Values /\ NoProc \notin Procs /\ Ops \subseteq OpNames
BY StoreAssumption

\* The key that fills requests without one (Range, Start, Stop) is a key.
LEMMA AnyKeyType == AnyKey \in Keys
BY StoreAssumption DEF AnyKey

\* The request of an idle goroutine is a request.
LEMMA NoCallType == NoCall \in Requests
BY AnyKeyType, StoreAssumption DEF NoCall, Options, Requests

\* What a write stores is a value, hook or no hook.
LEMMA WrittenType ==
  ASSUME TypeOK, NEW p \in Procs, NEW old \in Values, NEW e \in BOOLEAN
  PROVE  Written(p, old, e) \in Values /\ Mutated(Written(p, old, e)) \subseteq Values
<1>1. call[p].val \in Values
  BY DEF TypeOK, Requests
<1>2. /\ AddTo(old, call[p].val, e) \in Values
      /\ SetTo(old, call[p].val, e) \in Values
  BY <1>1, StoreAssumption, Zenon
<1> QED
  BY <1>2 DEF Written, Mutated

\* Deadlines are times.
LEMMA DeadlineType ==
  ASSUME NEW now \in Nat, NEW o \in Options, NEW ans \in ExpireAnswers
  PROVE  /\ expiresAtFor(now, o, TRUE) \in Nat /\ expiresAtFor(now, o, FALSE) \in Nat
         /\ ExtendedUntil(now, ans) \in Nat
<1>1. o \in Int
  BY Bounds DEF Options, Unset
<1>2. expiresAtFor(now, o, TRUE) \in Nat /\ expiresAtFor(now, o, FALSE) \in Nat
  BY <1>1, Bounds DEF expiresAtFor
<1>3. ans \in Int
  BY Bounds DEF ExpireAnswers, NotExtended
<1>4. ExtendedUntil(now, ans) \in Nat
  BY <1>3, Bounds DEF ExtendedUntil
<1> QED
  BY <1>2, <1>4, Zenon

\* hookEvent builds events.
LEMMA EventType ==
  ASSUME NEW kind \in EventKinds, NEW k \in Keys, NEW v \in Values
  PROVE  hookEvent(kind, k, v) \in Event
BY DEF hookEvent, Event

\* The key a step removes is a key, and the list without it is a list of keys.
LEMMA RemovalType ==
  ASSUME IInv, NEW k \in Keys, NEW kind \in EventKinds
  PROVE  /\ Unlink(k) \in Seq(Keys)
         /\ Append(Unlink(k), k) \in Seq(Keys)
         /\ hookEvent(kind, k, value[k]) \in Event
<1>1. order \in Seq(Keys) /\ value[k] \in Values
  BY DEF IInv, TypeOK
<1>2. Unlink(k) \in Seq(Keys)
  BY <1>1, UnlinkIs DEF IInv
<1> QED
  BY <1>1, <1>2, EventType, AppendProperties

\* A request names a key, and positions of the list hold keys.
LEMMA KeyTypes ==
  ASSUME IInv, NEW p \in Procs
  PROVE  /\ call[p] \in Requests /\ call[p].key \in Keys /\ call[p].now \in Nat /\ call[p].opt \in Options
         /\ Scanning(p) => order[cursor[p]] \in Keys
         /\ order # <<>> => OldestEntry \in Keys
<1>1. call[p] \in Requests /\ call[p].key \in Keys /\ call[p].now \in Nat /\ call[p].opt \in Options
  BY DEF IInv, TypeOK, Requests
<1>2. order \in Seq(Keys) /\ cursor[p] \in Nat /\ Len(order) \in Nat
  BY LenProperties DEF IInv, TypeOK
<1>3. Scanning(p) => order[cursor[p]] \in Keys
  BY <1>2, ElementOfSeq DEF Scanning, IInv, LocalInv
<1>4. order # <<>> => OldestEntry \in Keys
  BY <1>2, HeadTailProperties DEF OldestEntry
<1> QED
  BY <1>1, <1>3, <1>4
\* The parts of the type invariant that the common helpers touch.
StoreTypes ==
  /\ entries \subseteq Keys /\ value \in [Keys -> Values]
  /\ expiresAt \in [Keys -> Nat] /\ order \in Seq(Keys)

ControlTypes == pc \in [Procs -> Controls] /\ call \in [Procs -> Requests] /\ events \in [Procs -> Seq(Event)]

RestTypes ==
  /\ clock \in Nat \ {0} /\ mu \in Procs \cup {NoProc}
  /\ cursor \in [Procs -> Nat] /\ ret \in [Procs -> Values \cup {NoValue}]
  /\ notify \in BOOLEAN
  /\ stopSweeper \in Sweepers \cup {NoProc}
  /\ sweeper \in [Sweepers -> {"off", "running", "stopping"}]
  /\ net \in [Keys -> Int]

CoreTypes == StoreTypes /\ ControlTypes /\ RestTypes

\* The three parts, and the history of changes, are the type invariant.
LEMMA TypeParts == TypeOK <=> CoreTypes /\ unsent \in BOOLEAN
BY Zenon DEF TypeOK, CoreTypes, StoreTypes, ControlTypes, RestTypes

\* The history of changes keeps its type.
LEMMA HistoryType ==
  ASSUME TypeOK, [Next]_vars
  PROVE  unsent' \in BOOLEAN
<1>1. unsent \in BOOLEAN
  BY DEF TypeOK
<1>2. CASE TrackChange
  BY <1>2, Zenon DEF TrackChange
<1>3. CASE UNCHANGED unsent
  BY <1>1, <1>3
<1>4. CASE Receive
  BY <1>4, Zenon DEF Receive
<1>5. TrackChange \/ UNCHANGED unsent \/ Receive
  BY Zenon DEF Next, Enter, Continue, Call, SweepTick, SweepExit, Tick, vars
<1> QED
  BY <1>2, <1>3, <1>4, <1>5

\* What a lookup returns is a value or none.
LEMMA ReturnsType ==
  ASSUME TypeOK, NEW p \in Procs, NEW v \in Values, Returns(p, v)
  PROVE  ret' \in [Procs -> Values \cup {NoValue}]
<1>1. call[p].val \in Values
  BY DEF TypeOK, Requests
<1>2. CopyTo(call[p].val, v) \in Values
  BY <1>1, StoreAssumption, Zenon
<1> QED
  BY <1>2 DEF Returns, TypeOK

\* deleteLocked keeps the types of the store.
LEMMA DeleteType ==
  ASSUME IInv, NEW k \in Keys, deleteLocked(k)
  PROVE  StoreTypes'
<1>1. Unlink(k) \in Seq(Keys)
  BY UnlinkIs DEF IInv, TypeOK
<1> QED
  BY <1>1, Names DEF IInv, TypeOK, deleteLocked, StoreTypes

\* Recording a removal and leaving the lock keep the types of the control state.
LEMMA RecordType ==
  ASSUME IInv, NEW p \in Procs, NEW k \in Keys, NEW kind \in EventKinds, recordDelete(p, kind, k)
  PROVE  events' \in [Procs -> Seq(Event)]
<1>1. hookEvent(kind, k, value[k]) \in Event
  BY RemovalType
<1>2. Append(events[p], hookEvent(kind, k, value[k])) \in Seq(Event)
  BY <1>1, AppendProperties DEF IInv, TypeOK
<1> QED
  BY <1>2 DEF IInv, TypeOK, recordDelete

\* Unlocking and handing the queued events to fireHooks keeps the control types.
LEMMA UnlockType ==
  ASSUME IInv, NEW p \in Procs, NEW evs \in Seq(Event), UnlockAndFire(p, evs)
  PROVE  ControlTypes'
BY NoCallType DEF IInv, TypeOK, UnlockAndFire, ControlTypes, Controls

\* Sequences of no and of one event.
LEMMA EventSeqs == <<>> \in Seq(Event) /\ \A e \in Event : <<e>> \in Seq(Event)
OBVIOUS

\* Every step of every goroutine keeps the types.
LEMMA TypeStep ==
  ASSUME IInv, [Next]_vars
  PROVE  TypeOK'
<1> USE DEF storeVars, sweeping
<1>0. StoreTypes /\ ControlTypes /\ RestTypes
  BY TypeParts DEF IInv, CoreTypes
<1>1. ASSUME NEW p \in Procs, NEW ans \in ExpireAnswers, Update(p, ans) PROVE CoreTypes'
  <2>1. call[p].key \in Keys /\ call[p].now \in Nat /\ call[p].opt \in Options
    BY KeyTypes
  <2>2. UpdatedDeadline(p, ans) \in Nat
    <3>1. expiresAtFor(call[p].now, call[p].opt, TRUE) \in Nat /\ ExtendedUntil(call[p].now, ans) \in Nat
      BY <2>1, DeadlineType, Zenon
    <3>2. expiresAt[call[p].key] \in Nat /\ call[p].now + DefaultTTL \in Nat
      BY <1>0, <2>1, Bounds DEF StoreTypes
    <3> QED
      BY ZenonT(30), <3>1, <3>2 DEF UpdatedDeadline
  <2>3. \/ UnlockAndFire(p, <<>>) /\ value' = value
        \/ \E v \in Values : /\ value' = [value EXCEPT ![call[p].key] = v]
                            /\ UnlockAndFire(p, <<hookEvent("update", call[p].key, v)>>)
    <3>1. Mutated(Written(p, value[call[p].key], TRUE)) \subseteq Values
      BY ZenonT(30), <1>0, <2>1, WrittenType DEF IInv, StoreTypes
    <3> QED
      BY ZenonT(30), <1>1, <3>1 DEF Update
  <2>4. StoreTypes'
    BY ZenonT(30), <1>0, <1>1, <2>1, <2>2, <2>3 DEF Update, StoreTypes
  <2>5. ControlTypes'
    <3>1. \A v \in Values : <<hookEvent("update", call[p].key, v)>> \in Seq(Event)
      BY <2>1, EventType DEF EventKinds
    <3>2. <<>> \in Seq(Event)
      OBVIOUS
    <3> QED
      BY ZenonT(30), <2>3, <3>1, <3>2, UnlockType
  <2>6. RestTypes'
    BY ZenonT(30), <1>0, <1>1 DEF Update, notifyChangeLocked, RestTypes
  <2> QED
    BY <2>4, <2>5, <2>6 DEF CoreTypes
<1>2. ASSUME NEW p \in Procs, InsertFails(p) PROVE CoreTypes'
  <2>1. call[p].key \in Keys
    BY KeyTypes
  <2>2. DropEvents(p) \in Seq(Event)
    BY <2>1, RemovalType DEF DropEvents, EventKinds
  <2>3. deleteLocked(call[p].key) /\ UnlockAndFire(p, DropEvents(p))
    BY <1>2 DEF InsertFails
  <2>4. StoreTypes'
    BY <2>1, <2>3, DeleteType
  <2>5. ControlTypes'
    BY <2>2, <2>3, UnlockType
  <2>6. RestTypes'
    BY <1>2, <1>0 DEF InsertFails, RestTypes
  <2> QED
    BY <2>4, <2>5, <2>6 DEF CoreTypes
<1>3. ASSUME NEW p \in Procs, Insert(p) PROVE CoreTypes'
  <2>1. call[p].key \in Keys
    BY KeyTypes
  <2>2. DropEvents(p) \in Seq(Event)
    BY <2>1, RemovalType DEF DropEvents, EventKinds
  <2>3. Written(p, ZeroValue, FALSE) \in Values /\ Mutated(Written(p, ZeroValue, FALSE)) \subseteq Values
    BY ZenonT(30), WrittenType, Names DEF IInv
  <2>4. expiresAtFor(call[p].now, call[p].opt, FALSE) \in Nat
    BY ZenonT(30), KeyTypes, DeadlineType DEF ExpireAnswers
  <2>5. Append(Unlink(call[p].key), call[p].key) \in Seq(Keys)
    BY <2>1, RemovalType DEF EventKinds
  <2>6. value' \in [Keys -> Values]
    BY ZenonT(30), <1>3, <1>0, <2>1, <2>3 DEF Insert, StoreTypes
  <2>7. call' \in [Procs -> Requests]
    BY ZenonT(30), <1>3, <1>0, <2>3 DEF Insert, ControlTypes, Requests
  <2>8. StoreTypes'
    BY ZenonT(30), <1>3, <1>0, <2>1, <2>4, <2>5, <2>6 DEF Insert, StoreTypes
  <2>9. ControlTypes'
    BY <1>3, <1>0, <2>2, <2>7 DEF Insert, ControlTypes, Controls
  <2>10. RestTypes'
    BY <1>3, <1>0 DEF Insert, RestTypes
  <2> QED
    BY <2>8, <2>9, <2>10 DEF CoreTypes
<1>4. ASSUME NEW p \in Procs, Evict(p) PROVE CoreTypes'
  <2>1. OldestEntry \in Keys
    BY <1>4, KeyTypes DEF Evict, OverSize
  <2>2. deleteLocked(OldestEntry) /\ recordDelete(p, "evicted", OldestEntry)
    BY <1>4 DEF Evict
  <2>3. events' \in [Procs -> Seq(Event)]
    BY <2>1, <2>2, RecordType DEF EventKinds
  <2>4. StoreTypes'
    BY <2>1, <2>2, DeleteType
  <2>5. ControlTypes'
    BY <1>4, <1>0, <2>3 DEF Evict, ControlTypes
  <2>6. RestTypes'
    BY <1>4, <1>0 DEF Evict, notifyChangeLocked, RestTypes
  <2> QED
    BY <2>4, <2>5, <2>6 DEF CoreTypes
<1>5. ASSUME NEW p \in Procs, FinishInsert(p) PROVE CoreTypes'
  <2>1. hookEvent("insert", call[p].key, call[p].val) \in Event
    BY <1>0, EventType DEF EventKinds, ControlTypes, Requests
  <2>2. Append(events[p], hookEvent("insert", call[p].key, call[p].val)) \in Seq(Event)
    BY <1>0, <2>1, AppendProperties DEF ControlTypes
  <2>3. StoreTypes'
    BY <1>5, <1>0 DEF FinishInsert, StoreTypes
  <2>4. ControlTypes'
    BY ZenonT(30), <1>5, <2>2, UnlockType DEF FinishInsert
  <2>5. RestTypes'
    BY <1>5, <1>0 DEF FinishInsert, notifyChangeLocked, RestTypes
  <2> QED
    BY <2>3, <2>4, <2>5 DEF CoreTypes
<1>6. ASSUME NEW p \in Procs, GetMiss(p) PROVE CoreTypes'
  <2>1. UnlockAndFire(p, <<>>)
    BY <1>6 DEF GetMiss
  <2>2. StoreTypes'
    BY <1>6, <1>0 DEF GetMiss, StoreTypes
  <2>3. ControlTypes'
    BY ZenonT(30), <2>1, EventSeqs, UnlockType
  <2>4. RestTypes'
    BY <1>6, <1>0 DEF GetMiss, Misses, RestTypes
  <2> QED
    BY <2>2, <2>3, <2>4 DEF CoreTypes
<1>7. ASSUME NEW p \in Procs, NEW ans \in ExpireAnswers, GetExtended(p, ans) PROVE CoreTypes'
  <2>1. call[p].key \in Keys /\ value[call[p].key] \in Values
    BY <1>0, KeyTypes DEF StoreTypes
  <2>2. ExtendedUntil(call[p].now, ans) \in Nat
    BY ZenonT(30), KeyTypes, DeadlineType
  <2>3. UnlockAndFire(p, <<>>)
    BY <1>7 DEF GetExtended
  <2>4. StoreTypes'
    BY <1>7, <1>0, <2>1, <2>2 DEF GetExtended, StoreTypes
  <2>5. ControlTypes'
    BY ZenonT(30), <2>3, EventSeqs, UnlockType
  <2>6. RestTypes'
    <3>1. ret' \in [Procs -> Values \cup {NoValue}]
      BY <1>7, <2>1, ReturnsType, Zenon DEF GetExtended, IInv
    <3> QED
      BY <1>7, <1>0, <3>1 DEF GetExtended, RestTypes
  <2> QED
    BY <2>4, <2>5, <2>6 DEF CoreTypes
<1>8. ASSUME NEW p \in Procs, GetExpired(p) PROVE CoreTypes'
  <2>1. call[p].key \in Keys
    BY KeyTypes
  <2>2. hookEvent("expired", call[p].key, value[call[p].key]) \in Event
    BY SMTT(30), <2>1, RemovalType DEF EventKinds
  <2>3. deleteLocked(call[p].key)
    BY <1>8 DEF GetExpired
  <2>4. UnlockAndFire(p, IF call[p].op = "Get" THEN <<hookEvent("expired", call[p].key, value[call[p].key])>> ELSE <<>>)
    BY <1>8 DEF GetExpired
  <2>5. (IF call[p].op = "Get" THEN <<hookEvent("expired", call[p].key, value[call[p].key])>> ELSE <<>>) \in Seq(Event)
    BY <2>2, EventSeqs
  <2>6. StoreTypes'
    BY <2>1, <2>3, DeleteType
  <2>7. ControlTypes'
    BY ZenonT(30), <2>4, <2>5, UnlockType
  <2>8. RestTypes'
    BY <1>8, <1>0, <2>1 DEF GetExpired, Misses, notifyChangeLocked, RestTypes
  <2> QED
    BY <2>6, <2>7, <2>8 DEF CoreTypes
<1>9. ASSUME NEW p \in Procs, GetLive(p) PROVE CoreTypes'
  <2>1. call[p].key \in Keys /\ value[call[p].key] \in Values /\ call[p].now \in Nat
    BY <1>0, KeyTypes DEF StoreTypes
  <2>2. hookEvent("get", call[p].key, value[call[p].key]) \in Event
    BY <2>1, RemovalType DEF EventKinds
  <2>3. UnlockAndFire(p, IF call[p].op = "Get" THEN <<hookEvent("get", call[p].key, value[call[p].key])>> ELSE <<>>)
    BY <1>9 DEF GetLive
  <2>4. (IF call[p].op = "Get" THEN <<hookEvent("get", call[p].key, value[call[p].key])>> ELSE <<>>) \in Seq(Event)
    BY <2>2, EventSeqs
  <2>5. StoreTypes'
    BY <1>9, <1>0, <2>1, Bounds DEF GetLive, StoreTypes
  <2>6. ControlTypes'
    BY ZenonT(30), <2>3, <2>4, UnlockType
  <2>7. RestTypes'
    <3>1. ret' \in [Procs -> Values \cup {NoValue}]
      BY <1>9, <2>1, ReturnsType, Zenon DEF GetLive, IInv
    <3> QED
      BY <1>9, <1>0, <3>1 DEF GetLive, RestTypes
  <2> QED
    BY <2>5, <2>6, <2>7 DEF CoreTypes
<1>10. ASSUME NEW p \in Procs, Delete(p) PROVE CoreTypes'
  <2>1. call[p].key \in Keys
    BY KeyTypes
  <2>2. hookEvent("explicit", call[p].key, value[call[p].key]) \in Event
    BY <2>1, RemovalType DEF EventKinds
  <2>3. deleteLocked(call[p].key) \/ UNCHANGED storeVars
    BY <1>10 DEF Delete
  <2>4. UnlockAndFire(p, <<>>) \/ UnlockAndFire(p, <<hookEvent("explicit", call[p].key, value[call[p].key])>>)
    BY <1>10 DEF Delete
  <2>5. <<hookEvent("explicit", call[p].key, value[call[p].key])>> \in Seq(Event)
    BY <2>2, EventSeqs
  <2>6. StoreTypes'
    BY <1>0, <2>1, <2>3, DeleteType DEF StoreTypes
  <2>7. ControlTypes'
    BY ZenonT(30), <2>4, <2>5, EventSeqs, UnlockType
  <2>8. RestTypes'
    BY ZenonT(30), <1>10, <1>0 DEF Delete, notifyChangeLocked, RestTypes
  <2> QED
    BY <2>6, <2>7, <2>8 DEF CoreTypes
<1>11. ASSUME NEW p \in Procs, StartScan(p) PROVE CoreTypes'
  <2>1. StoreTypes'
    BY <1>11, <1>0 DEF StartScan, StoreTypes
  <2>2. ControlTypes'
    BY <1>11, <1>0 DEF StartScan, ControlTypes, Controls
  <2>3. RestTypes'
    BY <1>11, <1>0 DEF StartScan, RestTypes, FrontPosition
  <2> QED
    BY <2>1, <2>2, <2>3 DEF CoreTypes
<1>12. ASSUME NEW p \in Procs, NEW ans \in ExpireAnswers, ScanKeep(p, ans) PROVE CoreTypes'
  <2>1. order[cursor[p]] \in Keys
    BY <1>12, KeyTypes DEF ScanKeep
  <2>2. ExtendedUntil(call[p].now, ans) \in Nat
    BY ZenonT(30), KeyTypes, DeadlineType
  <2>3. StoreTypes'
    BY <1>12, <1>0, <2>1, <2>2 DEF ScanKeep, StoreTypes
  <2>4. ControlTypes'
    BY <1>12, <1>0 DEF ScanKeep, ControlTypes
  <2>5. RestTypes'
    BY SMTT(30), <1>12, <1>0 DEF ScanKeep, RestTypes
  <2> QED
    BY <2>3, <2>4, <2>5 DEF CoreTypes
<1>13. ASSUME NEW p \in Procs, ScanDrop(p) PROVE CoreTypes'
  <2>1. order[cursor[p]] \in Keys
    BY SMTT(30), <1>13, KeyTypes DEF ScanDrop
  <2>2. deleteLocked(order[cursor[p]]) /\ recordDelete(p, "expired", order[cursor[p]])
    BY <1>13 DEF ScanDrop
  <2>3. events' \in [Procs -> Seq(Event)]
    BY <2>1, <2>2, RecordType DEF EventKinds
  <2>4. StoreTypes'
    BY <2>1, <2>2, DeleteType
  <2>5. ControlTypes'
    BY <1>13, <1>0, <2>3 DEF ScanDrop, ControlTypes
  <2>6. RestTypes'
    BY <1>13, <1>0 DEF ScanDrop, notifyChangeLocked, RestTypes
  <2> QED
    BY <2>4, <2>5, <2>6 DEF CoreTypes
<1>14. ASSUME NEW p \in Procs, FinishScan(p) PROVE CoreTypes'
  <2>1. events[p] \in Seq(Event) /\ UnlockAndFire(p, events[p])
    BY <1>14, <1>0 DEF FinishScan, ControlTypes
  <2>2. StoreTypes'
    BY <1>14, <1>0 DEF FinishScan, StoreTypes
  <2>3. ControlTypes'
    BY <2>1, UnlockType
  <2>4. RestTypes'
    BY <1>14, <1>0 DEF FinishScan, RestTypes
  <2> QED
    BY <2>2, <2>3, <2>4 DEF CoreTypes
<1>15. ASSUME NEW p \in Procs, StartFlush(p) PROVE CoreTypes'
  <2>1. StoreTypes'
    BY <1>15, <1>0 DEF StartFlush, StoreTypes
  <2>2. ControlTypes'
    BY <1>15, <1>0 DEF StartFlush, ControlTypes, Controls
  <2>3. RestTypes'
    BY <1>15, <1>0 DEF StartFlush, RestTypes
  <2> QED
    BY <2>1, <2>2, <2>3 DEF CoreTypes
<1>16. ASSUME NEW p \in Procs, NEW k \in Keys, FlushEntry(p, k) PROVE CoreTypes'
  <2>1. deleteLocked(k) /\ recordDelete(p, "flushed", k)
    BY <1>16 DEF FlushEntry
  <2>2. events' \in [Procs -> Seq(Event)]
    BY <2>1, RecordType DEF EventKinds
  <2>3. StoreTypes'
    BY <2>1, DeleteType
  <2>4. ControlTypes'
    BY <1>16, <1>0, <2>2 DEF FlushEntry, ControlTypes
  <2>5. RestTypes'
    BY <1>16, <1>0 DEF FlushEntry, RestTypes
  <2> QED
    BY <2>3, <2>4, <2>5 DEF CoreTypes
<1>17. ASSUME NEW p \in Procs, FinishFlush(p) PROVE CoreTypes'
  <2>1. events[p] \in Seq(Event) /\ UnlockAndFire(p, events[p])
    BY <1>17, <1>0 DEF FinishFlush, ControlTypes
  <2>2. StoreTypes'
    BY <1>17, <1>0 DEF FinishFlush, StoreTypes
  <2>3. ControlTypes'
    BY <2>1, UnlockType
  <2>4. RestTypes'
    BY <1>17, <1>0 DEF FinishFlush, notifyChangeLocked, RestTypes
  <2> QED
    BY <2>2, <2>3, <2>4 DEF CoreTypes
<1>18. ASSUME NEW p \in Procs, Start(p) PROVE CoreTypes'
  <2>1. UnlockAndFire(p, <<>>)
    BY <1>18 DEF Start
  <2>2. StoreTypes'
    BY <1>18, <1>0 DEF Start, StoreTypes
  <2>3. ControlTypes'
    BY ZenonT(30), <2>1, EventSeqs, UnlockType
  <2>4. RestTypes'
    BY <1>18, <1>0 DEF Start, RestTypes
  <2> QED
    BY <2>2, <2>3, <2>4 DEF CoreTypes
<1>19. ASSUME NEW p \in Procs, Stop(p) PROVE CoreTypes'
  <2>1. [call EXCEPT ![p].op = "Flush"] \in [Procs -> Requests]
    BY ZenonT(30), <1>0 DEF ControlTypes, Requests, OpNames
  <2>2. StoreTypes'
    BY <1>19, <1>0 DEF Stop, StoreTypes
  <2>3. ControlTypes'
    BY ZenonT(30), <1>19, <1>0, <2>1, EventSeqs, UnlockType DEF Stop, ControlTypes
  <2>4. RestTypes'
    BY <1>19, <1>0 DEF Stop, RestTypes
  <2> QED
    BY <2>2, <2>3, <2>4 DEF CoreTypes
<1>20. ASSUME NEW p \in Procs, NEW op \in OpNames, NEW k \in Keys, NEW v \in Values, NEW o \in Options, Call(p, op, k, v, o) PROVE CoreTypes'
  <2>1. Request(op, k, v, o) \in Requests
    BY <1>0 DEF Request, Requests, RestTypes
  <2>2. StoreTypes'
    BY <1>20, <1>0 DEF Call, StoreTypes
  <2>3. ControlTypes'
    BY <1>20, <1>0, <2>1 DEF Call, ControlTypes, Controls
  <2>4. RestTypes'
    BY <1>20, <1>0 DEF Call, RestTypes
  <2> QED
    BY <2>2, <2>3, <2>4 DEF CoreTypes
<1>21. ASSUME NEW g \in Sweepers, SweepTick(g) PROVE CoreTypes'
  BY <1>21, <1>20, AnyKeyType, Names DEF SweepTick, Procs, OpNames, Options
<1>22. ASSUME NEW g \in Sweepers, SweepExit(g) PROVE CoreTypes'
  <2>1. StoreTypes'
    BY ZenonT(30), <1>22, <1>0 DEF SweepExit, StoreTypes, procVars
  <2>2. ControlTypes'
    BY <1>22, <1>0 DEF SweepExit, ControlTypes, Controls, procVars
  <2>3. RestTypes'
    BY SMTT(30), <1>22, <1>0 DEF SweepExit, RestTypes, procVars
  <2> QED
    BY <2>1, <2>2, <2>3 DEF CoreTypes
<1>23. ASSUME NEW p \in Procs, Fire(p) PROVE CoreTypes'
  <2>1. events[p] \in Seq(Event) /\ events[p] # <<>>
    BY <1>23, <1>0, ZenonT(30) DEF Fire, ControlTypes, IInv, LocalInv
  <2>2. Head(events[p]) \in Event /\ Tail(events[p]) \in Seq(Event)
    BY <2>1, HeadTailProperties
  <2>3. Head(events[p]).key \in Keys
    BY <2>2 DEF Event
  <2>4. UnlockAndFire(p, Tail(events[p]))
    BY <1>23 DEF Fire
  <2>5. StoreTypes'
    BY <1>23, <1>0 DEF Fire, StoreTypes
  <2>6. ControlTypes'
    BY ZenonT(30), <2>2, <2>4, UnlockType
  <2>7. RestTypes'
    BY <1>23, <1>0, <2>3 DEF Fire, RestTypes
  <2> QED
    BY <2>5, <2>6, <2>7 DEF CoreTypes
<1>24. ASSUME Receive PROVE CoreTypes'
  <2>1. StoreTypes'
    BY <1>24, <1>0 DEF Receive, StoreTypes, procVars
  <2>2. ControlTypes'
    BY <1>24, <1>0 DEF Receive, ControlTypes, Controls, procVars
  <2>3. RestTypes'
    BY ZenonT(30), <1>24, <1>0 DEF Receive, RestTypes, procVars
  <2> QED
    BY <2>1, <2>2, <2>3 DEF CoreTypes
<1>25. ASSUME Tick PROVE CoreTypes'
  <2>1. StoreTypes'
    BY <1>25, <1>0 DEF Tick, StoreTypes, procVars
  <2>2. ControlTypes'
    BY <1>25, <1>0 DEF Tick, ControlTypes, Controls, procVars
  <2>3. RestTypes'
    BY <1>25, <1>0 DEF Tick, RestTypes, procVars
  <2> QED
    BY <2>1, <2>2, <2>3 DEF CoreTypes
<1>26. ASSUME UNCHANGED vars PROVE CoreTypes'
  <2>1. StoreTypes'
    BY <1>26, <1>0 DEF vars, StoreTypes, procVars
  <2>2. ControlTypes'
    BY <1>26, <1>0 DEF vars, ControlTypes, Controls, procVars
  <2>3. RestTypes'
    BY <1>26, <1>0 DEF vars, RestTypes, procVars
  <2> QED
    BY <2>1, <2>2, <2>3 DEF CoreTypes
<1>27. CoreTypes'
  BY <1>1, <1>2, <1>3, <1>4, <1>5, <1>6, <1>7, <1>8, <1>9, <1>10, <1>11, <1>12, <1>13, <1>14, <1>15, <1>16, <1>17, <1>18, <1>19, <1>20, <1>21, <1>22, <1>23, <1>24, <1>25, <1>26, Names
  DEF Next, Enter, Continue, Procs
<1>28. TypeOK' <=> CoreTypes' /\ unsent' \in BOOLEAN
  BY Zenon DEF TypeOK, CoreTypes, StoreTypes, ControlTypes, RestTypes
<1> QED
  BY <1>27, <1>28, HistoryType DEF IInv

================================================================================
