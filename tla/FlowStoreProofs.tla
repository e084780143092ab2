---------------------------- MODULE FlowStoreProofs ----------------------------
(* Machine-checked proofs about FlowStore, for every value of its constants. *)
EXTENDS FlowStoreTypes, FiniteSetTheorems

\* The empty store, every goroutine idle, satisfies the inductive invariant.
LEMMA InitIInv == Init => IInv
<1> SUFFICES ASSUME Init PROVE IInv
  OBVIOUS
<1>1. TypeOK
  <2>1. notify \in BOOLEAN /\ unsent \in BOOLEAN
    BY ZenonT(30) DEF Init
  <2>2. entries \subseteq Keys /\ value \in [Keys -> Values] /\ expiresAt \in [Keys -> Nat]
    BY Names DEF Init
  <2>3. order \in Seq(Keys) /\ clock \in Nat \ {0} /\ mu \in Procs \cup {NoProc}
    BY DEF Init
  <2>4. pc \in [Procs -> Controls]
    BY DEF Init, Controls
  <2>5. call \in [Procs -> Requests]
    BY NoCallType DEF Init
  <2>6. cursor \in [Procs -> Nat] /\ events \in [Procs -> Seq(Event)] /\ ret \in [Procs -> Values \cup {NoValue}]
    BY DEF Init
  <2>7. stopSweeper \in Sweepers \cup {NoProc} /\ sweeper \in [Sweepers -> {"off", "running", "stopping"}] /\ net \in [Keys -> Int]
    BY DEF Init
  <2> QED
    BY <2>1, <2>2, <2>3, <2>4, <2>5, <2>6, <2>7, Zenon DEF TypeOK
<1>2. LockInv /\ LocalInv
  BY Names DEF Init, LockInv, LocalInv
<1>3. OrderMatchesEntries
  BY DEF Init, OrderMatchesEntries, Range
<1>4. NewEntrySurvives
  BY DEF Init, NewEntrySurvives
<1>5. SizeBounded
  BY FS_EmptySet, Bounds DEF Init, SizeBounded
<1> QED
  BY <1>1, <1>2, <1>3, <1>4, <1>5 DEF IInv

\* The lock discipline: a multi-step critical section starts when mu is free and
\* ends when it is released, and only its holder moves inside it.
LEMMA LockStep ==
  ASSUME IInv, [Next]_vars
  PROVE  LockInv' /\ LocalInv'
<1>0. /\ pc \in [Procs -> Controls] /\ cursor \in [Procs -> Nat] /\ events \in [Procs -> Seq(Event)]
      /\ NoProc \notin Procs /\ LockInv /\ LocalInv
  BY Names DEF IInv, TypeOK
<1> USE DEF LockInv, LocalInv
<1>1. ASSUME NEW p \in Procs, NEW ans \in ExpireAnswers, Update(p, ans) PROVE LockInv' /\ LocalInv'
  BY ZenonT(30), <1>0, <1>1 DEF Update, Locks, UnlockAndFire
<1>2. ASSUME NEW p \in Procs, InsertFails(p) PROVE LockInv' /\ LocalInv'
  BY <1>0, <1>2 DEF InsertFails, Locks, UnlockAndFire
<1>3. ASSUME NEW p \in Procs, Insert(p) PROVE LockInv' /\ LocalInv'
  BY <1>0, <1>3 DEF Insert, Locks
<1>4. ASSUME NEW p \in Procs, Evict(p) PROVE LockInv' /\ LocalInv'
  BY <1>0, <1>4 DEF Evict, recordDelete
<1>5. ASSUME NEW p \in Procs, FinishInsert(p) PROVE LockInv' /\ LocalInv'
  BY <1>0, <1>5 DEF FinishInsert, UnlockAndFire
<1>6. ASSUME NEW p \in Procs, GetMiss(p) PROVE LockInv' /\ LocalInv'
  BY SMTT(30), <1>0, <1>6 DEF GetMiss, Locks, UnlockAndFire
<1>7. ASSUME NEW p \in Procs, NEW ans \in ExpireAnswers, GetExtended(p, ans) PROVE LockInv' /\ LocalInv'
  BY <1>0, <1>7 DEF GetExtended, Locks, UnlockAndFire
<1>8. ASSUME NEW p \in Procs, GetExpired(p) PROVE LockInv' /\ LocalInv'
  BY ZenonT(30), <1>0, <1>8 DEF GetExpired, Locks, UnlockAndFire
<1>9. ASSUME NEW p \in Procs, GetLive(p) PROVE LockInv' /\ LocalInv'
  BY SMTT(30), <1>0, <1>9 DEF GetLive, Locks, UnlockAndFire
<1>10. ASSUME NEW p \in Procs, Delete(p) PROVE LockInv' /\ LocalInv'
  BY ZenonT(30), <1>0, <1>10 DEF Delete, Locks, UnlockAndFire
<1>11. ASSUME NEW p \in Procs, StartScan(p) PROVE LockInv' /\ LocalInv'
  BY <1>0, <1>11 DEF StartScan, Locks, FrontPosition
<1>12. ASSUME NEW p \in Procs, NEW ans \in ExpireAnswers, ScanKeep(p, ans) PROVE LockInv' /\ LocalInv'
  BY <1>0, <1>12 DEF ScanKeep
<1>13. ASSUME NEW p \in Procs, ScanDrop(p) PROVE LockInv' /\ LocalInv'
  BY <1>0, <1>13 DEF ScanDrop, recordDelete, Scanning
<1>14. ASSUME NEW p \in Procs, FinishScan(p) PROVE LockInv' /\ LocalInv'
  BY <1>0, <1>14 DEF FinishScan, UnlockAndFire
<1>15. ASSUME NEW p \in Procs, StartFlush(p) PROVE LockInv' /\ LocalInv'
  BY <1>0, <1>15 DEF StartFlush, Locks
<1>16. ASSUME NEW p \in Procs, NEW k \in Keys, FlushEntry(p, k) PROVE LockInv' /\ LocalInv'
  BY <1>0, <1>16 DEF FlushEntry, recordDelete
<1>17. ASSUME NEW p \in Procs, FinishFlush(p) PROVE LockInv' /\ LocalInv'
  BY <1>0, <1>17 DEF FinishFlush, UnlockAndFire
<1>18. ASSUME NEW p \in Procs, Start(p) PROVE LockInv' /\ LocalInv'
  BY <1>0, <1>18 DEF Start, Locks, UnlockAndFire
<1>19. ASSUME NEW p \in Procs, Stop(p) PROVE LockInv' /\ LocalInv'
  BY <1>0, <1>19 DEF Stop, Locks, UnlockAndFire
<1>20. ASSUME NEW p \in Procs, NEW op, NEW k, NEW v, NEW o, Call(p, op, k, v, o) PROVE LockInv' /\ LocalInv'
  BY SMTT(30), <1>0, <1>20 DEF Call
<1>21. ASSUME NEW g \in Sweepers, SweepTick(g) PROVE LockInv' /\ LocalInv'
  BY <1>0, <1>21 DEF SweepTick, Call, Procs
<1>22. ASSUME NEW g \in Sweepers, SweepExit(g) PROVE LockInv' /\ LocalInv'
  BY <1>0, <1>22 DEF SweepExit, procVars
<1>23. ASSUME NEW p \in Procs, Fire(p) PROVE LockInv' /\ LocalInv'
  BY <1>0, <1>23 DEF Fire, UnlockAndFire
<1>24. ASSUME Receive PROVE LockInv' /\ LocalInv'
  BY <1>0, <1>24 DEF Receive, procVars
<1>25. ASSUME Tick PROVE LockInv' /\ LocalInv'
  BY <1>0, <1>25 DEF Tick, procVars
<1>26. ASSUME UNCHANGED vars PROVE LockInv' /\ LocalInv'
  BY <1>0, <1>26 DEF vars, procVars
<1> QED
  BY ZenonT(30), <1>1, <1>2, <1>3, <1>4, <1>5, <1>6, <1>7, <1>8, <1>9, <1>10, <1>11, <1>12, <1>13, <1>14, <1>15, <1>16, <1>17, <1>18, <1>19, <1>20, <1>21, <1>22, <1>23, <1>24, <1>25, <1>26
  DEF Next, Enter, Continue, Procs

-----------------------------------------------------------------------------
(* What a step does to the contents *)

\* No insertion starts or ends, and the ones in progress keep their key.
SameEvict ==
  \A q \in Procs : /\ pc'[q] = "evict" <=> pc[q] = "evict"
                   /\ pc[q] = "evict" => call'[q].key = call[q].key

NoEvict == \A q \in Procs : pc[q] # "evict"

Steady == entries' = entries /\ order' = order /\ SameEvict

\* One key leaves; during an insertion it is the oldest of an oversized store.
Removal(k) ==
  /\ entries' = entries \ {k} /\ order' = Unlink(k) /\ SameEvict
  /\ NoEvict \/ (OverSize /\ k = OldestEntry)

Effect ==
  \/ Steady
  \/ \E k \in Keys : Removal(k)
  \/ \E p \in Procs : Insert(p) \/ FinishInsert(p)

\* The mutex serialises the critical sections, so these are the only effects.
LEMMA StepEffect ==
  ASSUME IInv, [Next]_vars
  PROVE  Effect
<1>0. /\ pc \in [Procs -> Controls] /\ call \in [Procs -> Requests]
      /\ NoProc \notin Procs /\ LockInv
  BY Names DEF IInv, TypeOK
<1>a. ASSUME mu = NoProc PROVE NoEvict
  BY <1>0, <1>a DEF LockInv, NoEvict
<1>b. ASSUME NEW p \in Procs, pc[p] \in {"scan", "flush"} PROVE NoEvict
  BY <1>0, <1>b DEF LockInv, NoEvict
<1>1. ASSUME NEW p \in Procs, NEW ans \in ExpireAnswers, Update(p, ans) PROVE Effect
  BY ZenonT(30), <1>0, <1>1 DEF Update, Locks, UnlockAndFire, Steady, SameEvict, Effect, storeVars
<1>2. ASSUME NEW p \in Procs, InsertFails(p) PROVE Effect
  <2>1. call[p].key \in Keys
    BY <1>2, KeyTypes
  <2>2. NoEvict
    BY ZenonT(30), <1>2, <1>a DEF InsertFails, Locks
  <2>3. SameEvict
    BY <1>0, <1>2, <2>2 DEF InsertFails, Locks, UnlockAndFire, SameEvict, NoEvict
  <2> QED
    BY <1>2, <2>1, <2>2, <2>3 DEF InsertFails, deleteLocked, Removal, Effect
<1>3. ASSUME NEW p \in Procs, Insert(p) PROVE Effect
  BY <1>3 DEF Effect
<1>4. ASSUME NEW p \in Procs, Evict(p) PROVE Effect
  <2>1. OldestEntry \in Keys
    BY <1>4, KeyTypes DEF Evict, OverSize
  <2>2. OverSize
    BY <1>4 DEF Evict
  <2>3. SameEvict
    BY <1>0, <1>4, <2>2 DEF Evict, SameEvict, NoEvict
  <2> QED
    BY SMTT(30), <1>4, <2>1, <2>2, <2>3 DEF Evict, deleteLocked, Removal, Effect
<1>5. ASSUME NEW p \in Procs, FinishInsert(p) PROVE Effect
  BY <1>5 DEF Effect
<1>6. ASSUME NEW p \in Procs, GetMiss(p) PROVE Effect
  BY SMTT(30), <1>0, <1>6 DEF GetMiss, Locks, UnlockAndFire, Steady, SameEvict, Effect, storeVars
<1>7. ASSUME NEW p \in Procs, NEW ans \in ExpireAnswers, GetExtended(p, ans) PROVE Effect
  BY <1>0, <1>7 DEF GetExtended, Locks, UnlockAndFire, Steady, SameEvict, Effect, storeVars
<1>8. ASSUME NEW p \in Procs, GetExpired(p) PROVE Effect
  <2>1. call[p].key \in Keys
    BY SMTT(30), <1>8, KeyTypes
  <2>2. NoEvict
    BY SMTT(30), <1>8, <1>a DEF GetExpired, Locks
  <2>3. SameEvict
    BY SMTT(30), <1>0, <1>8, <2>2 DEF GetExpired, Locks, UnlockAndFire, SameEvict, NoEvict
  <2> QED
    BY ZenonT(30), <1>8, <2>1, <2>2, <2>3 DEF GetExpired, deleteLocked, Removal, Effect
<1>9. ASSUME NEW p \in Procs, GetLive(p) PROVE Effect
  BY <1>0, <1>9 DEF GetLive, Locks, UnlockAndFire, Steady, SameEvict, Effect, storeVars
<1>10. ASSUME NEW p \in Procs, Delete(p) PROVE Effect
  <2>1. call[p].key \in Keys
    BY KeyTypes
  <2>2. NoEvict
    BY ZenonT(30), <1>10, <1>a DEF Delete, Locks
  <2>3. SameEvict
    BY ZenonT(30), <1>0, <1>10, <2>2 DEF Delete, Locks, UnlockAndFire, SameEvict, NoEvict
  <2> QED
    BY <1>10, <2>1, <2>2, <2>3 DEF Delete, deleteLocked, Removal, Steady, Effect, storeVars
<1>11. ASSUME NEW p \in Procs, StartScan(p) PROVE Effect
  BY <1>0, <1>11 DEF StartScan, Locks, Steady, SameEvict, Effect, storeVars
<1>12. ASSUME NEW p \in Procs, NEW ans \in ExpireAnswers, ScanKeep(p, ans) PROVE Effect
  BY <1>0, <1>12 DEF ScanKeep, Steady, SameEvict, Effect, storeVars
<1>13. ASSUME NEW p \in Procs, ScanDrop(p) PROVE Effect
  <2>1. order[cursor[p]] \in Keys
    BY ZenonT(30), <1>13, KeyTypes DEF ScanDrop
  <2>2. NoEvict
    BY ZenonT(30), <1>13, <1>b DEF ScanDrop, Scanning
  <2>3. SameEvict
    BY <1>0, <1>13, <2>2 DEF ScanDrop, Scanning, SameEvict, NoEvict
  <2> QED
    BY ZenonT(30), <1>13, <2>1, <2>2, <2>3 DEF ScanDrop, deleteLocked, Removal, Effect
<1>14. ASSUME NEW p \in Procs, FinishScan(p) PROVE Effect
  BY <1>0, <1>14 DEF FinishScan, UnlockAndFire, Steady, SameEvict, Effect, storeVars
<1>15. ASSUME NEW p \in Procs, StartFlush(p) PROVE Effect
  BY <1>0, <1>15 DEF StartFlush, Locks, Steady, SameEvict, Effect, storeVars
<1>16. ASSUME NEW p \in Procs, NEW k \in Keys, FlushEntry(p, k) PROVE Effect
  <2>1. k \in Keys
    BY <1>16, KeyTypes
  <2>2. NoEvict
    BY <1>16, <1>b DEF FlushEntry
  <2>3. SameEvict
    BY <1>0, <1>16, <2>2 DEF FlushEntry, SameEvict, NoEvict
  <2> QED
    BY <1>16, <2>1, <2>2, <2>3 DEF FlushEntry, deleteLocked, Removal, Effect
<1>17. ASSUME NEW p \in Procs, FinishFlush(p) PROVE Effect
  BY <1>0, <1>17 DEF FinishFlush, UnlockAndFire, Steady, SameEvict, Effect, storeVars
<1>18. ASSUME NEW p \in Procs, Start(p) PROVE Effect
  BY <1>0, <1>18 DEF Start, Locks, UnlockAndFire, Steady, SameEvict, Effect, storeVars
<1>19. ASSUME NEW p \in Procs, Stop(p) PROVE Effect
  BY <1>0, <1>19 DEF Stop, Locks, UnlockAndFire, Steady, SameEvict, Effect, storeVars
<1>20. ASSUME NEW p \in Procs, NEW op, NEW k, NEW v, NEW o, Call(p, op, k, v, o) PROVE Effect
  BY SMTT(30), <1>0, <1>20 DEF Call, Steady, SameEvict, Effect, storeVars
<1>21. ASSUME NEW g \in Sweepers, SweepTick(g) PROVE Effect
  BY <1>0, <1>21 DEF SweepTick, Call, Procs, Steady, SameEvict, Effect, storeVars
<1>22. ASSUME NEW g \in Sweepers, SweepExit(g) PROVE Effect
  BY SMTT(30), <1>0, <1>22 DEF SweepExit, procVars, Steady, SameEvict, Effect, storeVars
<1>23. ASSUME NEW p \in Procs, Fire(p) PROVE Effect
  BY <1>0, <1>23 DEF Fire, UnlockAndFire, Steady, SameEvict, Effect, storeVars
<1>24. ASSUME Receive PROVE Effect
  BY <1>0, <1>24 DEF Receive, procVars, Steady, SameEvict, Effect, storeVars
<1>25. ASSUME Tick PROVE Effect
  BY <1>0, <1>25 DEF Tick, procVars, Steady, SameEvict, Effect, storeVars
<1>26. ASSUME UNCHANGED vars PROVE Effect
  BY <1>0, <1>26 DEF vars, procVars, Steady, SameEvict, Effect, storeVars
<1> QED
  BY <1>1, <1>2, <1>3, <1>4, <1>5, <1>6, <1>7, <1>8, <1>9, <1>10, <1>11, <1>12, <1>13, <1>14, <1>15, <1>16, <1>17, <1>18, <1>19, <1>20, <1>21, <1>22, <1>23, <1>24, <1>25, <1>26
  DEF Next, Enter, Continue, Procs

\* The map and the list change together.
LEMMA OrderStep ==
  ASSUME IInv, Effect
  PROVE  OrderMatchesEntries'
<1>0. order \in Seq(Keys) /\ OrderMatchesEntries
  BY DEF IInv, TypeOK
<1>1. CASE Steady
  BY <1>0, <1>1 DEF Steady, OrderMatchesEntries, Range
<1>2. ASSUME NEW k \in Keys, Removal(k) PROVE OrderMatchesEntries'
  BY SMTT(30), <1>0, <1>2, UnlinkIs DEF Removal, OrderMatchesEntries, Range
<1>3. ASSUME NEW p \in Procs, Insert(p) PROVE OrderMatchesEntries'
  <2> DEFINE k == call[p].key
             u == Unlink(k)
             w == Append(u, k)
  <2>1. k \in Keys /\ entries' = entries \cup {k} /\ order' = w
    BY SMTT(30), <1>3, KeyTypes DEF Insert
  <2>2. /\ u \in Seq(Keys) /\ Range(u) = entries \ {k}
        /\ \A i, j \in DOMAIN u : u[i] = u[j] => i = j
    BY <1>0, UnlinkIs
  <2> HIDE DEF k, u
  <2>3. Len(u) \in Nat /\ DOMAIN u = 1..Len(u)
    BY <2>2, LenProperties
  <2>4. /\ DOMAIN w = 1..Len(u) + 1
        /\ \A i \in 1..Len(u) : w[i] = u[i]
        /\ w[Len(u) + 1] = k
    BY <2>1, <2>2, <2>3, AppendProperties
  <2>5. \A i \in 1..Len(u) : u[i] # k /\ u[i] \in entries
    BY <2>2, <2>3 DEF Range
  <2>6. \A x \in entries \ {k} : \E i \in 1..Len(u) : u[i] = x
    BY <2>2, <2>3 DEF Range
  <2> HIDE DEF w
  <2>7. Range(w) = entries \cup {k}
    <3>1. Range(w) \subseteq entries \cup {k}
      BY <2>3, <2>4, <2>5 DEF Range
    <3>2. ASSUME NEW x \in entries \cup {k} PROVE x \in Range(w)
      <4>1. CASE x = k
        BY <2>3, <2>4, <4>1 DEF Range
      <4>2. CASE x # k
        <5>1. PICK i \in 1..Len(u) : u[i] = x
          BY <2>6, <4>2
        <5> QED
          BY <2>3, <2>4, <5>1 DEF Range
      <4> QED
        BY <4>1, <4>2
    <3> QED
      BY <3>1, <3>2
  <2>8. \A i, j \in DOMAIN w : w[i] = w[j] => i = j
    <3> SUFFICES ASSUME NEW i \in 1..Len(u) + 1, NEW j \in 1..Len(u) + 1, w[i] = w[j] PROVE i = j
      BY <2>4
    <3>1. CASE i \in 1..Len(u) /\ j \in 1..Len(u)
      BY <2>2, <2>3, <2>4, <3>1
    <3>2. CASE ~(i \in 1..Len(u) /\ j \in 1..Len(u))
      BY SMTT(30), <2>3, <2>4, <2>5, <3>2
    <3> QED
      BY <3>1, <3>2
  <2> QED
    BY <2>1, <2>7, <2>8 DEF OrderMatchesEntries, Range
<1>4. ASSUME NEW p \in Procs, FinishInsert(p) PROVE OrderMatchesEntries'
  BY <1>0, <1>4 DEF FinishInsert, OrderMatchesEntries, Range, storeVars
<1> QED
  BY <1>1, <1>2, <1>3, <1>4 DEF Effect

\* The store is finite, and a store above its limit holds two different keys at
\* the two ends of the queue.
LEMMA Ends ==
  ASSUME IInv
  PROVE  /\ IsFiniteSet(entries) /\ Cardinality(entries) \in Nat
         /\ OverSize => OldestEntry \in entries /\ OldestEntry # Back(order)
<1>1. IsFiniteSet(entries) /\ Cardinality(entries) \in Nat
  BY ZenonT(30), StoreAssumption, FS_Subset, FS_CardinalityType DEF IInv, TypeOK
<1>2. ASSUME OverSize PROVE OldestEntry \in entries /\ OldestEntry # Back(order)
  <2>1. order \in Seq(Keys) /\ order # <<>> /\ Cardinality(entries) > 1
    BY <1>1, <1>2, Bounds DEF OverSize, IInv, TypeOK
  <2>2. Len(order) \in Nat /\ Len(order) >= 1 /\ DOMAIN order = 1..Len(order) /\ Head(order) = order[1]
    BY <2>1, LenProperties, EmptySeq
  <2>3. Head(order) \in entries
    BY <2>2 DEF IInv, OrderMatchesEntries, Range
  <2>4. ASSUME Head(order) = Back(order) PROVE FALSE
    <3>1. Len(order) = 1
      BY <2>2, <2>4 DEF Back, IInv, OrderMatchesEntries
    <3>2. entries = {order[1]}
      BY <2>2, <3>1 DEF IInv, OrderMatchesEntries, Range
    <3>3. Cardinality({order[1]}) = 1
      BY FS_Singleton
    <3> QED
      BY <2>1, <3>2, <3>3
  <2> QED
    BY <2>3, <2>4 DEF OldestEntry
<1> QED
  BY <1>1, <1>2

\* An insertion keeps its own entry at the back of the queue.
LEMMA NewEntryStep ==
  ASSUME IInv, Effect
  PROVE  NewEntrySurvives'
<1>0. order \in Seq(Keys) /\ OrderMatchesEntries /\ NewEntrySurvives /\ LockInv /\ NoProc \notin Procs
  BY Names DEF IInv, TypeOK
<1>1. CASE Steady
  BY <1>0, <1>1 DEF Steady, SameEvict, NewEntrySurvives, Back
<1>2. ASSUME NEW k \in Keys, Removal(k) PROVE NewEntrySurvives'
  <2>1. CASE NoEvict
    BY <1>2, <2>1 DEF Removal, SameEvict, NoEvict, NewEntrySurvives
  <2>2. CASE OverSize /\ k = OldestEntry
    <3>1. order # <<>> /\ Back(order) # k
      BY <2>2, Ends DEF OverSize
    <3>2. order' # <<>> /\ Back(order') = Back(order)
      BY <1>0, <1>2, <3>1, UnlinkIs DEF Removal
    <3> QED
      BY <1>0, <1>2, <3>2 DEF Removal, SameEvict, NewEntrySurvives
  <2> QED
    BY <1>2, <2>1, <2>2 DEF Removal
<1>3. ASSUME NEW p \in Procs, Insert(p) PROVE NewEntrySurvives'
  <2>1. call[p].key \in Keys /\ Unlink(call[p].key) \in Seq(Keys)
    BY SMTT(30), <1>0, KeyTypes, UnlinkIs
  <2>2. order' # <<>> /\ Back(order') = call[p].key
    <3>1. order' = Append(Unlink(call[p].key), call[p].key)
      BY <1>3 DEF Insert
    <3> QED
      BY <2>1, <3>1, AppendProperties DEF Back
  <2>3. \A q \in Procs : pc'[q] = "evict" => q = p
    BY <1>0, <1>3 DEF Insert, Locks, LockInv, IInv, TypeOK
  <2>4. call'[p].key = call[p].key
    BY <1>3 DEF Insert, IInv, TypeOK, Requests
  <2> QED
    BY SMTT(30), <2>2, <2>3, <2>4 DEF NewEntrySurvives
<1>4. ASSUME NEW p \in Procs, FinishInsert(p) PROVE NewEntrySurvives'
  <2>1. order' = order /\ \A q \in Procs : pc'[q] # "evict"
    BY <1>0, <1>4 DEF FinishInsert, UnlockAndFire, storeVars, LockInv, IInv, TypeOK
  <2> QED
    BY <2>1 DEF NewEntrySurvives
<1> QED
  BY <1>1, <1>2, <1>3, <1>4 DEF Effect

\* The store grows by one only while an insertion is in progress, and the
\* insertion ends only when the store is within its limit again.
LEMMA SizeStep ==
  ASSUME IInv, Effect
  PROVE  SizeBounded'
<1> SUFFICES ASSUME MaxSize > 0
             PROVE  Cardinality(entries') <= MaxSize + (IF \E p \in Procs : pc'[p] = "evict" THEN 1 ELSE 0)
  BY DEF SizeBounded
<1> DEFINE n == Cardinality(entries)
<1>0. /\ IsFiniteSet(entries) /\ n \in Nat /\ MaxSize \in Nat
      /\ n <= MaxSize + (IF \E p \in Procs : pc[p] = "evict" THEN 1 ELSE 0)
  BY Ends, Bounds DEF IInv, SizeBounded
<1>1. CASE Steady
  BY <1>0, <1>1 DEF Steady, SameEvict
<1>2. ASSUME NEW k \in Keys, Removal(k)
      PROVE  Cardinality(entries') <= MaxSize + (IF \E p \in Procs : pc'[p] = "evict" THEN 1 ELSE 0)
  <2>1. Cardinality(entries \ {k}) \in Nat /\ Cardinality(entries \ {k}) <= n
    <3>1. entries \ {k} \in SUBSET entries
      OBVIOUS
    <3> QED
      BY <1>0, <3>1, FS_Subset, FS_CardinalityType
  <2> QED
    BY <1>0, <1>2, <2>1 DEF Removal, SameEvict
<1>3. ASSUME NEW p \in Procs, Insert(p)
      PROVE  Cardinality(entries') <= MaxSize + (IF \E q \in Procs : pc'[q] = "evict" THEN 1 ELSE 0)
  <2>1. entries' = entries \cup {call[p].key} /\ pc'[p] = "evict"
    BY <1>3 DEF Insert, IInv, TypeOK
  <2>2. \A q \in Procs : pc[q] # "evict"
    BY <1>3, Names DEF Insert, Locks, IInv, LockInv
  <2>3. Cardinality(entries \cup {call[p].key}) \in Nat /\ Cardinality(entries \cup {call[p].key}) <= n + 1
    BY <1>0, FS_AddElement
  <2> QED
    BY <1>0, <2>1, <2>2, <2>3
<1>4. ASSUME NEW p \in Procs, FinishInsert(p)
      PROVE  Cardinality(entries') <= MaxSize + (IF \E q \in Procs : pc'[q] = "evict" THEN 1 ELSE 0)
  <2>1. entries' = entries /\ ~OverSize /\ pc[p] = "evict"
    BY <1>4 DEF FinishInsert, storeVars
  <2>2. order # <<>>
    BY <2>1 DEF IInv, NewEntrySurvives
  <2>3. n <= MaxSize
    BY <1>0, <2>1, <2>2 DEF OverSize
  <2> QED
    BY <1>0, <2>1, <2>3
<1> QED
  BY <1>1, <1>2, <1>3, <1>4 DEF Effect

-----------------------------------------------------------------------------
(* Theorems *)

\* Every step of every goroutine keeps the inductive invariant.
LEMMA IInvStep == IInv /\ [Next]_vars => IInv'
<1> SUFFICES ASSUME IInv, [Next]_vars PROVE IInv'
  OBVIOUS
<1>1. Effect
  BY StepEffect
<1>2. TypeOK' /\ LockInv' /\ LocalInv'
  BY TypeStep, LockStep
<1>3. OrderMatchesEntries' /\ NewEntrySurvives' /\ SizeBounded'
  BY <1>1, OrderStep, NewEntryStep, SizeStep
<1> QED
  BY <1>2, <1>3 DEF IInv

\* The strengthened invariant holds in every reachable state.
THEOREM Inductive == Spec => []IInv
BY InitIInv, IInvStep, PTL DEF Spec

\* Type correctness of the store for any number of goroutines, keys and values.
THEOREM TypeCorrect == Spec => []TypeOK
<1>1. IInv => TypeOK
  BY DEF IInv
<1> QED
  BY <1>1, Inductive, PTL

\* insertLocked and deleteLocked keep the map and the list in step, whatever the
\* interleaving of writers, readers, sweepers and flushes.
THEOREM OrderCorrect == Spec => []OrderMatchesEntries
<1>1. IInv => OrderMatchesEntries
  BY DEF IInv
<1> QED
  BY <1>1, Inductive, PTL

\* WithMaxSize bounds the store, for any limit and any number of goroutines.
THEOREM SizeCorrect == Spec => []SizeBounded
<1>1. IInv => SizeBounded
  BY DEF IInv
<1> QED
  BY <1>1, Inductive, PTL

\* enforceMaxSizeLocked never evicts the entry whose insertion triggered it.
THEOREM NewEntryCorrect == Spec => []NewEntrySurvives
<1>1. IInv => NewEntrySurvives
  BY DEF IInv
<1> QED
  BY <1>1, Inductive, PTL
================================================================================
