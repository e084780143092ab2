------------------------------- MODULE FlowStore -------------------------------
(***************************************************************************)
(* The generic key/value store of pkg/flowstore/store.go: TTL expiry, FIFO  *)
(* eviction, hooks fired after the lock is released, a coalescing change    *)
(* channel and a background sweeper.                                        *)
(*                                                                         *)
(* Goroutines (callers and sweepers) run one operation at a time.  An       *)
(* operation reads the clock BEFORE it takes the mutex, so the time it uses *)
(* may be stale when it gets the lock.  A critical section that loops over  *)
(* entries (sweep, eviction, flush) takes one step per entry while it holds *)
(* mu; every other critical section is one step.  Hook events collected     *)
(* under the lock are delivered one by one after it is released.            *)
(*                                                                         *)
(* Times are naturals; 0 is Go's zero time.Time, "never expires".           *)
(***************************************************************************)
EXTENDS Integers, FiniteSets, Sequences, Functions

CONSTANTS
  Keys, Values,
  ZeroValue,          \* Go's zero value of V
  NoValue,            \* result of a Get that misses
  AddTo(_, _, _),     \* V.Add: stored value, delta, existed
  SetTo(_, _, _),     \* V.Set, or plain assignment: stored value, new value, existed
  CopyTo(_, _),       \* copyValue: content of the destination, stored value
  Addable,            \* does V implement Addable?
  Rejects,            \* may V.Add or V.Set return an error?
  DefaultTTL,         \* WithDefaultTTL, 0 disables expiry
  RefreshTTL,         \* WithRefreshTTLOnWrite
  RefreshTTLOnRead,   \* WithRefreshTTLOnRead
  MaxSize,            \* WithMaxSize, 0 is unlimited
  HasExpireHook,      \* WithExpireHook installed?
  HasMutateHook,      \* Hooks.OnSetMutate installed?
  TTLs,               \* positive TTLs that callers and the expire hook use
  Callers, Sweepers,  \* goroutines
  NoProc,
  Ops,                \* operations the environment may call
  MaxTime             \* bound on the clock

Procs == Callers \cup Sweepers

OpNames == {"Set", "Add", "Get", "GetQuiet", "Delete", "Range", "ExpireStale", "Flush",
            "Start", "Stop", "Close"}

Unset       == -1                      \* no WithTTL option on this call
Options     == {Unset, 0} \cup TTLs    \* 0: WithoutExpiration, or WithTTL of a non-positive TTL
NilDest     == 0                       \* a lookup whose destination pointer is nil
NotExtended == -1                      \* expire hook declined, or there is none

ASSUME StoreAssumption ==
  /\ Keys # {} /\ IsFiniteSet(Keys)
  /\ ZeroValue \in Values /\ NoValue \notin Values
  /\ \A v, d \in Values, e \in BOOLEAN : AddTo(v, d, e) \in Values /\ SetTo(v, d, e) \in Values
  /\ \A v, d \in Values : CopyTo(d, v) \in Values
  /\ Addable \in BOOLEAN /\ Rejects \in BOOLEAN /\ RefreshTTL \in BOOLEAN /\ RefreshTTLOnRead \in BOOLEAN
  /\ HasExpireHook \in BOOLEAN /\ HasMutateHook \in BOOLEAN
  /\ DefaultTTL \in Nat /\ MaxSize \in Nat /\ MaxTime \in Nat
  /\ TTLs \subseteq Nat \ {0} /\ Ops \subseteq OpNames
  /\ Callers \cap Sweepers = {} /\ NoProc \notin Procs

VARIABLES
  entries,      \* keys present in Store.entries
  value,        \* entry.value, ZeroValue when absent
  expiresAt,    \* entry.expiresAt, 0 when it never expires or is absent
  order,        \* Store.order: insertion order, front first
  clock,        \* what s.now() returns
  mu,           \* goroutine inside a multi-step critical section, or NoProc
  pc, call,     \* per goroutine: control state and the request it is serving
  cursor,       \* per goroutine: position of a sweep in order
  events,       \* per goroutine: hook events collected and not yet fired
  ret,          \* per goroutine: result of its last call, if that was a lookup that hit
  notify,       \* changeNotify holds a signal
  stopSweeper,  \* sweeper that Store.stopSweeper would stop, or NoProc
  sweeper,      \* state of each sweeper goroutine
  net,          \* history: per key, inserts reported to hooks minus removals reported
                \* to hooks or made silently by GetQuiet
  unsent        \* history: the contents changed since the signal was last consumed

storeVars == <<entries, value, expiresAt, order>>
procVars  == <<mu, pc, call, cursor, events, ret>>
sweeping  == <<stopSweeper, sweeper>>
vars      == <<storeVars, clock, procVars, notify, sweeping, net, unsent>>

EventKinds == {"insert", "update", "get", "explicit", "expired", "evicted", "flushed"}
Event      == [kind : EventKinds, key : Keys, value : Values]
Removals   == {"explicit", "expired", "evicted", "flushed"}

AnyKey == CHOOSE k \in Keys : TRUE

\* Operations that read the clock; they do so before they ask for the mutex.
Timed   == {"Set", "Add", "Get", "GetQuiet", "Range", "ExpireStale"}
Keyless == {"Range", "ExpireStale", "Flush", "Start", "Stop", "Close"}

\* A request; operations without a key, value or option carry defaults.  A lookup
\* carries the content of its destination as val, and NilDest as opt without one.
Request(op, k, v, o) ==
  [op |-> op, key |-> k, val |-> v, opt |-> o, now |-> IF op \in Timed THEN clock ELSE 0]

NoCall == [op |-> "none", key |-> AnyKey, val |-> ZeroValue, opt |-> Unset, now |-> 0]

Requests == [op : OpNames \cup {"none"}, key : Keys, val : Values, opt : Options, now : Nat]
Controls == {"idle", "wait", "scan", "evict", "flush", "fire"}

TypeOK ==
  /\ entries \subseteq Keys
  /\ value \in [Keys -> Values]
  /\ expiresAt \in [Keys -> Nat]
  /\ order \in Seq(Keys)
  /\ clock \in Nat \ {0}
  /\ mu \in Procs \cup {NoProc}
  /\ pc \in [Procs -> Controls]
  /\ call \in [Procs -> Requests]
  /\ cursor \in [Procs -> Nat]
  /\ events \in [Procs -> Seq(Event)]
  /\ ret \in [Procs -> Values \cup {NoValue}]
  /\ notify \in BOOLEAN
  /\ stopSweeper \in Sweepers \cup {NoProc}
  /\ sweeper \in [Sweepers -> {"off", "running", "stopping"}]
  /\ net \in [Keys -> Int]
  /\ unsent \in BOOLEAN

Init ==
  /\ entries = {}
  /\ value = [k \in Keys |-> ZeroValue]
  /\ expiresAt = [k \in Keys |-> 0]
  /\ order = <<>>
  /\ clock = 1
  /\ mu = NoProc
  /\ pc = [p \in Procs |-> "idle"]
  /\ call = [p \in Procs |-> NoCall]
  /\ cursor = [p \in Procs |-> 0]
  /\ events = [p \in Procs |-> <<>>]
  /\ ret = [p \in Procs |-> NoValue]
  /\ notify = FALSE
  /\ stopSweeper = NoProc
  /\ sweeper = [g \in Sweepers |-> "off"]
  /\ net = [k \in Keys |-> 0]
  /\ unsent = FALSE

-----------------------------------------------------------------------------
(* Helpers *)

\* Mutant: the zero time is not treated as "never expires".
ExpiredIgnoringZero(k, now) == now >= expiresAt[k]

expired(k, now) == expiresAt[k] # 0 /\ now >= expiresAt[k]

\* What the expire hook may answer: decline, or extend by a TTL (0: the default one).
ExpireAnswers == {NotExtended} \cup (IF HasExpireHook THEN {0} \cup TTLs ELSE {})

\* maybeExtendLocked: the new deadline when the hook extends by ttl.
ExtendedUntil(now, ttl) ==
  IF ttl > 0 THEN now + ttl ELSE IF DefaultTTL > 0 THEN now + DefaultTTL ELSE 0

\* Mutant: "never" encoded as a sentinel that is not the zero time.
ExpiresAtForSentinel(now, opt, existing) ==
  IF opt = 0 THEN -1 ELSE IF opt > 0 THEN now + opt ELSE IF DefaultTTL > 0 THEN now + DefaultTTL ELSE -1

expiresAtFor(now, opt, existing) ==
  CASE opt = 0 -> 0
    [] opt > 0 -> now + opt
    [] OTHER   -> IF ~existing /\ DefaultTTL > 0 THEN now + DefaultTTL ELSE 0

\* container/list: the last node, and Remove of the i-th one.
Back(s) == s[Len(s)]
ListRemove(s, i) == SubSeq(s, 1, i - 1) \o SubSeq(s, i + 1, Len(s))

\* The list without the node of key k.
Unlink(k) ==
  IF \E i \in DOMAIN order : order[i] = k
    THEN ListRemove(order, CHOOSE i \in DOMAIN order : order[i] = k)
    ELSE order

\* Mutant: the list node of a deleted entry stays behind.
DeleteLockedKeepsNode(k) ==
  /\ entries' = entries \ {k}
  /\ value' = [value EXCEPT ![k] = ZeroValue]
  /\ expiresAt' = [expiresAt EXCEPT ![k] = 0]
  /\ order' = order

\* deleteLocked: the entry leaves the map and the list together.
deleteLocked(k) ==
  /\ entries' = entries \ {k}
  /\ value' = [value EXCEPT ![k] = ZeroValue]
  /\ expiresAt' = [expiresAt EXCEPT ![k] = 0]
  /\ order' = Unlink(k)

\* OnSetMutate may replace the stored value by any other.
Mutated(v) == IF HasMutateHook THEN Values ELSE {v}

hookEvent(kind, k, v) == [kind |-> kind, key |-> k, value |-> v]

\* Mutant: a removal inside a loop is not reported.
RecordNothing(p, kind, k) == events' = events

\* recordDelete of k by goroutine p, inside a loop under the lock.
recordDelete(p, kind, k) == events' = [events EXCEPT ![p] = Append(@, hookEvent(kind, k, value[k]))]

\* Mutant: the signal is not sent.
NotifyLost == UNCHANGED notify

\* notifyChangeLocked: a non-blocking send on the change channel.
notifyChangeLocked == notify' = TRUE

\* The contents as a client sees them.
Contents == [k \in Keys |-> IF k \in entries THEN value[k] ELSE NoValue]

\* History: a step that changes the contents owes the channel's owner a signal.
TrackChange == unsent' = (unsent \/ Contents' # Contents)

\* Goroutine p has released the lock, its locals are dead, and it still has the
\* events evs to fire.
UnlockAndFire(p, evs) ==
  /\ call' = [call EXCEPT ![p] = NoCall]
  /\ events' = [events EXCEPT ![p] = evs]
  /\ pc' = [pc EXCEPT ![p] = IF evs = <<>> THEN "idle" ELSE "fire"]

\* Goroutine p gets the mutex for a request whose operation is in ops.
Locks(p, ops) == pc[p] = "wait" /\ mu = NoProc /\ call[p].op \in ops


-----------------------------------------------------------------------------
(* Calls: the clock is read here, before the mutex is requested. *)

Call(p, op, k, v, o) ==
  /\ pc[p] = "idle"
  /\ op \notin {"Set", "Add", "Get", "GetQuiet"} => v = ZeroValue /\ o = Unset
  /\ op \in {"Get", "GetQuiet"} => o = Unset \/ (o = NilDest /\ v = ZeroValue)
  /\ op \in Keyless => k = AnyKey
  /\ call' = [call EXCEPT ![p] = Request(op, k, v, o)]
  /\ pc' = [pc EXCEPT ![p] = "wait"]
  /\ ret' = [ret EXCEPT ![p] = NoValue]
  /\ UNCHANGED <<storeVars, clock, mu, cursor, events, notify, sweeping, net, unsent>>

-----------------------------------------------------------------------------
(* Set and Add *)

\* ErrAddNotSupported.
CannotAdd(p) == call[p].op = "Add" /\ ~Addable

\* addValue or setValue may fail: Add is not supported, or the method of V returns
\* an error, in which case it is taken to leave its receiver as it was.
MayFail(p) == CannotAdd(p) \/ Rejects

\* addValue / setValue on a stored or a zero value.
Written(p, old, existed) ==
  IF call[p].op = "Add" THEN AddTo(old, call[p].val, existed) ELSE SetTo(old, call[p].val, existed)

\* Mutant: a write always replaces the entry by a new one.
FindsNever(p, ans) == FALSE

\* Does the write of p find an entry to update?  ans is the expire hook's answer.
Finds(p, ans) ==
  LET c == call[p]
  IN c.key \in entries /\ (expired(c.key, c.now) => ans # NotExtended)

\* The deadline of an existing entry after a write: the hook's extension first,
\* then the call's TTL option, then refresh-on-write.
UpdatedDeadline(p, ans) ==
  LET c == call[p]
  IN IF c.opt # Unset THEN expiresAtFor(c.now, c.opt, TRUE)
     ELSE IF RefreshTTL /\ DefaultTTL > 0 THEN c.now + DefaultTTL
     ELSE IF expired(c.key, c.now) THEN ExtendedUntil(c.now, ans)
     ELSE expiresAt[c.key]

\* Set or Add of an existing entry, in one critical section.  A failing write has
\* already moved the deadline.
Update(p, ans) ==
  /\ Locks(p, {"Set", "Add"})
  /\ Finds(p, ans)
  /\ expiresAt' = [expiresAt EXCEPT ![call[p].key] = UpdatedDeadline(p, ans)]
  /\ UNCHANGED <<entries, order, clock, mu, cursor, ret, sweeping, net>>
  /\ \/ /\ MayFail(p)
        /\ UnlockAndFire(p, <<>>)
        /\ UNCHANGED <<value, notify>>
     \/ /\ ~CannotAdd(p)
        /\ \E v \in Mutated(Written(p, value[call[p].key], TRUE)) :
             /\ value' = [value EXCEPT ![call[p].key] = v]
             /\ UnlockAndFire(p, <<hookEvent("update", call[p].key, v)>>)
        /\ notifyChangeLocked

\* The delete event of the expired entry that a write of p drops first, if any.
DropEvents(p) ==
  LET k == call[p].key
  IN IF k \in entries THEN <<hookEvent("expired", k, value[k])>> ELSE <<>>

\* A write that fails on a new value: an expired entry is gone, and no signal is
\* sent for its removal.
InsertFails(p) ==
  /\ Locks(p, {"Set", "Add"})
  /\ ~Finds(p, NotExtended)
  /\ MayFail(p)
  /\ deleteLocked(call[p].key)
  /\ UnlockAndFire(p, DropEvents(p))
  /\ UNCHANGED <<clock, mu, cursor, ret, notify, sweeping, net>>

\* insertLocked, OnSetMutate and the deadline; p keeps the lock and goes on to
\* enforce the size limit.  The value before OnSetMutate is kept for the hook.
Insert(p) ==
  LET k == call[p].key
      v == Written(p, ZeroValue, FALSE)
  IN /\ Locks(p, {"Set", "Add"})
     /\ ~Finds(p, NotExtended)
     /\ ~CannotAdd(p)
     /\ mu' = p
     /\ pc' = [pc EXCEPT ![p] = "evict"]
     /\ entries' = entries \cup {k}
     /\ order' = Append(Unlink(k), k)
     /\ \E w \in Mutated(v) : value' = [value EXCEPT ![k] = w]
     /\ expiresAt' = [expiresAt EXCEPT ![k] = expiresAtFor(call[p].now, call[p].opt, FALSE)]
     /\ events' = [events EXCEPT ![p] = DropEvents(p)]
     /\ call' = [call EXCEPT ![p].val = v]
     /\ UNCHANGED <<clock, cursor, ret, notify, sweeping, net>>

\* Mutant: the size limit is off by one.
OverSizeByOne == MaxSize > 0 /\ Cardinality(entries) > MaxSize + 1 /\ order # <<>>

\* Mutant: eviction from the back of the queue.
NewestEntry == Back(order)

OldestEntry == Head(order)

OverSize == MaxSize > 0 /\ Cardinality(entries) > MaxSize /\ order # <<>>

\* One turn of the loop of enforceMaxSizeLocked.
Evict(p) ==
  LET k == OldestEntry
  IN /\ pc[p] = "evict" /\ OverSize
     /\ deleteLocked(k)
     /\ recordDelete(p, "evicted", k)
     /\ notifyChangeLocked
     /\ UNCHANGED <<clock, mu, pc, call, cursor, ret, sweeping, net>>

\* The end of an insertion: signal, record OnSet, unlock.
FinishInsert(p) ==
  /\ pc[p] = "evict" /\ ~OverSize
  /\ mu' = NoProc
  /\ UnlockAndFire(p, Append(events[p], hookEvent("insert", call[p].key, call[p].val)))
  /\ notifyChangeLocked
  /\ UNCHANGED <<storeVars, clock, cursor, ret, sweeping, net>>

-----------------------------------------------------------------------------
(* Get, GetQuiet and Delete *)

Misses(p) == ret' = [ret EXCEPT ![p] = NoValue]

\* Mutant: a hit does not write the destination, which keeps its content.
ReturnsUnassigned(p, v) == ret' = [ret EXCEPT ![p] = call[p].val]

\* copyValueLocked: a hit copies the stored value v into the destination; without
\* a destination the lookup answers as if it had missed.
Returns(p, v) ==
  ret' = [ret EXCEPT ![p] = IF call[p].opt = NilDest THEN NoValue ELSE CopyTo(call[p].val, v)]

GetMiss(p) ==
  /\ Locks(p, {"Get", "GetQuiet"})
  /\ call[p].key \notin entries
  /\ Misses(p)
  /\ UnlockAndFire(p, <<>>)
  /\ UNCHANGED <<storeVars, clock, mu, cursor, notify, sweeping, net>>

\* The expire hook keeps an expired entry: no OnGet, no refresh on read.
GetExtended(p, ans) ==
  LET c == call[p]
  IN /\ Locks(p, {"Get", "GetQuiet"})
     /\ c.key \in entries /\ expired(c.key, c.now) /\ ans # NotExtended
     /\ expiresAt' = [expiresAt EXCEPT ![c.key] = ExtendedUntil(c.now, ans)]
     /\ Returns(p, value[c.key])
     /\ UnlockAndFire(p, <<>>)
     /\ UNCHANGED <<entries, value, order, clock, mu, cursor, notify, sweeping, net>>

\* An expired entry is dropped; GetQuiet discards the delete event.
GetExpired(p) ==
  LET c == call[p]
  IN /\ Locks(p, {"Get", "GetQuiet"})
     /\ c.key \in entries /\ expired(c.key, c.now)
     /\ deleteLocked(c.key)
     /\ Misses(p)
     /\ UnlockAndFire(p, IF c.op = "Get" THEN <<hookEvent("expired", c.key, value[c.key])>> ELSE <<>>)
     /\ notifyChangeLocked
     /\ net' = IF c.op = "Get" THEN net ELSE [net EXCEPT ![c.key] = @ - 1]
     /\ UNCHANGED <<clock, mu, cursor, sweeping>>

GetLive(p) ==
  LET c == call[p]
      withHooks == c.op = "Get"
  IN /\ Locks(p, {"Get", "GetQuiet"})
     /\ c.key \in entries /\ ~expired(c.key, c.now)
     /\ expiresAt' = IF withHooks /\ RefreshTTLOnRead /\ DefaultTTL > 0
                       THEN [expiresAt EXCEPT ![c.key] = c.now + DefaultTTL]
                       ELSE expiresAt
     /\ Returns(p, value[c.key])
     /\ UnlockAndFire(p, IF withHooks THEN <<hookEvent("get", c.key, value[c.key])>> ELSE <<>>)
     /\ UNCHANGED <<entries, value, order, clock, mu, cursor, notify, sweeping, net>>

\* Delete removes the entry whether or not it has expired.
Delete(p) ==
  LET k == call[p].key
  IN /\ Locks(p, {"Delete"})
     /\ \/ /\ k \in entries
           /\ deleteLocked(k)
           /\ UnlockAndFire(p, <<hookEvent("explicit", k, value[k])>>)
           /\ notifyChangeLocked
        \/ /\ k \notin entries
           /\ UnlockAndFire(p, <<>>)
           /\ UNCHANGED <<storeVars, notify>>
     /\ UNCHANGED <<clock, mu, cursor, ret, sweeping, net>>

-----------------------------------------------------------------------------
(* expireBeforeLocked, run by ExpireStale and at the start of Range *)

\* Mutant: a sweep starts at the second entry.
SecondPosition == 2

FrontPosition == 1

StartScan(p) ==
  /\ Locks(p, {"Range", "ExpireStale"})
  /\ mu' = p
  /\ pc' = [pc EXCEPT ![p] = "scan"]
  /\ cursor' = [cursor EXCEPT ![p] = FrontPosition]
  /\ UNCHANGED <<storeVars, clock, call, events, ret, notify, sweeping, net>>

Scanning(p) == pc[p] = "scan" /\ cursor[p] <= Len(order)

\* A live entry is passed over, an expired one that the hook keeps is extended.
ScanKeep(p, ans) ==
  LET k == order[cursor[p]]
  IN /\ Scanning(p)
     /\ expired(k, call[p].now) => ans # NotExtended
     /\ expiresAt' = IF expired(k, call[p].now)
                       THEN [expiresAt EXCEPT ![k] = ExtendedUntil(call[p].now, ans)]
                       ELSE expiresAt
     /\ cursor' = [cursor EXCEPT ![p] = @ + 1]
     /\ UNCHANGED <<entries, value, order, clock, mu, pc, call, events, ret, notify, sweeping, net>>

\* An expired entry is removed; its successor moves under the cursor.
ScanDrop(p) ==
  LET k == order[cursor[p]]
  IN /\ Scanning(p)
     /\ expired(k, call[p].now)
     /\ deleteLocked(k)
     /\ recordDelete(p, "expired", k)
     /\ notifyChangeLocked
     /\ UNCHANGED <<clock, mu, pc, call, cursor, ret, sweeping, net>>

\* Range copies the entries here, under the lock; the copy goes to its callback.
FinishScan(p) ==
  /\ pc[p] = "scan" /\ cursor[p] > Len(order)
  /\ mu' = NoProc
  /\ cursor' = [cursor EXCEPT ![p] = 0]
  /\ UnlockAndFire(p, events[p])
  /\ UNCHANGED <<storeVars, clock, ret, notify, sweeping, net>>

-----------------------------------------------------------------------------
(* Flush: a map iteration, in any order *)

StartFlush(p) ==
  /\ Locks(p, {"Flush"})
  /\ mu' = p
  /\ pc' = [pc EXCEPT ![p] = "flush"]
  /\ UNCHANGED <<storeVars, clock, call, cursor, events, ret, notify, sweeping, net>>

FlushEntry(p, k) ==
  /\ pc[p] = "flush" /\ k \in entries
  /\ deleteLocked(k)
  /\ recordDelete(p, "flushed", k)
  /\ UNCHANGED <<clock, mu, pc, call, cursor, ret, notify, sweeping, net>>

FinishFlush(p) ==
  /\ pc[p] = "flush" /\ entries = {}
  /\ mu' = NoProc
  /\ UnlockAndFire(p, events[p])
  /\ notifyChangeLocked
  /\ UNCHANGED <<storeVars, clock, cursor, ret, sweeping, net>>
-----------------------------------------------------------------------------
(* Start, Stop, Close and the sweeper goroutine *)

\* Start installs one sweeper; it is ignored while one is installed.  Sweepers
\* bounds how many sweeper goroutines exist at once.
Start(p) ==
  /\ Locks(p, {"Start"})
  /\ \/ stopSweeper # NoProc /\ UNCHANGED <<sweeping>>
     \/ /\ stopSweeper = NoProc
        /\ \E g \in Sweepers :
             /\ sweeper[g] = "off"
             /\ sweeper' = [sweeper EXCEPT ![g] = "running"]
             /\ stopSweeper' = g
  /\ UnlockAndFire(p, <<>>)
  /\ UNCHANGED <<storeVars, clock, mu, cursor, ret, notify, net>>

\* Stop closes the stop channel and does not wait for the goroutine.
\* Close is Stop followed by Flush.
Stop(p) ==
  /\ Locks(p, {"Stop", "Close"})
  /\ stopSweeper' = NoProc
  /\ sweeper' = [g \in Sweepers |-> IF g = stopSweeper THEN "stopping" ELSE sweeper[g]]
  /\ \/ /\ call[p].op = "Stop"
        /\ UnlockAndFire(p, <<>>)
     \/ /\ call[p].op = "Close"
        /\ call' = [call EXCEPT ![p].op = "Flush"]
        /\ UNCHANGED <<pc, events>>
  /\ UNCHANGED <<storeVars, clock, mu, cursor, ret, notify, net>>

\* The select of the sweeper: with the stop channel closed and a tick pending it
\* may take either branch.
SweepTick(g) == sweeper[g] # "off" /\ Call(g, "ExpireStale", AnyKey, ZeroValue, Unset)

SweepExit(g) ==
  /\ sweeper[g] = "stopping" /\ pc[g] = "idle"
  /\ sweeper' = [sweeper EXCEPT ![g] = "off"]
  /\ UNCHANGED <<storeVars, clock, procVars, notify, stopSweeper, net, unsent>>

-----------------------------------------------------------------------------
(* fireHooks, the environment, and the specification *)

\* One iteration of fireHooks, outside the lock.
Fire(p) ==
  LET e == Head(events[p])
  IN /\ pc[p] = "fire"
     /\ UnlockAndFire(p, Tail(events[p]))
     /\ net' = [net EXCEPT ![e.key] = @ + (IF e.kind = "insert" THEN 1
                                           ELSE IF e.kind \in Removals THEN -1 ELSE 0)]
     /\ UNCHANGED <<storeVars, clock, mu, cursor, ret, notify, sweeping>>

\* The owner of the change channel receives the signal.
Receive ==
  /\ notify
  /\ notify' = FALSE /\ unsent' = FALSE
  /\ UNCHANGED <<storeVars, clock, procVars, sweeping, net>>

Tick ==
  /\ clock < MaxTime
  /\ clock' = clock + 1
  /\ UNCHANGED <<storeVars, procVars, notify, sweeping, net, unsent>>

\* The critical section of p for a request that is waiting for the lock.
Enter(p) ==
  /\ \/ \E ans \in ExpireAnswers : Update(p, ans) \/ GetExtended(p, ans)
     \/ InsertFails(p) \/ Insert(p)
     \/ GetMiss(p) \/ GetExpired(p) \/ GetLive(p)
     \/ Delete(p) \/ StartScan(p) \/ StartFlush(p)
     \/ Start(p) \/ Stop(p)
  /\ TrackChange

\* What p does once it is inside a multi-step critical section, or firing hooks.
Continue(p) ==
  /\ \/ Evict(p) \/ FinishInsert(p)
     \/ \E ans \in ExpireAnswers : ScanKeep(p, ans)
     \/ ScanDrop(p) \/ FinishScan(p)
     \/ \E k \in Keys : FlushEntry(p, k)
     \/ FinishFlush(p)
     \/ Fire(p)
  /\ TrackChange

Next ==
  \/ \E p \in Callers, op \in Ops, k \in Keys, v \in Values, o \in Options : Call(p, op, k, v, o)
  \/ \E p \in Procs : Enter(p) \/ Continue(p)
  \/ \E g \in Sweepers : SweepTick(g) \/ SweepExit(g)
  \/ Receive
  \/ Tick

Spec == Init /\ [][Next]_vars

\* Goroutines are scheduled, a sync.Mutex does not starve a waiter, and the
\* ticker keeps ticking.  Nothing obliges anyone to call the store.
Fairness ==
  /\ \A p \in Procs : SF_vars(Enter(p)) /\ WF_vars(Continue(p))
  /\ \A g \in Sweepers : WF_vars(SweepTick(g))

FairSpec == Spec /\ Fairness
-----------------------------------------------------------------------------
(* Properties *)

\* The map and the insertion-order list always hold the same keys, each once:
\* insertLocked and deleteLocked keep the two structures in step.
OrderMatchesEntries ==
  /\ Range(order) = entries
  /\ \A i, j \in DOMAIN order : order[i] = order[j] => i = j

\* WithMaxSize: between critical sections the store never holds more than
\* MaxSize entries, and inside one at most the entry just inserted more.
SizeBounded ==
  MaxSize > 0 => Cardinality(entries) <= MaxSize + (IF \E p \in Procs : pc[p] = "evict" THEN 1 ELSE 0)

\* enforceMaxSizeLocked evicts from the front, so an insertion never evicts the
\* entry it has just added: that entry is the last of the queue.
NewEntrySurvives ==
  \A p \in Procs : pc[p] = "evict" => order # <<>> /\ Back(order) = call[p].key

\* Events of kind in kinds for key k that are recorded and not yet fired.
Pending(k, kinds) ==
  UNION {{<<p, i>> : i \in {j \in DOMAIN events[p] : events[p][j].key = k /\ events[p][j].kind \in kinds}}
           : p \in Procs}

\* Insertions of k made under the lock whose OnSet is recorded only at the end.
Unrecorded(k) == {p \in Procs : pc[p] = "evict" /\ call[p].key = k}

\* Hooks account for every entry: inserts reported so far minus removals
\* reported so far, plus those still queued in some goroutine, is 1 for a key
\* that is present and 0 for one that is not, the removals that GetQuiet makes
\* without a report aside.  No interleaving of writers, readers and sweepers
\* reports an entry twice or loses a report.
HookAccounting ==
  \A k \in Keys :
    net[k] + Cardinality(Pending(k, {"insert"})) + Cardinality(Unrecorded(k))
           - Cardinality(Pending(k, Removals)) = IF k \in entries THEN 1 ELSE 0

\* WithChangeNotifier (store.go:80 "sets a channel that receives a signal on store
\* changes"): whenever the lock is free and an entry was added, removed or given
\* another value since the owner last received, a signal is waiting for it, though
\* the send does not block and drops what does not fit.  It needs writes that
\* succeed: a failing one removes an expired entry without a signal.
ChangeSignalled == mu = NoProc /\ unsent => notify

\* The deadline of k has passed.
Past(k) == expiresAt[k] \in 1..clock

\* p is deleting k: its request has the lock in this step.
Deletes(p, k) == pc[p] = "wait" /\ pc'[p] # "wait" /\ call[p].op = "Delete" /\ call[p].key = k

\* An entry whose deadline has not passed leaves the store only through its own
\* Delete, a Flush, or as the oldest entry of a store above its size limit: no
\* caller or sweeper drops it, whatever clock it read before it got the lock and
\* whatever was inserted, evicted or extended since.
LiveEntriesKept ==
  [][\A k \in entries \ entries' :
       \/ Past(k)
       \/ OverSize /\ k = Head(order)
       \/ \E p \in Procs : pc[p] = "flush" \/ Deletes(p, k)]_vars

\* Eviction is first in, first out: updates and reads never move an entry in the
\* queue; only an entry that had expired re-enters at the back.
QueueStable ==
  [][\A i, j \in DOMAIN order, m, n \in DOMAIN order' :
       i < j /\ order[i] = order'[m] /\ order[j] = order'[n] => m < n \/ Past(order[i])]_vars

\* With a sweeper installed, an entry past its deadline is eventually removed or
\* given a new deadline, even if nobody touches it again.
ExpiredEntriesSwept ==
  \A k \in Keys :
    (stopSweeper # NoProc /\ k \in entries /\ Past(k))
      ~> (stopSweeper = NoProc \/ k \notin entries \/ ~Past(k))

\* The request of p that the abstract cache has still to serve: p waits for the lock.
Unserved(p) ==
  LET c  == call[p]
      op == IF c.op \in {"Get", "GetQuiet"} THEN "Lookup" ELSE c.op
  IN IF pc[p] = "wait" /\ op \in {"Set", "Add", "Lookup", "Delete"}
       THEN [op |-> op, key |-> c.key, val |-> c.val, dest |-> c.opt # NilDest]
       ELSE [op |-> "none"]

Cache ==
  INSTANCE KVCache WITH map <- Contents, pending <- [p \in Procs |-> Unserved(p)], result <- ret

\* Every call of Set, Add, Get, GetQuiet and Delete takes effect exactly once, in
\* one step between its invocation and its return (linearizability), whatever
\* other callers, sweeps, evictions and flushes do in between; no key gets a value
\* that no write of it made.
ImplementsCache == Cache!Spec

\* store.go:37 "OnDelete is called after Delete or expiry/eviction/flush": the
\* step that removes an entry queues a delete event for it.
RemovalReported ==
  [][\A k \in entries \ entries' :
       \E p \in Procs : \E e \in Range(events'[p]) : e.key = k /\ e.kind \in Removals]_vars

\* store.go:455 "Stop halts background tasks without removing entries": while no
\* sweeper is installed, no sweeper goroutine removes an entry.
StopHaltsSweeper ==
  [][stopSweeper = NoProc => \A g \in Sweepers : ~(mu = g /\ entries' # entries)]_vars
=============================================================================
