-------------------------------- MODULE KVCache --------------------------------
(***************************************************************************)
(* What a client of a flow store may rely on, with TTLs, eviction order,    *)
(* locks, hooks and sweepers abstracted away: one map and the requests of   *)
(* the clients.  Every request is served exactly once, in one step between  *)
(* its invocation and its answer.  A value enters the map only by a pending *)
(* write of that key and is what the write makes of the value held, or of   *)
(* the zero value; a hit returns the current value; a miss means that the   *)
(* key is absent.  Like any cache, the store may forget a key at any time.  *)
(***************************************************************************)
CONSTANTS Keys, Values, ZeroValue, NoValue, Procs,
          AddTo(_, _, _), SetTo(_, _, _), CopyTo(_, _),   \* the methods of the values
          Addable, Rejects,   \* can values be added, may their methods fail?
          HasMutateHook       \* may a hook replace the value written?

VARIABLES
  map,      \* Keys -> Values, or NoValue for an absent key
  pending,  \* Procs -> the request not served yet, or Nothing
  result    \* Procs -> answer of the last request, if it was a lookup that hit

Requests == [op : {"Set", "Add", "Lookup", "Delete"}, key : Keys, val : Values, dest : BOOLEAN]
Nothing  == [op |-> "none"]

Init ==
  /\ map = [k \in Keys |-> NoValue]
  /\ pending = [p \in Procs |-> Nothing]
  /\ result = [p \in Procs |-> NoValue]

Without(k) == [map EXCEPT ![k] = NoValue]

Serve(p) == pending' = [pending EXCEPT ![p] = Nothing]

Invoke(p) ==
  /\ pending[p] = Nothing
  /\ pending'[p] \in Requests
  /\ pending' = [pending EXCEPT ![p] = pending'[p]]
  /\ result' = [result EXCEPT ![p] = NoValue]
  /\ UNCHANGED map

\* What the write r makes of the value old, or of the zero value if there is none.
Outcome(r, old) ==
  LET existed == old # NoValue
      base    == IF existed THEN old ELSE ZeroValue
  IN IF r.op = "Add" THEN AddTo(base, r.val, existed) ELSE SetTo(base, r.val, existed)

\* A write that finds an entry too old forgets it and starts from nothing.
Write(p) ==
  LET r == pending[p]
  IN /\ r.op \in {"Set", "Add"}
     /\ r.op = "Add" => Addable
     /\ \E old \in {map[r.key], NoValue} :
          \E v \in IF HasMutateHook THEN Values ELSE {Outcome(r, old)} :
            map' = [map EXCEPT ![r.key] = v]
     /\ Serve(p)
     /\ UNCHANGED result

Fail(p) ==
  /\ pending[p].op \in {"Set", "Add"}
  /\ Rejects \/ (pending[p].op = "Add" /\ ~Addable)
  /\ map' \in {map, Without(pending[p].key)}
  /\ Serve(p)
  /\ UNCHANGED result

\* A lookup that finds an entry too old forgets it and misses, in one step.
Lookup(p) ==
  LET r == pending[p]
  IN /\ r.op = "Lookup"
     /\ map' \in {map, Without(r.key)}
     /\ result' = [result EXCEPT ![p] = IF r.dest /\ map'[r.key] # NoValue
                                          THEN CopyTo(r.val, map'[r.key]) ELSE NoValue]
     /\ Serve(p)

Delete(p) ==
  /\ pending[p].op = "Delete"
  /\ map' = Without(pending[p].key)
  /\ Serve(p)
  /\ UNCHANGED result

\* A process calls an operation that is not a request: its old answer is dead.
Discard(p) ==
  /\ pending[p] = Nothing
  /\ result' = [result EXCEPT ![p] = NoValue]
  /\ UNCHANGED <<map, pending>>

Forget(k) == map' = Without(k) /\ UNCHANGED <<pending, result>>

Next ==
  \/ \E p \in Procs : Invoke(p) \/ Write(p) \/ Fail(p) \/ Lookup(p) \/ Delete(p) \/ Discard(p)
  \/ \E k \in Keys : Forget(k)

Spec == Init /\ [][Next]_<<map, pending, result>>
=============================================================================
