# goflow2 in TLA+

A verification project for goflow2, a collector of NetFlow v5/v9, IPFIX and
sFlow datagrams, and for ReFlow, the flow re-processing pipeline built on the same
libraries. The modules model the Go code under `src/`; TLC checks small instances
of them and TLAPS proves the theorems for every instance.

## The system

Datagrams arrive on UDP sockets (`utils/udp.go`) and go over a channel to decoding
workers. A pipe (`utils/pipe.go`) picks the decoder by version, the decoder
(`decoders/`) uses templates learned from earlier datagrams, the producer
(`producer/`) turns records into flow messages with the sampling rate of the
exporter, and a format and a transport (`format/`, `transport/`) write them.
Templates and sampling rates live in two stores (`utils/store/templates`,
`utils/store/samplingrate`), both thin wrappers of one generic key/value store with
expiry (`pkg/flowstore`). A persistence manager (`utils/store/persistence`) keeps
both in one JSON file and reloads it at start. `pkg/goflow2/collector` and
`pkg/goflow2/app` wire the parts and order start and shutdown. ReFlow
(`pkg/reflow`) reads flows or packets from sources, decodes them with the same
decoders and stores, processes and aggregates events, encodes them and sends them
to sinks.

The concurrency that decides correctness is in the stores, the persistence
manager, the receiver, the application lifecycle and the ReFlow pipeline. The
decoders, producers and encoders are sequential, and their hazards are lengths,
templates that change under way, and sequence numbers.

### Inventory

`PROJECT.json` lists every part under `components` with its files and status.

| part | lines | module | status |
|---|---|---|---|
| flow store | 684 | `FlowStore`, `KVCache` | all but `SetHooks` |
| store persistence | 443 | `StorePersistence`, `Durable` | all but `Document` |
| UDP receiver | 356 | `UDPReceiver` | sockets, workers, Start/Stop/restart |
| template and sampling-rate stores | 816 | `FlowStore`, `StorePersistence` | storage and close order; composition planned |
| collector, app, config | 840 | – | planned |
| pipes, muting, debug wrappers | 440 | – | planned |
| transports | 593 | – | planned |
| metrics | 742 | – | planned, as a mirror of the stores |
| NetFlow/IPFIX codec | 2700 | – | planned |
| NetFlow v5 codec, sFlow codec | 2600 | – | planned |
| producers | 3700 | – | planned |
| ReFlow app, aggregator, processor | 2800 | – | planned |
| ReFlow encoders, decoder | 7100 | – | planned |
| ReFlow packet normaliser, events | 2300 | – | planned |
| ReFlow sources, sinks | 3200 | – | partly planned |
| ReFlow configuration | 2900 | – | no run-time state |
| generated protobuf code | 1500 | – | not modelled |

## Modules

### `FlowStore`, `KVCache`

`FlowStore` is `pkg/flowstore/store.go`. The map is split into `entries`, `value`
and `expiresAt`, the linked list is the sequence `order`. Goroutines are `Callers`
and `Sweepers`; each serves one request at a time, kept in `call`, and `pc` says
where it is. `Call` reads the clock, as the code does before it locks; so the time a
critical section uses may be old. `Update`, `Insert`, `GetLive` and the other
actions of `Enter` are the critical sections; those that loop over entries (`Evict`,
`ScanKeep`/`ScanDrop`, `FlushEntry`) take one step per entry while `mu` is held.
Hook events collected under the lock are in `events` and `Fire` delivers them one by
one afterwards. `SweepTick` and `SweepExit` are the select of the sweeper, which may
choose either branch when both are ready. `Add`, `Set` and `copyValue` of the value
type are the operators `AddTo`, `SetTo` and `CopyTo`; the value type of the
instances has no `CopyFrom`, so that a lookup merges into its destination as
`copyValue` does then. `Rejects` lets the methods of the value type return an error;
such a method is taken to leave its receiver alone. A lookup without a destination
(`NilDest`, which no caller in the repository uses) answers as a miss. What the
expire and mutate hooks answer is nondeterministic. `net` and `unsent` are history:
`unsent` records that the contents differ from what they were at the last receipt of
the change signal, whoever changed them and whether or not that step signalled.

`KVCache` is what the store promises: a map of keys to values and one pending
request per goroutine. A request is served in one step, once, between its
invocation and its return, and its answer is fixed in that step; besides, entries
may be forgotten one by one, as sweeps, evictions and flushes do.
`FlowStore!ImplementsCache` is the refinement, that is linearizability.

### `StorePersistence`, `Durable`

`StorePersistence` is `utils/store/persistence/store_persistence.go` through
process starts, crashes and restarts. The content of a store is a version number.
`NewStore` preloads a section, `Change` changes a store and `NotifyChange` is the
hook that follows later. `SilentChange` is the change that runs no hook:
`RemoveTemplate`, or `Remove` of a rate, meets an expired entry, which `GetQuiet`
drops; `hooked` is the history of the contents at the last change that runs one. A
flush is one step per system call: lock, snapshot of each store, truncate, write,
rename; any file step may fail and the process may die between any two. What is left
of a temporary file after a failure or a crash is truncated before it is read, and
counts as none. A failed flush goes on to `emitError`: it takes `errMu`
(`EmitError`), then sends (`EmitSend`), and a send on a closed channel panics;
`Manager.Close` takes `errMu`, closes the channel (`CloseErrors`) and then sets
`errClosed` (`MarkErrors`). `Loop*` is the goroutine with its timer, `CloseStore`,
`CloseManager` and the steps after them are the close hooks of the stores and
`Manager.Close` with its `sync.Once`. `CloseIn` says when the application closes:
both applications after Start, ReFlow also after a failed preload, goflow2 then
exits; nothing in the manager keeps a close, and then a Start, from coming before.
`due` is the history of what the closers in `Followed` have to save.

`Durable` is the promise: a section of the file only moves forward, never past its
store, and a restarted process resumes from the file.

### `UDPReceiver`

`utils/udp.go`. `main` is the goroutine that calls Start and Stop, `recv` the
receive routine of each socket, `watch` the goroutine that closes its connection
when `stopCh` is closed, `worker` the decoders. Buffers move between `pool`, a
socket, `dispatch` and a worker; the content of one that has been put back is dead,
since the next read overwrites it, and counts as `None`. `mode` is the
configuration, chosen at the start among `Modes`: size 0 is the unbuffered channel,
where a send is a handover to a waiting worker, and without a callback a dropped
datagram is not reported and goes to `lost`.

## Runs

| run | shows |
|---|---|
| `flowstore_data` | two callers with stale clocks, all operations on the contents, evictions and a sweep: `ImplementsCache`, `LiveEntriesKept`, `ChangeSignalled` |
| `flowstore_queue` | evictions among three keys and writes the value type rejects: `QueueStable`, `HookAccounting` |
| `flowstore_lifecycle` | writers against sweepers, Start, Stop, Close, adds that are not supported: `OrderMatchesEntries`, `SizeBounded`, `NewEntrySurvives`, `HookAccounting`, `LiveEntriesKept`, `ExpiredEntriesSwept` |
| `persistence_crash` | crashes, failures, overlapping closes: `CloseSaves`, `NeverPanics`, `NoLostChange`, `NeverTears`, `ImplementsDurable` |
| `persistence_liveness` | debouncing, overlapping closes, removals without a hook: `NoLostChange`, `EventuallySaved`, `CloseReturns` |
| `udp` | queued and synchronous, dropping and blocking: `Accounted`, `OneOwner`, `StopQuiesces`, `NeverPanics`, `StopReturns`, `QueuedDecoded` |

and, as counterexamples to what a comment or a test says,

| run | shows |
|---|---|
| `flowstore_silent_expiry` | `GetQuiet` removes an expired entry without `OnDelete` |
| `flowstore_stop` | a sweeper removes entries after `Stop` returned |
| `flowstore_unsignalled` | a write that fails has dropped an expired entry without a change signal |
| `persistence_boot_overwrite` | ReFlow overwrites the cache file after a failed preload |
| `persistence_manager_close` | `Manager.Close` does not flush once the stores are closed |
| `udp_blocking` | the blocking mode discards the datagram in hand at Stop |

Smaller divergences met on the way have no run of their own: on an insertion `OnSet`
carries the value from before `OnSetMutate` (`store.go:226`, against
`docs/flowstore.md:167`); a `Get` whose entry the expire hook extends returns it
without `OnGet` (`store.go:320`, against the diagram of `docs/flowstore.md:176`); and
`Close` of the two stores closes no error channel (`templates/store.go:153`).

Three properties have an exception the code makes necessary. `ChangeSignalled`
holds where writes succeed (`flowstore_data`) and fails where they do not
(`flowstore_unsignalled`). `NoLostChange` and `EventuallySaved` speak of changes that
run a hook: an expired entry removed through `RemoveTemplate` or `Remove` stays in the
file until another change is flushed, and no document promises otherwise. A failed
write is not retried, so `NoLostChange` lets a change wait after one, and
`EventuallySaved` is checked where writes succeed. Not excluded, since the code
allows them: a writer that read the clock early storing an older deadline, hooks that
see the events of two goroutines in another order than the store made them (only the
sums are checked), and a file whose two sections are of different moments (`Durable`
promises each by itself).

### Bounds

`MaxTime` bounds the clock of `FlowStore`: with a TTL of 1, two instants are enough
for an entry to be written, expire, and be met by a goroutine with the old time. Two
callers are enough for every pair of critical sections to interleave with each
other's hooks; two sweepers are the old one of a `Stop` and the new one of the
`Start` after it. One entry allowed for two keys makes every second insertion evict;
two for three keys lets an eviction change the middle of a queue.
`MaxVersion` bounds the changes of a section per history, `MaxHooks` the calls
between a change and their hook: one change of each of two sections is enough for a
snapshot to be older than its file. `ErrCap`, the capacity of the error channel, is 1:
the second error that nobody reads is dropped. Closers that come before Start are in
`persistence_crash` only, where there is no loop they could wait for. Two sockets, two
workers, two datagrams and five buffers let every party hold a buffer while another
is read into; the four combinations of queue and blocking have a callback, as in the
collector, and the dropping one with a queue also has none.

### Fairness

Goroutines are scheduled (weak fairness of their steps). Go's `sync.Mutex` hands the
lock to a waiter after a millisecond, so entering a critical section of `FlowStore` is
strongly fair; `StorePersistence` does without, since the goroutines that flush and
the changes they flush are finitely many. Timers fire, tickers tick, a read on a closed connection fails, `decodeFunc`
and hooks return. Nobody is obliged to call an operation, and a process may crash
for ever.

## Proofs

`FlowStoreProofs`, over the lemmas and the inductive invariant of `FlowStoreTypes`,
proves for every set of keys, values, goroutines and options
`TypeOK`, `OrderMatchesEntries`, `SizeBounded` and `NewEntrySurvives` of `FlowStore`,
from `StoreAssumption`. None of the four is inductive. The inductive invariant `IInv`
adds `LockInv`, that the goroutine inside a multi-step critical section is the one
`mu` names, so that two goroutines are never in one together, and `LocalInv`, what
a goroutine inside one knows of its request and cursor. With these, an eviction
starts from a store in which the entry just appended is the last of `order`;
`OrderMatchesEntries` makes the length of `order` the number of entries; and so a
store above its limit has at least two entries, of which the first is another one.
The lemmas at the head of `FlowStoreTypes` state what removing and appending an element do
to the range and the length of a sequence without duplicates.

Model-checked only: everything else, and in particular liveness, since the prover
handles neither fairness nor ENABLED; what recursive definitions compute, since it
cannot instantiate induction; and modules with RECURSIVE operators.

## Not modelled

`SetHooks` and `Document` (no state, or no caller); the JSON and protobuf encodings;
log messages and the contents of errors; addresses of datagrams; Stop called by two
goroutines at once, which the collector does not do. See `components` for the parts
without a module yet.

## Plan

1. `Collector`: receivers, error forwarders, App start and shutdown order over
   `UDPReceiver`, including a start that fails half way; `FileTransport` (SIGHUP
   reopening between sends) and the Kafka error goroutine; `BatchMute`.
2. `TemplateStore`: `AddTemplate`/`RemoveTemplate` as two store calls, its metrics
   mirror, over the abstract `KVCache`.
3. `NetflowDecoder`: sets, templates learned and replaced between datagrams, sampling
   options, the pipes and the producers; the protocol sequence of exporter restarts.
4. `ReflowPipeline`: sources, workers, aggregator windows, sink reconnection and the
   order of draining; `Aggregator` against a reference fold.
5. `TemplateEncoder` (tflow) and `SFlowCodec`: sequence numbers, template refresh,
   datagram limits, round trips as pure operators.
6. `PacketNormalizer`, `Processor`: pure operators against reference definitions.
7. Proofs: `ImplementsCache` and `ChangeSignalled` of `FlowStore`; `NeverTears` and
   the refinement of `Durable`; `OneOwner` and `StopQuiesces` of `UDPReceiver`.

The runs stay few: components of one question share a run, and pure operators are
checked together.
