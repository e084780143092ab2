---------------------------- MODULE UDPReceiver ----------------------------
(* utils/udp.go: the receiver that reads datagrams on several sockets into   *)
(* pooled buffers and hands them to decoding workers over one channel, with  *)
(* its Start, its Stop, which drains the channel, and restarts.              *)
(*                                                                           *)
(* A datagram is a member of Packets that arrives at most once.  Errors go   *)
(* to a channel nobody needs to read (logError never blocks) and are left    *)
(* out.  Start and Stop are called by one goroutine, as the collector does.  *)
EXTENDS Naturals, Sequences, FiniteSets

CONSTANTS NumSockets,  \* sockets are opened in the order 1..NumSockets
          Workers,
          Modes,       \* the configurations: QueueSize (0 is the synchronous
                       \* mode), Blocking, and whether there is a callback
          Packets,
          Buffers,     \* the packets the pool can hand out
          None

ASSUME ReceiverAssumption ==
    /\ NumSockets \in Nat \ {0}
    /\ Modes \subseteq [size : Nat, blocking : BOOLEAN, callback : BOOLEAN]
    /\ IsFiniteSet(Workers) /\ Workers # {}
    /\ IsFiniteSet(Packets) /\ IsFiniteSet(Buffers)
    /\ \A m \in Modes :
           Cardinality(Buffers) >= NumSockets + Cardinality(Workers) + m.size
    /\ None \notin Packets \union Buffers

VARIABLES mode,      \* the configuration, a member of Modes
          ready,     \* the channel ready is closed: stopped
          stopCh,    \* stopCh is closed
          dispatch, dispatchClosed,
          main,      \* the caller of Start and Stop
          opened,    \* sockets Start has set up so far
          recv,      \* per socket: its receive routine
          conn,      \* per socket: the connection is open
          watch,     \* per socket: the goroutine that waits for stopCh
          rbuf,      \* per socket: the buffer it owns
          worker, wbuf,  \* per worker: control and buffer
          pool,      \* buffers in the pool or garbage
          payload,   \* contents of the buffers, None once they are put back:
                     \* the next read overwrites them
          arrived,   \* history: datagrams read from a socket
          decoded,   \* history: how often each was decoded
          dropped,   \* history: reported to the Dropped callback
          lost,      \* history: discarded without a report
          panicked

session == <<mode, ready, stopCh, main, opened>>
socketVars == <<recv, conn, watch, rbuf>>
workerVars == <<worker, wbuf>>
queue == <<dispatch, dispatchClosed, panicked>>
history == <<arrived, decoded, dropped, lost>>
vars == <<session, socketVars, workerVars, queue, pool, payload, history>>

Sockets == 1..NumSockets
QueueSize == mode.size
Blocking == mode.blocking

TypeOK == /\ mode \in Modes
          /\ {ready, stopCh, dispatchClosed, panicked} \subseteq BOOLEAN
          /\ dispatch \in Seq(Buffers) /\ Len(dispatch) <= QueueSize
          /\ main \in {"idle", "start", "waitRecv", "waitDecode"}
          /\ opened \in 0..NumSockets
          /\ recv \in [Sockets -> {"off", "get", "read", "hold"}]
          /\ conn \in [Sockets -> BOOLEAN] /\ watch \in [Sockets -> BOOLEAN]
          /\ rbuf \in [Sockets -> Buffers \union {None}]
          /\ worker \in [Workers -> {"off", "range", "decode", "put"}]
          /\ wbuf \in [Workers -> Buffers \union {None}]
          /\ pool \subseteq Buffers
          /\ payload \in [Buffers -> Packets \union {None}]
          /\ arrived \subseteq Packets
          /\ decoded \in [Packets -> Nat]
          /\ dropped \subseteq arrived /\ lost \subseteq arrived

\* NewUDPReceiver: init has made the channels and closed ready.
Init == /\ mode \in Modes
        /\ ready = TRUE /\ stopCh = FALSE /\ panicked = FALSE
        /\ dispatch = <<>> /\ dispatchClosed = FALSE
        /\ main = "idle" /\ opened = 0
        /\ recv = [s \in Sockets |-> "off"] /\ conn = [s \in Sockets |-> FALSE]
        /\ watch = [s \in Sockets |-> FALSE] /\ rbuf = [s \in Sockets |-> None]
        /\ worker = [w \in Workers |-> "off"] /\ wbuf = [w \in Workers |-> None]
        /\ pool = Buffers /\ payload = [b \in Buffers |-> None]
        /\ arrived = {} /\ decoded = [d \in Packets |-> 0]
        /\ dropped = {} /\ lost = {}

-----------------------------------------------------------------------------
(* Start: the workers, then one socket after another.                       *)

Start == /\ main = "idle" /\ ready
         /\ ready' = FALSE
         /\ worker' = [w \in Workers |-> "range"]
         /\ main' = "start" /\ opened' = 0
         /\ UNCHANGED <<mode, stopCh, socketVars, wbuf, queue, pool, payload, history>>

\* receive has a socket, closes started and leaves a goroutine that waits for
\* stopCh; receivers goes on with the next one.
Listen == /\ main = "start" /\ opened < NumSockets
          /\ opened' = opened + 1
          /\ recv' = [recv EXCEPT ![opened'] = "get"]
          /\ conn' = [conn EXCEPT ![opened'] = TRUE]
          /\ watch' = [watch EXCEPT ![opened'] = TRUE]
          /\ UNCHANGED <<mode, ready, stopCh, main, rbuf, workerVars, queue, pool,
                         payload, history>>

StartDone == /\ main = "start" /\ opened = NumSockets
             /\ main' = "idle"
             /\ UNCHANGED <<mode, ready, stopCh, opened, socketVars, workerVars,
                            queue, pool, payload, history>>

\* Stop begins: closed by the caller, or by Start when a socket fails.
Stop == /\ main' = "waitRecv"
        /\ stopCh' = TRUE
        /\ UNCHANGED <<mode, ready, opened, socketVars, workerVars, queue, pool,
                       payload, history>>

ListenFails == main = "start" /\ opened < NumSockets /\ Stop

StopCall == main = "idle" /\ ~ready /\ Stop

StopNoWait == TRUE
RecvDone == \A s \in Sockets : recv[s] = "off"

CloseDispatch == /\ main = "waitRecv" /\ RecvDone
                 /\ main' = "waitDecode"
                 /\ dispatchClosed' = TRUE
                 /\ UNCHANGED <<mode, ready, stopCh, opened, socketVars, workerVars,
                                dispatch, panicked, pool, payload, history>>

StopAtEmptyQueue == dispatch = <<>>
DecodeDone == \A w \in Workers : worker[w] = "off"

\* init makes new channels; what is left in the old ones is garbage.
Reinit == /\ main = "waitDecode" /\ DecodeDone
          /\ main' = "idle" /\ ready' = TRUE
          /\ stopCh' = FALSE /\ dispatch' = <<>> /\ dispatchClosed' = FALSE
          /\ UNCHANGED <<mode, opened, socketVars, workerVars, panicked, pool,
                         payload, history>>

-----------------------------------------------------------------------------
(* receiveRoutine.                                                          *)

Get(s) == /\ recv[s] = "get"
          /\ \E b \in pool : /\ rbuf' = [rbuf EXCEPT ![s] = b]
                             /\ pool' = pool \ {b}
          /\ recv' = [recv EXCEPT ![s] = "read"]
          /\ UNCHANGED <<session, conn, watch, workerVars, queue, payload, history>>

\* receive returns: done stops the watcher and the connection is closed.
Leave(s) == /\ recv' = [recv EXCEPT ![s] = "off"]
            /\ conn' = [conn EXCEPT ![s] = FALSE]
            /\ watch' = [watch EXCEPT ![s] = FALSE]
            /\ rbuf' = [rbuf EXCEPT ![s] = None]

Read(s, d) ==
    /\ recv[s] = "read" /\ conn[s] /\ d \notin arrived
    /\ payload' = [payload EXCEPT ![rbuf[s]] = d]
    /\ arrived' = arrived \union {d}
    /\ recv' = [recv EXCEPT ![s] = "hold"]
    /\ UNCHANGED <<session, conn, watch, rbuf, workerVars, queue, pool, decoded,
                   dropped, lost>>

\* An empty datagram: the buffer is left to the garbage collector.
ReadEmpty(s) ==
    /\ recv[s] = "read" /\ conn[s]
    /\ pool' = pool \union {rbuf[s]}
    /\ rbuf' = [rbuf EXCEPT ![s] = None]
    /\ recv' = [recv EXCEPT ![s] = "get"]
    /\ UNCHANGED <<session, conn, watch, workerVars, queue, payload, history>>

\* The connection has been closed, or the read fails by itself.
ReadFails(s) ==
    /\ recv[s] = "read"
    /\ pool' = pool \union {rbuf[s]}
    /\ Leave(s)
    /\ UNCHANGED <<session, workerVars, queue, payload, history>>

\* A worker that waits takes the packet; otherwise it is queued if it fits.
HasRoomByOne == Len(dispatch) <= QueueSize
HasRoom == Len(dispatch) < QueueSize
Handover == QueueSize = 0 /\ \E w \in Workers : worker[w] = "range"

Sent(s) == /\ rbuf' = [rbuf EXCEPT ![s] = None]
           /\ recv' = [recv EXCEPT ![s] = "get"]

\* A send on a closed channel panics.
Send(s) ==
    /\ recv[s] = "hold"
    /\ Sent(s)
    /\ \/ /\ dispatchClosed /\ panicked' = TRUE
          /\ UNCHANGED <<workerVars, dispatch>>
       \/ /\ ~dispatchClosed /\ HasRoom
          /\ dispatch' = Append(dispatch, rbuf[s])
          /\ UNCHANGED <<workerVars, panicked>>
       \/ /\ ~dispatchClosed /\ Handover
          /\ \E w \in Workers : /\ worker[w] = "range"
                                /\ worker' = [worker EXCEPT ![w] = "decode"]
                                /\ wbuf' = [wbuf EXCEPT ![w] = rbuf[s]]
          /\ UNCHANGED <<dispatch, panicked>>
    /\ UNCHANGED <<session, conn, watch, dispatchClosed, pool, payload, history>>

\* The buffer is in the pool again, or left to the garbage collector.
Put(b) == /\ pool' = pool \union {b}
          /\ payload' = [payload EXCEPT ![b] = None]

\* The select may prefer stopCh even when the packet could be sent.
Discard(s) ==
    /\ recv[s] = "hold" /\ stopCh
    /\ lost' = lost \union {payload[rbuf[s]]}
    /\ Put(rbuf[s])
    /\ Leave(s)
    /\ UNCHANGED <<session, workerVars, queue, arrived, decoded, dropped>>

\* The default branch: the callback, if there is one, sees the payload before
\* Put.  In synchronous mode a worker at range may not be waiting yet.
Drop(s) ==
    /\ ~Blocking
    /\ recv[s] = "hold" /\ ~HasRoom /\ ~stopCh
    /\ IF mode.callback
       THEN dropped' = dropped \union {payload[rbuf[s]]} /\ UNCHANGED lost
       ELSE lost' = lost \union {payload[rbuf[s]]} /\ UNCHANGED dropped
    /\ Put(rbuf[s])
    /\ Sent(s)
    /\ UNCHANGED <<session, conn, watch, workerVars, queue, arrived, decoded>>

\* The goroutine receive left behind closes the connection, which ends Read.
StoppedHolding(s) == stopCh /\ recv[s] = "hold"
Stopped(s) == stopCh

Watch(s) == /\ watch[s] /\ Stopped(s)
            /\ watch' = [watch EXCEPT ![s] = FALSE]
            /\ conn' = [conn EXCEPT ![s] = FALSE]
            /\ UNCHANGED <<session, recv, rbuf, workerVars, queue, pool, payload,
                           history>>

-----------------------------------------------------------------------------
(* The workers.                                                             *)

Take(w) == /\ worker[w] = "range" /\ dispatch # <<>>
           /\ wbuf' = [wbuf EXCEPT ![w] = Head(dispatch)]
           /\ dispatch' = Tail(dispatch)
           /\ worker' = [worker EXCEPT ![w] = "decode"]
           /\ UNCHANGED <<session, socketVars, dispatchClosed, panicked, pool,
                          payload, history>>

\* range ends when the channel is closed and empty.
WorkerExitsAtClose(w) == dispatchClosed
ChannelDone(w) == dispatchClosed /\ dispatch = <<>>

WorkerExit(w) == /\ worker[w] = "range" /\ ChannelDone(w)
                 /\ worker' = [worker EXCEPT ![w] = "off"]
                 /\ UNCHANGED <<session, socketVars, wbuf, queue, pool, payload,
                                history>>

\* decodeFunc reads the buffer until it returns; only then comes Put.
PutFirst(w) == pool \union {wbuf[w]}
PutAfter(w) == pool

DecodeBegins(w) == /\ worker[w] = "decode"
                   /\ pool' = PutAfter(w)
                   /\ worker' = [worker EXCEPT ![w] = "put"]
                   /\ UNCHANGED <<session, socketVars, wbuf, queue, payload, history>>

DecodeEnds(w) ==
    /\ worker[w] = "put"
    /\ decoded' = [decoded EXCEPT ![payload[wbuf[w]]] = @ + 1]
    /\ Put(wbuf[w])
    /\ wbuf' = [wbuf EXCEPT ![w] = None]
    /\ worker' = [worker EXCEPT ![w] = "range"]
    /\ UNCHANGED <<session, socketVars, queue, arrived, dropped, lost>>

Routine(s) == \/ Get(s) \/ ReadEmpty(s) \/ ReadFails(s) \/ Send(s) \/ Discard(s)
              \/ Drop(s) \/ Watch(s) \/ \E d \in Packets : Read(s, d)

Work(w) == Take(w) \/ WorkerExit(w) \/ DecodeBegins(w) \/ DecodeEnds(w)

Main == Start \/ Listen \/ StartDone \/ ListenFails \/ StopCall \/ CloseDispatch \/ Reinit

Next == Main \/ (\E s \in Sockets : Routine(s)) \/ (\E w \in Workers : Work(w))

Spec == Init /\ [][Next]_vars

\* Goroutines are scheduled, decodeFunc returns, and a read on a closed
\* connection fails.
Fairness == /\ WF_vars(Listen \/ StartDone) /\ WF_vars(CloseDispatch) /\ WF_vars(Reinit)
            /\ \A s \in Sockets : /\ WF_vars(Get(s)) /\ WF_vars(Watch(s))
                                  /\ WF_vars(~conn[s] /\ ReadFails(s))
                                  /\ WF_vars(Send(s) \/ Discard(s) \/ Drop(s))
            /\ \A w \in Workers : WF_vars(Work(w))

FairSpec == Spec /\ Fairness

-----------------------------------------------------------------------------
(* Properties.                                                              *)

Tally(b) == IF b THEN 1 ELSE 0

InFlight(d) ==
    Cardinality({s \in Sockets : recv[s] = "hold" /\ payload[rbuf[s]] = d})
    + Cardinality({i \in DOMAIN dispatch : payload[dispatch[i]] = d})
    + Cardinality({w \in Workers : wbuf[w] # None /\ payload[wbuf[w]] = d})

\* Every datagram read from a socket is decoded once, reported as dropped,
\* discarded by Stop, or on its way, and only one of these: recycling buffers
\* through the pool never loses, duplicates or overwrites one.
Accounted == \A d \in Packets :
    Tally(d \in arrived)
        = decoded[d] + Tally(d \in dropped) + Tally(d \in lost) + InFlight(d)

Owners(b) == Tally(b \in pool)
             + Cardinality({s \in Sockets : rbuf[s] = b})
             + Cardinality({i \in DOMAIN dispatch : dispatch[i] = b})
             + Cardinality({w \in Workers : wbuf[w] = b})

\* A pooled buffer has one owner: the pool, a socket, the channel or a worker.
OneOwner == \A b \in Buffers : Owners(b) = 1

\* Once Stop has returned, and after a Start that failed half way, no routine
\* runs and no socket is open; and when the last worker has left, before init
\* makes a new channel, the old one is empty: nothing queued is thrown away.
StopQuiesces ==
    /\ ready => /\ \A s \in Sockets : recv[s] = "off" /\ ~conn[s]
                /\ \A w \in Workers : worker[w] = "off"
    /\ main = "waitDecode" /\ (\A w \in Workers : worker[w] = "off")
           => dispatch = <<>>

\* No socket routine sends on the channel Stop has closed.
NeverPanics == ~panicked

\* Stop returns, whatever the sockets and the workers were doing.
StopReturns == main \in {"waitRecv", "waitDecode"} ~> main = "idle"

\* A queued datagram is decoded, also when Stop comes first.
QueuedDecoded == \A d \in Packets :
    (\E i \in DOMAIN dispatch : payload[dispatch[i]] = d) ~> decoded[d] = 1

-----------------------------------------------------------------------------
(* What a comment says and the code does not do.                            *)

\* "does not drop if combined with synchronous mode".
BlockingNeverDrops == Blocking /\ QueueSize = 0 => dropped \union lost = {}
=============================================================================
