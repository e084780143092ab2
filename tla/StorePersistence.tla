-------------------------- MODULE StorePersistence --------------------------
(* utils/store/persistence: the manager that keeps the template and the      *)
(* sampling-rate store in one JSON file, through the life of the process:    *)
(* preload, the debounced flush loop, the close hooks of the two stores, the *)
(* atomic replacement of the file, crashes and restarts.                     *)
(*                                                                           *)
(* A section's content is the number of changes it has seen, so that "older" *)
(* and "newer" can be told apart; what a template or a rate is plays no part *)
(* here.  A path is configured: without one every operation below returns    *)
(* before it does anything.                                                  *)
EXTENDS Naturals, FiniteSets

CONSTANTS Delayed,            \* interval > 0: a change arms a timer
          CloseIn,            \* phases in which the application closes: before
                              \* Start, after it, after a failed preload
          MayFail,            \* file operations may return an error
          MayCrash,           \* the process may die at any step
          Concurrent,         \* closers may overlap; the applications close one
                              \* after another
          MayDamage,          \* a section may become unreadable between runs
          MayExpire,          \* a removal may meet an entry that has expired
          Followed,           \* closers whose promise is followed
          ErrCap,             \* capacity of errCh
          MaxVersion,         \* bound: changes per section
          MaxHooks            \* bound: calls that have changed a store and
                              \* whose hook has not run yet

ASSUME PersistenceAssumption ==
    /\ {Delayed, MayFail, MayCrash, MayDamage, MayExpire, Concurrent}
            \subseteq BOOLEAN
    /\ CloseIn \subseteq {"start", "up", "failed"}
    /\ Followed \subseteq {"templates", "sampling-rates", "manager"}
    /\ {ErrCap, MaxVersion, MaxHooks} \subseteq Nat

VARIABLES content,    \* what each store holds
          hooks,      \* calls between a change and their notifyChange
          registered, \* the stores marshalDocument knows
          open,       \* samplingOpen, templateOpen
          changeCh, stopCh, timer, flushMutex,
          once,       \* filePersistence.closeOnce
          errMu,      \* goroutine in the critical section of the error channel
          errs,       \* errors queued in errCh
          errChOpen, errClosed,  \* errCh itself, and the flag that guards it
          panicked,   \* a send met the closed channel
          pc, ret, doc,  \* per goroutine: control, return label, snapshot
          phase,      \* how far the process is in its life
          disk, readable, tmp,   \* the file and the temporary file
          failed,     \* history: the latest flush to end failed
          hooked,     \* history: contents at the last change that runs a hook
          due         \* history: contents when a followed closer under way
                      \* was called

stores == <<content, hooks>>
wiring == <<registered, open, phase>>
loopVars == <<stopCh, timer>>
errors == <<errMu, errs, errChOpen, errClosed, panicked>>
control == <<pc, ret>>
files == <<disk, readable, tmp>>
history == <<failed, hooked, due>>
vars == <<stores, wiring, changeCh, loopVars, flushMutex, once, errors, control,
          doc, files, history>>

Sections == {"templates", "sampling-rates"}
\* The goroutines: the flush loop, one closer per store and Manager.Close.
Closers == Sections \union {"manager"}
Procs == Closers \union {"loop"}
Nobody == "nobody"

Versions == 0..MaxVersion
Documents == [Sections -> Versions]
Empty == [s \in Sections |-> 0]
FlushSteps == {"lock", "templates", "sampling-rates", "open", "write", "rename"}
Labels == FlushSteps \union {"emit", "send", "idle", "select", "done", "closeFile",
                             "stopping", "closeDone", "closeErrors", "markErrors",
                             "finish", "closed"}
Phases == Sections \union {"down", "start", "up", "failed"}

TypeOK == /\ content \in Documents /\ disk \in Documents
          /\ hooks \in 0..MaxHooks
          /\ registered \subseteq Sections /\ open \subseteq registered
          /\ changeCh \in BOOLEAN /\ stopCh \in {"nil", "open", "closed"}
          /\ timer \in {"none", "armed", "fired"}
          /\ flushMutex \in Procs \union {Nobody}
          /\ once \in {"unused", "running", "done"}
          /\ errMu \in Procs \union {Nobody} /\ errs \in 0..ErrCap
          /\ {errChOpen, errClosed, panicked} \subseteq BOOLEAN
          /\ pc \in [Procs -> Labels] /\ ret \in [Procs -> Labels]
          /\ doc \in [Procs -> Documents]
          /\ phase \in Phases
          /\ readable \in [Sections -> BOOLEAN]
          /\ tmp \in [state : {"none", "torn", "whole"}, doc : Documents]
          /\ failed \in BOOLEAN /\ hooked \in Documents
          /\ due \in [Followed -> Documents]

\* No process runs yet; the file is missing or empty.
Init == /\ content = Empty /\ hooks = 0
        /\ registered = {} /\ open = {} /\ phase = "down"
        /\ changeCh = FALSE /\ stopCh = "nil" /\ timer = "none"
        /\ flushMutex = Nobody /\ once = "unused"
        /\ errMu = Nobody /\ errs = 0 /\ errChOpen = TRUE
        /\ errClosed = FALSE /\ panicked = FALSE
        /\ pc = [p \in Procs |-> "idle"] /\ ret = pc
        /\ doc = [p \in Procs |-> Empty]
        /\ failed = FALSE /\ hooked = Empty
        /\ due = [p \in Followed |-> Empty]
        /\ disk = Empty /\ readable = [s \in Sections |-> TRUE]
        /\ tmp = [state |-> "none", doc |-> Empty]

-----------------------------------------------------------------------------
(* The process starts: the sampling-rate store, then the template store,    *)
(* then the flush loop.                                                     *)

Boot == /\ phase = "down"
        /\ phase' = "sampling-rates"
        /\ UNCHANGED <<stores, registered, open, changeCh, loopVars, flushMutex,
                       once, errors, control, doc, files, history>>

\* preload stores the section's entries; each fires a hook that notifies.
NewStore(s) ==
    /\ phase = s /\ readable[s]
    /\ content' = [content EXCEPT ![s] = disk[s]]
    /\ hooked' = [hooked EXCEPT ![s] = disk[s]]
    /\ registered' = registered \union {s}
    /\ open' = open \union {s}
    /\ changeCh' \in {changeCh, changeCh \/ disk[s] > 0}
    /\ phase' = IF s = "sampling-rates" THEN "templates" ELSE "start"
    /\ UNCHANGED <<hooks, loopVars, flushMutex, once, errors, control, doc,
                   files, failed, due>>

NewStoreFails(s) ==
    /\ phase = s /\ ~readable[s]
    /\ phase' = "failed"
    /\ UNCHANGED <<stores, registered, open, changeCh, loopVars, flushMutex,
                   once, errors, control, doc, files, history>>

\* The channels of the loop are made in one step: the applications call Start
\* from the goroutine that has created the stores, before anyone closes them.
\* Nothing in the code keeps a Start from coming after a close.
Start == /\ phase = "start"
         /\ phase' = "up"
         /\ stopCh' = "open"
         /\ pc' = [pc EXCEPT !["loop"] = "select"]
         /\ UNCHANGED <<stores, registered, open, changeCh, timer, flushMutex,
                        once, errors, ret, doc, files, history>>

-----------------------------------------------------------------------------
(* The stores change under their own lock and run their hooks after it.     *)

Running == phase \in {"start", "up"}

\* A call that will run a hook changes a section, or one under way changes it
\* once more (a sweep, a flush, a snapshot that prunes expired entries).
Change(s) ==
    /\ Running /\ content[s] < MaxVersion
    /\ content' = [content EXCEPT ![s] = @ + 1]
    /\ hooked' = [hooked EXCEPT ![s] = content'[s]]
    /\ hooks' \in ({hooks, hooks + 1} \ {0}) \intersect (0..MaxHooks)
    /\ UNCHANGED <<wiring, changeCh, loopVars, flushMutex, once, errors, control,
                   doc, files, failed, due>>

\* RemoveTemplate, or Remove of a rate, meets an expired entry: GetQuiet drops it,
\* the caller is told it was not found, and no hook runs.
SilentChange(s) ==
    /\ MayExpire /\ Running /\ content[s] < MaxVersion
    /\ content' = [content EXCEPT ![s] = @ + 1]
    /\ UNCHANGED <<hooks, wiring, changeCh, loopVars, flushMutex, once, errors,
                   control, doc, files, history>>

NotifyWhileIdle == changeCh \/ pc["loop"] \in {"idle", "select"}
notifyChange == TRUE

NotifyChange ==
    /\ hooks > 0
    /\ hooks' = hooks - 1
    /\ changeCh' = notifyChange
    /\ UNCHANGED <<content, wiring, loopVars, flushMutex, once, errors, control,
                   doc, files, history>>

-----------------------------------------------------------------------------
(* flush, called by goroutine p, which continues at label l.                *)

CallFlush(p, l) == /\ pc' = [pc EXCEPT ![p] = "lock"]
                   /\ ret' = [ret EXCEPT ![p] = l]

MutexIgnored(p) == TRUE
MutexFree(p) == flushMutex = Nobody

FlushLock(p) ==
    /\ pc[p] = "lock" /\ MutexFree(p)
    /\ flushMutex' = p
    /\ pc' = [pc EXCEPT ![p] = "templates"]
    /\ UNCHANGED <<stores, wiring, changeCh, loopVars, once, errors, ret, doc,
                   files, history>>

MarshalOpen(s) == IF s \in open THEN content[s] ELSE 0
marshalSection(s) == IF s \in registered THEN content[s] ELSE 0

\* marshalDocument snapshots the template store, then the sampling-rate one;
\* a store that is not registered has no section.
Snapshot(p, s) ==
    /\ pc[p] = s
    /\ doc' = [doc EXCEPT ![p][s] = marshalSection(s)]
    /\ pc' = [pc EXCEPT ![p] = IF s = "templates" THEN "sampling-rates" ELSE "open"]
    /\ UNCHANGED <<stores, wiring, changeCh, loopVars, flushMutex, once, errors,
                   ret, files, history>>

\* writeAtomic: OpenFile truncates, Write and Sync fill, Rename publishes.
OpenTemp(p) ==
    /\ pc[p] = "open"
    /\ tmp' = [state |-> "torn", doc |-> Empty]
    /\ pc' = [pc EXCEPT ![p] = "write"]
    /\ UNCHANGED <<stores, wiring, changeCh, loopVars, flushMutex, once, errors,
                   ret, doc, disk, readable, history>>

WriteTemp(p) ==
    /\ pc[p] = "write"
    /\ tmp' = [state |-> "whole", doc |-> doc[p]]
    /\ pc' = [pc EXCEPT ![p] = "rename"]
    /\ UNCHANGED <<stores, wiring, changeCh, loopVars, flushMutex, once, errors,
                   ret, doc, disk, readable, history>>

\* The deferred unlock and the return to the caller.
FlushReturn(p) == /\ flushMutex' = Nobody
                  /\ pc' = [pc EXCEPT ![p] = ret[p]]
                  /\ ret' = [ret EXCEPT ![p] = "idle"]
                  /\ doc' = [doc EXCEPT ![p] = Empty]

Rename(p) ==
    /\ pc[p] = "rename" /\ tmp.state # "none"
    /\ disk' = tmp.doc
    /\ readable' = [s \in Sections |-> tmp.state = "whole"]
    /\ tmp' = [state |-> "none", doc |-> Empty]
    /\ failed' = FALSE
    /\ FlushReturn(p)
    /\ UNCHANGED <<stores, wiring, changeCh, loopVars, once, errors, hooked, due>>

\* Any call of writeAtomic may fail.  What it leaves of the temporary file is
\* truncated by the next OpenFile before anyone reads it, and counts as none.
FlushFails(p) ==
    /\ MayFail /\ pc[p] \in {"open", "write", "rename"}
    /\ failed' = TRUE
    /\ tmp' = [state |-> "none", doc |-> Empty]
    /\ doc' = [doc EXCEPT ![p] = Empty]
    /\ pc' = [pc EXCEPT ![p] = "emit"]
    /\ UNCHANGED <<stores, wiring, changeCh, loopVars, flushMutex, once, errors, ret,
                   disk, readable, hooked, due>>

ErrMuIgnored(p) == TRUE
ErrMuFree(p) == errMu = Nobody

\* emitError takes errMu and looks at the flag; the flush keeps its own mutex.
EmitError(p) ==
    /\ pc[p] = "emit" /\ ErrMuFree(p)
    /\ \/ errClosed /\ FlushReturn(p) /\ UNCHANGED errMu
       \/ /\ ~errClosed
          /\ errMu' = p
          /\ pc' = [pc EXCEPT ![p] = "send"]
          /\ UNCHANGED <<flushMutex, ret, doc>>
    /\ UNCHANGED <<stores, wiring, changeCh, loopVars, once, errs, errChOpen,
                   errClosed, panicked, files, history>>

\* The send that does not block: a full channel drops the error.
SendOverrun == errs + 1
SendError == IF errs < ErrCap THEN errs + 1 ELSE errs

\* The send, which panics on a closed channel, and the deferred unlocks.
EmitSend(p) ==
    /\ pc[p] = "send"
    /\ panicked' = (panicked \/ ~errChOpen)
    /\ errs' = IF errChOpen THEN SendError ELSE errs
    /\ errMu' = Nobody
    /\ FlushReturn(p)
    /\ UNCHANGED <<stores, wiring, changeCh, loopVars, once, errChOpen, errClosed,
                   files, history>>

Flush(p) == \/ FlushLock(p)
            \/ \E s \in Sections : Snapshot(p, s)
            \/ OpenTemp(p) \/ WriteTemp(p) \/ Rename(p)
            \/ EmitError(p) \/ EmitSend(p)

-----------------------------------------------------------------------------
(* The flush loop of filePersistence.start.                                 *)

\* The deferred close(doneCh).
ReturnOnly == "idle"
closeDone == "done"

LoopStop == /\ pc["loop"] = "select" /\ stopCh = "closed"
            /\ pc' = [pc EXCEPT !["loop"] = closeDone]
            /\ timer' = "none"
            /\ UNCHANGED <<stores, wiring, changeCh, stopCh, flushMutex, once,
                           errors, ret, doc, files, history>>

LoopChange == /\ pc["loop"] = "select" /\ changeCh
              /\ changeCh' = FALSE
              /\ IF Delayed
                 THEN /\ timer' = (IF timer = "none" THEN "armed" ELSE timer)
                      /\ UNCHANGED control
                 ELSE CallFlush("loop", "select") /\ UNCHANGED timer
              /\ UNCHANGED <<stores, wiring, stopCh, flushMutex, once, errors, doc,
                             files, history>>

TimerFires == /\ timer = "armed" /\ timer' = "fired"
              /\ UNCHANGED <<stores, wiring, changeCh, stopCh, flushMutex, once,
                             errors, control, doc, files, history>>

\* timer = nil and timerCh = nil; a timer that is kept never fires again.
KeepTimer == "spent"
resetTimer == "none"

LoopTimer == /\ pc["loop"] = "select" /\ timer = "fired"
             /\ timer' = resetTimer
             /\ CallFlush("loop", "select")
             /\ UNCHANGED <<stores, wiring, changeCh, stopCh, flushMutex, once,
                            errors, doc, files, history>>

Loop == LoopStop \/ LoopChange \/ LoopTimer

-----------------------------------------------------------------------------
(* Shutdown: the close hook of a store, and Manager.Close.                  *)

MayClose(p) == /\ pc[p] = "idle" /\ phase \in CloseIn
               /\ Concurrent \/ \A q \in Closers : pc[q] \in {"idle", "closed"}

Follow(p) == due' = [q \in Followed |-> IF q = p THEN content ELSE due[q]]
Unfollow(p) == due' = [q \in Followed |-> IF q = p THEN Empty ELSE due[q]]

CloseStore(s) ==
    /\ Running /\ MayClose(s)
    /\ open' = open \ {s}
    /\ CallFlush(s, IF open' = {} THEN "closeFile" ELSE "finish")
    /\ Follow(s)
    /\ UNCHANGED <<stores, registered, phase, changeCh, loopVars, flushMutex, once,
                   errors, doc, files, failed, hooked>>

CloseManager ==
    /\ MayClose("manager")
    /\ pc' = [pc EXCEPT !["manager"] = "closeFile"]
    /\ Follow("manager")
    /\ UNCHANGED <<stores, wiring, changeCh, loopVars, flushMutex, once, errors,
                   ret, doc, files, failed, hooked>>

\* filePersistence.close, under closeOnce: stop the loop, then flush.
CloseFile(p) ==
    /\ pc[p] = "closeFile" /\ once = "unused"
    /\ once' = "running"
    /\ IF stopCh = "open"
       THEN /\ stopCh' = "closed"
            /\ pc' = [pc EXCEPT ![p] = "stopping"]
            /\ UNCHANGED ret
       ELSE CallFlush(p, "closeDone") /\ UNCHANGED stopCh
    /\ UNCHANGED <<stores, wiring, changeCh, timer, flushMutex, errors, doc, files,
                   history>>

AwaitLoop(p) ==
    /\ pc[p] = "stopping" /\ pc["loop"] = "done"
    /\ CallFlush(p, "closeDone")
    /\ UNCHANGED <<stores, wiring, changeCh, loopVars, flushMutex, once, errors,
                   doc, files, history>>

\* The end of closeOnce.Do, or of the wait for another caller's Do.
CloseDone(p) ==
    /\ pc[p] = "closeDone" \/ (pc[p] = "closeFile" /\ once = "done")
    /\ once' = "done"
    /\ pc' = [pc EXCEPT ![p] = IF p = "manager" THEN "closeErrors" ELSE "finish"]
    /\ UNCHANGED <<stores, wiring, changeCh, loopVars, flushMutex, errors, ret, doc,
                   files, history>>

\* Under errMu Manager.Close closes the channel, then sets the flag.
CloseErrors ==
    /\ pc["manager"] = "closeErrors" /\ ErrMuFree("manager") /\ ~errClosed
    /\ errMu' = "manager"
    /\ errChOpen' = FALSE
    /\ pc' = [pc EXCEPT !["manager"] = "markErrors"]
    /\ UNCHANGED <<stores, wiring, changeCh, loopVars, flushMutex, once, errs,
                   errClosed, panicked, ret, doc, files, history>>

MarkErrors ==
    /\ pc["manager"] = "markErrors"
    /\ errClosed' = TRUE
    /\ errMu' = Nobody
    /\ pc' = [pc EXCEPT !["manager"] = "finish"]
    /\ UNCHANGED <<stores, wiring, changeCh, loopVars, flushMutex, once, errs,
                   errChOpen, panicked, ret, doc, files, history>>

\* closeStore or Manager.Close returns.
CloseReturn(p) ==
    /\ pc[p] = "finish"
    /\ pc' = [pc EXCEPT ![p] = "closed"]
    /\ Unfollow(p)
    /\ UNCHANGED <<stores, wiring, changeCh, loopVars, flushMutex, once, errors, ret,
                   doc, files, failed, hooked>>

\* The application's goroutine that logs the errors.
ReadError == /\ errs > 0 /\ errs' = errs - 1
             /\ UNCHANGED <<stores, wiring, changeCh, loopVars, flushMutex, once,
                            errMu, errChOpen, errClosed, panicked, control, doc, files,
                            history>>

Close(p) == CloseFile(p) \/ AwaitLoop(p) \/ CloseDone(p) \/ CloseReturn(p)

-----------------------------------------------------------------------------
(* The process ends, orderly or not, and the file outlives it; what is left  *)
(* of the temporary file counts as none, as in FlushFails.                   *)

ProcessEnds == /\ content' = Empty /\ hooks' = 0
               /\ registered' = {} /\ open' = {} /\ phase' = "down"
               /\ changeCh' = FALSE /\ stopCh' = "nil" /\ timer' = "none"
               /\ flushMutex' = Nobody /\ once' = "unused"
               /\ errMu' = Nobody /\ errs' = 0 /\ errChOpen' = TRUE
               /\ errClosed' = FALSE /\ panicked' = FALSE
               /\ pc' = [p \in Procs |-> "idle"] /\ ret' = pc'
               /\ doc' = [p \in Procs |-> Empty]
               /\ failed' = FALSE /\ hooked' = Empty
               /\ due' = [p \in Followed |-> Empty]
               /\ tmp' = [state |-> "none", doc |-> Empty]
               /\ UNCHANGED <<disk, readable>>

Exit == /\ \/ Running /\ pc["manager"] = "closed"
           \/ phase = "failed" /\ ("failed" \in CloseIn => pc["manager"] = "closed")
        /\ \A s \in Sections : pc[s] \in {"idle", "closed"}
        /\ ProcessEnds

Crash == /\ MayCrash /\ phase # "down"
         /\ ProcessEnds

Damage(s) == /\ MayDamage /\ phase = "down"
             /\ readable' = [readable EXCEPT ![s] = ~@]
             /\ UNCHANGED <<stores, wiring, changeCh, loopVars, flushMutex, once,
                            errors, control, doc, disk, tmp, history>>

Next == \/ Boot \/ Start \/ NotifyChange \/ Loop \/ TimerFires
        \/ CloseManager \/ CloseErrors \/ MarkErrors \/ ReadError \/ Exit \/ Crash
        \/ \E s \in Sections : \/ NewStore(s) \/ NewStoreFails(s) \/ Change(s)
                               \/ SilentChange(s) \/ CloseStore(s) \/ Damage(s)
        \/ \E p \in Closers : Close(p)
        \/ \E p \in Procs : Flush(p) \/ FlushFails(p)

Spec == Init /\ [][Next]_vars

\* Goroutines run, hooks return and timers fire.  A mutex need not be fair: the
\* goroutines that contend for it are finitely many, and so are the changes.
Fairness == /\ WF_vars(NotifyChange) /\ WF_vars(Loop) /\ WF_vars(TimerFires)
            /\ WF_vars(CloseErrors \/ MarkErrors)
            /\ \A p \in Closers : WF_vars(Close(p))
            /\ \A p \in Procs : WF_vars(Flush(p))

FairSpec == Spec /\ Fairness

-----------------------------------------------------------------------------
(* Properties.                                                              *)

\* Goroutine p is in a flush that will take its snapshot of s, or took it
\* after the last change of s that runs a hook.
Carries(p, s) ==
    \/ pc[p] \in {"lock", "templates"}
    \/ pc[p] = "sampling-rates" /\ s = "sampling-rates"
    \/ pc[p] \in FlushSteps /\ doc[p][s] >= hooked[s]

\* No change that runs a hook is forgotten by the debouncing: as long as the
\* loop has not been told to stop, a section whose file is older than such a
\* change has a hook on its way, a notification in changeCh, a timer, a flush
\* that carries it, or its last write failed (changeCh has capacity one and
\* drops notifications, the timer is armed once, and the channel is drained
\* before the snapshot).
NoLostChange ==
    Running /\ stopCh # "closed" =>
        \A s \in Sections :
            \/ hooked[s] <= disk[s] \/ failed
            \/ hooks > 0 \/ changeCh \/ timer # "none"
            \/ \E p \in Procs : Carries(p, s)

\* When the close hook of a store returns, the file holds everything both
\* stores held when it was called, whatever flushed meanwhile, unless a write
\* failed (closeStore flushes all sections; a closed store stays registered).
CloseSaves == \A p \in Sections \intersect Followed :
    pc[p] = "finish" /\ ~failed => \A s \in Sections : due[p][s] <= disk[s]

\* No flush sends on the error channel Manager.Close has closed, though the
\* flush of a store may fail before, while and after the channel is closed:
\* errMu and errClosed, set together with the close, keep the send away.
NeverPanics == ~panicked

\* The file is never replaced by a half-written one: only what happens between
\* two processes makes a readable section unreadable (writeAtomic, flushMutex).
NeverTears ==
    [][\A s \in Sections : readable[s] /\ ~readable'[s] => phase = "down"]_vars

\* The manager implements Durable: a section of the file moves forward only and
\* never ahead of its store, and a restarted process resumes from the file,
\* through crashes at any step and concurrent flushes.
Promise == INSTANCE Durable
    WITH mem <- [s \in Sections |-> IF s \in registered THEN content[s] ELSE disk[s]]
ImplementsDurable == Promise!Spec

\* A change that runs a hook reaches the file if the process keeps running: no
\* notification is swallowed for good.  Writes must succeed (nothing retries
\* them), and what a removal drops without a hook waits for the next change.
EventuallySaved == \A s \in Sections, v \in Versions \ {0} :
    (phase = "up" /\ hooked[s] >= v) ~> (disk[s] >= v \/ once # "unused" \/ phase # "up")

\* Every close returns: the wait for the loop, the mutex and the once of the
\* file never block each other.
CloseReturns == \A p \in Closers :
    (pc[p] \notin {"idle", "closed"}) ~> (pc[p] = "closed" \/ phase = "down")

-----------------------------------------------------------------------------
(* What comments and tests say and the code does not do.                    *)

\* decode.go: the cache is persisted across restarts; a version on disk is not
\* lost by starting again.
SavedSurvivesRestart == [][\A s \in Sections : disk[s] <= disk'[s]]_vars

\* Manager.Close: "Close flushes pending state".
ManagerCloseFlushes ==
    "manager" \in Followed /\ pc["manager"] = "finish" /\ ~failed
        => \A s \in Sections : due["manager"][s] <= disk[s]
=============================================================================
