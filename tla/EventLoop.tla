------------------------------ MODULE EventLoop ------------------------------
(***************************************************************************)
(* The loop of hxcpp_luv_io: cpp::luv::{alloc,run,stop,shutdown,free}Loop, *)
(* the timer and async bindings, one-shot requests answered by the thread  *)
(* pool (the shape of directory::open), and the part of libuv that         *)
(* drives them: uv_run, uv_close, uv_walk, the timer heap's ready queue,   *)
(* the pass over the async handles.                                        *)
(*                                                                         *)
(* The actors are the thread that owns the loop (which runs Haxe code      *)
(* between two calls of uv_run and inside callbacks), any other thread     *)
(* (AsyncSend), and the pool's workers (WorkerDone).  The clock is         *)
(* abstract: any subset of the active timers may be due at a check, except *)
(* that a timer started with a timeout of 0 is due at every check.         *)
(***************************************************************************)

CONSTANTS
    RepeatTimers,   \* handles made by timer::repeat
    RunTimers,      \* handles made by timer::run
    Asyncs,         \* handles made by async::init
    Requests,       \* one-shot requests given to the thread pool
    NoCb            \* "no callback is running"

Timers  == RepeatTimers \cup RunTimers
Handles == Timers \cup Asyncs
Ids     == Handles \cup Requests

ASSUME IdsDisjoint ==
    /\ RepeatTimers \cap RunTimers = {}
    /\ Timers \cap Asyncs = {}
    /\ Handles \cap Requests = {}
    /\ NoCb \notin Ids

VARIABLES
    handle,     \* life of each handle: none, open, closing, closed
    closeCb,    \* who closed it: "own" (its binding) or "walk" (shutdownLoop)
    mem,        \* the heap block of each handle and request
    rooted,     \* the ids whose Haxe callback is a GC root
    active,     \* handles with UV_HANDLE_ACTIVE: timers in the heap, asyncs
    unref,      \* open handles without UV_HANDLE_REF
    pending,    \* asyncs whose pending flag is set
    wake,       \* the loop's eventfd is readable
    visit,      \* asyncs still to visit in this pass of uv__async_io
    reqs,       \* life of each request: idle, queued, done, called
    batch,      \* finished requests taken by uv__work_done, not yet called
    ready,      \* due timers taken by uv__run_timers, not yet fired
    phase,      \* where uv_run is; "out" when it is not running
    mode,       \* the uv_run_mode of the current run
    r,          \* uv_run's variable r, as a truth value
    stop,       \* the loop's stop_flag
    cb,         \* the id whose Haxe callback is running, or NoCb
    zone,       \* the loop thread's GC zone: managed or free
    shut,       \* shutdownLoop: no, running, returned
    walked,     \* the handles the loop had when shutdownLoop walked it
    loop        \* the uv_loop_t: live, freed clean, or freed while busy

handleVars == <<handle, closeCb, mem, rooted>>
asyncVars  == <<pending, wake, visit>>
reqVars    == <<reqs, batch>>
runVars    == <<phase, mode, r, zone>>
shutVars   == <<shut, walked, loop>>
vars == <<handleVars, active, unref, asyncVars, reqVars, ready, runVars, stop,
          cb, shutVars>>

Open    == {h \in Handles : handle[h] = "open"}
Closing == {h \in Handles : handle[h] = "closing"}

\* Requests that count in loop->active_reqs.
Outstanding == {q \in Requests : reqs[q] \in {"queued", "done"}}

Init ==
    /\ handle = [h \in Handles |-> "none"]
    /\ closeCb = [h \in Handles |-> "none"]
    /\ mem = [i \in Ids |-> "none"]
    /\ rooted = {} /\ active = {} /\ unref = {}
    /\ pending = {} /\ wake = FALSE /\ visit = {}
    /\ reqs = [q \in Requests |-> "idle"]
    /\ batch = {} /\ ready = {}
    /\ phase = "out" /\ mode = "default" /\ r = FALSE
    /\ stop = FALSE /\ cb = NoCb /\ zone = "managed"
    /\ shut = "no" /\ walked = {} /\ loop = "live"

-----------------------------------------------------------------------------
(* What a Haxe program may call: outside uv_run, or inside a callback.     *)
(* Once shutdownLoop has returned the program only frees the loop.         *)

HaxeRuns == loop = "live" /\ (cb # NoCb \/ (phase = "out" /\ shut = "no"))

\* new uv_xxx_t with a rooted callback, initialised and started.
NewHandle(h) ==
    /\ HaxeRuns
    /\ handle[h] = "none"
    /\ handle' = [handle EXCEPT ![h] = "open"]
    /\ mem' = [mem EXCEPT ![h] = "live"]
    /\ rooted' = rooted \cup {h}
    /\ active' = active \cup {h}
    /\ UNCHANGED <<closeCb, unref, wake, visit, reqVars, ready, runVars, stop,
                   cb, shutVars>>

TimerRepeat(t) == t \in RepeatTimers /\ NewHandle(t) /\ UNCHANGED pending

TimerRun(t) == t \in RunTimers /\ NewHandle(t) /\ UNCHANGED pending

AsyncInit(a) == a \in Asyncs /\ NewHandle(a) /\ pending' = pending \ {a}

\* uv_timer_stop: out of the heap, or out of the ready queue if it was taken.
TimerStop(t) ==
    /\ HaxeRuns
    /\ t \in Timers /\ handle[t] = "open"
    /\ active' = active \ {t}
    /\ ready' = ready \ {t}
    /\ UNCHANGED <<handleVars, unref, asyncVars, reqVars, runVars, stop, cb,
                   shutVars>>

\* Slip: closing does not take the handle out of the queues being walked.
SlipCloseLeavesQueues(hs, who) ==
    /\ handle' = [h \in Handles |-> IF h \in hs THEN "closing" ELSE handle[h]]
    /\ closeCb' = [h \in Handles |-> IF h \in hs THEN who ELSE closeCb[h]]
    /\ active' = active \ hs
    /\ UNCHANGED <<ready, visit>>
    /\ pending' = pending \cup (hs \cap Asyncs)

\* Slip: closing does not make the handle inactive.
SlipCloseLeavesActive(hs, who) ==
    /\ handle' = [h \in Handles |-> IF h \in hs THEN "closing" ELSE handle[h]]
    /\ closeCb' = [h \in Handles |-> IF h \in hs THEN who ELSE closeCb[h]]
    /\ ready' = ready \ hs
    /\ visit' = visit \ hs
    /\ pending' = pending \cup (hs \cap Asyncs)
    /\ UNCHANGED active

\* uv_close on every handle of hs.  The handle leaves the heap, the ready
\* queue and the pass over the asyncs at once; its close callback runs later.
CloseHandles(hs, who) ==
    /\ handle' = [h \in Handles |-> IF h \in hs THEN "closing" ELSE handle[h]]
    /\ closeCb' = [h \in Handles |-> IF h \in hs THEN who ELSE closeCb[h]]
    /\ active' = active \ hs
    /\ ready' = ready \ hs
    /\ visit' = visit \ hs
    /\ pending' = pending \cup (hs \cap Asyncs)

\* timer::close and async::close.  A handle of timer::run closes itself.
HandleClose(h) ==
    /\ HaxeRuns
    /\ h \in RepeatTimers \cup Asyncs /\ handle[h] = "open"
    /\ CloseHandles({h}, "own")
    /\ UNCHANGED <<mem, rooted, unref, wake, reqVars, runVars, stop, cb,
                   shutVars>>

AsyncRef(a) ==
    /\ HaxeRuns
    /\ a \in Asyncs \cap unref /\ handle[a] = "open"
    /\ unref' = unref \ {a}
    /\ UNCHANGED <<handleVars, active, asyncVars, reqVars, ready, runVars,
                   stop, cb, shutVars>>

AsyncUnref(a) ==
    /\ HaxeRuns
    /\ a \in Asyncs \ unref /\ handle[a] = "open"
    /\ unref' = unref \cup {a}
    /\ UNCHANGED <<handleVars, active, asyncVars, reqVars, ready, runVars,
                   stop, cb, shutVars>>

\* A request such as directory::open: allocated, rooted, given to the pool.
Submit(q) ==
    /\ HaxeRuns
    /\ reqs[q] = "idle"
    /\ reqs' = [reqs EXCEPT ![q] = "queued"]
    /\ mem' = [mem EXCEPT ![q] = "live"]
    /\ rooted' = rooted \cup {q}
    /\ UNCHANGED <<handle, closeCb, active, unref, asyncVars, batch, ready,
                   runVars, stop, cb, shutVars>>

StopLoop ==
    /\ HaxeRuns
    /\ stop' = TRUE
    /\ UNCHANGED <<handleVars, active, unref, asyncVars, reqVars, ready,
                   runVars, cb, shutVars>>

HaxeCall ==
    \/ \E t \in Timers : TimerRepeat(t) \/ TimerRun(t) \/ TimerStop(t)
    \/ \E a \in Asyncs : AsyncInit(a) \/ AsyncRef(a) \/ AsyncUnref(a)
    \/ \E h \in Handles : HandleClose(h)
    \/ \E q \in Requests : Submit(q)
    \/ StopLoop

-----------------------------------------------------------------------------
(* Other threads.                                                          *)

\* Slip: a send during the pass over the asyncs counts on that pass.
SlipSendDuringPass(a) ==
    /\ loop = "live"
    /\ a \in Asyncs \ pending /\ handle[a] = "open"
    /\ pending' = pending \cup {a}
    /\ wake' = (wake \/ phase # "events")
    /\ UNCHANGED <<handleVars, active, unref, visit, reqVars, ready, runVars,
                   stop, cb, shutVars>>

\* uv_async_send, as one step: a set flag means a wake-up is on its way.
AsyncSend(a) ==
    /\ loop = "live"
    /\ a \in Asyncs \ pending /\ handle[a] = "open"
    /\ pending' = pending \cup {a}
    /\ wake' = TRUE
    /\ UNCHANGED <<handleVars, active, unref, visit, reqVars, ready, runVars,
                   stop, cb, shutVars>>

\* Slip: the worker does not wake the loop.
SlipWorkerSilent(q) ==
    /\ reqs[q] = "queued"
    /\ reqs' = [reqs EXCEPT ![q] = "done"]
    /\ UNCHANGED <<handleVars, active, unref, asyncVars, batch, ready, runVars,
                   stop, cb, shutVars>>

\* A pool thread finishes a request and wakes the loop through wq_async.
WorkerDone(q) ==
    /\ reqs[q] = "queued"
    /\ reqs' = [reqs EXCEPT ![q] = "done"]
    /\ wake' = TRUE
    /\ UNCHANGED <<handleVars, active, unref, pending, visit, batch, ready,
                   runVars, stop, cb, shutVars>>

-----------------------------------------------------------------------------
(* uv_run.                                                                 *)

\* Slip: handles that wait for their close callback do not count.
SlipAliveNoClosing == active \ unref # {} \/ Outstanding # {}

Alive == active \ unref # {} \/ Outstanding # {} \/ Closing # {}

\* The entry of uv_run, given what uv__loop_alive returns.
EnterRun(m, alive) ==
    /\ mode' = m
    /\ r' = alive
    /\ zone' = "free"
    /\ phase' = IF ~alive \/ stop THEN "exit"
                ELSE IF m = "default" THEN "pretimers" ELSE "poll"

RunLoop(m) ==
    /\ phase = "out" /\ HaxeRuns
    /\ EnterRun(m, Alive)
    /\ UNCHANGED <<handleVars, active, unref, asyncVars, reqVars, ready, stop,
                   cb, shutVars>>

\* Slip: the walk skips the handles that do not keep the loop alive.
SlipShutdownSkipsUnref ==
    /\ phase = "out" /\ HaxeRuns
    /\ CloseHandles(Open \ unref, "walk")
    /\ EnterRun("default", Open \cup Closing # {} \/ Outstanding # {})
    /\ shut' = "running"
    /\ walked' = Open \cup Closing
    /\ UNCHANGED <<mem, rooted, unref, wake, reqVars, stop, cb, loop>>

\* shutdownLoop: uv_walk closes what is not closing yet, then uv_run.
ShutdownLoop ==
    /\ phase = "out" /\ HaxeRuns
    /\ CloseHandles(Open, "walk")
    /\ EnterRun("default", Open \cup Closing # {} \/ Outstanding # {})
    /\ shut' = "running"
    /\ walked' = Open \cup Closing
    /\ UNCHANGED <<mem, rooted, unref, wake, reqVars, stop, cb, loop>>

\* uv__io_poll does not sleep: a timeout of 0.
NoSleep ==
    \/ mode = "nowait" \/ stop
    \/ active \ unref = {} /\ Outstanding = {}
    \/ Closing # {}

\* uv__io_poll returns: an event, a timer's timeout, or no sleep at all.  If
\* the eventfd was readable it is drained, uv__async_io starts its pass, and
\* wq_async, the first handle of the pass, takes the finished requests.
PollReturns ==
    /\ phase = "poll"
    /\ wake \/ NoSleep \/ active \cap Timers # {}
    /\ phase' = "events"
    /\ wake' = FALSE
    /\ visit' = IF wake THEN Open \cap Asyncs ELSE {}
    /\ batch' = IF wake THEN {q \in Requests : reqs[q] = "done"} ELSE {}
    /\ UNCHANGED <<handleVars, active, unref, pending, reqs, ready, mode, r,
                   zone, stop, cb, shutVars>>

\* Slip: a wrapper without its AutoGCZone.
SlipDispatchNoZone(i) ==
    /\ cb' = i
    /\ UNCHANGED zone

\* Every wrapper leaves the GC-free zone before it calls into Haxe.
Dispatch(i) ==
    /\ cb' = i
    /\ zone' = "managed"

CallRequest(q) ==
    /\ phase = "events" /\ cb = NoCb
    /\ q \in batch
    /\ batch' = batch \ {q}
    /\ reqs' = [reqs EXCEPT ![q] = "called"]
    /\ Dispatch(q)
    /\ UNCHANGED <<handleVars, active, unref, asyncVars, ready, phase, mode, r,
                   stop, shutVars>>

\* uv__async_io visits a: skipped unless its flag is set, which is cleared.
VisitAsync(a) ==
    /\ phase = "events" /\ cb = NoCb
    /\ batch = {} /\ a \in visit
    /\ visit' = visit \ {a}
    /\ pending' = pending \ {a}
    /\ IF a \in pending THEN Dispatch(a) ELSE UNCHANGED <<cb, zone>>
    /\ UNCHANGED <<handleVars, active, unref, wake, reqVars, ready, phase,
                   mode, r, stop, shutVars>>

\* Slip: the walk's close frees the handles too.
SlipRunClosingFreesAll ==
    /\ phase = "events" /\ cb = NoCb
    /\ batch = {} /\ visit = {}
    /\ rooted' = rooted \ Closing
    /\ mem' = [i \in Ids |-> IF i \in Closing THEN "freed" ELSE mem[i]]
    /\ handle' = [h \in Handles |->
                    IF h \in Closing THEN "closed" ELSE handle[h]]
    /\ unref' = unref \ Closing
    /\ phase' = "timers"
    /\ UNCHANGED <<closeCb, active, asyncVars, reqVars, ready, mode, r, zone,
                   stop, cb, shutVars>>

\* uv__run_closing_handles.  The bindings' close callbacks drop the root and
\* the memory; a handle closed by the walk has no close callback.
RunClosing ==
    /\ phase = "events" /\ cb = NoCb
    /\ batch = {} /\ visit = {}
    /\ LET mine == {h \in Closing : closeCb[h] = "own"}
       IN  /\ rooted' = rooted \ mine
           /\ mem' = [i \in Ids |-> IF i \in mine THEN "freed" ELSE mem[i]]
    /\ handle' = [h \in Handles |->
                    IF h \in Closing THEN "closed" ELSE handle[h]]
    /\ unref' = unref \ Closing
    /\ phase' = "timers"
    /\ UNCHANGED <<closeCb, active, asyncVars, reqVars, ready, mode, r, zone,
                   stop, cb, shutVars>>

\* Slip: the heap holds every active handle.
SlipCollectAll ==
    /\ phase \in {"pretimers", "timers"}
    /\ ready' = active
    /\ active' = {}
    /\ phase' = IF phase = "pretimers" THEN "prefire" ELSE "fire"
    /\ UNCHANGED <<handleVars, unref, asyncVars, reqVars, mode, r, zone, stop,
                   cb, shutVars>>

\* First half of uv__run_timers: the due timers leave the heap.
CollectTimers ==
    /\ phase \in {"pretimers", "timers"}
    /\ \E due \in SUBSET (active \cap Timers) :
         /\ active \cap RunTimers \subseteq due
         /\ ready' = due
         /\ active' = active \ due
    /\ phase' = IF phase = "pretimers" THEN "prefire" ELSE "fire"
    /\ UNCHANGED <<handleVars, unref, asyncVars, reqVars, mode, r, zone, stop,
                   cb, shutVars>>

\* Second half: uv_timer_again rearms a repeating timer, then its callback.
FireTimer(t) ==
    /\ phase \in {"prefire", "fire"} /\ cb = NoCb
    /\ t \in ready
    /\ ready' = ready \ {t}
    /\ active' = IF t \in RepeatTimers THEN active \cup {t} ELSE active
    /\ Dispatch(t)
    /\ UNCHANGED <<handleVars, unref, asyncVars, reqVars, phase, mode, r, stop,
                   shutVars>>

\* The timers are done.  r is not computed again after the first round.
EndTimers ==
    /\ phase \in {"prefire", "fire"} /\ cb = NoCb
    /\ ready = {}
    /\ r' = IF phase = "prefire" THEN r ELSE Alive
    /\ phase' = IF r' /\ ~stop /\ (phase = "prefire" \/ mode = "default")
                THEN "poll" ELSE "exit"
    /\ UNCHANGED <<handleVars, active, unref, asyncVars, reqVars, ready, mode,
                   zone, stop, cb, shutVars>>

\* uv_run returns; runLoop or shutdownLoop leaves its GC-free zone.
ExitRun ==
    /\ phase = "exit"
    /\ phase' = "out"
    /\ stop' = FALSE
    /\ zone' = "managed"
    /\ shut' = IF shut = "running" THEN "returned" ELSE shut
    /\ UNCHANGED <<handleVars, active, unref, asyncVars, reqVars, ready, mode,
                   r, cb, walked, loop>>

\* Slip: every timer's wrapper owns its callback, as timer::run's does.
SlipReturnDropsRoots ==
    /\ cb # NoCb
    /\ cb' = NoCb
    /\ zone' = "free"
    /\ rooted' = rooted \ ((Timers \cup Requests) \cap {cb})
    /\ mem' = [i \in Ids |-> IF i \in Requests \cap {cb} THEN "freed" ELSE mem[i]]
    /\ CloseHandles(RunTimers \cap {cb}, "own")
    /\ UNCHANGED <<unref, wake, reqVars, phase, mode, r, stop, shutVars>>

\* The wrapper ends.  timer::run's RunData closes its timer and drops the
\* root; a request drops its root and its memory; the others keep both.
CallbackReturn ==
    /\ cb # NoCb
    /\ cb' = NoCb
    /\ zone' = "free"
    /\ rooted' = rooted \ ((RunTimers \cup Requests) \cap {cb})
    /\ mem' = [i \in Ids |-> IF i \in Requests \cap {cb} THEN "freed" ELSE mem[i]]
    /\ CloseHandles(RunTimers \cap {cb}, "own")
    /\ UNCHANGED <<unref, wake, reqVars, phase, mode, r, stop, shutVars>>

\* freeLoop: uv_loop_close may refuse; the memory is freed all the same.
FreeLoop ==
    /\ phase = "out" /\ shut = "returned" /\ loop = "live"
    /\ loop' = IF Outstanding # {} \/ Open \cup Closing # {}
               THEN "freedBusy" ELSE "freed"
    /\ UNCHANGED <<handleVars, active, unref, asyncVars, reqVars, ready,
                   runVars, stop, cb, shut, walked>>

Ended == loop # "live" /\ UNCHANGED vars

LoopStep ==
    \/ PollReturns \/ RunClosing \/ CollectTimers \/ EndTimers \/ ExitRun
    \/ \E q \in Requests : CallRequest(q)
    \/ \E a \in Asyncs : VisitAsync(a)
    \/ \E t \in Timers : FireTimer(t)

Next ==
    \/ HaxeCall
    \/ \E a \in Asyncs : AsyncSend(a)
    \/ \E q \in Requests : WorkerDone(q)
    \/ \E m \in {"default", "once", "nowait"} : RunLoop(m)
    \/ ShutdownLoop
    \/ LoopStep
    \/ CallbackReturn
    \/ FreeLoop
    \/ Ended

Spec == Init /\ [][Next]_vars

\* The loop thread runs, callbacks return, the pool's workers finish.
Fairness ==
    /\ WF_vars(LoopStep)
    /\ WF_vars(CallbackReturn)
    /\ \A q \in Requests : WF_vars(WorkerDone(q))

FairSpec == Spec /\ Fairness

-----------------------------------------------------------------------------
(* Properties.                                                             *)

\* Every variable stays within the values the code can give it.
TypeOK ==
    /\ handle \in [Handles -> {"none", "open", "closing", "closed"}]
    /\ closeCb \in [Handles -> {"none", "own", "walk"}]
    /\ mem \in [Ids -> {"none", "live", "freed"}]
    /\ rooted \subseteq Ids
    /\ active \subseteq Handles /\ unref \subseteq Asyncs
    /\ pending \subseteq Asyncs /\ wake \in BOOLEAN /\ visit \subseteq Asyncs
    /\ reqs \in [Requests -> {"idle", "queued", "done", "called"}]
    /\ batch \subseteq Requests /\ ready \subseteq Timers
    /\ phase \in {"out", "pretimers", "prefire", "poll", "events", "timers",
                  "fire", "exit"}
    /\ mode \in {"default", "once", "nowait"}
    /\ r \in BOOLEAN /\ stop \in BOOLEAN
    /\ cb \in Ids \cup {NoCb}
    /\ zone \in {"managed", "free"}
    /\ shut \in {"no", "running", "returned"} /\ walked \subseteq Handles
    /\ loop \in {"live", "freed", "freedBusy"}

\* The ids the loop may still call back, or is calling back: timers in the
\* heap or the ready queue, open asyncs, requests not answered yet.
Callable ==
    (active \cap Timers) \cup ready \cup visit \cup (Open \cap Asyncs)
      \cup Outstanding \cup ({cb} \ {NoCb})

\* Whatever the loop can still call back is allocated memory with a rooted
\* Haxe callback, whoever closed what, and when: in a callback of its own or
\* of another handle, between the two halves of uv__run_timers, in the middle
\* of the pass over the asyncs, or by shutdownLoop's walk.
DispatchSafe == \A i \in Callable : mem[i] = "live" /\ i \in rooted

\* A handle's memory and root go exactly when its binding's own close
\* callback has run, never before ("the memory can only be released in
\* close_cb", libuv's handle.rst:144-147); a handle the walk closed keeps its
\* memory.
FreedByItsClose ==
    \A h \in Handles :
        /\ mem[h] = "freed" <=> handle[h] = "closed" /\ closeCb[h] = "own"
        /\ mem[h] = "freed" => h \notin rooted

\* A set pending flag or a finished request is never stranded: the eventfd is
\* readable or the current pass is about to serve it.
NoLostWakeup ==
    /\ \A a \in Open \cap pending : wake \/ a \in visit
    /\ \A q \in Requests : reqs[q] = "done" => wake \/ q \in batch

\* The loop's thread is in the GC's managed zone exactly while Haxe code runs
\* on it: a callback outside it, or a poll inside it, would stop or corrupt a
\* collection started by another thread.
ZoneMatchesCode == zone = "managed" <=> (phase = "out" \/ cb # NoCb)

\* The three together: a callback finds its memory, its root and its zone.
CallbacksSafe == DispatchSafe /\ FreedByItsClose /\ ZoneMatchesCode

\* No Haxe callback of a handle starts once its close was asked for, nor that
\* of a request that is not finished or was answered before.
NoCallbackAfterClose ==
    [][cb' # cb /\ cb' # NoCb =>
         IF cb' \in Handles THEN handle[cb'] = "open" ELSE reqs[cb'] = "done"]_vars

\* No work the loop must wait for is left.
NothingLeft == active \subseteq unref /\ Outstanding = {} /\ Closing = {}

\* shutdownLoop, unless stopLoop cuts it short, returns with every handle it
\* walked closed and nothing left to wait for.
ShutdownComplete ==
    [][shut = "running" /\ shut' = "returned" /\ ~stop =>
         NothingLeft /\ \A h \in walked : handle[h] = "closed"]_vars

\* runLoop answers true ("finished") only if nothing is left to wait for, in
\* every mode and whoever called stopLoop.
FinishedMeansNothingLeft ==
    [][phase = "exit" /\ phase' = "out" /\ ~r => NothingLeft]_vars

\* A send that set the flag is answered by the callback, unless the handle is
\* closed or the run of the loop ends first.
SendAnswered ==
    \A a \in Asyncs :
        a \in pending /\ handle[a] = "open"
          ~> cb = a \/ handle[a] # "open" \/ phase = "out"

\* A request is answered while the loop runs, or the run ends first.
RequestAnswered ==
    \A q \in Requests : q \in Outstanding ~> q \notin Outstanding \/ phase = "out"

\* shutdownLoop returns, unless a callback it runs opens a handle that is
\* kept open.
ShutdownReturns ==
    shut = "running" ~> \/ shut # "running"
                        \/ \E h \in Handles \ walked : handle[h] = "open"

\* What waits on the loop is served: a send from any thread, a request the
\* pool has finished, and the caller of shutdownLoop.
LoopAnswers == SendAnswered /\ RequestAnswered /\ ShutdownReturns

\* freeLoop frees a loop whose handles and requests are all closed ("Call this
\* function only when the loop has finished executing and all open handles
\* and requests have been closed", libuv's loop.rst:80-83).
FreedOnlyWhenClosed == loop # "freedBusy"

==============================================================================
