------------------------------ MODULE AsyncSend ------------------------------
(***************************************************************************)
(* uv_async_send step by step, against the loop thread that reads the      *)
(* eventfd, clears the pending flags and closes handles, for sends made by *)
(* Haxe tasks on the pool's threads (cpp::luv::work::queue), and with the  *)
(* collector of the Haxe runtime, which waits for every registered thread. *)
(*                                                                         *)
(* EventLoop takes a send as one step; this module shows why it may.  The  *)
(* loop's own wq_async, through which a worker reports a finished task, is *)
(* one more handle, Wq, that is always open.                               *)
(*                                                                         *)
(* Memory is sequentially consistent here: the relaxed read that starts a  *)
(* send is taken as an ordinary one.                                       *)
(***************************************************************************)
EXTENDS Naturals, FiniteSets

CONSTANTS
    Asyncs,         \* handles of async::init
    Wq,             \* the loop's wq_async
    Tasks,          \* tasks given to work::queue, each on a pool thread
    Loop,           \* the thread that runs the loop
    Other,          \* any other handle of the loop, such as a timer
    Nobody,         \* no handle
    MaxSends,       \* how often a task may call async::send
    MaxCollections  \* how many collections are started

Handles == Asyncs \cup {Wq}

ASSUME AsyncSendAssumption ==
    /\ Wq \notin Asyncs /\ {Other, Nobody} \cap Handles = {} /\ Other # Nobody
    /\ Loop \notin Tasks
    /\ MaxSends \in Nat /\ MaxCollections \in Nat

VARIABLES
    handle,     \* life of each handle: none, open, closing, freed
    pending,    \* handles whose pending flag is 1
    wake,       \* the eventfd is readable
    pc,         \* where each task's thread is
    to,         \* the handle it is sending to, or Nobody
    sends,      \* how often it has called send
    lpc,        \* where the loop's thread is
    at,         \* the handle it is serving or closing, or Nobody
    visit,      \* handles still to visit in this pass of uv__async_io
    registered, \* pool threads on the collector's list
    collect,    \* a collection is stopping the world
    parked,     \* Haxe threads stopped for it
    started,    \* collections started so far
    undef       \* a send has used freed memory

sendVars == <<handle, pending, wake>>
taskVars == <<pc, to, sends>>
loopVars == <<lpc, at, visit>>
gcVars   == <<registered, collect, parked, started>>
vars     == <<sendVars, taskVars, loopVars, gcVars, undef>>

Open == {h \in Handles : handle[h] = "open"}

Init ==
    /\ handle = [h \in Handles |-> IF h = Wq THEN "open" ELSE "none"]
    /\ pending = {} /\ wake = FALSE
    /\ pc = [k \in Tasks |-> "none"]
    /\ to = [k \in Tasks |-> Nobody]
    /\ sends = [k \in Tasks |-> 0]
    /\ lpc = "haxe" /\ at = Nobody /\ visit = {}
    /\ registered = {} /\ collect = FALSE /\ parked = {} /\ started = 0
    /\ undef = FALSE

-----------------------------------------------------------------------------
(* uv_async_send, by the thread of task k.                                 *)

Sending == {"read", "busy", "exchange", "write", "unbusy"}

\* Slip: busy is raised after the exchange, not before it.
SlipBusyLate(h) == {k \in Tasks : to[k] = h /\ pc[k] = "unbusy"}

\* The senders in h's busy counter.
Busy(h) == {k \in Tasks : to[k] = h /\ pc[k] \in {"exchange", "write", "unbusy"}}

\* After its send a task runs on; the worker's own send ends the task.
After(k) == IF to[k] = Wq THEN "done" ELSE "haxe"

Returns(k) ==
    /\ pc' = [pc EXCEPT ![k] = After(k)]
    /\ to' = [to EXCEPT ![k] = Nobody]

Moves(k, next) ==
    /\ pc' = [pc EXCEPT ![k] = next]
    /\ UNCHANGED to

\* "Do a cheap read first."
CheapRead(k) ==
    /\ pc[k] = "read"
    /\ IF to[k] \in pending THEN Returns(k) ELSE Moves(k, "busy")
    /\ UNCHANGED <<sendVars, sends>>

\* "Set the loop to busy."
RaiseBusy(k) ==
    /\ pc[k] = "busy"
    /\ Moves(k, "exchange")
    /\ UNCHANGED <<sendVars, sends>>

\* atomic_exchange(pending, 1): whoever finds 0 writes.
Exchange(k) ==
    /\ pc[k] = "exchange"
    /\ pending' = pending \cup {to[k]}
    /\ Moves(k, IF to[k] \in pending THEN "unbusy" ELSE "write")
    /\ UNCHANGED <<handle, wake, sends>>

\* uv__async_send: the eventfd becomes readable, or was.
WriteFd(k) ==
    /\ pc[k] = "write"
    /\ wake' = TRUE
    /\ Moves(k, "unbusy")
    /\ UNCHANGED <<handle, pending, sends>>

\* "Set the loop to not-busy."
LowerBusy(k) ==
    /\ pc[k] = "unbusy"
    /\ Returns(k)
    /\ UNCHANGED <<sendVars, sends>>

SendStep(k) ==
    /\ CheapRead(k) \/ RaiseBusy(k) \/ Exchange(k) \/ WriteFd(k) \/ LowerBusy(k)
    /\ handle[to[k]] # "freed"
    /\ UNCHANGED <<loopVars, gcVars, undef>>

\* Each step touches the uv_async_t; after the handle's close callback has
\* deleted it, what happens is undefined.
UseFreed(k) ==
    /\ pc[k] \in Sending /\ handle[to[k]] = "freed"
    /\ undef' = TRUE
    /\ UNCHANGED <<sendVars, taskVars, loopVars, gcVars>>

-----------------------------------------------------------------------------
(* A task on a thread of the pool.                                         *)

\* SetTopOfStack registers the thread, which waits while the world is stopped.
Register(k) ==
    /\ pc[k] = "queued" /\ ~collect
    /\ pc' = [pc EXCEPT ![k] = "haxe"]
    /\ registered' = registered \cup {k}
    /\ UNCHANGED <<sendVars, to, sends, loopVars, collect, parked, started,
                   undef>>

\* The task calls async::send on a handle that is open.
CallSend(k) ==
    /\ pc[k] = "haxe" /\ k \notin parked
    /\ sends[k] < MaxSends
    /\ \E a \in Asyncs \cap Open : to' = [to EXCEPT ![k] = a]
    /\ pc' = [pc EXCEPT ![k] = "read"]
    /\ sends' = [sends EXCEPT ![k] = @ + 1]
    /\ UNCHANGED <<sendVars, loopVars, gcVars, undef>>

\* The task returns and its thread leaves the collector's list.
Unregister(k) ==
    /\ pc[k] = "haxe" /\ k \notin parked
    /\ pc' = [pc EXCEPT ![k] = "worked"]
    /\ registered' = registered \ {k}
    /\ UNCHANGED <<sendVars, to, sends, loopVars, collect, parked, started,
                   undef>>

\* worker: the task goes to loop->wq, and wq_async is sent, under wq_mutex.
HoldsMutex == {k \in Tasks : to[k] = Wq}

ReportDone(k) ==
    /\ pc[k] = "worked" /\ HoldsMutex = {}
    /\ pc' = [pc EXCEPT ![k] = "read"]
    /\ to' = [to EXCEPT ![k] = Wq]
    /\ UNCHANGED <<sendVars, sends, loopVars, gcVars, undef>>

-----------------------------------------------------------------------------
(* The loop's thread.                                                      *)

InHaxe == lpc = "haxe" /\ Loop \notin parked

AsyncInit(a) ==
    /\ InHaxe
    /\ a \in Asyncs /\ handle[a] = "none"
    /\ handle' = [handle EXCEPT ![a] = "open"]
    /\ UNCHANGED <<pending, wake, taskVars, loopVars, gcVars, undef>>

\* cpp::luv::work::queue.
QueueWork(k) ==
    /\ InHaxe
    /\ pc[k] = "none"
    /\ pc' = [pc EXCEPT ![k] = "queued"]
    /\ UNCHANGED <<sendVars, to, sends, loopVars, gcVars, undef>>

\* async::close calls uv_close: uv__async_spin sets pending and then waits.
BeginClose(a) ==
    /\ InHaxe
    /\ a \in Asyncs \cap Open
    /\ pending' = pending \cup {a}
    /\ at' = a
    /\ lpc' = IF at = Nobody THEN "spin" ELSE "spinInCb"
    /\ UNCHANGED <<handle, wake, taskVars, visit, gcVars, undef>>

Spinning == lpc \in {"spin", "spinInCb"}

\* Slip: the handle stays in the queue that is being walked.
SlipSpinEndsLeavesQueue ==
    /\ Spinning /\ Busy(at) = {}
    /\ handle' = [handle EXCEPT ![at] = "closing"]
    /\ lpc' = "haxe"
    /\ at' = IF lpc = "spin" THEN Nobody ELSE at
    /\ UNCHANGED <<pending, wake, taskVars, visit, gcVars, undef>>

\* No sender is busy: the handle leaves the queue and becomes inactive.
SpinEnds ==
    /\ Spinning /\ Busy(at) = {}
    /\ handle' = [handle EXCEPT ![at] = "closing"]
    /\ visit' = visit \ {at}
    /\ lpc' = "haxe"
    /\ at' = IF lpc = "spin" THEN Nobody ELSE at
    /\ UNCHANGED <<pending, wake, taskVars, gcVars, undef>>

\* Requests of the pool that count in loop->active_reqs.
Outstanding == {k \in Tasks : pc[k] \notin {"none", "over"}}

Alive == (Asyncs \cap Open) # {} \/ Outstanding # {}
           \/ \E a \in Asyncs : handle[a] = "closing"

\* runLoop enters the GC-free zone and uv_run.
RunLoop ==
    /\ InHaxe /\ at = Nobody /\ Alive
    /\ lpc' = "poll"
    /\ UNCHANGED <<sendVars, taskVars, at, visit, gcVars, undef>>

\* uv__io_poll returns, at an event or a timer's timeout; a readable eventfd
\* is drained by uv__async_io.
PollReturns ==
    /\ lpc = "poll"
    /\ wake' = FALSE
    /\ visit' = IF wake THEN Open ELSE {}
    /\ lpc' = "pass"
    /\ UNCHANGED <<handle, pending, taskVars, at, gcVars, undef>>

\* uv__async_io visits h, Wq first: atomic_exchange(pending, 0).
Visit(h) ==
    /\ lpc = "pass" /\ h \in visit
    /\ Wq \in visit => h = Wq
    /\ visit' = visit \ {h}
    /\ pending' = pending \ {h}
    /\ IF h \in pending
       THEN lpc' = (IF h = Wq THEN "work" ELSE "enter") /\ at' = h
       ELSE UNCHANGED <<lpc, at>>
    /\ UNCHANGED <<handle, wake, taskVars, gcVars, undef>>

\* Work's own after-callback calls no Haxe code; that of another request of
\* the pool, in the same batch, may.
AfterWork ==
    \/ lpc' = "pass" /\ at' = Nobody
    \/ lpc' = "enter" /\ UNCHANGED at

\* Slip: each call of uv__work_done takes one task.
SlipWorkDoneTakesOne ==
    /\ lpc = "work" /\ HoldsMutex = {}
    /\ pc' = IF \E k \in Tasks : pc[k] = "done"
             THEN [pc EXCEPT ![CHOOSE k \in Tasks : pc[k] = "done"] = "over"]
             ELSE pc
    /\ AfterWork
    /\ UNCHANGED <<sendVars, to, sends, visit, gcVars, undef>>

\* uv__work_done takes loop->wq under wq_mutex and runs the after-callbacks,
\* which delete the uv_work_t.
WorkDone ==
    /\ lpc = "work" /\ HoldsMutex = {}
    /\ pc' = [k \in Tasks |-> IF pc[k] = "done" THEN "over" ELSE pc[k]]
    /\ AfterWork
    /\ UNCHANGED <<sendVars, to, sends, visit, gcVars, undef>>

\* AutoGCZone leaves the GC-free zone, which waits while the world is stopped.
EnterCallback ==
    /\ lpc \in {"enter", "leave"} /\ ~collect
    /\ lpc' = "haxe"
    /\ UNCHANGED <<sendVars, taskVars, at, visit, gcVars, undef>>

CallbackReturns ==
    /\ InHaxe /\ at # Nobody
    /\ lpc' = IF at = Other THEN "poll" ELSE "pass"
    /\ at' = Nobody
    /\ UNCHANGED <<sendVars, taskVars, visit, gcVars, undef>>

\* The rest of the round may call back another handle; then uv_run goes on or
\* returns to runLoop, whose AutoGCFreeZone is left.
AfterRound ==
    \/ lpc' = "enter" /\ at' = Other
    \/ /\ lpc' = IF (Asyncs \cap Open) # {} \/ Outstanding # {}
                 THEN "poll" ELSE "leave"
       /\ UNCHANGED at

\* Slip: the eventfd is drained after the pass, not before it.
SlipRunClosingDrains ==
    /\ lpc = "pass" /\ visit = {}
    /\ wake' = FALSE
    /\ handle' = [h \in Handles |->
                    IF handle[h] = "closing" THEN "freed" ELSE handle[h]]
    /\ AfterRound
    /\ UNCHANGED <<pending, taskVars, visit, gcVars, undef>>

\* uv__run_closing_handles: async::close's callback deletes the handle.
RunClosing ==
    /\ lpc = "pass" /\ visit = {}
    /\ handle' = [h \in Handles |->
                    IF handle[h] = "closing" THEN "freed" ELSE handle[h]]
    /\ AfterRound
    /\ UNCHANGED <<pending, wake, taskVars, visit, gcVars, undef>>

-----------------------------------------------------------------------------
(* The collector (external): any Haxe thread may start a collection, which *)
(* waits until each registered thread is stopped or in the GC-free zone.   *)

Managed ==
    registered \cup (IF lpc = "haxe" \/ Spinning THEN {Loop} ELSE {})

AtSafePoint(t) == IF t = Loop THEN lpc = "haxe" ELSE pc[t] = "haxe"

StartCollection(t) ==
    /\ AtSafePoint(t) /\ ~collect
    /\ started < MaxCollections
    /\ collect' = TRUE
    /\ parked' = {t}
    /\ started' = started + 1
    /\ UNCHANGED <<sendVars, taskVars, loopVars, registered, undef>>

Park(t) ==
    /\ collect /\ AtSafePoint(t) /\ t \notin parked
    /\ parked' = parked \cup {t}
    /\ UNCHANGED <<sendVars, taskVars, loopVars, registered, collect, started, undef>>

EndCollection ==
    /\ collect /\ Managed \subseteq parked
    /\ collect' = FALSE
    /\ parked' = {}
    /\ UNCHANGED <<sendVars, taskVars, loopVars, registered, started, undef>>

-----------------------------------------------------------------------------
TaskStep(k) ==
    \/ SendStep(k) \/ UseFreed(k) \/ Register(k) \/ CallSend(k) \/ Unregister(k)
    \/ ReportDone(k)

LoopStep ==
    \/ SpinEnds \/ RunLoop \/ PollReturns \/ WorkDone \/ EnterCallback
    \/ CallbackReturns \/ RunClosing
    \/ \E h \in Handles : Visit(h)

HaxeCall ==
    \/ \E a \in Asyncs : AsyncInit(a) \/ BeginClose(a)
    \/ \E k \in Tasks : QueueWork(k)

Collector ==
    \/ EndCollection
    \/ \E t \in Tasks \cup {Loop} : Park(t)

Ended ==
    /\ undef \/ (InHaxe /\ at = Nobody /\ ~Alive)
    /\ UNCHANGED vars

\* Nothing is claimed of a behaviour once undef is TRUE.
Next ==
    \/ /\ ~undef
       /\ \/ \E k \in Tasks : TaskStep(k)
          \/ LoopStep \/ HaxeCall \/ Collector
          \/ \E t \in Tasks \cup {Loop} : StartCollection(t)
    \/ Ended

Spec == Init /\ [][Next]_vars

\* Each thread runs, the program keeps running its loop, a Haxe thread comes
\* to a safe point.  Nothing makes anybody call send, close or queue.
Fairness ==
    /\ \A k \in Tasks : WF_vars(~undef /\ TaskStep(k))
    /\ WF_vars(~undef /\ LoopStep)
    /\ WF_vars(~undef /\ Collector)

FairSpec == Spec /\ Fairness

-----------------------------------------------------------------------------
(* Properties.                                                             *)

\* Every variable stays within the values the code can give it; the pass only
\* holds handles that are open.
TypeOK ==
    /\ handle \in [Handles -> {"none", "open", "closing", "freed"}]
    /\ pending \subseteq Handles /\ wake \in BOOLEAN
    /\ pc \in [Tasks -> Sending \cup {"none", "queued", "haxe", "worked",
                                      "done", "over"}]
    /\ to \in [Tasks -> Handles \cup {Nobody}]
    /\ sends \in [Tasks -> 0 .. MaxSends]
    /\ lpc \in {"haxe", "spin", "spinInCb", "poll", "pass", "work", "enter",
                "leave"}
    /\ at \in Handles \cup {Other, Nobody}
    /\ visit \subseteq Open
    /\ registered \subseteq Tasks
    /\ collect \in BOOLEAN /\ parked \subseteq Tasks \cup {Loop}
    /\ started \in 0 .. MaxCollections
    /\ undef \in BOOLEAN

OutOfRun == lpc = "spin" \/ (at = Nobody /\ lpc \in {"haxe", "leave"})

\* Handles whose close has not begun.
Sendable == IF undef THEN {} ELSE Open \ (IF Spinning THEN {at} ELSE {})

\* Whatever the order of its steps and of the loop's, a send behaves as one
\* that takes effect at an instant, and is answered by a callback that starts
\* after that, unless its handle is closed.
Promised == INSTANCE Wakeup WITH
    Senders <- Tasks,
    open    <- Sendable,
    asked   <- Sendable \cap pending,
    took    <- {k \in Tasks : pc[k] \in {"write", "unbusy"}},
    running <- ~OutOfRun
WakeupSpec == Promised!Spec

\* "no new events will be added by other threads after this function returns"
\* (uv__async_spin): once the spin is over nobody writes to the eventfd for
\* the handle, not even a sender that read pending before it was set.
NoWriteAfterClose ==
    [][\A k \in Tasks :
         pc[k] = "write" /\ pc'[k] # "write" => handle[to[k]] = "open"]_vars

\* Nobody waits for ever on another thread: the spin of close, a collection
\* that finds the loop's thread spinning or a task in a send, and a task.
NobodyStuck ==
    /\ Spinning ~> ~Spinning \/ undef
    /\ collect ~> ~collect \/ undef
    /\ \A k \in Tasks : k \in Outstanding ~> k \notin Outstanding \/ undef
==============================================================================
