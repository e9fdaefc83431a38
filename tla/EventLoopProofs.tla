--------------------------- MODULE EventLoopProofs ---------------------------
(***************************************************************************)
(* What holds of the loop for any sets of timers, asyncs and requests.     *)
(***************************************************************************)
EXTENDS EventLoop, TLAPS

\* What the life of a handle says of its memory, root and close callback.
HandleLife ==
    \A h \in Handles :
        /\ handle[h] = "none" => mem[h] = "none"
        /\ handle[h] = "open" => mem[h] = "live" /\ h \in rooted
        /\ handle[h] = "closing" => mem[h] = "live" /\ closeCb[h] # "none"
        /\ handle[h] = "closed" =>
             \/ closeCb[h] = "own" /\ mem[h] = "freed" /\ h \notin rooted
             \/ closeCb[h] = "walk" /\ mem[h] = "live"

\* What the life of a request says of its memory and root.
RequestLife ==
    /\ \A q \in Outstanding : mem[q] = "live" /\ q \in rooted
    /\ \A q \in batch : reqs[q] = "done"

\* The loop's queues hold open handles only, and the pass over the asyncs
\* exists only while events are served.
Queues ==
    /\ active \cup ready \cup visit \subseteq Open
    /\ phase # "events" => visit = {} /\ batch = {}

\* A running callback keeps its memory and root, and only runs where uv_run
\* calls out.
Callback ==
    /\ cb # NoCb => /\ mem[cb] = "live" /\ cb \in rooted
                    /\ phase \in {"prefire", "fire", "events"}
    /\ cb \in Handles => handle[cb] \in {"open", "closing"}
    /\ cb \in Requests => reqs[cb] = "called"

IInv ==
    /\ TypeOK
    /\ HandleLife
    /\ RequestLife
    /\ Queues
    /\ Callback
    /\ ZoneMatchesCode
    /\ NoLostWakeup

-----------------------------------------------------------------------------
(* Type correctness.                                                       *)

\* Every step of the system is one of these actions, or changes nothing.
StepCases ==
    \/ \E h \in Handles : TimerRepeat(h) \/ TimerRun(h) \/ AsyncInit(h)
    \/ \E h \in Handles : TimerStop(h) \/ HandleClose(h)
    \/ \E a \in Asyncs : AsyncRef(a) \/ AsyncUnref(a) \/ AsyncSend(a)
    \/ \E q \in Requests : Submit(q) \/ WorkerDone(q)
    \/ StopLoop
    \/ \E m \in {"default", "once", "nowait"} : RunLoop(m)
    \/ ShutdownLoop \/ PollReturns \/ RunClosing \/ CollectTimers \/ EndTimers
    \/ ExitRun
    \/ \E q \in Requests : CallRequest(q)
    \/ \E a \in Asyncs : VisitAsync(a)
    \/ \E t \in Timers : FireTimer(t)
    \/ CallbackReturn \/ FreeLoop
    \/ UNCHANGED vars

\* Next, as the list of its actions.
LEMMA NextCases == [Next]_vars => StepCases
  BY DEF Next, HaxeCall, LoopStep, Ended, StepCases, TimerRepeat, TimerRun,
         AsyncInit, Handles, Timers

\* The constants' sets, related once: what kind of id an element is.
LEMMA Kinds ==
  /\ RepeatTimers \subseteq Timers /\ RunTimers \subseteq Timers
  /\ Timers \subseteq Handles /\ Asyncs \subseteq Handles
  /\ Handles \subseteq Ids /\ Requests \subseteq Ids
  /\ Handles \cap Requests = {} /\ Timers \cap Asyncs = {}
  /\ RepeatTimers \cap RunTimers = {} /\ NoCb \notin Ids
  BY IdsDisjoint DEF Timers, Handles, Ids

\* The types, action by action.
LEMMA TypeStep == TypeOK /\ [Next]_vars => TypeOK'
<1> SUFFICES ASSUME TypeOK, StepCases PROVE TypeOK'
  BY NextCases
<1> USE Kinds DEF TypeOK
<1>1. CASE \E h \in Handles : TimerRepeat(h) \/ TimerRun(h) \/ AsyncInit(h)
  BY <1>1 DEF TimerRepeat, TimerRun, AsyncInit, NewHandle, reqVars, runVars,
              shutVars
<1>2. CASE \E h \in Handles : TimerStop(h) \/ HandleClose(h)
  BY <1>2 DEF TimerStop, HandleClose, CloseHandles, handleVars, asyncVars,
              reqVars, runVars, shutVars
<1>3. CASE \E a \in Asyncs : AsyncRef(a) \/ AsyncUnref(a) \/ AsyncSend(a)
  <2>1. CASE \E a \in Asyncs : AsyncRef(a) \/ AsyncUnref(a)
    BY <2>1 DEF AsyncRef, AsyncUnref, handleVars, asyncVars, reqVars,
                runVars, shutVars
  <2>2. CASE \E a \in Asyncs : AsyncSend(a)
    BY <2>2 DEF AsyncSend, handleVars, reqVars, runVars, shutVars
  <2> QED  BY <1>3, <2>1, <2>2
<1>4. CASE \/ \E q \in Requests : Submit(q) \/ WorkerDone(q)
           \/ \E q \in Requests : CallRequest(q)
  <2>1. CASE \E q \in Requests : Submit(q)
    BY <2>1 DEF Submit, asyncVars, runVars, shutVars
  <2>2. CASE \E q \in Requests : WorkerDone(q)
    BY <2>2 DEF WorkerDone, handleVars, runVars, shutVars
  <2>3. CASE \E q \in Requests : CallRequest(q)
    BY <2>3 DEF CallRequest, Dispatch, handleVars, asyncVars, shutVars
  <2> QED  BY <1>4, <2>1, <2>2, <2>3
<1>5. CASE StopLoop
  BY <1>5 DEF StopLoop, handleVars, asyncVars, reqVars, runVars, shutVars
<1>6. CASE \E m \in {"default", "once", "nowait"} : RunLoop(m)
  BY <1>6 DEF RunLoop, EnterRun, Alive, handleVars, asyncVars, reqVars,
              shutVars
<1>7. CASE ShutdownLoop
  BY <1>7 DEF ShutdownLoop, EnterRun, CloseHandles, Open, Closing, reqVars
<1>8. CASE PollReturns \/ RunClosing
  <2>1. CASE PollReturns
    <3>1. visit' \subseteq Asyncs /\ batch' \subseteq Requests
      BY <2>1 DEF PollReturns, Open
    <3> QED
      BY <2>1, <3>1 DEF PollReturns, handleVars, shutVars
  <2>2. CASE RunClosing
    BY <2>2 DEF RunClosing, asyncVars, reqVars, shutVars
  <2> QED  BY <1>8, <2>1, <2>2
<1>9. CASE CollectTimers \/ EndTimers \/ ExitRun
  <2>1. CASE CollectTimers
    BY <2>1 DEF CollectTimers, handleVars, asyncVars, reqVars, shutVars
  <2>2. CASE EndTimers
    <3>1. r' \in BOOLEAN
      BY <2>2 DEF EndTimers, Alive
    <3> QED
      BY <2>2, <3>1 DEF EndTimers, handleVars, asyncVars, reqVars, shutVars
  <2>3. CASE ExitRun
    BY <2>3 DEF ExitRun, handleVars, asyncVars, reqVars
  <2> QED  BY <1>9, <2>1, <2>2, <2>3
<1>10. CASE \E a \in Asyncs : VisitAsync(a)
  <2>1. PICK a \in Asyncs : VisitAsync(a)
    BY <1>10
  <2>2. cb' \in Ids \cup {NoCb} /\ zone' \in {"managed", "free"}
    BY <2>1 DEF VisitAsync, Dispatch
  <2> QED
    BY <2>1, <2>2 DEF VisitAsync, handleVars, reqVars, shutVars
<1>11. CASE \E t \in Timers : FireTimer(t)
  BY <1>11 DEF FireTimer, Dispatch, handleVars, asyncVars, reqVars, shutVars
<1>12. CASE CallbackReturn
  BY <1>12 DEF CallbackReturn, CloseHandles, reqVars, shutVars
<1>13. CASE FreeLoop
  BY <1>13 DEF FreeLoop, handleVars, asyncVars, reqVars, runVars
<1>14. CASE UNCHANGED vars
  BY <1>14 DEF vars, handleVars, asyncVars, reqVars, runVars, shutVars
<1> QED
  BY <1>1, <1>2, <1>3, <1>4, <1>5, <1>6, <1>7, <1>8, <1>9, <1>10, <1>11,
     <1>12, <1>13, <1>14 DEF StepCases

\* Init and every step keep each variable within its type: no sequence of
\* calls, sends and callbacks leaves the states the code's tests distinguish.
THEOREM TypeCorrect == Spec => []TypeOK
<1>1. Init => TypeOK
  BY DEF Init, TypeOK
<1>2. TypeOK /\ [Next]_vars => TypeOK'
  BY TypeStep
<1> QED
  BY <1>1, <1>2, PTL DEF Spec

-----------------------------------------------------------------------------
(* The inductive invariant.                                                *)

\* Every step keeps the invariant, action by action.
LEMMA IndStep == IInv /\ [Next]_vars => IInv'
<1> SUFFICES ASSUME IInv, StepCases, TypeOK' PROVE IInv'
  BY NextCases, TypeStep DEF IInv
<1> USE Kinds DEF IInv, TypeOK, HandleLife, RequestLife, Queues, Callback,
                  ZoneMatchesCode, NoLostWakeup, Open, Outstanding
<1> USE DEF handleVars, asyncVars, reqVars, runVars, shutVars
<1>1. CASE \E h \in Handles : TimerRepeat(h) \/ TimerRun(h) \/ AsyncInit(h)
  BY <1>1 DEF TimerRepeat, TimerRun, AsyncInit, NewHandle, HaxeRuns
<1>2. CASE \E h \in Handles : TimerStop(h)
  BY <1>2 DEF TimerStop
<1>3. CASE \E h \in Handles : HandleClose(h)
  BY <1>3 DEF HandleClose, CloseHandles
<1>4. CASE \E a \in Asyncs : AsyncRef(a) \/ AsyncUnref(a) \/ AsyncSend(a)
  BY <1>4 DEF AsyncRef, AsyncUnref, AsyncSend
<1>5. CASE \E q \in Requests : Submit(q)
  BY <1>5 DEF Submit
<1>6. CASE \E q \in Requests : WorkerDone(q)
  BY <1>6 DEF WorkerDone
<1>7. CASE \E q \in Requests : CallRequest(q)
  BY <1>7 DEF CallRequest, Dispatch
<1>8. CASE StopLoop
  BY <1>8 DEF StopLoop
<1>9. CASE \E m \in {"default", "once", "nowait"} : RunLoop(m)
  BY <1>9 DEF RunLoop, EnterRun, HaxeRuns
<1>10. CASE ShutdownLoop
  BY <1>10 DEF ShutdownLoop, EnterRun, CloseHandles, HaxeRuns
<1>11. CASE PollReturns
  BY <1>11 DEF PollReturns
<1>12. CASE RunClosing
  BY <1>12 DEF RunClosing, Closing
<1>13. CASE CollectTimers
  BY <1>13 DEF CollectTimers
<1>14. CASE EndTimers
  BY <1>14 DEF EndTimers
<1>15. CASE ExitRun
  BY <1>15 DEF ExitRun
<1>16. CASE \E a \in Asyncs : VisitAsync(a)
  BY <1>16 DEF VisitAsync, Dispatch
<1>17. CASE \E t \in Timers : FireTimer(t)
  BY <1>17 DEF FireTimer, Dispatch
<1>18. CASE CallbackReturn
  BY <1>18 DEF CallbackReturn, CloseHandles
<1>19. CASE FreeLoop
  BY <1>19 DEF FreeLoop
<1>20. CASE UNCHANGED vars
  BY <1>20 DEF vars
<1> QED
  BY <1>1, <1>2, <1>3, <1>4, <1>5, <1>6, <1>7, <1>8, <1>9, <1>10,
     <1>11, <1>12, <1>13, <1>14, <1>15, <1>16, <1>17, <1>18, <1>19, <1>20
     DEF StepCases

\* Init and every step keep the life of each handle and request in agreement
\* with its memory, its root and the loop's queues.
THEOREM Inductive == Spec => []IInv
<1>1. Init => IInv
  BY Kinds DEF Init, IInv, TypeOK, HandleLife, RequestLife, Queues, Callback,
               ZoneMatchesCode, NoLostWakeup, Open, Outstanding
<1> QED
  BY <1>1, IndStep, PTL DEF Spec

-----------------------------------------------------------------------------
(* The properties.                                                         *)

\* Whatever the loop can still call back is allocated and rooted, with any
\* number of timers, asyncs and requests: no close, stop or walk, in a
\* callback or outside, leaves a queue holding something already freed.
THEOREM AlwaysDispatchSafe == Spec => []DispatchSafe
<1>1. IInv => DispatchSafe
  <2> SUFFICES ASSUME IInv, NEW i \in Callable
               PROVE  mem[i] = "live" /\ i \in rooted
    BY DEF DispatchSafe
  <2> USE Kinds DEF IInv, TypeOK
  <2>1. CASE i \in active \cup ready \cup visit \cup Open
    BY <2>1 DEF Queues, HandleLife, Open
  <2>2. CASE i \in Outstanding
    BY <2>2 DEF RequestLife
  <2>3. CASE i = cb /\ cb # NoCb
    BY <2>3 DEF Callback
  <2> QED
    BY <2>1, <2>2, <2>3 DEF Callable
<1> QED
  BY <1>1, Inductive, PTL

\* A handle's memory goes in its own close callback and nowhere else.
THEOREM AlwaysFreedByItsClose == Spec => []FreedByItsClose
<1>1. IInv => FreedByItsClose
  BY DEF IInv, TypeOK, HandleLife, FreedByItsClose
<1> QED
  BY <1>1, Inductive, PTL

\* No send and no finished request is ever stranded.
THEOREM AlwaysNoLostWakeup == Spec => []NoLostWakeup
  BY Inductive, PTL DEF IInv

\* The loop thread is in the managed zone exactly while Haxe code runs.
THEOREM AlwaysZoneMatchesCode == Spec => []ZoneMatchesCode
  BY Inductive, PTL DEF IInv

\* The three together: every callback finds its memory, its root, its zone.
THEOREM AlwaysCallbacksSafe == Spec => []CallbacksSafe
  BY AlwaysDispatchSafe, AlwaysFreedByItsClose, AlwaysZoneMatchesCode, PTL
     DEF CallbacksSafe

\* No Haxe callback starts after its handle's close was asked for, and a
\* request's starts once.
THEOREM NeverCalledAfterClose == Spec => NoCallbackAfterClose
<1>1. IInv /\ [Next]_vars =>
        [cb' # cb /\ cb' # NoCb =>
           IF cb' \in Handles THEN handle[cb'] = "open"
                              ELSE reqs[cb'] = "done"]_vars
  <2> SUFFICES ASSUME IInv, StepCases, cb' # cb, cb' # NoCb
               PROVE  IF cb' \in Handles THEN handle[cb'] = "open"
                                         ELSE reqs[cb'] = "done"
    BY NextCases
  <2> USE Kinds DEF IInv, TypeOK, handleVars, asyncVars, reqVars, runVars,
                    shutVars
  <2>1. CASE \E q \in Requests : CallRequest(q)
    BY <2>1 DEF CallRequest, Dispatch, RequestLife
  <2>2. CASE \E a \in Asyncs : VisitAsync(a)
    BY <2>2 DEF VisitAsync, Dispatch, Queues, Open
  <2>3. CASE \E t \in Timers : FireTimer(t)
    BY <2>3 DEF FireTimer, Dispatch, Queues, Open
  <2>4. CASE \E h \in Handles : TimerRepeat(h) \/ TimerRun(h) \/ AsyncInit(h)
    BY <2>4 DEF TimerRepeat, TimerRun, AsyncInit, NewHandle
  <2>5. CASE \E h \in Handles : TimerStop(h) \/ HandleClose(h)
    BY <2>5 DEF TimerStop, HandleClose
  <2>6. CASE \E a \in Asyncs : AsyncRef(a) \/ AsyncUnref(a) \/ AsyncSend(a)
    BY <2>6 DEF AsyncRef, AsyncUnref, AsyncSend
  <2>7. CASE \E q \in Requests : Submit(q) \/ WorkerDone(q)
    BY <2>7 DEF Submit, WorkerDone
  <2>8. CASE StopLoop \/ \E m \in {"default", "once", "nowait"} : RunLoop(m)
    BY <2>8 DEF StopLoop, RunLoop
  <2>9. CASE \/ ShutdownLoop \/ PollReturns \/ RunClosing \/ CollectTimers
             \/ EndTimers \/ ExitRun \/ CallbackReturn \/ FreeLoop
             \/ UNCHANGED vars
    BY <2>9 DEF ShutdownLoop, PollReturns, RunClosing, CollectTimers,
                EndTimers, ExitRun, CallbackReturn, FreeLoop, vars
  <2> QED
    BY <2>1, <2>2, <2>3, <2>4, <2>5, <2>6, <2>7, <2>8, <2>9 DEF StepCases
<1> QED
  BY <1>1, Inductive, PTL DEF Spec, NoCallbackAfterClose
-----------------------------------------------------------------------------
(* How a run ends.  Haxe code runs only inside callbacks, so nothing        *)
(* changes what is left between the loop's last look and its return.        *)

ExitInv ==
    /\ phase \in {"pretimers", "prefire"} => r
    /\ phase = "exit" /\ ~r => NothingLeft
    /\ shut = "running" =>
         /\ mode = "default" /\ phase # "out"
         /\ \A h \in walked : handle[h] \in {"closing", "closed"}
         /\ phase \in {"timers", "fire"} =>
              \A h \in walked : handle[h] = "closed"
         /\ phase = "exit" /\ ~stop =>
              ~r /\ \A h \in walked : handle[h] = "closed"

\* And what runLoop answers.
LEMMA ExitStep == IInv /\ ExitInv /\ [Next]_vars => ExitInv'
<1> SUFFICES ASSUME IInv, ExitInv, StepCases PROVE ExitInv'
  BY NextCases
<1> USE Kinds DEF IInv, TypeOK, Callback, ExitInv, NothingLeft, Outstanding,
                  Closing
<1> USE DEF handleVars, asyncVars, reqVars, runVars, shutVars
<1>1. CASE \E h \in Handles : TimerRepeat(h) \/ TimerRun(h) \/ AsyncInit(h)
  BY <1>1 DEF TimerRepeat, TimerRun, AsyncInit, NewHandle, HaxeRuns
<1>2. CASE \E h \in Handles : TimerStop(h)
  BY <1>2 DEF TimerStop, HaxeRuns
<1>3. CASE \E h \in Handles : HandleClose(h)
  BY <1>3 DEF HandleClose, CloseHandles, HaxeRuns
<1>4. CASE \E a \in Asyncs : AsyncRef(a) \/ AsyncUnref(a) \/ AsyncSend(a)
  BY <1>4 DEF AsyncRef, AsyncUnref, AsyncSend, HaxeRuns
<1>5. CASE \E q \in Requests : Submit(q)
  BY <1>5 DEF Submit, HaxeRuns
<1>6. CASE \E q \in Requests : WorkerDone(q)
  BY <1>6 DEF WorkerDone
<1>7. CASE \E q \in Requests : CallRequest(q)
  BY <1>7 DEF CallRequest, Dispatch
<1>8. CASE StopLoop
  BY <1>8 DEF StopLoop, HaxeRuns
<1>9. CASE \E m \in {"default", "once", "nowait"} : RunLoop(m)
  <2>1. shut' = "no" /\ phase' # "timers"
    BY <1>9 DEF RunLoop, EnterRun, HaxeRuns
  <2>2. r' <=> Alive
    BY <1>9 DEF RunLoop, EnterRun
  <2>3. phase' \in {"pretimers", "prefire"} => r'
    BY <1>9, <2>2 DEF RunLoop, EnterRun
  <2>4. ~r' => NothingLeft'
    BY <1>9, <2>2 DEF RunLoop, Alive
  <2> QED
    BY <2>1, <2>3, <2>4
<1>10. CASE ShutdownLoop
  BY <1>10 DEF ShutdownLoop, EnterRun, CloseHandles, HaxeRuns, Alive, Open, Queues
<1>11. CASE PollReturns
  BY <1>11 DEF PollReturns
<1>12. CASE RunClosing
  BY <1>12 DEF RunClosing, Closing
<1>13. CASE CollectTimers
  BY <1>13 DEF CollectTimers
<1>14. CASE EndTimers
  BY <1>14 DEF EndTimers, Alive
<1>15. CASE ExitRun
  BY <1>15 DEF ExitRun
<1>16. CASE \E a \in Asyncs : VisitAsync(a)
  BY <1>16 DEF VisitAsync, Dispatch
<1>17. CASE \E t \in Timers : FireTimer(t)
  BY <1>17 DEF FireTimer, Dispatch
<1>18. CASE CallbackReturn
  BY <1>18 DEF CallbackReturn, CloseHandles
<1>19. CASE FreeLoop
  BY <1>19 DEF FreeLoop
<1>20. CASE UNCHANGED vars
  BY <1>20 DEF vars
<1> QED
  BY <1>1, <1>2, <1>3, <1>4, <1>5, <1>6, <1>7, <1>8, <1>9, <1>10,
     <1>11, <1>12, <1>13, <1>14, <1>15, <1>16, <1>17, <1>18, <1>19, <1>20
     DEF StepCases

\* What uv_run has established when it returns.
THEOREM ExitSound == Spec => []ExitInv
<1>1. Init => ExitInv
  BY DEF Init, ExitInv
<1> QED
  BY <1>1, ExitStep, Inductive, PTL DEF Spec

\* runLoop answers true only if nothing is left to wait for.
THEOREM RunResultSound == Spec => FinishedMeansNothingLeft
<1>1. ExitInv /\ [Next]_vars =>
        [phase = "exit" /\ phase' = "out" /\ ~r => NothingLeft]_vars
  BY DEF ExitInv
<1> QED
  BY <1>1, ExitSound, PTL DEF Spec, FinishedMeansNothingLeft

\* shutdownLoop returns with every walked handle closed and nothing left to
\* wait for, unless stopLoop was called.
THEOREM ShutdownSound == Spec => ShutdownComplete
<1>1. ExitInv /\ [Next]_vars =>
        [shut = "running" /\ shut' = "returned" /\ ~stop =>
           NothingLeft /\ \A h \in walked : handle[h] = "closed"]_vars
  <2> SUFFICES ASSUME ExitInv, StepCases, shut = "running",
                      shut' = "returned"
               PROVE  phase = "exit"
    BY NextCases DEF ExitInv
  <2> USE DEF shutVars
  <2>1. CASE ExitRun
    BY <2>1 DEF ExitRun
  <2>2. CASE ~ExitRun
    BY <2>2 DEF StepCases, TimerRepeat, TimerRun, AsyncInit, NewHandle,
           TimerStop, HandleClose, AsyncRef, AsyncUnref, AsyncSend, Submit,
           WorkerDone, StopLoop, RunLoop, ShutdownLoop, PollReturns,
           RunClosing, CollectTimers, EndTimers, CallRequest, VisitAsync,
           FireTimer, CallbackReturn, FreeLoop, vars
  <2> QED
    BY <2>1, <2>2
<1> QED
  BY <1>1, ExitSound, PTL DEF Spec, ShutdownComplete
==============================================================================
