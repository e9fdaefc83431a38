--------------------------- MODULE AsyncSendProofs ---------------------------
(***************************************************************************)
(* Theorems about module AsyncSend, for any number of handles, tasks,      *)
(* sends and collections.                                                  *)
(***************************************************************************)
EXTENDS AsyncSend, TLAPS

-----------------------------------------------------------------------------
(* The inductive invariant.                                                *)

\* A thread in a send has a handle to send to, one that was made.
SenderInv ==
    \A k \in Tasks :
        /\ pc[k] \in Sending <=> to[k] # Nobody
        /\ pc[k] \in Sending => handle[to[k]] # "none"

\* The pending flag: 0 until a send or a close, and 1 from the close on.
PendingInv ==
    \A h \in Handles : /\ handle[h] = "none" => h \notin pending
                       /\ handle[h] = "closing" => h \in pending

\* What the loop's thread is working on.
LoopInv ==
    /\ Spinning => at \in pending /\ handle[at] = "open"
    /\ lpc = "work" => at = Wq
    /\ lpc = "enter" => at # Nobody

\* Nothing closes wq_async.
WqInv == handle[Wq] = "open" /\ (Spinning => at # Wq)

\* Whoever found pending 0 has the handle still open when it writes.
WriterInv == \A k \in Tasks : pc[k] = "write" => handle[to[k]] = "open"

IInv == TypeOK /\ SenderInv /\ PendingInv /\ LoopInv /\ WqInv /\ WriterInv

\* Where a task can be.
Places == Sending \cup {"none", "queued", "haxe", "worked", "done", "over"}

\* What each step is for Wakeup: one of its own, or none.
Took == {k \in Tasks : pc[k] \in {"write", "unbusy"}}
WakeupStep ==
    \/ Promised!Next
    \/ UNCHANGED <<Sendable, Sendable \cap pending, to, Took, ~OutOfRun>>

\* The names of the model values are distinct.
LEMMA Names ==
    /\ Wq \in Handles /\ Asyncs \subseteq Handles
    /\ Nobody \notin Handles /\ Other \notin Handles /\ Other # Nobody
    /\ MaxSends \in Nat /\ MaxCollections \in Nat
BY AsyncSendAssumption DEF AsyncSendAssumption, Handles

\* Before the first step.
LEMMA IInvInit == Init => IInv
<1> SUFFICES ASSUME Init PROVE IInv
  OBVIOUS
<1>1. /\ sends \in [Tasks -> 0 .. MaxSends] /\ started \in 0 .. MaxCollections
      /\ to \in [Tasks -> Handles \cup {Nobody}]
  BY Names DEF Init
<1>2. /\ handle \in [Handles -> {"none", "open", "closing", "freed"}]
      /\ \A h \in Handles : handle[h] \in {"none", "open"}
  BY DEF Init
<1>3. pc \in [Tasks -> Places] /\ \A k \in Tasks : pc[k] \notin Sending /\ to[k] = Nobody
  BY DEF Init, Places, Sending
<1>4. TypeOK
  BY <1>1, <1>2, <1>3 DEF Init, TypeOK, Places
<1>5. SenderInv /\ WriterInv
  BY <1>3 DEF SenderInv, WriterInv, Sending
<1>6. PendingInv /\ LoopInv /\ WqInv
  BY <1>2, Names DEF Init, PendingInv, LoopInv, WqInv, Spinning
<1> QED
  BY <1>4, <1>5, <1>6 DEF IInv

-----------------------------------------------------------------------------
(* The steps of a send.                                                    *)

\* What the steps of a send leave alone.
LEMMA SendFrame ==
    ASSUME IInv, NEW k \in Tasks, SendStep(k)
    PROVE  /\ to[k] \in Handles /\ handle[to[k]] \in {"open", "closing"}
           /\ UNCHANGED <<handle, sends, lpc, at, visit, registered, collect, parked,
                          started, undef>>
           /\ UNCHANGED <<Sendable, ~OutOfRun>>
<1>1. pc[k] \in Sending
  BY DEF SendStep, CheapRead, RaiseBusy, Exchange, WriteFd, LowerBusy, Sending
<1>2. to[k] \in Handles
  BY <1>1 DEF IInv, TypeOK, SenderInv
<1>3. handle[to[k]] \in {"open", "closing"}
  BY <1>1, <1>2 DEF SendStep, IInv, TypeOK, SenderInv
<1>4. UNCHANGED <<handle, sends, lpc, at, visit, registered, collect, parked, started,
                  undef>>
  BY DEF SendStep, CheapRead, RaiseBusy, Exchange, WriteFd, LowerBusy, loopVars, gcVars,
         sendVars
<1>5. UNCHANGED <<Sendable, ~OutOfRun>>
  BY <1>4 DEF Sendable, Open, Spinning, OutOfRun
<1> QED
  BY <1>2, <1>3, <1>4, <1>5

\* A thread that goes on in its send.
LEMMA MovesOn ==
    ASSUME IInv, NEW k \in Tasks, NEW next \in Sending, Moves(k, next),
           pc[k] \in Sending, next = "write" => handle[to[k]] = "open", UNCHANGED handle
    PROVE  /\ SenderInv' /\ WriterInv' /\ UNCHANGED to
           /\ pc' \in [Tasks -> Places]
           /\ pc'[k] = next /\ \A i \in Tasks : i # k => pc'[i] = pc[i]
<1>1. /\ pc' \in [Tasks -> Places]
      /\ pc'[k] = next /\ \A i \in Tasks : i # k => pc'[i] = pc[i]
      /\ UNCHANGED to
  BY DEF Moves, IInv, TypeOK, Places
<1> QED
  BY <1>1 DEF IInv, SenderInv, WriterInv

\* A thread whose send returns.
LEMMA ReturnsHome ==
    ASSUME IInv, NEW k \in Tasks, Returns(k), pc[k] \in Sending, UNCHANGED handle
    PROVE  /\ SenderInv' /\ WriterInv'
           /\ pc' \in [Tasks -> Places]
           /\ to' = [to EXCEPT ![k] = Nobody] /\ to' \in [Tasks -> Handles \cup {Nobody}]
           /\ pc'[k] \in {"done", "haxe"} /\ \A i \in Tasks : i # k => pc'[i] = pc[i]
<1>1. /\ pc' \in [Tasks -> Places]
      /\ pc'[k] \in {"done", "haxe"} /\ \A i \in Tasks : i # k => pc'[i] = pc[i]
  BY DEF Returns, After, IInv, TypeOK, Places
<1>2. to' = [to EXCEPT ![k] = Nobody] /\ to' \in [Tasks -> Handles \cup {Nobody}]
  BY DEF Returns, IInv, TypeOK
<1>3. to'[k] = Nobody /\ \A i \in Tasks : i # k => to'[i] = to[i]
  BY <1>2 DEF IInv, TypeOK
<1> QED
  BY <1>1, <1>2, <1>3 DEF IInv, SenderInv, WriterInv, Sending

\* "Do a cheap read first."
LEMMA CheapReadKeeps ==
    ASSUME IInv, NEW k \in Tasks, SendStep(k), CheapRead(k) PROVE IInv' /\ WakeupStep
<1>1. /\ to[k] \in Handles /\ handle[to[k]] \in {"open", "closing"}
      /\ UNCHANGED <<handle, sends, lpc, at, visit, registered, collect, parked,
                     started, undef>>
      /\ UNCHANGED <<Sendable, ~OutOfRun>>
  BY SendFrame
<1>2. pc[k] = "read" /\ pc[k] \in Sending /\ UNCHANGED <<pending, wake>>
  BY DEF CheapRead, sendVars, Sending
<1>3. PendingInv' /\ LoopInv' /\ WqInv'
  BY <1>1, <1>2 DEF IInv, PendingInv, LoopInv, WqInv, Spinning
<1>4. CASE to[k] \in pending /\ Returns(k)
  <2>1. /\ SenderInv' /\ WriterInv'
        /\ pc' \in [Tasks -> Places]
        /\ to' = [to EXCEPT ![k] = Nobody] /\ to' \in [Tasks -> Handles \cup {Nobody}]
        /\ pc'[k] \in {"done", "haxe"} /\ \A i \in Tasks : i # k => pc'[i] = pc[i]
    BY <1>1, <1>2, <1>4, ReturnsHome
  <2>2. TypeOK'
    BY <1>1, <1>2, <2>1 DEF IInv, TypeOK, Open, Places
  <2>3. Took' = Took \ {k}
    BY <1>2, <2>1 DEF Took
  <2>4. Promised!Return(k)
    BY <1>1, <1>2, <1>4, <2>1, <2>3, Names DEF Promised!Return, Took
  <2> QED
    BY <1>3, <2>1, <2>2, <2>4 DEF IInv, WakeupStep, Promised!Next
<1>5. CASE Moves(k, "busy")
  <2>1. /\ SenderInv' /\ WriterInv' /\ UNCHANGED to
        /\ pc' \in [Tasks -> Places]
        /\ pc'[k] = "busy" /\ \A i \in Tasks : i # k => pc'[i] = pc[i]
    BY <1>1, <1>2, <1>5, MovesOn DEF Sending
  <2>2. TypeOK'
    BY <1>1, <1>2, <2>1 DEF IInv, TypeOK, Open, Places
  <2>3. Took' = Took
    BY <1>2, <2>1 DEF Took
  <2> QED
    BY <1>1, <1>2, <1>3, <2>1, <2>2, <2>3 DEF IInv, WakeupStep
<1> QED
  BY <1>4, <1>5 DEF CheapRead

\* "Set the loop to busy."
LEMMA RaiseBusyKeeps ==
    ASSUME IInv, NEW k \in Tasks, SendStep(k), RaiseBusy(k) PROVE IInv' /\ WakeupStep
<1>1. /\ to[k] \in Handles /\ handle[to[k]] \in {"open", "closing"}
      /\ UNCHANGED <<handle, sends, lpc, at, visit, registered, collect, parked,
                     started, undef>>
      /\ UNCHANGED <<Sendable, ~OutOfRun>>
  BY SendFrame
<1>2. /\ pc[k] = "busy" /\ pc[k] \in Sending /\ "exchange" \in Sending
      /\ UNCHANGED <<pending, wake>> /\ Moves(k, "exchange")
  BY DEF RaiseBusy, sendVars, Sending
<1>3. PendingInv' /\ LoopInv' /\ WqInv'
  BY <1>1, <1>2 DEF IInv, PendingInv, LoopInv, WqInv, Spinning
<1>4. /\ SenderInv' /\ WriterInv' /\ UNCHANGED to
      /\ pc' \in [Tasks -> Places]
      /\ pc'[k] = "exchange" /\ \A i \in Tasks : i # k => pc'[i] = pc[i]
  BY <1>1, <1>2, MovesOn
<1>5. TypeOK'
  BY <1>1, <1>2, <1>4 DEF IInv, TypeOK, Open, Places
<1>6. Took' = Took
  BY <1>2, <1>4 DEF Took
<1> QED
  BY <1>1, <1>2, <1>3, <1>4, <1>5, <1>6 DEF IInv, WakeupStep

\* atomic_exchange(pending, 1): the send takes effect.  Only one that finds 0
\* writes, and 0 means that no close has begun.
LEMMA ExchangeKeeps ==
    ASSUME IInv, NEW k \in Tasks, SendStep(k), Exchange(k) PROVE IInv' /\ WakeupStep
<1> DEFINE next == IF to[k] \in pending THEN "unbusy" ELSE "write"
<1>1. /\ to[k] \in Handles /\ handle[to[k]] \in {"open", "closing"}
      /\ UNCHANGED <<handle, sends, lpc, at, visit, registered, collect, parked,
                     started, undef>>
      /\ UNCHANGED <<Sendable, ~OutOfRun>>
  BY SendFrame
<1>2. /\ pc[k] = "exchange" /\ pc[k] \in Sending /\ next \in Sending
      /\ pending' = pending \cup {to[k]} /\ UNCHANGED wake /\ Moves(k, next)
  BY DEF Exchange, Sending
<1>3. PendingInv' /\ LoopInv' /\ WqInv'
  BY <1>1, <1>2 DEF IInv, PendingInv, LoopInv, WqInv, Spinning
<1>4. next = "write" => handle[to[k]] = "open"
  BY <1>1 DEF IInv, PendingInv
<1>5. next \in {"write", "unbusy"}
  OBVIOUS
<1> HIDE DEF next
<1>6. /\ SenderInv' /\ WriterInv' /\ UNCHANGED to
      /\ pc' \in [Tasks -> Places]
      /\ pc'[k] = next /\ \A i \in Tasks : i # k => pc'[i] = pc[i]
  BY <1>1, <1>2, <1>4, MovesOn
<1>7. TypeOK'
  BY <1>1, <1>2, <1>6 DEF IInv, TypeOK, Open, Places
<1>8. Took' = Took \cup {k} /\ k \notin Took
  BY <1>2, <1>5, <1>6 DEF Took
<1>9. Promised!Effect(k)
  BY <1>1, <1>2, <1>6, <1>8, Names DEF Promised!Effect, Took
<1> QED
  BY <1>3, <1>6, <1>7, <1>9 DEF IInv, WakeupStep, Promised!Next

\* uv__async_send.
LEMMA WriteFdKeeps ==
    ASSUME IInv, NEW k \in Tasks, SendStep(k), WriteFd(k) PROVE IInv' /\ WakeupStep
<1>1. /\ to[k] \in Handles /\ handle[to[k]] \in {"open", "closing"}
      /\ UNCHANGED <<handle, sends, lpc, at, visit, registered, collect, parked,
                     started, undef>>
      /\ UNCHANGED <<Sendable, ~OutOfRun>>
  BY SendFrame
<1>2. /\ pc[k] = "write" /\ pc[k] \in Sending /\ "unbusy" \in Sending
      /\ UNCHANGED pending /\ wake' = TRUE /\ Moves(k, "unbusy")
  BY DEF WriteFd, Sending
<1>3. PendingInv' /\ LoopInv' /\ WqInv'
  BY <1>1, <1>2 DEF IInv, PendingInv, LoopInv, WqInv, Spinning
<1>4. /\ SenderInv' /\ WriterInv' /\ UNCHANGED to
      /\ pc' \in [Tasks -> Places]
      /\ pc'[k] = "unbusy" /\ \A i \in Tasks : i # k => pc'[i] = pc[i]
  BY <1>1, <1>2, MovesOn
<1>5. TypeOK'
  BY <1>1, <1>2, <1>4 DEF IInv, TypeOK, Open, Places
<1>6. Took' = Took
  BY <1>2, <1>4 DEF Took
<1> QED
  BY <1>1, <1>2, <1>3, <1>4, <1>5, <1>6 DEF IInv, WakeupStep

\* "Set the loop to not-busy."
LEMMA LowerBusyKeeps ==
    ASSUME IInv, NEW k \in Tasks, SendStep(k), LowerBusy(k) PROVE IInv' /\ WakeupStep
<1>1. /\ to[k] \in Handles /\ handle[to[k]] \in {"open", "closing"}
      /\ UNCHANGED <<handle, sends, lpc, at, visit, registered, collect, parked,
                     started, undef>>
      /\ UNCHANGED <<Sendable, ~OutOfRun>>
  BY SendFrame
<1>2. /\ pc[k] = "unbusy" /\ pc[k] \in Sending /\ UNCHANGED <<pending, wake>>
      /\ Returns(k)
  BY DEF LowerBusy, sendVars, Sending
<1>3. PendingInv' /\ LoopInv' /\ WqInv'
  BY <1>1, <1>2 DEF IInv, PendingInv, LoopInv, WqInv, Spinning
<1>4. /\ SenderInv' /\ WriterInv'
      /\ pc' \in [Tasks -> Places]
      /\ to' = [to EXCEPT ![k] = Nobody] /\ to' \in [Tasks -> Handles \cup {Nobody}]
      /\ pc'[k] \in {"done", "haxe"} /\ \A i \in Tasks : i # k => pc'[i] = pc[i]
  BY <1>1, <1>2, ReturnsHome
<1>5. TypeOK'
  BY <1>1, <1>2, <1>4 DEF IInv, TypeOK, Open, Places
<1>6. Took' = Took \ {k} /\ k \in Took
  BY <1>2, <1>4 DEF Took
<1>7. Promised!Return(k)
  BY <1>1, <1>2, <1>4, <1>6, Names DEF Promised!Return, Took
<1> QED
  BY <1>3, <1>4, <1>5, <1>7 DEF IInv, WakeupStep, Promised!Next

\* A send to freed memory: all is closed, as nothing is claimed any more.
LEMMA UseFreedKeeps ==
    ASSUME IInv, NEW k \in Tasks, UseFreed(k) PROVE IInv' /\ WakeupStep
<1>1. undef' = TRUE /\ UNCHANGED <<handle, pending, wake, pc, to, sends, lpc, at, visit,
                                   registered, collect, parked, started>>
  BY DEF UseFreed, sendVars, taskVars, loopVars, gcVars
<1>2. TypeOK'
  BY <1>1 DEF IInv, TypeOK, Open
<1>3. SenderInv' /\ PendingInv' /\ LoopInv' /\ WqInv' /\ WriterInv'
  BY <1>1 DEF IInv, SenderInv, PendingInv, LoopInv, WqInv, WriterInv, Spinning
<1>4. Sendable' = {} /\ Took' = Took /\ OutOfRun' = OutOfRun /\ Sendable \subseteq Handles
  BY <1>1 DEF Sendable, Took, OutOfRun, Open
<1>5. Promised!Close(Sendable)
  BY <1>1, <1>4 DEF Promised!Close, Took
<1> QED
  BY <1>2, <1>3, <1>4, <1>5 DEF IInv, WakeupStep, Promised!Next

-----------------------------------------------------------------------------
(* The steps of a task.                                                    *)

\* A thread that goes on outside a send.
LEMMA Elsewhere ==
    ASSUME IInv, UNCHANGED <<handle, to>>, pc' \in [Tasks -> Places],
           \A k \in Tasks : pc'[k] = pc[k] \/ (pc[k] \notin Sending /\ pc'[k] \notin Sending)
    PROVE  SenderInv' /\ WriterInv' /\ UNCHANGED Took
<1>1. \A k \in Tasks : /\ pc'[k] \in Sending <=> pc[k] \in Sending
                       /\ pc'[k] = "write" <=> pc[k] = "write"
                       /\ pc'[k] = "unbusy" <=> pc[k] = "unbusy"
  BY DEF Sending
<1> QED
  BY <1>1 DEF IInv, SenderInv, WriterInv, Took

\* The begin and the end of a task.
LEMMA TaskKeeps ==
    ASSUME IInv, NEW k \in Tasks, Register(k) \/ Unregister(k) \/ QueueWork(k)
    PROVE  IInv' /\ WakeupStep
<1>1. PICK p \in {"queued", "haxe", "worked"} : pc' = [pc EXCEPT ![k] = p]
  BY DEF Register, Unregister, QueueWork
<1>2. pc[k] \notin Sending /\ UNCHANGED <<handle, pending, wake, to, sends, lpc, at, visit,
                                          collect, parked, started, undef>>
  BY DEF Register, Unregister, QueueWork, Sending, sendVars, loopVars, gcVars
<1>3. registered' \subseteq Tasks
  BY DEF Register, Unregister, QueueWork, gcVars, IInv, TypeOK
<1>4. pc' \in [Tasks -> Places]
  BY <1>1 DEF IInv, TypeOK, Places
<1>5. \A i \in Tasks : pc'[i] = pc[i] \/ (pc[i] \notin Sending /\ pc'[i] \notin Sending)
  BY <1>1, <1>2 DEF IInv, TypeOK, Sending
<1>6. SenderInv' /\ WriterInv' /\ UNCHANGED Took
  BY <1>2, <1>4, <1>5, Elsewhere
<1>7. TypeOK'
  BY <1>2, <1>3, <1>4 DEF IInv, TypeOK, Open, Places
<1>8. PendingInv' /\ LoopInv' /\ WqInv'
  BY <1>2 DEF IInv, PendingInv, LoopInv, WqInv, Spinning
<1>9. UNCHANGED <<Sendable, Sendable \cap pending, to, ~OutOfRun>>
  BY <1>2 DEF Sendable, Open, Spinning, OutOfRun
<1> QED
  BY <1>6, <1>7, <1>8, <1>9 DEF IInv, WakeupStep

\* A send begins.
LEMMA CallKeeps ==
    ASSUME IInv, NEW k \in Tasks, NEW h \in Handles, pc[k] \notin Sending,
           handle[h] # "none", to' = [to EXCEPT ![k] = h],
           pc' = [pc EXCEPT ![k] = "read"], sends' \in [Tasks -> 0 .. MaxSends],
           UNCHANGED <<handle, pending, wake, lpc, at, visit, registered, collect, parked,
                       started, undef>>
    PROVE  IInv' /\ WakeupStep
<1>1. to[k] = Nobody
  BY DEF IInv, SenderInv
<1>2. /\ pc' \in [Tasks -> Places] /\ to' \in [Tasks -> Handles \cup {Nobody}]
      /\ pc'[k] = "read" /\ to'[k] = h
      /\ \A i \in Tasks : i # k => pc'[i] = pc[i] /\ to'[i] = to[i]
  BY DEF IInv, TypeOK, Places, Sending
<1>3. SenderInv' /\ WriterInv'
  BY <1>2, Names DEF IInv, SenderInv, WriterInv, Sending
<1>4. TypeOK'
  BY <1>2 DEF IInv, TypeOK, Open, Places
<1>5. PendingInv' /\ LoopInv' /\ WqInv'
  BY DEF IInv, PendingInv, LoopInv, WqInv, Spinning
<1>6. Took' = Took
  BY <1>2 DEF Took, Sending
<1>7. UNCHANGED <<Sendable, ~OutOfRun>>
  BY DEF Sendable, Open, Spinning, OutOfRun
<1>8. Promised!Call(k, h)
  BY <1>1, <1>6, <1>7 DEF Promised!Call, Took
<1> QED
  BY <1>3, <1>4, <1>5, <1>8 DEF IInv, WakeupStep, Promised!Next

\* The task calls async::send.
LEMMA CallSendKeeps ==
    ASSUME IInv, NEW k \in Tasks, CallSend(k) PROVE IInv' /\ WakeupStep
<1>1. PICK a \in Asyncs \cap Open : to' = [to EXCEPT ![k] = a]
  BY DEF CallSend
<1>2. a \in Handles /\ handle[a] # "none"
  BY DEF Open
<1>3. sends' \in [Tasks -> 0 .. MaxSends]
  BY Names DEF CallSend, IInv, TypeOK
<1>4. /\ pc[k] \notin Sending /\ pc' = [pc EXCEPT ![k] = "read"]
      /\ UNCHANGED <<handle, pending, wake, lpc, at, visit, registered, collect, parked,
                     started, undef>>
  BY DEF CallSend, Sending, sendVars, loopVars, gcVars
<1> QED
  BY <1>1, <1>2, <1>3, <1>4, CallKeeps

\* The worker reports the task through wq_async.
LEMMA ReportDoneKeeps ==
    ASSUME IInv, NEW k \in Tasks, ReportDone(k)
    PROVE  IInv' /\ WakeupStep
<1>1. /\ pc[k] \notin Sending /\ to' = [to EXCEPT ![k] = Wq]
      /\ pc' = [pc EXCEPT ![k] = "read"] /\ sends' = sends
      /\ UNCHANGED <<handle, pending, wake, lpc, at, visit, registered, collect, parked,
                     started, undef>>
  BY DEF ReportDone, Sending, sendVars, loopVars, gcVars
<1>2. sends' \in [Tasks -> 0 .. MaxSends]
  BY <1>1 DEF IInv, TypeOK
<1>3. handle[Wq] # "none"
  BY DEF IInv, WqInv
<1> QED
  BY <1>1, <1>2, <1>3, Names, CallKeeps

-----------------------------------------------------------------------------
(* The steps of the loop's thread.                                         *)

\* Steps that leave the threads of the pool alone.
LEMMA TasksSame ==
    ASSUME IInv, UNCHANGED <<pc, to>>,
           \A h \in Handles : /\ handle[h] = "open" /\ handle'[h] # "open"
                                   => \A k \in Tasks : ~(pc[k] = "write" /\ to[k] = h)
                              /\ handle[h] # "none" => handle'[h] # "none"
    PROVE  SenderInv' /\ WriterInv' /\ UNCHANGED Took
<1>1. \A k \in Tasks : pc[k] \in Sending => to[k] \in Handles
  BY DEF IInv, TypeOK, SenderInv
<1>2. SenderInv'
  BY <1>1 DEF IInv, SenderInv
<1>3. \A k \in Tasks : pc[k] = "write" => pc[k] \in Sending
  BY DEF Sending
<1>4. WriterInv'
  BY <1>1, <1>3 DEF IInv, WriterInv
<1> QED
  BY <1>2, <1>4 DEF Took

\* async::init.
LEMMA AsyncInitKeeps ==
    ASSUME IInv, NEW a \in Asyncs, AsyncInit(a) PROVE IInv' /\ WakeupStep
<1>1. /\ a \in Handles /\ handle[a] = "none" /\ lpc = "haxe" /\ ~Spinning
      /\ handle' = [handle EXCEPT ![a] = "open"]
      /\ UNCHANGED <<pending, wake, pc, to, sends, lpc, at, visit, registered, collect,
                     parked, started, undef>>
  BY Names DEF AsyncInit, InHaxe, Spinning, taskVars, loopVars, gcVars
<1>2. /\ handle' \in [Handles -> {"none", "open", "closing", "freed"}] /\ handle'[a] = "open"
      /\ \A h \in Handles : h # a => handle'[h] = handle[h]
  BY <1>1 DEF IInv, TypeOK
<1>3. SenderInv' /\ WriterInv' /\ UNCHANGED Took
  BY <1>1, <1>2, TasksSame
<1>4. Open' = Open \cup {a}
  BY <1>1, <1>2 DEF Open
<1>5. TypeOK'
  BY <1>1, <1>2, <1>4 DEF IInv, TypeOK
<1>6. PendingInv' /\ LoopInv' /\ WqInv'
  BY <1>1, <1>2, Names DEF IInv, PendingInv, LoopInv, WqInv, Spinning
<1>7. a \notin pending /\ ~Spinning' /\ OutOfRun' = OutOfRun
  BY <1>1 DEF IInv, PendingInv, Spinning, OutOfRun
<1>8. undef \/ Promised!Open(a)
  BY <1>1, <1>3, <1>4, <1>7 DEF Promised!Open, Sendable, Took
<1>9. undef => UNCHANGED <<Sendable, Sendable \cap pending, to, Took, ~OutOfRun>>
  BY <1>1, <1>3, <1>7 DEF Sendable
<1> QED
  BY <1>1, <1>3, <1>5, <1>6, <1>8, <1>9 DEF IInv, WakeupStep, Promised!Next

\* async::close, up to the spin: pending is 1 from here on.
LEMMA BeginCloseKeeps ==
    ASSUME IInv, ~undef, NEW a \in Asyncs, BeginClose(a) PROVE IInv' /\ WakeupStep
<1>1. /\ a \in Handles /\ handle[a] = "open" /\ a # Nobody /\ a # Wq
      /\ lpc = "haxe" /\ ~Spinning
      /\ pending' = pending \cup {a} /\ at' = a
      /\ lpc' = IF at = Nobody THEN "spin" ELSE "spinInCb"
      /\ UNCHANGED <<handle, wake, pc, to, sends, visit, registered, collect, parked,
                     started, undef>>
  BY Names, AsyncSendAssumption
  DEF BeginClose, InHaxe, Open, Spinning, taskVars, gcVars, AsyncSendAssumption
<1>2. Spinning' /\ OutOfRun' = OutOfRun /\ Open' = Open
  BY <1>1 DEF Spinning, OutOfRun, Open
<1>3. SenderInv' /\ WriterInv' /\ UNCHANGED Took
  BY <1>1, TasksSame
<1>4. TypeOK'
  BY <1>1, <1>2 DEF IInv, TypeOK
<1>5. PendingInv' /\ LoopInv' /\ WqInv'
  BY <1>1 DEF IInv, PendingInv, LoopInv, WqInv, Spinning
<1>6. Promised!Close({a})
  BY <1>1, <1>2, <1>3 DEF Promised!Close, Sendable, Took
<1>7. {a} \in SUBSET Handles
  BY <1>1
<1> QED
  BY <1>3, <1>4, <1>5, <1>6, <1>7 DEF IInv, WakeupStep, Promised!Next

\* The end of uv__async_spin: nobody in the busy counter is about to write.
LEMMA SpinEndsKeeps == ASSUME IInv, SpinEnds PROVE IInv' /\ WakeupStep
<1>1. /\ Spinning /\ Busy(at) = {} /\ lpc' = "haxe" /\ visit' = visit \ {at}
      /\ handle' = [handle EXCEPT ![at] = "closing"]
      /\ at' = IF lpc = "spin" THEN Nobody ELSE at
      /\ UNCHANGED <<pending, wake, pc, to, sends, registered, collect, parked, started,
                     undef>>
  BY DEF SpinEnds, taskVars, gcVars
<1>2. at \in pending /\ at \in Handles /\ at # Wq /\ at # Nobody /\ handle[at] = "open"
  BY <1>1, Names DEF IInv, LoopInv, WqInv, TypeOK
<1>3. /\ handle' \in [Handles -> {"none", "open", "closing", "freed"}]
      /\ handle'[at] = "closing"
      /\ \A h \in Handles : h # at => handle'[h] = handle[h]
  BY <1>1, <1>2 DEF IInv, TypeOK
<1>4. \A k \in Tasks : ~(pc[k] = "write" /\ to[k] = at)
  BY <1>1 DEF Busy
<1>5. SenderInv' /\ WriterInv' /\ UNCHANGED Took
  BY <1>1, <1>2, <1>3, <1>4, TasksSame
<1>6. Open' = Open \ {at}
  BY <1>2, <1>3 DEF Open
<1>7. TypeOK'
  BY <1>1, <1>2, <1>3, <1>6 DEF IInv, TypeOK
<1>8. PendingInv' /\ LoopInv' /\ WqInv'
  BY <1>1, <1>2, <1>3, Names DEF IInv, PendingInv, LoopInv, WqInv, Spinning
<1>9. Sendable' = Sendable
  BY <1>1, <1>6 DEF Sendable, Spinning
<1>10. OutOfRun' = OutOfRun
  BY <1>1, <1>2 DEF OutOfRun, Spinning
<1> QED
  BY <1>1, <1>5, <1>7, <1>8, <1>9, <1>10 DEF IInv, WakeupStep

\* Steps that only move the loop's thread.
LEMMA LoopMoves ==
    ASSUME IInv, ~Spinning, lpc' \in {"haxe", "poll", "pass", "enter", "leave"},
           lpc' = "enter" => at' # Nobody, at' \in Handles \cup {Other, Nobody},
           visit' \subseteq Open, UNCHANGED <<handle, pending, pc, to>>,
           wake' \in BOOLEAN,
           UNCHANGED <<sends, registered, collect, parked, started, undef>>
    PROVE  /\ IInv'
           /\ UNCHANGED <<Sendable, Sendable \cap pending, to, Took>>
<1>1. ~Spinning' /\ Open' = Open
  BY DEF Spinning, Open
<1>2. SenderInv' /\ WriterInv' /\ UNCHANGED Took
  BY TasksSame
<1>3. TypeOK'
  BY <1>1 DEF IInv, TypeOK
<1>4. PendingInv' /\ LoopInv' /\ WqInv'
  BY <1>1 DEF IInv, PendingInv, LoopInv, WqInv
<1>5. Sendable' = Sendable
  BY <1>1 DEF Sendable
<1> QED
  BY <1>2, <1>3, <1>4, <1>5 DEF IInv

\* runLoop; the poll; the begin and the end of a callback.
LEMMA RunLoopKeeps ==
    ASSUME IInv, RunLoop \/ PollReturns \/ EnterCallback \/ CallbackReturns
    PROVE  IInv' /\ WakeupStep
<1>1. /\ ~Spinning /\ lpc' \in {"haxe", "poll", "pass"}
      /\ UNCHANGED <<handle, pending, pc, to, sends, registered, collect, parked, started,
                     undef>>
  BY DEF RunLoop, PollReturns, EnterCallback, CallbackReturns, InHaxe, Spinning, sendVars,
         taskVars, gcVars
<1>2. /\ at' \in Handles \cup {Other, Nobody} /\ visit' \subseteq Open /\ wake' \in BOOLEAN
  BY DEF RunLoop, PollReturns, EnterCallback, CallbackReturns, sendVars, IInv, TypeOK
<1>3. IInv' /\ UNCHANGED <<Sendable, Sendable \cap pending, to, Took>>
  BY <1>1, <1>2, LoopMoves
<1>4. RunLoop => OutOfRun' = ~OutOfRun
  BY DEF RunLoop, InHaxe, OutOfRun
<1>5. ~RunLoop => OutOfRun' = OutOfRun
  BY DEF PollReturns, EnterCallback, CallbackReturns, InHaxe, OutOfRun, IInv, LoopInv
<1>6. OutOfRun \in BOOLEAN /\ OutOfRun' \in BOOLEAN
  BY DEF OutOfRun
<1>7. OutOfRun' = ~OutOfRun => Promised!Run
  BY <1>3, <1>6 DEF Promised!Run, Took
<1> QED
  BY <1>3, <1>4, <1>5, <1>7 DEF WakeupStep, Promised!Next

\* uv__async_io visits a handle: if its flag is 1 the callback is on its way.
LEMMA VisitKeeps == ASSUME IInv, ~undef, NEW h \in Handles, Visit(h) PROVE IInv' /\ WakeupStep
<1>1. /\ lpc = "pass" /\ ~Spinning /\ h \in visit /\ handle[h] = "open"
      /\ visit' = visit \ {h} /\ pending' = pending \ {h}
      /\ UNCHANGED <<handle, wake, pc, to, sends, registered, collect, parked, started,
                     undef>>
  BY DEF Visit, Spinning, IInv, TypeOK, Open, taskVars, gcVars
<1>2. SenderInv' /\ WriterInv' /\ UNCHANGED Took
  BY <1>1, TasksSame
<1>3. /\ h \in pending => lpc' = (IF h = Wq THEN "work" ELSE "enter") /\ at' = h
      /\ h \notin pending => UNCHANGED <<lpc, at>>
  BY DEF Visit
<1>4. lpc' \in {"pass", "work", "enter"} /\ at' \in Handles \cup {Other, Nobody}
  BY <1>1, <1>3 DEF IInv, TypeOK
<1>5. ~Spinning' /\ ~OutOfRun /\ ~OutOfRun' /\ Open' = Open
  BY <1>1, <1>4 DEF Spinning, OutOfRun, Open
<1>6. TypeOK'
  BY <1>1, <1>4, <1>5 DEF IInv, TypeOK
<1>7. PendingInv' /\ WqInv'
  BY <1>1, <1>5 DEF IInv, PendingInv, WqInv
<1>8. LoopInv'
  BY <1>1, <1>3, <1>5, Names DEF LoopInv
<1>9. Sendable' = Sendable /\ Sendable = Open /\ h \in Open
  BY <1>1, <1>5 DEF Sendable, Open
<1>10. h \in pending => Promised!Answer(h)
  BY <1>1, <1>2, <1>5, <1>9 DEF Promised!Answer, Took
<1>11. h \notin pending => UNCHANGED <<Sendable, Sendable \cap pending, to, Took, ~OutOfRun>>
  BY <1>1, <1>2, <1>5, <1>9
<1> QED
  BY <1>2, <1>6, <1>7, <1>8, <1>10, <1>11 DEF IInv, WakeupStep, Promised!Next

\* uv__work_done.
LEMMA WorkDoneKeeps == ASSUME IInv, WorkDone PROVE IInv' /\ WakeupStep
<1>1. /\ lpc = "work" /\ at = Wq /\ at # Nobody
      /\ pc' = [k \in Tasks |-> IF pc[k] = "done" THEN "over" ELSE pc[k]]
      /\ UNCHANGED <<handle, pending, wake, to, sends, visit, registered, collect, parked,
                     started, undef>>
  BY Names DEF WorkDone, IInv, LoopInv, sendVars, gcVars
<1>2. \/ lpc' = "pass" /\ at' = Nobody
      \/ lpc' = "enter" /\ at' = at
  BY DEF WorkDone, AfterWork
<1>3. pc' \in [Tasks -> Places]
  BY <1>1 DEF IInv, TypeOK, Places
<1>4. \A k \in Tasks : pc'[k] = pc[k] \/ (pc[k] \notin Sending /\ pc'[k] \notin Sending)
  BY <1>1 DEF Sending
<1>5. SenderInv' /\ WriterInv' /\ UNCHANGED Took
  BY <1>1, <1>3, <1>4, Elsewhere
<1>6. ~Spinning /\ ~Spinning' /\ ~OutOfRun /\ ~OutOfRun' /\ Open' = Open
  BY <1>1, <1>2 DEF Spinning, OutOfRun, Open
<1>7. TypeOK'
  BY <1>1, <1>2, <1>3, <1>6 DEF IInv, TypeOK, Places
<1>8. PendingInv' /\ LoopInv' /\ WqInv'
  BY <1>1, <1>2, <1>6 DEF IInv, PendingInv, LoopInv, WqInv
<1>9. Sendable' = Sendable
  BY <1>1, <1>6 DEF Sendable
<1> QED
  BY <1>1, <1>5, <1>6, <1>7, <1>8, <1>9 DEF IInv, WakeupStep

\* uv__run_closing_handles: what is deleted was closed, so nobody writes.
LEMMA RunClosingKeeps == ASSUME IInv, RunClosing PROVE IInv' /\ WakeupStep
<1>1. /\ lpc = "pass" /\ visit = {}
      /\ handle' = [h \in Handles |->
                      IF handle[h] = "closing" THEN "freed" ELSE handle[h]]
      /\ UNCHANGED <<pending, wake, pc, to, sends, visit, registered, collect, parked,
                     started, undef>>
  BY DEF RunClosing, taskVars, gcVars
<1>2. \/ lpc' = "enter" /\ at' = Other
      \/ lpc' \in {"poll", "leave"} /\ at' = at
  BY DEF RunClosing, AfterRound
<1>3. SenderInv' /\ WriterInv' /\ UNCHANGED Took
  BY <1>1, TasksSame
<1>4. Open' = Open /\ handle' \in [Handles -> {"none", "open", "closing", "freed"}]
  BY <1>1 DEF Open, IInv, TypeOK
<1>5. ~Spinning /\ ~Spinning' /\ ~OutOfRun /\ Sendable' = Sendable
  BY <1>1, <1>2, <1>4 DEF Spinning, OutOfRun, Sendable
<1>6. TypeOK'
  BY <1>1, <1>2, <1>4 DEF IInv, TypeOK
<1>7. PendingInv' /\ LoopInv' /\ WqInv'
  BY <1>1, <1>2, <1>5, Names DEF IInv, PendingInv, LoopInv, WqInv
<1>8. OutOfRun' => Promised!Run
  BY <1>1, <1>3, <1>5 DEF Promised!Run, Took
<1>9. ~OutOfRun' => UNCHANGED <<Sendable, Sendable \cap pending, to, Took, ~OutOfRun>>
  BY <1>1, <1>3, <1>5
<1> QED
  BY <1>3, <1>6, <1>7, <1>8, <1>9 DEF IInv, WakeupStep, Promised!Next

-----------------------------------------------------------------------------
(* The collector, and all steps together.                                  *)

\* A collection begins, takes another thread, or ends.
LEMMA CollectorKeeps ==
    ASSUME IInv,
           Collector \/ (\E t \in Tasks \cup {Loop} : StartCollection(t)) \/ UNCHANGED vars
    PROVE  IInv' /\ WakeupStep
<1>1. UNCHANGED <<handle, pending, wake, pc, to, sends, lpc, at, visit, registered, undef>>
  BY DEF Collector, StartCollection, Park, EndCollection, vars, sendVars, taskVars, loopVars,
         gcVars
<1>2. collect' \in BOOLEAN /\ parked' \subseteq Tasks \cup {Loop}
  BY DEF Collector, StartCollection, Park, EndCollection, vars, gcVars, IInv, TypeOK
<1>3. started' \in 0 .. MaxCollections
  BY Names DEF Collector, StartCollection, Park, EndCollection, vars, gcVars, IInv, TypeOK
<1>4. TypeOK'
  BY <1>1, <1>2, <1>3 DEF IInv, TypeOK, Open
<1>5. SenderInv' /\ PendingInv' /\ LoopInv' /\ WqInv' /\ WriterInv'
  BY <1>1 DEF IInv, SenderInv, PendingInv, LoopInv, WqInv, WriterInv, Spinning
<1>6. UNCHANGED <<Sendable, Sendable \cap pending, to, Took, ~OutOfRun>>
  BY <1>1 DEF Sendable, Open, Spinning, Took, OutOfRun
<1> QED
  BY <1>4, <1>5, <1>6 DEF IInv, WakeupStep

\* Every step keeps the invariant, and is a step of Wakeup or none.
LEMMA IInvStep == IInv /\ [Next]_vars => IInv' /\ WakeupStep
<1> SUFFICES ASSUME IInv, [Next]_vars PROVE IInv' /\ WakeupStep
  OBVIOUS
<1>1. ASSUME NEW k \in Tasks, TaskStep(k) PROVE IInv' /\ WakeupStep
  <2>1. CASE SendStep(k)
    BY <2>1, CheapReadKeeps, RaiseBusyKeeps, ExchangeKeeps, WriteFdKeeps, LowerBusyKeeps
    DEF SendStep
  <2> QED
    BY <1>1, <2>1, UseFreedKeeps, TaskKeeps, CallSendKeeps, ReportDoneKeeps DEF TaskStep
<1>2. CASE LoopStep /\ ~undef
  BY <1>2, SpinEndsKeeps, RunLoopKeeps, WorkDoneKeeps, RunClosingKeeps, VisitKeeps
  DEF LoopStep
<1>3. CASE HaxeCall /\ ~undef
  BY <1>3, AsyncInitKeeps, BeginCloseKeeps, TaskKeeps DEF HaxeCall
<1>4. CASE Collector \/ (\E t \in Tasks \cup {Loop} : StartCollection(t)) \/ UNCHANGED vars
  BY <1>4, CollectorKeeps
<1> QED
  BY <1>1, <1>2, <1>3, <1>4 DEF Next, Ended

-----------------------------------------------------------------------------
(* The theorems.                                                           *)

\* The strengthened invariant holds in every reachable state.
THEOREM Inductive == Spec => []IInv
<1>1. IInv /\ [Next]_vars => IInv'
  BY IInvStep
<1> QED
  BY <1>1, IInvInit, PTL DEF Spec

\* Every variable stays within the values the code can give it; the pass of
\* uv__async_io only holds handles that are open.
THEOREM TypeCorrect == Spec => []TypeOK
<1>1. IInv => TypeOK
  BY DEF IInv
<1> QED
  BY <1>1, Inductive, PTL

\* uv__async_spin: "no new events will be added by other threads after this
\* function returns".  Whoever writes to the eventfd has the handle open.
THEOREM NeverWrittenAfterClose == Spec => NoWriteAfterClose
<1> DEFINE Kept ==
      \A k \in Tasks : pc[k] = "write" /\ pc'[k] # "write" => handle[to[k]] = "open"
<1>1. IInv => Kept
  BY DEF IInv, WriterInv
<1>2. IInv /\ [Next]_vars => [Kept]_vars
  BY <1>1
<1> QED
  BY <1>2, Inductive, PTL DEF Spec, NoWriteAfterClose

\* The safety of Wakeup: a send takes effect once between its begin and its
\* end, and a callback of async::init answers what was asked for and not yet
\* answered.  (That it does so in the end is left to the runs.)
THEOREM ImplementsWakeup == Spec => Promised!Init /\ [][Promised!Next]_(Promised!wakeupVars)
<1>1. Init => Promised!Init
  BY Names DEF Init, Promised!Init, Sendable, Open, Spinning, OutOfRun
<1>2. WakeupStep => [Promised!Next]_(Promised!wakeupVars)
  BY DEF WakeupStep, Promised!wakeupVars, Took
<1>3. IInv /\ [Next]_vars => [Promised!Next]_(Promised!wakeupVars)
  BY <1>2, IInvStep
<1> QED
  BY <1>1, <1>3, Inductive, PTL DEF Spec
==============================================================================
