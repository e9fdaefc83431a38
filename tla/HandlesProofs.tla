---------------------------- MODULE HandlesProofs ----------------------------
(***************************************************************************)
(* Theorems about module Handles, for any sets of signal handles,          *)
(* processes and connections.                                              *)
(***************************************************************************)
EXTENDS Handles, FiniteSetTheorems, SequenceTheorems, TLAPS

-----------------------------------------------------------------------------
(* The server.                                                             *)

\* OneAtATime with what it rests on: only a server that listens is polled.
TcpInv == TcpTypeOK /\ OneAtATime

\* The initial state.
LEMMA TcpInvInit == Init => TcpInv
<1> SUFFICES ASSUME Init PROVE TcpInv
  OBVIOUS
<1>1. TcpInit /\ phase = "out"
  BY DEF Init
<1>2. 0 \in 0 .. MaxEmfiles /\ 0 \in 0 .. MaxLost
  BY TcpAssumption DEF TcpAssumption
<1>3. TcpTypeOK
  BY <1>1, <1>2 DEF TcpInit, TcpTypeOK
<1>4. Held = {}
  BY <1>1 DEF TcpInit, Held
<1> QED
  BY <1>1, <1>3, <1>4 DEF TcpInit, TcpInv, OneAtATime

\* What a program calls.
LEMMA TcpCallKeeps ==
    ASSUME TcpInv, TcpCall, UNCHANGED phase
    PROVE  TcpInv'
<1> USE DEF TcpInv, TcpTypeOK, OneAtATime, Held, Backlog
<1>1. SpareTried => spare' \in BOOLEAN
  BY DEF SpareTried
<1>2. CASE Bind
  BY <1>1, <1>2 DEF Bind
<1>3. CASE Listen
  BY <1>3 DEF Listen
<1>4. CASE Accept
  <2>1. PICK c \in Held : conn' = [conn EXCEPT ![c] = "open"]
    BY <1>4 DEF Accept
  <2>2. Held' = {}
    BY <2>1
  <2> QED
    BY <1>1, <1>4, <2>1, <2>2 DEF Accept
<1>5. CASE AcceptNothing
  BY <1>1, <1>5, TcpAssumption DEF TcpAssumption, AcceptNothing
<1>6. CASE ServerClose
  BY <1>6 DEF ServerClose
<1>7. CASE ClientClose
  <2>1. PICK c \in Conns : conn[c] = "open" /\ conn' = [conn EXCEPT ![c] = "closing"]
    BY <1>7 DEF ClientClose
  <2>2. Held' = Held
    BY <2>1
  <2> QED
    BY <1>7, <2>1, <2>2 DEF ClientClose
<1> QED
  BY <1>2, <1>3, <1>4, <1>5, <1>6, <1>7 DEF TcpCall

\* Another host connects.
LEMMA ConnectKeeps ==
    ASSUME TcpInv, NEW c \in Conns, Connect(c), UNCHANGED phase
    PROVE  TcpInv'
<1> USE DEF TcpInv, TcpTypeOK, OneAtATime, Held
<1>1. Held' = Held
  BY DEF Connect
<1> QED
  BY <1>1 DEF Connect

\* What the loop does for the server.
LEMMA TcpStepKeeps ==
    ASSUME TcpInv, TcpStep
    PROVE  TcpInv'
<1> USE DEF TcpInv, TcpTypeOK, OneAtATime, Held, Backlog
<1>1. CASE Offer
  <2>1. PICK c \in Backlog : conn' = [conn EXCEPT ![c] = "held"]
    BY <1>1 DEF Offer
  <2>2. Held = {} /\ server = "listening"
    BY <1>1 DEF Offer, Ready
  <2>3. Held' = {c}
    BY <2>1, <2>2
  <2> QED
    BY <1>1, <2>1, <2>2, <2>3 DEF Offer
<1>2. CASE ShedLoad
  <2>1. PICK shed \in SUBSET Backlog :
          conn' = [c \in Conns |-> IF c \in shed THEN "shed" ELSE conn[c]]
    BY <1>2 DEF ShedLoad
  <2>2. Held' = Held
    BY <2>1
  <2>3. spare' \in BOOLEAN /\ emfiles' \in 0 .. MaxEmfiles
    BY <1>2, TcpAssumption DEF TcpAssumption, ShedLoad
  <2>4. Held = {} /\ server = "listening" /\ polled
    BY <1>2 DEF ShedLoad, Ready
  <2> QED
    BY <1>2, <2>1, <2>2, <2>3, <2>4 DEF ShedLoad
<1>3. CASE Offered
  BY <1>3 DEF Offered
<1>4. CASE NothingToServe
  BY <1>4 DEF NothingToServe, tcpVars
<1> QED
  BY <1>1, <1>2, <1>3, <1>4 DEF TcpStep

\* Everything else leaves the server alone, and does not leave its callback.
LEMMA OthersKeep ==
    ASSUME TcpInv, UNCHANGED tcpVars, phase = "connCb" => phase' = phase
    PROVE  TcpInv'
BY DEF TcpInv, TcpTypeOK, OneAtATime, Held, tcpVars

\* The close callbacks.
LEMMA FinishKeeps ==
    ASSUME TcpInv, FinishSockets, phase # "connCb"
    PROVE  TcpInv'
<1> USE DEF TcpInv, TcpTypeOK, OneAtATime, Held
<1>1. Held' = Held
  BY DEF FinishSockets
<1> QED
  BY <1>1 DEF FinishSockets

\* Every step of the loop, the program and the world.
LEMMA TcpInvStep == TcpInv /\ [Next]_vars => TcpInv'
<1> SUFFICES ASSUME TcpInv, [Next]_vars PROVE TcpInv'
  OBVIOUS
<1>1. ASSUME NEW p \in Procs, Spawn(p), SpareTried,
             UNCHANGED <<server, root, polled, conn, emfiles, lost>>
      PROVE  TcpInv'
  BY <1>1 DEF Spawn, SpareTried, TcpInv, TcpTypeOK, OneAtATime, Held
<1>2. CASE HaxeCall
  <2>1. CASE SignalCall /\ UNCHANGED <<phase, procVars, tcpVars>>
    BY <2>1, OthersKeep
  <2>2. CASE TcpCall /\ UNCHANGED <<phase, signalVars, procVars>>
    BY <2>2, TcpCallKeeps
  <2> QED
    BY <1>1, <1>2, <2>1, <2>2 DEF HaxeCall
<1>3. CASE World
  <2>1. ASSUME NEW c \in Conns, Connect(c), UNCHANGED <<phase, signalVars, procVars>>
        PROVE  TcpInv'
    BY <2>1, ConnectKeeps
  <2>2. CASE Interrupt /\ UNCHANGED <<phase, procVars, tcpVars>>
    BY <2>2, OthersKeep
  <2>3. CASE ChildSignal /\ UNCHANGED tcpVars
    BY <2>3, OthersKeep DEF ChildSignal
  <2>4. ASSUME NEW p \in Procs, Exit(p), UNCHANGED tcpVars
        PROVE  TcpInv'
    BY <2>4, OthersKeep DEF Exit
  <2> QED
    BY <1>3, <2>1, <2>2, <2>3, <2>4 DEF World
<1>4. CASE LoopStep
  <2>1. CASE TcpStep
    BY <2>1, TcpStepKeeps
  <2>2. CASE SignalStep /\ UNCHANGED <<procVars, tcpVars>>
    <3>1. phase # "connCb"
      BY <2>2 DEF SignalStep, ReadPipe, SkipMessage, CallWatcher,
                  SignalCbReturns, EndOfBatch
    <3> QED
      BY <2>2, <3>1, OthersKeep
  <2>3. CASE ProcessStep /\ UNCHANGED tcpVars
    <3>1. phase # "connCb"
      BY <2>3 DEF ProcessStep, WaitChildren, ExitCbReturns, WaitDone, WaitFor,
                  CallExit
    <3> QED
      BY <2>3, <3>1, OthersKeep
  <2>4. CASE RunClosing
    BY <2>4, FinishKeeps DEF RunClosing
  <2>5. CASE NextRound
    BY <2>5, OthersKeep DEF NextRound
  <2> QED
    BY <1>4, <2>1, <2>2, <2>3, <2>4, <2>5 DEF LoopStep
<1>5. CASE UNCHANGED vars
  BY <1>5, OthersKeep DEF vars
<1>6. CASE Ended
  BY <1>6, <1>5 DEF Ended
<1> QED
  BY <1>2, <1>3, <1>4, <1>5, <1>6 DEF Next

\* The server holds at most one connection, polls only while it holds none,
\* and while it listens is deaf only because it holds one (uv__server_io,
\* uv_accept, uv__stream_close).
THEOREM HoldsOneAtATime == Spec => []OneAtATime
<1>1. Init => TcpInv
  BY TcpInvInit
<1>2. TcpInv /\ [Next]_vars => TcpInv'
  BY TcpInvStep
<1>3. TcpInv => OneAtATime
  BY DEF TcpInv
<1> QED
  BY <1>1, <1>2, <1>3, PTL DEF Spec

\* Steps that leave the connections that wait or are held as they are.
LEMMA ConnectionsIdle ==
    ASSUME \A c \in Conns : conn[c] \in {"backlog", "held"} => conn'[c] = conn[c],
           NEW c \in Conns
    PROVE  (conn[c] = "backlog" => Waits(c)) /\ (conn[c] = "held" => Stays(c))
BY DEF Waits, Stays

\* A connection goes unheard only for cause, for any number of connections, and
\* whatever else the loop serves (uv__server_io, uv__emfile_trick,
\* uv__stream_close).
THEOREM NoneLostWithoutCause == Spec => ShedForCause
<1> DEFINE Kept == \A c \in Conns : /\ conn[c] = "backlog" => Waits(c)
                                    /\ conn[c] = "held" => Stays(c)
<1>1. ASSUME TcpInv, Next PROVE Kept
  <2> USE DEF TcpInv, TcpTypeOK
  <2>1. CASE UNCHANGED conn
    BY <2>1, ConnectionsIdle
  <2>2. ASSUME NEW d \in Held, conn' = [conn EXCEPT ![d] = "open"] PROVE Kept
    BY <2>2 DEF Waits, Stays, Held
  <2>3. CASE AcceptNothing
    BY <2>1, <2>3 DEF AcceptNothing
  <2>4. CASE ServerClose
    BY <2>4 DEF ServerClose, Waits, Stays, Backlog, Held
  <2>5. CASE ClientClose
    BY <2>5, ConnectionsIdle DEF ClientClose
  <2>6. ASSUME NEW d \in Conns, Connect(d) PROVE Kept
    BY <2>6, ConnectionsIdle DEF Connect
  <2>7. CASE TcpStep
    <3>1. CASE Offer
      BY <3>1 DEF Offer, Backlog, Waits, Stays
    <3>2. CASE ShedLoad
      <4>1. emfiles' # emfiles
        BY <3>2 DEF ShedLoad
      <4>2. CASE spare
        <5>1. PICK shed \in SUBSET Backlog :
                conn' = [c \in Conns |-> IF c \in shed THEN "shed" ELSE conn[c]]
          BY <3>2, <4>2 DEF ShedLoad
        <5> QED
          BY <4>1, <4>2, <5>1 DEF Backlog, Waits, Stays
      <4>3. CASE ~spare
        <5>1. conn' = [c \in Conns |-> conn[c]]
          BY <3>2, <4>3 DEF ShedLoad
        <5> QED
          BY <5>1, ConnectionsIdle
      <4> QED
        BY <4>2, <4>3
    <3>3. CASE Offered \/ NothingToServe
      BY <2>1, <3>3 DEF Offered, NothingToServe, tcpVars
    <3> QED
      BY <2>7, <3>1, <3>2, <3>3 DEF TcpStep
  <2>8. CASE RunClosing
    BY <2>8, ConnectionsIdle DEF RunClosing, FinishSockets
  <2>9. CASE TcpCall
    BY <2>1, <2>2, <2>3, <2>4, <2>5, <2>9 DEF TcpCall, Bind, Listen, Accept
  <2>10. CASE \E p \in Procs : Spawn(p) /\ UNCHANGED conn
    BY <2>1, <2>10
  <2>11. CASE UNCHANGED tcpVars
    BY <2>1, <2>11 DEF tcpVars
  <2>12. HaxeCall => Kept
    BY <2>9, <2>10, <2>11 DEF HaxeCall
  <2>13. World => Kept
    BY <2>6, <2>11 DEF World
  <2>14. LoopStep => Kept
    BY <2>7, <2>8, <2>11 DEF LoopStep, NextRound
  <2> QED
    BY <1>1, <2>11, <2>12, <2>13, <2>14 DEF Next, Ended, vars
<1>2. TcpInv /\ [Next]_vars =>
        [\A c \in Conns : /\ conn[c] = "backlog" => Waits(c)
                          /\ conn[c] = "held" => Stays(c)]_vars
  BY <1>1
<1> QED
  BY <1>2, TcpInvInit, TcpInvStep, PTL DEF Spec, ShedForCause

-----------------------------------------------------------------------------
(* The signal pipe.                                                        *)

Message == AllWatchers \X {"SIGINT", "SIGCHLD"}

\* What one message in the pipe or in the loop's buffer needs.
Sound(m) ==
    /\ sig[m[1]] # "freed"
    /\ m[1] # Child /\ ~Stale(m) => data[m[1]] = "rooted"

\* MessagesSafe with what it rests on: what watches is open and rooted.
SigInv ==
    /\ sig \in [AllWatchers -> {"none", "open", "closing", "freed"}]
    /\ watch \in [AllWatchers -> {"no", "SIGINT", "SIGCHLD"}]
    /\ data \in [AllWatchers -> {"none", "rooted", "freed"}]
    /\ pipe \in Seq(Message) /\ batch \in Seq(Message)
    /\ sig[Child] = "open"
    /\ \A w \in AllWatchers : watch[w] # "no" =>
          sig[w] = "open" /\ (w # Child => data[w] = "rooted")
    /\ \A i \in DOMAIN pipe : Sound(pipe[i])
    /\ \A i \in DOMAIN batch : Sound(batch[i])

\* Where the loop is while it has messages in its buffer.
AtHand ==
    /\ phase \in {"signalCb", "wait", "exitCb"} => batch # <<>>
    /\ phase \notin {"events", "signalCb", "wait", "exitCb"} => batch = <<>>

\* The invariant of the signal pipe.
PipeInv == SigInv /\ AtHand

\* The pipe and the buffer one after the other hold the messages of both.
LEMMA InFlightSafe ==
    ASSUME pipe \in Seq(Message), batch \in Seq(Message),
           \A i \in DOMAIN pipe : Sound(pipe[i]),
           \A i \in DOMAIN batch : Sound(batch[i])
    PROVE  MessagesSafe
<1> SUFFICES ASSUME NEW i \in DOMAIN InFlight PROVE Sound(InFlight[i])
  BY DEF MessagesSafe, Sound
<1>1. i \in 1 .. Len(pipe) + Len(batch)
  BY DEF InFlight
<1>2. CASE i \in 1 .. Len(pipe)
  BY <1>2 DEF InFlight
<1>3. CASE i \notin 1 .. Len(pipe)
  <2>1. i - Len(pipe) \in DOMAIN batch /\ InFlight[i] = batch[i - Len(pipe)]
    BY <1>1, <1>3 DEF InFlight
  <2> QED
    BY <2>1
<1> QED
  BY <1>2, <1>3

\* An element of the pipe or of the buffer keeps its watcher in memory.
LEMMA InFlightTraps ==
    ASSUME pipe \in Seq(Message), batch \in Seq(Message)
    PROVE  /\ \A i \in DOMAIN pipe : Trapped(pipe[i][1])
           /\ \A i \in DOMAIN batch : Trapped(batch[i][1])
<1>1. ASSUME NEW i \in DOMAIN pipe PROVE Trapped(pipe[i][1])
  <2>1. i \in DOMAIN InFlight /\ InFlight[i] = pipe[i]
    BY <1>1 DEF InFlight
  <2> QED
    BY <2>1 DEF Trapped
<1>2. ASSUME NEW i \in DOMAIN batch PROVE Trapped(batch[i][1])
  <2>1. i + Len(pipe) \in DOMAIN InFlight /\ InFlight[i + Len(pipe)] = batch[i]
    BY <1>2 DEF InFlight
  <2> QED
    BY <2>1 DEF Trapped
<1> QED
  BY <1>1, <1>2

\* First keeps a beginning of a sequence.
LEMMA FirstKeeps ==
    ASSUME NEW S, NEW q \in Seq(S), NEW n \in Int
    PROVE  /\ First(n, q) \in Seq(S)
           /\ \A i \in DOMAIN First(n, q) : i \in DOMAIN q /\ First(n, q)[i] = q[i]
BY DEF First

\* A signal's watchers in some order: as many as there are, and no others.
LEMMA WatchingInOrder ==
    ASSUME NEW s, NEW order \in SetToSeqs(Watching(s))
    PROVE  order \in Seq(Watching(s)) /\ Len(order) = Cardinality(Watching(s))
<1>1. IsFiniteSet(AllWatchers)
  BY SignalsAssumption, FS_AddElement DEF SignalsAssumption, AllWatchers
<1>2. Cardinality(Watching(s)) \in Nat
  BY <1>1, FS_Subset, FS_CardinalityType DEF Watching
<1>3. order \in [1 .. Cardinality(Watching(s)) -> Watching(s)]
  BY DEF SetToSeqs
<1> QED
  BY <1>2, <1>3

\* What a signal's handler writes is sound when it is written.
LEMMA DeliverKeeps ==
    ASSUME SigInv, NEW s \in {"SIGINT", "SIGCHLD"}, Deliver(s)
    PROVE  SigInv'
<1>1. PICK order \in SetToSeqs(Watching(s)) :
         pipe' = pipe \o First(PipeSize - Len(pipe), [i \in DOMAIN order |-> <<order[i], s>>])
  BY DEF Deliver
<1> DEFINE msgs == [i \in DOMAIN order |-> <<order[i], s>>]
           new  == First(PipeSize - Len(pipe), msgs)
<1>2. order \in Seq(Watching(s))
  BY WatchingInOrder
<1>3. msgs \in Seq(Message) /\ \A i \in DOMAIN msgs : Sound(msgs[i])
  <2>1. \A i \in DOMAIN order : order[i] \in Watching(s)
    BY <1>2
  <2>2. \A w \in Watching(s) : <<w, s>> \in Message
    BY DEF Watching, Message
  <2>3. \A w \in Watching(s) : Sound(<<w, s>>)
    BY DEF Watching, SigInv, Sound, Stale
  <2>4. \A i \in DOMAIN msgs : msgs[i] = <<order[i], s>>
    OBVIOUS
  <2>5. DOMAIN order = 1 .. Len(order) /\ Len(order) \in Nat
    BY <1>2
  <2>6. msgs \in Seq(Message)
    BY <2>1, <2>2, <2>5
  <2> QED
    BY <2>1, <2>3, <2>4, <2>6
<1>4. PipeSize - Len(pipe) \in Int
  BY SignalsAssumption DEF SignalsAssumption, SigInv
<1>5. new \in Seq(Message) /\ \A i \in DOMAIN new : Sound(new[i])
  <2> HIDE DEF msgs
  <2>1. /\ new \in Seq(Message)
        /\ \A i \in DOMAIN new : i \in DOMAIN msgs /\ new[i] = msgs[i]
    BY <1>3, <1>4, FirstKeeps
  <2> QED
    BY <1>3, <2>1
<1>6. pipe' \in Seq(Message) /\ \A i \in DOMAIN pipe' : Sound(pipe'[i])
  <2> HIDE DEF new
  <2>1. pipe' = pipe \o new
    BY <1>1 DEF new
  <2> QED
    BY <2>1, <1>5 DEF SigInv
<1>7. UNCHANGED <<sig, watch, data, batch>>
  BY DEF Deliver
<1> QED
  BY <1>6, <1>7 DEF SigInv, Sound, Stale, Message

\* What a program calls.
LEMMA SignalCallKeeps == ASSUME SigInv, SignalCall PROVE SigInv'
<1> USE DEF SigInv, Sound, Stale, Message
<1>1. PICK w \in Watchers :
         SignalInit(w) \/ SignalStart(w) \/ SignalStop(w) \/ SignalClose(w)
  BY DEF SignalCall
<1>2. w \in AllWatchers /\ w # Child
  BY SignalsAssumption DEF SignalsAssumption, AllWatchers
<1>3. CASE SignalInit(w)
  BY <1>2, <1>3 DEF SignalInit
<1>4. CASE SignalStart(w)
  BY <1>2, <1>4 DEF SignalStart
<1>5. CASE SignalStop(w)
  BY <1>2, <1>5 DEF SignalStop
<1>6. CASE SignalClose(w)
  BY <1>2, <1>6 DEF SignalClose
<1> QED
  BY <1>1, <1>3, <1>4, <1>5, <1>6

\* A message is dispatched or skipped.
LEMMA DispatchKeeps ==
    ASSUME SigInv, batch' = Tail(batch), UNCHANGED <<sig, watch, data, pipe>>, batch # <<>>
    PROVE  SigInv'
<1>1. batch' \in Seq(Message) /\ \A i \in DOMAIN batch' : Sound(batch'[i])
  BY DEF SigInv
<1> QED
  BY <1>1 DEF SigInv, Sound, Stale, Message

\* What the loop does with the signal pipe.
LEMMA SignalStepKeeps == ASSUME SigInv, AtHand, SignalStep PROVE SigInv'
<1>1. CASE ReadPipe
  <2>1. batch' \in Seq(Message) /\ \A i \in DOMAIN batch' : Sound(batch'[i])
    <3>1. batch' = First(Batch, pipe) /\ pipe \in Seq(Message) /\ Batch \in Int
      BY <1>1, SignalsAssumption DEF SignalsAssumption, ReadPipe, SigInv
    <3>2. /\ batch' \in Seq(Message)
          /\ \A i \in DOMAIN batch' : i \in DOMAIN pipe /\ batch'[i] = pipe[i]
      BY <3>1, FirstKeeps
    <3> QED
      BY <3>2 DEF SigInv
  <2>2. pipe' \in Seq(Message) /\ \A i \in DOMAIN pipe' : Sound(pipe'[i])
    BY <1>1, SignalsAssumption DEF SignalsAssumption, ReadPipe, SigInv
  <2> QED
    BY <1>1, <2>1, <2>2 DEF ReadPipe, SigInv, Sound, Stale, Message
<1>2. CASE SkipMessage \/ SignalCbReturns
  <2>1. batch' = Tail(batch) /\ UNCHANGED <<sig, watch, data, pipe>>
    BY <1>2 DEF SkipMessage, SignalCbReturns, Dispatched
  <2>2. batch # <<>>
    BY <1>2 DEF SkipMessage, SignalCbReturns, AtHand
  <2> QED
    BY <2>1, <2>2, DispatchKeeps
<1>3. CASE CallWatcher \/ EndOfBatch
  BY <1>3 DEF CallWatcher, EndOfBatch, signalVars, SigInv, Sound, Stale, Message
<1> QED
  BY <1>1, <1>2, <1>3 DEF SignalStep

\* The close callbacks free no watcher that a message refers to.
LEMMA FinishWatchersKeeps == ASSUME SigInv, FinishWatchers PROVE SigInv'
<1>1. \A i \in DOMAIN pipe : ~MayFinish(pipe[i][1])
  BY InFlightTraps DEF SigInv, MayFinish
<1>2. \A i \in DOMAIN batch : ~MayFinish(batch[i][1])
  BY InFlightTraps DEF SigInv, MayFinish
<1>3. \A i \in DOMAIN pipe : pipe[i][1] \in AllWatchers
  BY DEF SigInv, Message
<1>4. \A i \in DOMAIN batch : batch[i][1] \in AllWatchers
  BY DEF SigInv, Message
<1>5. \A w \in AllWatchers : sig[w] = "open" => sig'[w] = "open"
  BY DEF FinishWatchers, MayFinish
<1>6. /\ \A i \in DOMAIN pipe : sig'[pipe[i][1]] = sig[pipe[i][1]]
      /\ \A i \in DOMAIN batch : sig'[batch[i][1]] = sig[batch[i][1]]
  BY <1>1, <1>2, <1>3, <1>4 DEF FinishWatchers
<1>7. sig' \in [AllWatchers -> {"none", "open", "closing", "freed"}]
  BY DEF FinishWatchers, SigInv
<1>8. Child \in AllWatchers
  BY DEF AllWatchers
<1>9. UNCHANGED <<watch, data, pipe, batch>>
  BY DEF FinishWatchers
<1> QED
  BY <1>5, <1>6, <1>7, <1>8, <1>9 DEF SigInv, Sound, Stale, Message

\* Steps that leave the signals alone.
LEMMA SignalsIdle == ASSUME SigInv, UNCHANGED signalVars PROVE SigInv'
BY DEF SigInv, Sound, Stale, Message, signalVars

\* Spawning starts the watcher of SIGCHLD.
LEMMA SpawnKeeps == ASSUME SigInv, NEW p \in Procs, Spawn(p) PROVE SigInv'
<1>1. /\ watch' = [watch EXCEPT ![Child] = "SIGCHLD"]
      /\ UNCHANGED <<sig, data, pipe, batch>>
  BY DEF Spawn
<1>2. Child \in AllWatchers
  BY DEF AllWatchers
<1> QED
  BY <1>1, <1>2 DEF SigInv, Sound, Stale, Message

\* The initial state.
LEMMA PipeInvInit == Init => PipeInv
<1> SUFFICES ASSUME Init PROVE PipeInv
  OBVIOUS
<1> QED
  BY DEF Init, SignalsInit, PipeInv, SigInv, AtHand, AllWatchers, Sound, Message

\* Every step of the loop, the program and the world.
LEMMA PipeInvStep == PipeInv /\ [Next]_vars => PipeInv'
<1> SUFFICES ASSUME SigInv, AtHand, [Next]_vars PROVE SigInv' /\ AtHand'
  BY DEF PipeInv
<1>1. CASE HaxeCall
  <2>1. SigInv'
    <3>1. CASE SignalCall
      BY <3>1, SignalCallKeeps
    <3>2. CASE UNCHANGED signalVars
      BY <3>2, SignalsIdle
    <3> QED
      BY <1>1, <3>1, <3>2, SpawnKeeps DEF HaxeCall
  <2>2. UNCHANGED <<phase, batch>>
    BY <1>1 DEF HaxeCall, SignalCall, SignalInit, SignalStart, SignalStop, SignalClose,
                Spawn, signalVars
  <2> QED
    BY <2>1, <2>2 DEF AtHand
<1>2. CASE World
  <2>1. SigInv'
    BY <1>2, DeliverKeeps, SignalsIdle DEF World, Interrupt, ChildSignal, Exit
  <2>2. UNCHANGED <<phase, batch>>
    BY <1>2 DEF World, Interrupt, ChildSignal, Exit, Deliver, signalVars
  <2> QED
    BY <2>1, <2>2 DEF AtHand
<1>3. CASE LoopStep
  <2>1. CASE TcpStep /\ UNCHANGED signalVars
    BY <2>1, SignalsIdle DEF TcpStep, Offer, ShedLoad, Offered, NothingToServe,
                             AtHand, signalVars
  <2>2. CASE SignalStep
    <3>1. AtHand'
      BY <2>2 DEF SignalStep, ReadPipe, SkipMessage, CallWatcher, SignalCbReturns,
                  Dispatched, EndOfBatch, AtHand, signalVars
    <3> QED
      BY <2>2, <3>1, SignalStepKeeps
  <2>3. CASE ProcessStep
    <3>1. CASE WaitDone
      <4>1. batch' = Tail(batch) /\ UNCHANGED <<sig, watch, data, pipe>>
        BY <3>1 DEF WaitDone, Dispatched
      <4>2. batch # <<>> /\ phase' = "events"
        BY <3>1 DEF WaitDone, Dispatched, AtHand
      <4> QED
        BY <4>1, <4>2, DispatchKeeps DEF AtHand
    <3>2. CASE ~WaitDone
      BY <2>3, <3>2, SignalsIdle DEF ProcessStep, WaitChildren, ExitCbReturns, WaitFor,
                                     CallExit, AtHand, signalVars
    <3> QED
      BY <3>1, <3>2
  <2>4. CASE RunClosing
    BY <2>4, FinishWatchersKeeps DEF RunClosing, FinishWatchers, AtHand
  <2>5. CASE NextRound
    BY <2>5, SignalsIdle DEF NextRound, AtHand, signalVars
  <2> QED
    BY <1>3, <2>1, <2>2, <2>3, <2>4, <2>5 DEF LoopStep
<1>4. CASE UNCHANGED vars
  BY <1>4, SignalsIdle DEF vars, AtHand, signalVars
<1>5. CASE Ended
  BY <1>4, <1>5 DEF Ended
<1> QED
  BY <1>1, <1>2, <1>3, <1>4, <1>5 DEF Next

\* No message refers to a freed handle, and one that will be called back finds
\* its callback rooted, for any watchers, pipe and buffer (uv__signal_handler,
\* uv__signal_event, uv__finish_close, signal::stop).
THEOREM AlwaysMessagesSafe == Spec => []MessagesSafe
<1>1. Init => PipeInv
  BY PipeInvInit
<1>2. PipeInv /\ [Next]_vars => PipeInv'
  BY PipeInvStep
<1>3. PipeInv => MessagesSafe
  BY InFlightSafe DEF PipeInv, SigInv
<1> QED
  BY <1>1, <1>2, <1>3, PTL DEF Spec

-----------------------------------------------------------------------------
(* The ends of children.                                                   *)

\* A SIGCHLD that has yet to be raised, written, read or taken up.
OnItsWay ==
    \/ raised \/ dropped
    \/ ChildInPipe
    \/ \E i \in DOMAIN batch :
         batch[i] = <<Child, "SIGCHLD">> /\ (i > 1 \/ phase = "events")

\* ExitPending with what it rests on: SIGCHLD has its watcher, and only that
\* one, from the first spawn on.
ChildInv ==
    /\ child \in [Procs -> {"none", "running", "zombie", "gone", "told", "failed"}]
    /\ \A p \in Procs : child[p] # "none" => watch[Child] = "SIGCHLD"
    /\ \A w \in Watchers : watch[w] # "SIGCHLD"
    /\ telling \in Procs => child[telling] # "none"
    /\ \A p \in Procs : child[p] = "zombie" => p \in toCheck \/ OnItsWay

\* Steps that do not touch the children.
LEMMA ChildrenIdle ==
    ASSUME ChildInv, UNCHANGED <<child, watch, toCheck, telling>>, OnItsWay => OnItsWay'
    PROVE  ChildInv'
BY DEF ChildInv

\* What is put behind a sequence is found behind it.
LEMMA Behind ==
    ASSUME NEW S, NEW T, NEW p \in Seq(S), NEW q \in Seq(T), Len(q) = 1
    PROVE  /\ Len(p) + 1 \in DOMAIN (p \o q)
           /\ (p \o q)[Len(p) + 1] = q[1]
<1>1. p \in Seq(S \cup T) /\ q \in Seq(S \cup T) /\ Len(p) \in Nat
  OBVIOUS
<1>2. /\ p \o q \in Seq(S \cup T)
      /\ Len(p \o q) = Len(p) + Len(q)
      /\ \A i \in 1 .. Len(p) + Len(q) :
           (p \o q)[i] = IF i <= Len(p) THEN p[i] ELSE q[i - Len(p)]
  BY <1>1, ConcatProperties
<1>3. Len(p) + 1 \in 1 .. Len(p) + Len(q) /\ ~(Len(p) + 1 <= Len(p))
      /\ (Len(p) + 1) - Len(p) = 1
  BY <1>1
<1>4. DOMAIN (p \o q) = 1 .. Len(p) + Len(q)
  BY <1>2
<1> QED
  BY <1>2, <1>3, <1>4

\* A signal's messages come after those that are in the pipe, and SIGCHLD has
\* one message, unless the pipe is full; and only SIGCHLD changes the history.
LEMMA DeliverOnItsWay ==
    ASSUME SigInv, NEW s \in {"SIGINT", "SIGCHLD"}, Deliver(s)
    PROVE  /\ ChildInPipe => ChildInPipe'
           /\ s # "SIGCHLD" => dropped' = dropped
           /\ s = "SIGCHLD" /\ Watching(s) = {Child} => dropped' \/ ChildInPipe'
<1>1. PICK order \in SetToSeqs(Watching(s)) :
         LET room == PipeSize - Len(pipe)
             msgs == [i \in DOMAIN order |-> <<order[i], s>>]
         IN  /\ pipe' = pipe \o First(room, msgs)
             /\ dropped' = IF s = "SIGCHLD"
                          THEN room < Len(msgs) /\ ~ChildInPipe ELSE dropped
  BY DEF Deliver
<1> DEFINE room == PipeSize - Len(pipe)
           msgs == [i \in DOMAIN order |-> <<order[i], s>>]
           new  == First(room, msgs)
<1>2. order \in Seq(Watching(s)) /\ Len(order) = Cardinality(Watching(s))
  BY WatchingInOrder
<1>3. msgs \in Seq(Watching(s) \X {s}) /\ Len(msgs) = Len(order)
  <2>1. DOMAIN order = 1 .. Len(order) /\ Len(order) \in Nat
    BY <1>2
  <2>2. \A i \in DOMAIN order : order[i] \in Watching(s)
    BY <1>2
  <2> QED
    BY <2>1, <2>2
<1>4. room \in Int /\ pipe \in Seq(Message)
  BY SignalsAssumption DEF SignalsAssumption, SigInv
<1> HIDE DEF room
<1>5. new \in Seq(Watching(s) \X {s})
  <2> HIDE DEF msgs
  <2> QED
    BY <1>3, <1>4, FirstKeeps
<1>6. /\ pipe' = pipe \o new
      /\ dropped' = IF s = "SIGCHLD" THEN room < Len(msgs) /\ ~ChildInPipe ELSE dropped
  BY <1>1 DEF room
<1>7. \A i \in DOMAIN pipe : i \in DOMAIN pipe' /\ pipe'[i] = pipe[i]
  <2> HIDE DEF new
  <2> QED
    BY <1>4, <1>5, <1>6
<1>8. ASSUME s = "SIGCHLD", Watching(s) = {Child}, ~dropped', ~ChildInPipe
      PROVE  \E i \in DOMAIN pipe' : pipe'[i] = <<Child, s>>
  <2>1. Len(order) = 1
    BY <1>2, <1>8, FS_Singleton
  <2>2. Len(msgs) = 1 /\ 1 \in DOMAIN msgs /\ msgs[1] = <<Child, s>>
    <3>1. 1 \in DOMAIN order /\ order[1] = Child
      <4>1. order \in Seq({Child})
        BY <1>2, <1>8
      <4> QED
        BY <2>1, <4>1
    <3> QED
      BY <1>3, <2>1, <3>1
  <2> HIDE DEF msgs
  <2>3. room >= 1
    <3>1. ~(room < Len(msgs))
      BY <1>6, <1>8
    <3> QED
      BY <1>4, <2>2, <3>1
  <2>4. Len(new) = 1 /\ new[1] = <<Child, s>>
    BY <1>3, <1>4, <2>2, <2>3 DEF First
  <2> HIDE DEF new
  <2>5. /\ Len(pipe) + 1 \in DOMAIN pipe'
        /\ pipe'[Len(pipe) + 1] = new[1]
    <3>1. pipe' = pipe \o new
      BY <1>6
    <3>2. /\ Len(pipe) + 1 \in DOMAIN (pipe \o new)
          /\ (pipe \o new)[Len(pipe) + 1] = new[1]
      BY <1>4, <1>5, <2>4, Behind
    <3> QED
      BY <3>1, <3>2
  <2> QED
    BY <2>4, <2>5
<1>9. ChildInPipe => ChildInPipe'
  BY <1>7 DEF ChildInPipe
<1>10. ASSUME s = "SIGCHLD", Watching(s) = {Child}, ~dropped' PROVE ChildInPipe'
  BY <1>8, <1>9, <1>10 DEF ChildInPipe
<1> QED
  BY <1>6, <1>9, <1>10

\* The child that the loop watches SIGCHLD with is the only one to do so.
LEMMA OnlyChildWatches ==
    ASSUME SigInv, ChildInv, watch[Child] = "SIGCHLD"
    PROVE  Watching("SIGCHLD") = {Child}
BY DEF ChildInv, Watching, AllWatchers

\* What the kernel does.
LEMMA WorldChildren == ASSUME SigInv, ChildInv, World PROVE ChildInv'
<1>1. CASE Interrupt /\ UNCHANGED <<phase, procVars, tcpVars>>
  <2>1. OnItsWay => OnItsWay'
    BY <1>1, DeliverOnItsWay DEF Interrupt, Deliver, OnItsWay, ChildInPipe, procVars
  <2> QED
    BY <1>1, <2>1, ChildrenIdle DEF Interrupt, Deliver, procVars
<1>2. CASE ChildSignal
  <2>1. UNCHANGED <<child, watch, toCheck, telling, phase, batch>> /\ Deliver("SIGCHLD")
    BY <1>2 DEF ChildSignal, Deliver
  <2>2. CASE watch[Child] = "SIGCHLD"
    <3>1. dropped' \/ ChildInPipe'
      BY <2>1, <2>2, DeliverOnItsWay, OnlyChildWatches
    <3> QED
      BY <2>1, <3>1, ChildrenIdle DEF OnItsWay, ChildInPipe
  <2>3. CASE watch[Child] # "SIGCHLD"
    BY <2>1, <2>3 DEF ChildInv
  <2> QED
    BY <2>2, <2>3
<1>3. ASSUME NEW p \in Procs, Exit(p) PROVE ChildInv'
  <2>1. raised' /\ UNCHANGED <<watch, telling>> /\ child' = [child EXCEPT ![p] = "zombie"]
    BY <1>3 DEF Exit, signalVars
  <2>2. OnItsWay'
    BY <2>1 DEF OnItsWay, ChildInPipe
  <2>3. child[p] # "none"
    BY <1>3 DEF Exit
  <2> QED
    BY <2>1, <2>2, <2>3 DEF ChildInv
<1>4. CASE UNCHANGED <<phase, signalVars, procVars>>
  BY <1>4, ChildrenIdle DEF OnItsWay, ChildInPipe, signalVars, procVars
<1> QED
  BY <1>1, <1>2, <1>3, <1>4 DEF World

\* What a program calls.
LEMMA CallChildren == ASSUME SigInv, ChildInv, HaxeCall PROVE ChildInv'
<1>1. CASE SignalCall /\ UNCHANGED <<phase, procVars>>
  <2>1. PICK w \in Watchers :
         SignalInit(w) \/ SignalStart(w) \/ SignalStop(w) \/ SignalClose(w)
    BY <1>1 DEF SignalCall
  <2>2. OnItsWay => OnItsWay'
    BY <1>1, <2>1 DEF SignalInit, SignalStart, SignalStop, SignalClose, OnItsWay,
                      ChildInPipe, procVars
  <2>3. w # Child /\ Child \in AllWatchers
    BY SignalsAssumption DEF SignalsAssumption, AllWatchers
  <2>4. UNCHANGED <<child, toCheck, telling>>
    BY <1>1 DEF procVars
  <2>5. /\ watch' \in [AllWatchers -> {"no", "SIGINT", "SIGCHLD"}]
        /\ watch'[Child] = watch[Child]
        /\ \A v \in Watchers : watch'[v] # "SIGCHLD"
    BY <2>1, <2>3 DEF SignalInit, SignalStart, SignalStop, SignalClose, SigInv, ChildInv,
                      AllWatchers
  <2> QED
    BY <2>2, <2>4, <2>5 DEF ChildInv
<1>2. ASSUME NEW p \in Procs, Spawn(p) PROVE ChildInv'
  <2>1. PICK outcome \in {"running", "failed"} : child' = [child EXCEPT ![p] = outcome]
    BY <1>2 DEF Spawn
  <2>2. OnItsWay => OnItsWay'
    BY <1>2 DEF Spawn, OnItsWay, ChildInPipe
  <2>3. watch' = [watch EXCEPT ![Child] = "SIGCHLD"] /\ UNCHANGED <<toCheck, telling>>
    BY <1>2 DEF Spawn
  <2>4. watch'[Child] = "SIGCHLD" /\ \A v \in Watchers : watch'[v] # "SIGCHLD"
    BY <2>3, SignalsAssumption DEF SignalsAssumption, SigInv, ChildInv, AllWatchers
  <2> QED
    BY <2>1, <2>2, <2>3, <2>4 DEF ChildInv
<1>3. CASE UNCHANGED <<phase, signalVars, procVars>>
  BY <1>3, ChildrenIdle DEF OnItsWay, ChildInPipe, signalVars, procVars
<1> QED
  BY <1>1, <1>2, <1>3 DEF HaxeCall

\* A message at the head of the buffer goes; if it was one for SIGCHLD, it has
\* been taken up.
LEMMA HeadGoes ==
    ASSUME batch \in Seq(Message), batch' = Tail(batch), batch # <<>>,
           phase' = "events", UNCHANGED <<pipe, raised, dropped>>,
           phase = "events" => Head(batch) # <<Child, "SIGCHLD">>
    PROVE  OnItsWay => OnItsWay'
<1> SUFFICES ASSUME NEW i \in DOMAIN batch, batch[i] = <<Child, "SIGCHLD">>,
                    i > 1 \/ phase = "events"
             PROVE  \E j \in DOMAIN batch' : batch'[j] = <<Child, "SIGCHLD">>
  BY DEF OnItsWay, ChildInPipe
<1>1. i # 1
  OBVIOUS
<1>2. i - 1 \in DOMAIN batch' /\ batch'[i - 1] = batch[i]
  BY <1>1
<1> QED
  BY <1>2

\* What the loop does with the signal pipe.
LEMMA SignalStepChildren ==
    ASSUME SigInv, AtHand, ChildInv, SignalStep, UNCHANGED <<procVars, tcpVars>>
    PROVE  ChildInv'
<1>1. UNCHANGED <<child, raised, toCheck, telling, watch, dropped>>
  BY DEF SignalStep, ReadPipe, SkipMessage, CallWatcher, SignalCbReturns, Dispatched,
         EndOfBatch, signalVars, procVars
<1>2. CASE ReadPipe
  <2>1. batch = <<>>
    BY <1>2 DEF ReadPipe, AtHand
  <2>2. /\ batch' = First(Batch, pipe) /\ pipe' = SubSeq(pipe, Batch + 1, Len(pipe))
        /\ phase' = "events" /\ pipe \in Seq(Message) /\ Batch \in Nat \ {0}
    BY <1>2, SignalsAssumption DEF SignalsAssumption, ReadPipe, SigInv
  <2>3. ASSUME NEW i \in DOMAIN pipe
        PROVE  \/ \E j \in DOMAIN pipe' : pipe'[j] = pipe[i]
               \/ \E j \in DOMAIN batch' : batch'[j] = pipe[i]
    <3>1. CASE i <= Batch
      <4>1. i \in DOMAIN batch' /\ batch'[i] = pipe[i]
        BY <2>2, <3>1 DEF First
      <4> QED
        BY <4>1
    <3>2. CASE i > Batch
      <4>1. i - Batch \in DOMAIN pipe' /\ pipe'[i - Batch] = pipe[i]
        BY <2>2, <3>2
      <4> QED
        BY <4>1
    <3> QED
      BY <2>2, <3>1, <3>2
  <2>4. OnItsWay => OnItsWay'
    <3>1. DOMAIN batch = {}
      BY <2>1
    <3>2. raised' = raised /\ dropped' = dropped
      BY <1>1
    <3> QED
      BY <2>2, <2>3, <3>1, <3>2 DEF OnItsWay, ChildInPipe
  <2> QED
    BY <1>1, <2>4, ChildrenIdle
<1>3. CASE SkipMessage
  <2>1. CASE Head(batch) = <<Child, "SIGCHLD">>
    <3>1. watch[Child] # "SIGCHLD"
      BY <1>3, <2>1 DEF SkipMessage, Stale
    <3> QED
      BY <1>1, <3>1 DEF ChildInv
  <2>2. CASE Head(batch) # <<Child, "SIGCHLD">>
    <3>1. OnItsWay => OnItsWay'
      BY <1>1, <1>3, <2>2, HeadGoes DEF SkipMessage, SigInv
    <3> QED
      BY <1>1, <3>1, ChildrenIdle
  <2> QED
    BY <2>1, <2>2
<1>4. CASE CallWatcher
  <2>1. /\ batch # <<>> /\ Head(batch)[1] # Child /\ UNCHANGED <<pipe, batch>>
        /\ batch \in Seq(Message)
    BY <1>4 DEF CallWatcher, signalVars, SigInv
  <2>2. batch[1] # <<Child, "SIGCHLD">>
    BY <2>1
  <2>3. \A i \in DOMAIN batch : i = 1 \/ i > 1
    BY <2>1
  <2>4. OnItsWay => OnItsWay'
    BY <1>1, <2>1, <2>2, <2>3 DEF OnItsWay, ChildInPipe
  <2> QED
    BY <1>1, <2>4, ChildrenIdle
<1>5. CASE SignalCbReturns
  <2>1. OnItsWay => OnItsWay'
    BY <1>1, <1>5, HeadGoes DEF SignalCbReturns, Dispatched, AtHand, SigInv
  <2> QED
    BY <1>1, <2>1, ChildrenIdle
<1>6. CASE EndOfBatch
  <2>1. OnItsWay => OnItsWay'
    BY <1>1, <1>6 DEF EndOfBatch, signalVars, OnItsWay, ChildInPipe
  <2> QED
    BY <1>1, <2>1, ChildrenIdle
<1> QED
  BY <1>2, <1>3, <1>4, <1>5, <1>6 DEF SignalStep

\* What the loop does with the children.
LEMMA ProcessStepChildren ==
    ASSUME SigInv, AtHand, ChildInv, ProcessStep PROVE ChildInv'
<1>1. CASE WaitChildren
  <2>1. /\ toCheck' = {p \in Procs : child[p] \in {"running", "zombie"}}
        /\ UNCHANGED <<child, watch, telling>>
    BY <1>1 DEF WaitChildren, signalVars
  <2> QED
    BY <2>1 DEF ChildInv
<1>2. CASE ExitCbReturns
  <2>1. /\ child' = [child EXCEPT ![telling] = "told"] /\ UNCHANGED <<watch, toCheck>>
        /\ telling' \notin Procs
    BY <1>2, ProcessAssumption DEF ProcessAssumption, ExitCbReturns, signalVars
  <2>2. OnItsWay => OnItsWay'
    BY <1>2 DEF ExitCbReturns, signalVars, OnItsWay, ChildInPipe
  <2>3. telling \in Procs => child[telling] # "none"
    BY DEF ChildInv
  <2> QED
    BY <2>1, <2>2, <2>3 DEF ChildInv
<1>3. CASE WaitDone
  <2>1. UNCHANGED <<child, raised, toCheck, telling, watch, dropped>>
    BY <1>3 DEF WaitDone, Dispatched, procVars
  <2>2. OnItsWay => OnItsWay'
    BY <1>3, <2>1, HeadGoes DEF WaitDone, Dispatched, AtHand, SigInv
  <2> QED
    BY <2>1, <2>2, ChildrenIdle
<1>4. ASSUME NEW p \in Procs, WaitFor(p) PROVE ChildInv'
  <2>1. /\ child' = [child EXCEPT ![p] = IF @ = "zombie" THEN "gone" ELSE @]
        /\ toCheck' = toCheck \ {p} /\ UNCHANGED <<watch, telling>>
    BY <1>4 DEF WaitFor, signalVars
  <2>2. OnItsWay => OnItsWay'
    BY <1>4 DEF WaitFor, signalVars, OnItsWay, ChildInPipe
  <2> QED
    BY <2>1, <2>2 DEF ChildInv
<1>5. ASSUME NEW p \in Procs, CallExit(p) PROVE ChildInv'
  <2>1. OnItsWay => OnItsWay'
    BY <1>5 DEF CallExit, signalVars, OnItsWay, ChildInPipe
  <2> QED
    BY <1>5, <2>1 DEF CallExit, signalVars, ChildInv
<1> QED
  BY <1>1, <1>2, <1>3, <1>4, <1>5 DEF ProcessStep

\* Every step.
LEMMA ChildInvStep == PipeInv /\ ChildInv /\ [Next]_vars => ChildInv'
<1> SUFFICES ASSUME SigInv, AtHand, ChildInv, [Next]_vars PROVE ChildInv'
  BY DEF PipeInv
<1>1. CASE LoopStep
  <2>1. CASE TcpStep /\ UNCHANGED <<signalVars, procVars>>
    <3>1. phase # "events"
      BY <2>1 DEF TcpStep, Offer, ShedLoad, Offered, NothingToServe
    <3>2. OnItsWay => OnItsWay'
      BY <2>1, <3>1 DEF OnItsWay, ChildInPipe, signalVars, procVars
    <3> QED
      BY <2>1, <3>2, ChildrenIdle DEF signalVars, procVars
  <2>2. CASE RunClosing
    <3>1. OnItsWay => OnItsWay'
      BY <2>2 DEF RunClosing, FinishWatchers, FinishPipes, OnItsWay, ChildInPipe
    <3> QED
      BY <2>2, <3>1, ChildrenIdle DEF RunClosing, FinishWatchers, FinishPipes
  <2>3. CASE NextRound
    <3>1. OnItsWay => OnItsWay'
      BY <2>3 DEF NextRound, OnItsWay, ChildInPipe, signalVars, procVars
    <3> QED
      BY <2>3, <3>1, ChildrenIdle DEF NextRound, signalVars, procVars
  <2> QED
    BY <1>1, <2>1, <2>2, <2>3, SignalStepChildren, ProcessStepChildren DEF LoopStep
<1>2. CASE UNCHANGED vars
  BY <1>2, ChildrenIdle DEF vars, signalVars, procVars, OnItsWay, ChildInPipe
<1> QED
  BY <1>1, <1>2, CallChildren, WorldChildren DEF Next, Ended

\* The children's invariant holds in every reachable state, with the pipe's.
LEMMA AlwaysChildInv == Spec => []ChildInv
<1>1. Init => PipeInv /\ ChildInv
  <2>1. ASSUME Init PROVE ChildInv
    <3>1. child = [p \in Procs |-> "none"] /\ telling = None
      BY <2>1 DEF Init, ProcessInit
    <3>2. \A w \in Watchers : watch[w] # "SIGCHLD"
      BY <2>1 DEF Init, SignalsInit, AllWatchers
    <3> QED
      BY <3>1, <3>2, ProcessAssumption DEF ProcessAssumption, ChildInv
  <2> QED
    BY <2>1, PipeInvInit
<1>2. PipeInv /\ ChildInv /\ [Next]_vars => PipeInv' /\ ChildInv'
  BY PipeInvStep, ChildInvStep
<1> QED
  BY <1>1, <1>2, PTL DEF Spec

\* A child that has ended has a SIGCHLD, a message or a walk of
\* uv__wait_children on its way, for any number of children and any pipe and
\* buffer, unless the pipe was full (uv__signal_handler, uv__signal_event,
\* uv__wait_children).
THEOREM AlwaysExitPending == Spec => []ExitPending
<1>1. ChildInv => ExitPending
  BY DEF ChildInv, ExitPending, OnItsWay, ChildInPipe
<1> QED
  BY <1>1, AlwaysChildInv, PTL

-----------------------------------------------------------------------------
(* Type correctness.                                                       *)

\* What the invariants above leave out of TypeOK: where the loop is, how much
\* the pipe and the buffer hold, and the pipes of the children.
RestInv ==
    /\ phase \in Phases
    /\ ints \in 0 .. MaxInts
    /\ Len(pipe) <= PipeSize /\ Len(batch) <= Batch
    /\ again \in BOOLEAN /\ dropped \in BOOLEAN /\ raised \in BOOLEAN
    /\ pipes \in [Procs -> {"none", "open", "closing", "freed"}]
    /\ toCheck \subseteq Procs /\ telling \in Procs \cup {None}

\* A handler writes as many messages as the pipe has room for.
LEMMA DeliverFits ==
    ASSUME SigInv, RestInv, NEW s, Deliver(s)
    PROVE  Len(pipe') <= PipeSize /\ dropped' \in BOOLEAN
<1>1. PICK order \in SetToSeqs(Watching(s)) :
         LET room == PipeSize - Len(pipe)
             msgs == [i \in DOMAIN order |-> <<order[i], s>>]
         IN  /\ pipe' = pipe \o First(room, msgs)
             /\ dropped' = IF s = "SIGCHLD"
                          THEN room < Len(msgs) /\ ~ChildInPipe ELSE dropped
  BY DEF Deliver
<1> DEFINE room == PipeSize - Len(pipe)
           msgs == [i \in DOMAIN order |-> <<order[i], s>>]
           new  == First(room, msgs)
<1>2. order \in Seq(Watching(s))
  BY WatchingInOrder
<1>3. msgs \in Seq(Watching(s) \X {s})
  <2>1. DOMAIN order = 1 .. Len(order) /\ Len(order) \in Nat
    BY <1>2
  <2>2. \A i \in DOMAIN order : order[i] \in Watching(s)
    BY <1>2
  <2> QED
    BY <2>1, <2>2
<1>4. room \in Nat /\ PipeSize \in Nat /\ Len(pipe) \in Nat /\ room + Len(pipe) = PipeSize
  BY SignalsAssumption DEF SignalsAssumption, SigInv, RestInv
<1>5. /\ pipe' = pipe \o new
      /\ dropped' = IF s = "SIGCHLD" THEN room < Len(msgs) /\ ~ChildInPipe ELSE dropped
  BY <1>1
<1> HIDE DEF room, msgs
<1>6. new \in Seq(Watching(s) \X {s}) /\ Len(new) <= room
  BY <1>3, <1>4 DEF First
<1> HIDE DEF new
<1>7. Len(pipe') = Len(pipe) + Len(new)
  BY <1>5, <1>6 DEF SigInv
<1>8. dropped' \in BOOLEAN
  BY <1>5 DEF RestInv
<1> QED
  BY <1>4, <1>6, <1>7, <1>8

\* What is taken out of the pipe and the buffer.
LEMMA SignalStepRest ==
    ASSUME SigInv, AtHand, RestInv, SignalStep, UNCHANGED procVars PROVE RestInv'
<1>1. phase' \in Phases
  BY DEF SignalStep, ReadPipe, SkipMessage, CallWatcher, SignalCbReturns, Dispatched,
         EndOfBatch, Phases, RestInv
<1>2. UNCHANGED <<ints, dropped, raised, pipes, toCheck, telling>>
  BY DEF SignalStep, ReadPipe, SkipMessage, CallWatcher, SignalCbReturns, Dispatched,
         EndOfBatch, signalVars, procVars
<1>3. CASE ReadPipe
  <2>1. /\ batch' = First(Batch, pipe) /\ pipe' = SubSeq(pipe, Batch + 1, Len(pipe))
        /\ pipe \in Seq(Message) /\ Batch \in Nat
    BY <1>3, SignalsAssumption DEF SignalsAssumption, ReadPipe, SigInv
  <2>2. Len(batch') <= Batch
    BY <2>1 DEF First
  <2>3. Len(pipe') <= Len(pipe) /\ Len(pipe') \in Nat /\ Len(pipe) \in Nat
    BY <2>1
  <2>4. Len(pipe') <= PipeSize
    BY <2>3, SignalsAssumption DEF SignalsAssumption, RestInv
  <2>5. again' \in BOOLEAN
    BY <1>3 DEF ReadPipe
  <2> QED
    BY <1>1, <1>2, <2>2, <2>4, <2>5 DEF RestInv
<1>4. CASE SkipMessage \/ SignalCbReturns
  <2>1. batch' = Tail(batch) /\ batch # <<>> /\ UNCHANGED <<pipe, again>>
    BY <1>4 DEF SkipMessage, SignalCbReturns, Dispatched, AtHand
  <2>2. Len(batch') <= Batch
    BY <2>1, SignalsAssumption DEF SignalsAssumption, SigInv, RestInv
  <2> QED
    BY <1>1, <1>2, <2>1, <2>2 DEF RestInv
<1>5. CASE CallWatcher \/ EndOfBatch
  BY <1>1, <1>2, <1>5 DEF CallWatcher, EndOfBatch, signalVars, RestInv
<1> QED
  BY <1>3, <1>4, <1>5 DEF SignalStep

\* What is done with the children.
LEMMA ProcessStepRest ==
    ASSUME SigInv, AtHand, RestInv, ProcessStep PROVE RestInv'
<1>1. phase' \in Phases /\ UNCHANGED <<ints, dropped, again, pipe, raised>>
  BY DEF ProcessStep, WaitChildren, ExitCbReturns, WaitDone, WaitFor, CallExit, Dispatched,
         Phases, RestInv, signalVars, procVars
<1>2. toCheck' \subseteq Procs /\ telling' \in Procs \cup {None}
  BY DEF ProcessStep, WaitChildren, ExitCbReturns, WaitDone, WaitFor, CallExit, RestInv,
         procVars
<1>3. pipes' \in [Procs -> {"none", "open", "closing", "freed"}]
  BY DEF ProcessStep, WaitChildren, ExitCbReturns, WaitDone, WaitFor, CallExit, RestInv,
         procVars
<1>4. Len(batch') <= Batch
  <2>1. CASE WaitDone
    <3>1. batch' = Tail(batch) /\ batch # <<>>
      BY <2>1 DEF WaitDone, Dispatched, AtHand
    <3> QED
      BY <3>1, SignalsAssumption DEF SignalsAssumption, SigInv, RestInv
  <2>2. CASE ~WaitDone
    BY <2>2 DEF ProcessStep, WaitChildren, ExitCbReturns, WaitFor, CallExit, RestInv,
                signalVars
  <2> QED
    BY <2>1, <2>2
<1> QED
  BY <1>1, <1>2, <1>3, <1>4 DEF RestInv

\* Every step.
LEMMA RestInvStep == PipeInv /\ RestInv /\ [Next]_vars => RestInv'
<1> SUFFICES ASSUME SigInv, AtHand, RestInv, [Next]_vars PROVE RestInv'
  BY DEF PipeInv
<1>1. CASE HaxeCall
  <2>1. UNCHANGED <<phase, ints, pipe, batch, again, dropped, raised, toCheck, telling>>
    BY <1>1 DEF HaxeCall, SignalCall, SignalInit, SignalStart, SignalStop, SignalClose,
                Spawn, signalVars, procVars
  <2>2. pipes' \in [Procs -> {"none", "open", "closing", "freed"}]
    BY <1>1 DEF HaxeCall, Spawn, procVars, RestInv
  <2> QED
    BY <2>1, <2>2 DEF RestInv
<1>2. CASE Interrupt /\ UNCHANGED <<phase, procVars, tcpVars>>
  <2>1. Deliver("SIGINT") /\ ints < MaxInts /\ ints' = ints + 1
    BY <1>2 DEF Interrupt
  <2>2. Len(pipe') <= PipeSize /\ dropped' \in BOOLEAN
    BY <2>1, DeliverFits
  <2>3. ints' \in 0 .. MaxInts
    BY <2>1, SignalsAssumption DEF SignalsAssumption, RestInv
  <2> QED
    BY <1>2, <2>1, <2>2, <2>3 DEF Deliver, RestInv, procVars
<1>3. CASE ChildSignal /\ UNCHANGED tcpVars
  <2>1. Deliver("SIGCHLD")
    BY <1>3 DEF ChildSignal
  <2>2. Len(pipe') <= PipeSize /\ dropped' \in BOOLEAN
    BY <2>1, DeliverFits
  <2> QED
    BY <1>3, <2>1, <2>2 DEF ChildSignal, Deliver, RestInv
<1>4. ASSUME NEW p \in Procs, Exit(p) PROVE RestInv'
  BY <1>4 DEF Exit, RestInv, signalVars
<1>5. CASE TcpStep /\ UNCHANGED <<signalVars, procVars>>
  <2>1. phase' \in Phases
    BY <1>5 DEF TcpStep, Offer, ShedLoad, Offered, NothingToServe, Phases, RestInv
  <2> QED
    BY <1>5, <2>1 DEF RestInv, signalVars, procVars
<1>6. CASE RunClosing
  <2>1. UNCHANGED <<ints, pipe, batch, again, dropped, raised, toCheck, telling>>
    BY <1>6 DEF RunClosing, FinishWatchers, FinishPipes
  <2>2. phase' \in Phases /\ pipes' \in [Procs -> {"none", "open", "closing", "freed"}]
    BY <1>6 DEF RunClosing, FinishPipes, Phases, RestInv
  <2> QED
    BY <2>1, <2>2 DEF RestInv
<1>7. CASE NextRound
  BY <1>7 DEF NextRound, Phases, RestInv, signalVars, procVars
<1>8. CASE UNCHANGED <<phase, signalVars, procVars>>
  BY <1>8 DEF RestInv, signalVars, procVars
<1> QED
  BY <1>1, <1>2, <1>3, <1>4, <1>5, <1>6, <1>7, <1>8, SignalStepRest, ProcessStepRest
  DEF Next, World, LoopStep, Ended, vars

\* Every variable stays within the values the code can give it; what is not open
\* watches nothing and polls nothing, SIGCHLD's watcher is never closed, and no
\* more messages are written or read than fit.
THEOREM TypeCorrect == Spec => []TypeOK
<1>1. ASSUME Init PROVE RestInv
  <2>1. phase = "out" /\ SignalsInit /\ ProcessInit
    BY <1>1 DEF Init
  <2>2. ints \in 0 .. MaxInts /\ 0 <= PipeSize /\ 0 <= Batch
    BY <2>1, SignalsAssumption DEF SignalsAssumption, SignalsInit
  <2>3. Len(pipe) = 0 /\ Len(batch) = 0 /\ again = FALSE /\ dropped = FALSE
    BY <2>1 DEF SignalsInit
  <2>4. /\ pipes \in [Procs -> {"none", "open", "closing", "freed"}]
        /\ raised = FALSE /\ toCheck = {} /\ telling = None
    BY <2>1 DEF ProcessInit
  <2> QED
    BY <2>1, <2>2, <2>3, <2>4 DEF RestInv, Phases
<1>2. PipeInv /\ RestInv /\ [Next]_vars => PipeInv' /\ RestInv'
  BY PipeInvStep, RestInvStep
<1>3. PipeInv /\ RestInv /\ ChildInv /\ TcpInv => TypeOK
  BY DEF PipeInv, SigInv, Message, RestInv, ChildInv, TcpInv, TypeOK, SignalsTypeOK,
         ProcessTypeOK
<1>4. Spec => [](PipeInv /\ RestInv)
  BY <1>1, <1>2, PipeInvInit, PTL DEF Spec
<1>5. Spec => []ChildInv
  BY AlwaysChildInv
<1>6. Spec => []TcpInv
  BY TcpInvInit, TcpInvStep, PTL DEF Spec
<1> QED
  BY <1>3, <1>4, <1>5, <1>6, PTL
=============================================================================
