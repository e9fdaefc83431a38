------------------------------- MODULE Handles -------------------------------
(***************************************************************************)
(* One loop that serves a TCP server with its connections (Tcp), signal    *)
(* handles (Signals) and processes with their pipes (Process).  They share *)
(* the loop's iteration, the signal pipe, the spare descriptor and the     *)
(* handle queue, and a program may call any of them from the callback of   *)
(* any other.  Timers, asyncs, requests and uv_walk are in EventLoop.      *)
(***************************************************************************)
EXTENDS Process, Tcp, FiniteSets

CONSTANT
    MaxHandles  \* how many handles the program makes, connections not counted

ASSUME HandlesAssumption == MaxHandles \in Nat

vars == <<phase, signalVars, procVars, tcpVars>>

Init ==
    /\ phase = "out"
    /\ SignalsInit /\ ProcessInit /\ TcpInit

\* What a program has made; the next one must fit the bound.  A server, which
\* comes with its connections, counts for two.
Made ==
    Cardinality({w \in Watchers : sig[w] # "none"})
    + Cardinality({p \in Procs : child[p] # "none"})
    + (IF server = "none" THEN 0 ELSE 2)

HaxeCall ==
    /\ \/ SignalCall /\ UNCHANGED <<phase, procVars, tcpVars>>
       \/ TcpCall /\ UNCHANGED <<phase, signalVars, procVars>>
       \/ \E p \in Procs : Spawn(p) /\ SpareTried
                           /\ UNCHANGED <<server, root, polled, conn, emfiles, lost>>
    /\ Made' <= MaxHandles

World ==
    \/ Interrupt /\ UNCHANGED <<phase, procVars, tcpVars>>
    \/ ChildSignal /\ UNCHANGED tcpVars
    \/ \E p \in Procs : Exit(p) /\ UNCHANGED tcpVars
    \/ \E c \in Conns : Connect(c) /\ UNCHANGED <<phase, signalVars, procVars>>

\* uv__run_closing_handles.
RunClosing ==
    /\ phase = "closing"
    /\ FinishWatchers /\ FinishPipes /\ FinishSockets
    /\ phase' = "next"

\* uv__loop_alive.
Alive == SignalsAlive \/ ProcessAlive \/ TcpAlive

\* A round of uv_run ends, or runLoop begins one.
NextRound ==
    /\ phase \in {"out", "next"}
    /\ phase' = IF Alive THEN "serve" ELSE "out"
    /\ phase' # phase
    /\ UNCHANGED <<signalVars, procVars, tcpVars>>

LoopStep ==
    \/ TcpStep /\ UNCHANGED <<signalVars, procVars>>
    \/ SignalStep /\ UNCHANGED <<procVars, tcpVars>>
    \/ ProcessStep /\ UNCHANGED tcpVars
    \/ RunClosing
    \/ NextRound

Ended == phase = "out" /\ ~Alive /\ ~raised /\ UNCHANGED vars

Next == HaxeCall \/ World \/ LoopStep \/ Ended

Spec == Init /\ [][Next]_vars

\* The loop's thread runs, and the kernel delivers what is raised.  No child
\* has to end, no host to connect and no program to call anything.
Fairness ==
    /\ WF_vars(LoopStep)
    /\ WF_vars(ChildSignal /\ UNCHANGED tcpVars)

FairSpec == Spec /\ Fairness

-----------------------------------------------------------------------------
(* Properties.                                                             *)

\* Signals' part of TypeOK.
SignalsTypeOK ==
    /\ sig \in [AllWatchers -> {"none", "open", "closing", "freed"}]
    /\ sig[Child] = "open"
    /\ watch \in [AllWatchers -> {"no", "SIGINT", "SIGCHLD"}]
    /\ \A w \in AllWatchers : watch[w] # "no" => sig[w] = "open"
    /\ data \in [AllWatchers -> {"none", "rooted", "freed"}]
    /\ ints \in 0 .. MaxInts
    /\ pipe \in Seq(AllWatchers \X {"SIGINT", "SIGCHLD"}) /\ Len(pipe) <= PipeSize
    /\ batch \in Seq(AllWatchers \X {"SIGINT", "SIGCHLD"}) /\ Len(batch) <= Batch
    /\ again \in BOOLEAN /\ dropped \in BOOLEAN

\* Process' part of TypeOK.
ProcessTypeOK ==
    /\ child \in [Procs -> {"none", "running", "zombie", "gone", "told", "failed"}]
    /\ raised \in BOOLEAN
    /\ pipes \in [Procs -> {"none", "open", "closing", "freed"}]
    /\ toCheck \subseteq Procs /\ telling \in Procs \cup {None}

\* Tcp's part of TypeOK.
TcpTypeOK ==
    /\ server \in {"none", "bound", "listening", "closing", "freed"}
    /\ root \in {"none", "rooted", "removed"}
    /\ polled \in BOOLEAN /\ (polled => server = "listening")
    /\ conn \in [Conns -> {"none", "backlog", "held", "open", "closing", "freed",
                           "shed", "dropped"}]
    /\ spare \in BOOLEAN /\ emfiles \in 0 .. MaxEmfiles /\ lost \in 0 .. MaxLost

\* Every variable stays within the values the code can give it; what is not
\* open watches nothing and polls nothing, and SIGCHLD's watcher is never
\* closed.
TypeOK == phase \in Phases /\ SignalsTypeOK /\ ProcessTypeOK /\ TcpTypeOK

\* No message in the pipe or in the loop's buffer refers to a freed handle,
\* and a message that will be called back finds its callback rooted: stop,
\* start again and close may come while messages are on their way.
MessagesSafe ==
    \A i \in DOMAIN InFlight :
        LET w == InFlight[i][1]
        IN  /\ sig[w] # "freed"
            /\ w # Child /\ ~Stale(InFlight[i]) => data[w] = "rooted"

\* A child that has ended has a SIGCHLD, a message or a walk of
\* uv__wait_children on its way, although the signals of several children are
\* one, and although messages are dropped when the pipe is full ("the user is
\* out of luck", signal.c): only if the last SIGCHLD was, may a child be
\* forgotten, and the next one that is written makes up for it.
ExitPending ==
    \A p \in Procs : child[p] = "zombie" =>
        \/ raised \/ dropped
        \/ p \in toCheck
        \/ ChildInPipe
        \/ \E i \in DOMAIN batch :
             batch[i] = <<Child, "SIGCHLD">> /\ (i > 1 \/ phase = "events")

\* The server holds at most one connection, and only in its own callback or
\* while it does not poll: the assertion on accepted_fd in uv__server_io.  A
\* server that listens is deaf only while it holds one, so accepting it is
\* enough to hear the next; a server that is closing holds none.
OneAtATime ==
    /\ \A c, d \in Held : c = d
    /\ Held # {} => server = "listening" /\ (phase = "connCb" \/ ~polled)
    /\ server = "listening" /\ Held = {} => polled

\* The program is told of every child's end, of one too whose own SIGCHLD was
\* dropped, unless the last one was; and whatever is closed is freed: the pipes
\* of an ended child, a signal handle with signals still in the pipe.
AllTold ==
    /\ []<>(~dropped) => \A p \in Procs : child[p] = "zombie" ~> child[p] = "told"
    /\ \A p \in Procs : child[p] = "told" ~> pipes[p] = "freed"
    /\ \A w \in Watchers : sig[w] = "closing" ~> sig[w] = "freed"

\* A connection that waits in the backlog is offered in the end to a program
\* that does not sit on the one it has, whatever else the loop serves; or it
\* is shed, for the causes that ShedForCause names.  A server or a connection
\* that is closed is freed.
AllOffered ==
    /\ []<>(Held = {}) =>
         \A c \in Conns : conn[c] = "backlog" ~> conn[c] \in {"held", "shed"}
    /\ server = "closing" ~> server = "freed"
    /\ \A c \in Conns : conn[c] = "closing" ~> conn[c] = "freed"

\* A connection that waits is offered, unless its server is closed or accept
\* met EMFILE while the loop had its spare descriptor.
Waits(c) ==
    \/ conn'[c] \in {"backlog", "held"}
    \/ conn'[c] = "shed" /\ (server' = "closing" \/ (spare /\ emfiles' # emfiles))

\* One that is offered stays until the program takes it or closes the server.
Stays(c) ==
    \/ conn'[c] \in {"held", "open"}
    \/ conn'[c] = "dropped" /\ server' = "closing"

\* A connection goes unheard only for cause.  A program that does not accept it,
\* and EMFILE without the spare, leave every other one in the backlog.
ShedForCause ==
    [][\A c \in Conns : /\ conn[c] = "backlog" => Waits(c)
                        /\ conn[c] = "held" => Stays(c)]_vars
==============================================================================
