------------------------------- MODULE Signals -------------------------------
(***************************************************************************)
(* cpp::luv::signal over libuv's signal.c: the handler that runs when the  *)
(* kernel delivers a signal writes one message per watcher into the loop's *)
(* signal pipe; the loop reads the pipe and calls the watchers that still  *)
(* watch.  Child is the loop's own watcher of SIGCHLD, which uv_spawn      *)
(* starts; module Process says what its callback does.                     *)
(***************************************************************************)
EXTENDS Naturals, Sequences, SequencesExt, Round

CONSTANTS
    Watchers,   \* handles of signal::init
    Child,      \* loop->child_watcher
    PipeSize,   \* how many messages the signal pipe holds (65536 bytes / 16)
    Batch,      \* how many messages uv__signal_event reads at a time (32)
    MaxInts     \* how often SIGINT is sent

ASSUME SignalsAssumption ==
    /\ IsFiniteSet(Watchers) /\ Child \notin Watchers
    /\ PipeSize \in Nat \ {0} /\ Batch \in Nat \ {0} /\ MaxInts \in Nat

AllWatchers == Watchers \cup {Child}

VARIABLES
    sig,        \* life of each watcher: none, open, closing, freed
    watch,      \* the signal each watches, or "no"
    data,       \* the root in its data field: none, rooted, freed
    ints,       \* how often SIGINT was sent
    pipe,       \* messages in the signal pipe, one <<watcher, signal>> each
    batch,      \* messages read and not dispatched; the head is under way
    again,      \* the buffer was full, so the pipe is read once more
    dropped     \* history: the last SIGCHLD found the pipe full, and no other in it

signalVars == <<sig, watch, data, ints, pipe, batch, again, dropped>>

SignalsInit ==
    /\ sig = [w \in AllWatchers |-> IF w = Child THEN "open" ELSE "none"]
    /\ watch = [w \in AllWatchers |-> "no"]
    /\ data = [w \in AllWatchers |-> "none"]
    /\ ints = 0
    /\ pipe = <<>> /\ batch = <<>> /\ again = FALSE
    /\ dropped = FALSE

-----------------------------------------------------------------------------
(* The program.                                                            *)

SignalInit(w) ==
    /\ HaxeRuns
    /\ w \in Watchers /\ sig[w] = "none"
    /\ sig' = [sig EXCEPT ![w] = "open"]
    /\ UNCHANGED <<watch, data, ints, pipe, batch, again, dropped>>

\* A second start only replaces the root; the first is never removed.
SignalStart(w) ==
    /\ HaxeRuns
    /\ w \in Watchers /\ sig[w] = "open"
    /\ watch' = [watch EXCEPT ![w] = "SIGINT"]
    /\ data' = [data EXCEPT ![w] = "rooted"]
    /\ UNCHANGED <<sig, ints, pipe, batch, again, dropped>>

\* signal::stop, called once for a start: a second stop would delete the
\* root twice.
SignalStop(w) ==
    /\ HaxeRuns
    /\ w \in Watchers /\ sig[w] = "open" /\ data[w] = "rooted"
    /\ watch' = [watch EXCEPT ![w] = "no"]
    /\ data' = [data EXCEPT ![w] = "freed"]
    /\ UNCHANGED <<sig, ints, pipe, batch, again, dropped>>

\* Slip: uv_close leaves the watcher in the tree.
SlipCloseKeepsWatching(w) ==
    /\ HaxeRuns
    /\ w \in Watchers /\ sig[w] = "open"
    /\ sig' = [sig EXCEPT ![w] = "closing"]
    /\ UNCHANGED <<watch, data, ints, pipe, batch, again, dropped>>

\* uv_close stops the watcher; its root stays unless stop was called.
SignalClose(w) ==
    /\ HaxeRuns
    /\ w \in Watchers /\ sig[w] = "open"
    /\ sig' = [sig EXCEPT ![w] = "closing"]
    /\ watch' = [watch EXCEPT ![w] = "no"]
    /\ UNCHANGED <<data, ints, pipe, batch, again, dropped>>

SignalCall ==
    \E w \in Watchers :
        SignalInit(w) \/ SignalStart(w) \/ SignalStop(w) \/ SignalClose(w)

-----------------------------------------------------------------------------
(* The kernel.                                                             *)

First(n, q) == SubSeq(q, 1, IF n < Len(q) THEN n ELSE Len(q))

Watching(s) == {w \in AllWatchers : watch[w] = s}

\* A SIGCHLD that the loop has yet to read.
ChildInPipe == \E i \in DOMAIN pipe : pipe[i] = <<Child, "SIGCHLD">>

\* uv__signal_handler, in any thread and at any moment: a message for each
\* watcher of s, in the tree's order, until the pipe is full.
Deliver(s) ==
    /\ \E order \in SetToSeqs(Watching(s)) :
         LET room == PipeSize - Len(pipe)
             msgs == [i \in DOMAIN order |-> <<order[i], s>>]
         IN  /\ pipe' = pipe \o First(room, msgs)
             /\ dropped' = IF s = "SIGCHLD"
                          THEN room < Len(msgs) /\ ~ChildInPipe ELSE dropped
    /\ UNCHANGED <<sig, watch, data, batch, again>>

\* Without a watcher SIGINT has no handler, and ends the program.
Interrupt ==
    /\ Watching("SIGINT") # {}
    /\ ints < MaxInts
    /\ ints' = ints + 1
    /\ Deliver("SIGINT")

-----------------------------------------------------------------------------
(* The loop.                                                               *)

\* Messages that refer to w count in caught_signals - dispatched_signals.
InFlight == pipe \o batch
Trapped(w) == \E i \in DOMAIN InFlight : InFlight[i][1] = w

\* uv__signal_event reads what is there, up to its buffer's size.
ReadPipe ==
    /\ phase = "read"
    /\ batch' = First(Batch, pipe)
    /\ pipe' = SubSeq(pipe, Batch + 1, Len(pipe))
    /\ again' = (Len(pipe) >= Batch)
    /\ phase' = "events"
    /\ UNCHANGED <<sig, watch, data, ints, dropped>>

\* A message whose watcher no longer watches its signal is only counted.
Stale(m) == watch[m[1]] # m[2]

SkipMessage ==
    /\ phase = "events" /\ batch # <<>>
    /\ Stale(Head(batch))
    /\ batch' = Tail(batch)
    /\ UNCHANGED <<sig, watch, data, ints, pipe, again, dropped, phase>>

\* The wrapper of signal::start calls the rooted callback.
CallWatcher ==
    /\ phase = "events" /\ batch # <<>>
    /\ ~Stale(Head(batch)) /\ Head(batch)[1] # Child
    /\ phase' = "signalCb"
    /\ UNCHANGED signalVars

\* A message is dispatched: dispatched_signals++.
Dispatched ==
    /\ batch' = Tail(batch)
    /\ phase' = "events"
    /\ UNCHANGED <<sig, watch, data, ints, pipe, again, dropped>>

SignalCbReturns == phase = "signalCb" /\ Dispatched

EndOfBatch ==
    /\ phase = "events" /\ batch = <<>>
    /\ phase' = IF again THEN "read" ELSE "closing"
    /\ UNCHANGED signalVars

\* Slip: uv__finish_close does not look at the signals caught.
SlipMayFinish(w) == sig[w] = "closing"

\* uv__finish_close puts a signal handle back while messages refer to it.
MayFinish(w) == sig[w] = "closing" /\ ~Trapped(w)

\* signal::close's callback deletes the handle.
FinishWatchers ==
    /\ sig' = [w \in AllWatchers |-> IF MayFinish(w) THEN "freed" ELSE sig[w]]
    /\ UNCHANGED <<watch, data, ints, pipe, batch, again, dropped>>

SignalsAlive == \E w \in Watchers : watch[w] # "no" \/ sig[w] = "closing"

SignalStep ==
    ReadPipe \/ SkipMessage \/ CallWatcher \/ SignalCbReturns \/ EndOfBatch
=============================================================================
