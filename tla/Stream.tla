------------------------------- MODULE Stream -------------------------------
(***************************************************************************)
(* The writing half of cpp::luv::stream on one connected, nonblocking      *)
(* stream: write, shutdown and close, with libuv's write queue under them. *)
(*                                                                         *)
(* All of it runs on the loop's thread.  User code runs between the loop's *)
(* steps and inside each callback the loop makes; there it may write, shut *)
(* down or close, which changes the queues libuv is working through.       *)
(***************************************************************************)
EXTENDS Integers, Sequences, FiniteSets

CONSTANTS
    MaxWrites,      \* bound on the writes of one behaviour
    MaxShutdowns,   \* and on the shutdowns
    Length,         \* bytes of a write
    Burst           \* how many requests uv__write finishes and goes on, 32 in
                    \* the code

ASSUME StreamAssumption ==
    /\ MaxWrites \in Nat /\ MaxShutdowns \in Nat /\ Burst \in Nat
    /\ Length \in Nat \ {0}

\* Requests are numbered in the order in which they are made.
Writes == 1 .. MaxWrites
Shutdowns == MaxWrites + 1 .. MaxWrites + MaxShutdowns
Jobs == Writes \cup Shutdowns
None == 0

VARIABLES
    handle,     \* open, closing (uv_close was called), destroying, closed
    io,         \* what the loop does with the stream: idle, in uv__write
                \* (writing, written), in uv__write_callbacks before its first
                \* callback (calls) or in one (called), in the callback of a
                \* shutdown (drained)
    count,      \* uv__write's count
    queue,      \* write_queue
    completed,  \* write_completed_queue
    calling,    \* the pq of uv__write_callbacks
    left,       \* the bytes of a request that count in write_queue_size
    status,     \* its outcome: none, ok, error, canceled, refused
    answers,    \* how often its callback was called
    wire,       \* the bytes the kernel took, each as the write it belongs to
    pollout,    \* the watcher waits for POLLOUT
    fed,        \* the watcher is in the loop's pending_queue
    writable,   \* UV_HANDLE_WRITABLE
    shutting,   \* shutdown_req
    shut        \* UV_HANDLE_SHUT

vars == <<handle, io, count, queue, completed, calling, left, status, answers,
          wire, pollout, fed, writable, shutting, shut>>

queues == <<queue, completed, calling>>
sending == <<queues, left, wire>>

Queued == {queue[i] : i \in DOMAIN queue}
            \cup {completed[i] : i \in DOMAIN completed}
            \cup {calling[i] : i \in DOMAIN calling}

Pending == Queued \cup ({shutting} \ {None})

Init ==
    /\ handle = "open" /\ io = "idle" /\ count = 0
    /\ queue = <<>> /\ completed = <<>> /\ calling = <<>>
    /\ left = [w \in Writes |-> 0]
    /\ status = [j \in Jobs |-> "none"]
    /\ answers = [j \in Jobs |-> 0]
    /\ wire = <<>>
    /\ pollout = FALSE /\ fed = FALSE
    /\ writable = TRUE /\ shutting = None /\ shut = FALSE

-----------------------------------------------------------------------------
(* What the kernel takes.                                                  *)

\* Slip: a request that went out in part starts again from its first byte.
SlipTryResends(w, bytes, rest) ==
    \/ /\ wire' = wire \o [i \in 1 .. bytes |-> w]
       /\ left' = [left EXCEPT ![w] = 0]
       /\ status' = [status EXCEPT ![w] = "ok"]
       /\ completed' = Append(completed, w) /\ queue' = rest
       /\ fed' = TRUE
       /\ UNCHANGED pollout
    \/ \E n \in 0 .. bytes - 1 :
          /\ wire' = wire \o [i \in 1 .. n |-> w]
          /\ left' = [left EXCEPT ![w] = bytes]
          /\ queue' = <<w>> \o rest
          /\ pollout' = TRUE
          /\ UNCHANGED <<completed, status, fed>>

\* Slip: a finished request does not feed the watcher.
SlipTryNotFed(w, bytes, rest) ==
    \/ /\ wire' = wire \o [i \in 1 .. bytes |-> w]
       /\ left' = [left EXCEPT ![w] = 0]
       /\ status' = [status EXCEPT ![w] = "ok"]
       /\ completed' = Append(completed, w) /\ queue' = rest
       /\ UNCHANGED <<pollout, fed>>
    \/ \E n \in 0 .. bytes - 1 :
          /\ wire' = wire \o [i \in 1 .. n |-> w]
          /\ left' = [left EXCEPT ![w] = bytes - n]
          /\ queue' = <<w>> \o rest
          /\ pollout' = TRUE
          /\ UNCHANGED <<completed, status, fed>>

\* Slip: what is left of a request goes behind the others.
SlipTryRotates(w, bytes, rest) ==
    \/ /\ wire' = wire \o [i \in 1 .. bytes |-> w]
       /\ left' = [left EXCEPT ![w] = 0]
       /\ status' = [status EXCEPT ![w] = "ok"]
       /\ completed' = Append(completed, w) /\ queue' = rest
       /\ fed' = TRUE
       /\ UNCHANGED pollout
    \/ \E n \in 0 .. bytes - 1 :
          /\ wire' = wire \o [i \in 1 .. n |-> w]
          /\ left' = [left EXCEPT ![w] = bytes - n]
          /\ queue' = Append(rest, w)
          /\ pollout' = TRUE
          /\ UNCHANGED <<completed, status, fed>>

\* uv__try_write of w, of which bytes are left and rest is behind it: all of
\* it goes out, or a part (nothing at EAGAIN), or the write fails.
Try(w, bytes, rest) ==
    \/ /\ wire' = wire \o [i \in 1 .. bytes |-> w]
       /\ left' = [left EXCEPT ![w] = 0]
       /\ status' = [status EXCEPT ![w] = "ok"]
       /\ completed' = Append(completed, w) /\ queue' = rest
       /\ fed' = TRUE
       /\ UNCHANGED pollout
    \/ \E n \in 0 .. bytes - 1 :
          /\ wire' = wire \o [i \in 1 .. n |-> w]
          /\ left' = [left EXCEPT ![w] = bytes - n]
          /\ queue' = <<w>> \o rest
          /\ pollout' = TRUE
          /\ UNCHANGED <<completed, status, fed>>
    \/ /\ left' = [left EXCEPT ![w] = bytes]
       /\ status' = [status EXCEPT ![w] = "error"]
       /\ completed' = Append(completed, w) /\ queue' = rest
       /\ fed' = TRUE /\ pollout' = FALSE
       /\ UNCHANGED wire

-----------------------------------------------------------------------------
(* User code.                                                              *)

\* The user makes request j, the next of S.
Makes(j, S) ==
    /\ io \in {"idle", "called", "drained"} /\ handle # "closed"
    /\ j \in S /\ answers[j] = 0 /\ j \notin Pending
    /\ \A k \in S : k < j => answers[k] > 0 \/ k \in Pending

\* The call fails; its callback is called before it returns.
Refuse(j) ==
    /\ status' = [status EXCEPT ![j] = "refused"]
    /\ answers' = [answers EXCEPT ![j] = @ + 1]
    /\ UNCHANGED <<handle, io, count, sending, pollout, fed, writable, shutting,
                   shut>>

\* write_queue_size = 0: a request that failed counts until its callback.
NothingQueued == \A w \in Queued : left[w] = 0

\* Slip: a write goes straight out although others are queued.
SlipWrite(w) ==
    /\ Makes(w, Writes)
    /\ IF handle # "open" \/ ~writable THEN Refuse(w) ELSE
         /\ Try(w, Length, queue)
         /\ UNCHANGED <<handle, io, count, calling, answers, writable, shutting,
                        shut>>

\* stream::write: at once if nothing is queued, else behind the others.
Write(w) ==
    /\ Makes(w, Writes)
    /\ \/ /\ handle # "open" \/ ~writable
          /\ Refuse(w)
       \/ /\ handle = "open" /\ writable /\ NothingQueued
          /\ Try(w, Length, <<>>)
          /\ UNCHANGED <<handle, io, count, calling, answers, writable,
                         shutting, shut>>
       \/ /\ handle = "open" /\ writable /\ ~NothingQueued
          /\ left' = [left EXCEPT ![w] = Length]
          /\ queue' = Append(queue, w)
          /\ pollout' = TRUE
          /\ UNCHANGED <<handle, io, count, completed, calling, status, answers,
                         wire, fed, writable, shutting, shut>>

\* Slip: the stream goes on taking writes.
SlipShutdownStaysWritable(s) ==
    /\ Makes(s, Shutdowns)
    /\ handle = "open" /\ writable /\ shutting = None /\ ~shut
    /\ shutting' = s
    /\ fed' = (fed \/ queue = <<>>)
    /\ UNCHANGED <<handle, io, count, sending, status, answers, pollout,
                   writable, shut>>

\* stream::shutdown: done once the queue is drained.
Shutdown(s) ==
    /\ Makes(s, Shutdowns)
    /\ IF ~writable \/ shut \/ shutting # None \/ handle # "open"
       THEN Refuse(s)
       ELSE /\ shutting' = s
            /\ writable' = FALSE
            /\ fed' = (fed \/ queue = <<>>)
            /\ UNCHANGED <<handle, io, count, sending, status, answers, pollout,
                           shut>>

\* stream::close: uv_close, uv__stream_close, uv__io_close.
Close ==
    /\ io \in {"idle", "called", "drained"} /\ handle = "open"
    /\ handle' = "closing"
    /\ pollout' = FALSE /\ fed' = FALSE /\ writable' = FALSE
    /\ UNCHANGED <<io, count, sending, status, answers, shutting, shut>>

-----------------------------------------------------------------------------
(* The loop.                                                               *)

\* An error in uv__read, before the writing is looked at: no more writes, but
\* those that are queued go on.
ReadFails ==
    /\ handle = "open" /\ io = "idle" /\ writable
    /\ writable' = FALSE
    /\ UNCHANGED <<handle, io, count, sending, status, answers, pollout, fed,
                   shutting, shut>>

\* uv__stream_io, from the poll with POLLOUT or from uv__run_pending.
IoBegins ==
    /\ handle = "open" /\ io = "idle"
    /\ \/ pollout /\ UNCHANGED fed
       \/ fed /\ fed' = FALSE
    /\ io' = "writing" /\ count' = Burst
    /\ UNCHANGED <<handle, sending, status, answers, pollout, writable,
                   shutting, shut>>

\* uv__write, one request; it goes on to the next only after a whole one.
Writing ==
    /\ io = "writing" /\ queue # <<>>
    /\ LET w == Head(queue) IN
         /\ Try(w, left[w], Tail(queue))
         /\ io' = IF status'[w] = "ok" /\ count > 0 THEN io ELSE "written"
    /\ count' = IF count > 0 THEN count - 1 ELSE 0
    /\ UNCHANGED <<handle, calling, answers, writable, shutting, shut>>

\* uv__write_callbacks takes the whole completed queue.
CallbacksBegin ==
    /\ io = "written" \/ (io = "writing" /\ queue = <<>>)
    /\ io' = "calls"
    /\ calling' = completed /\ completed' = <<>>
    /\ UNCHANGED <<handle, count, queue, left, wire, status, answers, pollout,
                   fed, writable, shutting, shut>>

\* The callback of the next of them: stream::write's wrapper and the user.
CallBack ==
    /\ io \in {"calls", "called"} /\ calling # <<>>
    /\ io' = "called"
    /\ calling' = Tail(calling)
    /\ left' = [left EXCEPT ![Head(calling)] = 0]
    /\ answers' = [answers EXCEPT ![Head(calling)] = @ + 1]
    /\ UNCHANGED <<handle, count, queue, completed, wire, status, pollout, fed,
                   writable, shutting, shut>>

\* Slip: shutdown(2) does not wait for the queue.
SlipDrainAtOnce ==
    /\ io \in {"calls", "called"} /\ calling = <<>>
    /\ shutting # None
    /\ io' = "drained"
    /\ shutting' = None
    /\ answers' = [answers EXCEPT ![shutting] = @ + 1]
    /\ status' = [status EXCEPT ![shutting] = "ok"]
    /\ shut' = TRUE
    /\ UNCHANGED <<handle, count, sending, pollout, fed, writable>>

\* Slip: shutdown_req stays set.
SlipDrainKeepsRequest ==
    /\ io \in {"calls", "called"} /\ calling = <<>>
    /\ queue = <<>> /\ shutting # None
    /\ io' = "drained"
    /\ answers' = [answers EXCEPT ![shutting] = @ + 1]
    /\ status' = [status EXCEPT ![shutting] = "ok"]
    /\ shut' = TRUE /\ pollout' = FALSE
    /\ UNCHANGED <<handle, count, sending, fed, writable, shutting>>

\* uv__drain with a shutdown to do: canceled if the stream was closed, else
\* shutdown(2).
Drain ==
    /\ io \in {"calls", "called"} /\ calling = <<>>
    /\ queue = <<>> /\ shutting # None
    /\ io' = "drained"
    /\ shutting' = None
    /\ answers' = [answers EXCEPT ![shutting] = @ + 1]
    /\ \E outcome \in {"ok", "error", "canceled"} :
         /\ outcome = "canceled" <=> handle # "open"
         /\ status' = [status EXCEPT ![shutting] = outcome]
         /\ shut' = (shut \/ outcome = "ok")
    /\ pollout' = FALSE
    /\ UNCHANGED <<handle, count, sending, fed, writable>>

\* The end of uv__stream_io, with the rest of uv__drain if the queue is empty;
\* or of uv__stream_destroy, whereupon stream::close's callback frees all.
IoEnds ==
    /\ \/ io = "drained"
       \/ /\ io \in {"calls", "called"} /\ calling = <<>>
          /\ queue # <<>> \/ shutting = None
    /\ io' = "idle"
    /\ pollout' = (pollout /\ queue # <<>>)
    /\ handle' = IF handle = "destroying" THEN "closed" ELSE handle
    /\ UNCHANGED <<count, sending, status, answers, fed, writable, shutting,
                   shut>>

\* Slip: what is queued is not flushed.
SlipDestroyForgets ==
    /\ handle = "closing" /\ io = "idle"
    /\ handle' = "destroying" /\ io' = "calls"
    /\ calling' = completed /\ completed' = <<>>
    /\ UNCHANGED <<count, queue, left, wire, status, answers, pollout, fed,
                   writable, shutting, shut>>

\* uv__finish_close, uv__stream_destroy: what is queued is canceled behind
\* what is completed, and all of it is called back.
Destroy ==
    /\ handle = "closing" /\ io = "idle"
    /\ handle' = "destroying" /\ io' = "calls"
    /\ status' = [j \in Jobs |-> IF \E i \in DOMAIN queue : queue[i] = j
                                 THEN "canceled" ELSE status[j]]
    /\ calling' = completed \o queue
    /\ completed' = <<>> /\ queue' = <<>>
    /\ UNCHANGED <<count, left, wire, answers, pollout, fed, writable, shutting,
                   shut>>

Loop == IoBegins \/ Writing \/ CallbacksBegin \/ CallBack \/ Drain \/ IoEnds
          \/ Destroy

User == \/ \E w \in Writes : Write(w)
        \/ \E s \in Shutdowns : Shutdown(s)
        \/ Close

\* Nothing happens to a closed stream.
Ended ==
    /\ handle = "closed"
    /\ UNCHANGED vars

Next == User \/ ReadFails \/ Loop \/ Ended

Spec == Init /\ [][Next]_vars

\* The loop runs; and the peer, as long as it is asked, takes bytes or goes.
Progress == Writing /\ ~(UNCHANGED <<wire, status>>)
FairSpec == Spec /\ WF_vars(Loop) /\ SF_vars(Progress)

-----------------------------------------------------------------------------
(* Properties.                                                             *)

\* Every variable stays within the values the code can give it; in particular
\* no more bytes go out than were written.
TypeOK ==
    /\ handle \in {"open", "closing", "destroying", "closed"}
    /\ io \in {"idle", "writing", "written", "calls", "called", "drained"}
    /\ count \in 0 .. Burst
    /\ queue \in Seq(Writes) /\ completed \in Seq(Writes)
    /\ calling \in Seq(Writes)
    /\ left \in [Writes -> 0 .. Length]
    /\ status \in [Jobs -> {"none", "ok", "error", "canceled", "refused"}]
    /\ answers \in [Jobs -> 0 .. 1]
    /\ wire \in Seq(Writes) /\ Len(wire) <= MaxWrites * Length
    /\ pollout \in BOOLEAN /\ fed \in BOOLEAN
    /\ writable \in BOOLEAN /\ shut \in BOOLEAN
    /\ shutting \in Shutdowns \cup {None}

Bytes(w) == Cardinality({i \in DOMAIN wire : wire[i] = w})

\* The writes go out in the order in which they were made and unmixed, and all
\* of each that is answered without an error.
WireInOrder ==
    /\ \A i, j \in DOMAIN wire : i < j => wire[i] <= wire[j]
    /\ \A w \in Writes : status[w] = "ok" => Bytes(w) = Length

\* Writes that were accepted are answered in the order in which they were made,
\* whichever callbacks write, shut down or close.
AnsweredInOrder ==
    \A v, w \in Writes :
        v < w /\ answers[w] > 0 /\ status[w] # "refused" => answers[v] > 0

\* shutdown(2) comes after every accepted write is out or has failed: none is
\* still queued, none will be canceled.
ShutdownDrains ==
    shut => \A w \in Writes : /\ status[w] # "canceled"
                              /\ w \in Queued => status[w] # "none"

\* No byte follows shutdown(2).
NothingAfterShutdown == [][shut => UNCHANGED wire]_vars

\* shutdown(2) is the last thing done to the wire.
ShutdownIsLast == []ShutdownDrains /\ NothingAfterShutdown

\* The stream's memory is freed only when no request refers to it any more.
ClosedMeansAnswered == handle = "closed" => Pending = {}

\* Every write and shutdown is answered once.
CallsOnce == INSTANCE Requests WITH Calls <- Jobs, pending <- Pending
RequestsSpec == CallsOnce!Spec

\* Every write and shutdown is answered: after partial writes, errors of the
\* writes before it, a burst that is too long, or a close.
AllAnswered == \A j \in Jobs : j \in Pending ~> answers[j] > 0
==============================================================================
