-------------------------------- MODULE File --------------------------------
(***************************************************************************)
(* cpp::luv::file::{read,write,close} on one open file, as cpp.asio.File   *)
(* and other callers of cpp.luv.File use them: requests made on the loop's *)
(* thread, done by several pool threads at once, answered by the loop.     *)
(* On Linux libuv hands a read or a write to the kernel's io_uring first,  *)
(* and to the pool when there is no ring, when it is full, or when the     *)
(* kernel refuses the operation; each request goes either way here.        *)
(*                                                                         *)
(* A byte is represented by its position in the file.  The file may grow   *)
(* but is not truncated, and its descriptor's number is not used again     *)
(* after close.                                                            *)
(***************************************************************************)
EXTENDS Integers, Sequences, FiniteSets

CONSTANTS
    Readers, Writers,   \* the reads and the writes that may be requested
    Closer,             \* the close request
    Size,               \* bytes in the file when it is opened
    Chunk,              \* size of a read's buffer, 1024 in the code
    Length,             \* bytes of each write
    Offsets             \* file offsets a read may start at; -1: where the
                        \* descriptor stands

ASSUME FileAssumption ==
    /\ Size \in Nat /\ Length \in [Writers -> Nat] /\ Chunk \in Nat \ {0}
    /\ Offsets \subseteq Nat \cup {-1}
    /\ Readers \cap Writers = {} /\ Closer \notin Readers \cup Writers

Jobs == Readers \cup Writers \cup {Closer}
Error == -1     \* any negative result

VARIABLES
    append,     \* the file was opened with OpenMode.Append
    fd,         \* the descriptor: open, closed
    len,        \* the file's length
    fdpos,      \* the descriptor's own position
    stage,      \* life of each request: idle, queued, taken (begun by the
                \* ring), done, over
    ring,       \* the requests the io_uring holds
    at,         \* the place in the file a request begun by the ring works at
    shared,     \* history: two requests used the descriptor's position at
                \* once, one of them on the ring
    result,     \* req->result
    calls,      \* how often each callback was called
    success,    \* the requests answered without an error
    start,      \* the offset each read was requested at
    sizeAt,     \* the file's length when each read was requested
    offset,     \* ReadRequestData::offset, and so req->off
    from,       \* where in the file the bytes in a read's buffer come from,
                \* until they are collected
    array,      \* the bytes a read has collected
    total,      \* bytes each write has written, uv__fs_write_all's total
    written     \* the positions each write has written

vars == <<append, fd, len, fdpos, stage, ring, at, shared, result, calls,
          success, start, sizeAt, offset, from, array, total, written>>

reading == <<start, sizeAt, offset, array>>
writing == <<total, written>>
uring == <<ring, at, shared>>

Init ==
    /\ append \in BOOLEAN
    /\ fd = "open" /\ len = Size /\ fdpos = 0
    /\ stage = [j \in Jobs |-> "idle"]
    /\ ring = {} /\ at = [j \in Readers \cup Writers |-> 0] /\ shared = FALSE
    /\ result = [j \in Jobs |-> 0]
    /\ calls = [j \in Jobs |-> 0]
    /\ success = {}
    /\ start = [r \in Readers |-> 0] /\ sizeAt = [r \in Readers |-> 0]
    /\ offset = [r \in Readers |-> 0] /\ from = [r \in Readers |-> 0]
    /\ array = [r \in Readers |-> <<>>]
    /\ total = [w \in Writers |-> 0] /\ written = [w \in Writers |-> {}]

-----------------------------------------------------------------------------
(* The loop's thread makes requests, and none once it called close.        *)

MayCall(j) == stage[j] = "idle" /\ stage[Closer] = "idle"

\* uv__iou_fs_read_or_write takes the request or leaves it to the pool.
Submit(j) == ring' \in {ring, ring \cup {j}}

\* The requests under way whose place is the descriptor's position.
AtPosition == {j \in Readers \cup Writers :
                 /\ stage[j] \in {"queued", "taken"}
                 /\ j \in Readers => offset[j] < 0}

Sharing == \E i, j \in AtPosition : i # j /\ i \in ring

Read(r) ==
    /\ MayCall(r)
    /\ stage' = [stage EXCEPT ![r] = "queued"]
    /\ Submit(r)
    /\ sizeAt' = [sizeAt EXCEPT ![r] = len]
    /\ \E o \in Offsets : /\ start' = [start EXCEPT ![r] = o]
                          /\ offset' = [offset EXCEPT ![r] = o]
    /\ shared' = (shared \/ Sharing')
    /\ UNCHANGED <<append, fd, len, fdpos, at, result, calls, success, from,
                   array, writing>>

\* File.write passes the fileOffset -1.
Write(w) ==
    /\ MayCall(w)
    /\ stage' = [stage EXCEPT ![w] = "queued"]
    /\ Submit(w)
    /\ UNCHANGED <<append, fd, len, fdpos, at, result, calls, success, reading,
                   from, writing>>
    /\ shared' = (shared \/ Sharing')

\* The ring closes as a pool thread does, so where a close goes is left out.
Close ==
    /\ MayCall(Closer)
    /\ stage' = [stage EXCEPT ![Closer] = "queued"]
    /\ UNCHANGED <<append, fd, len, fdpos, uring, result, calls, success,
                   reading, from, writing>>

-----------------------------------------------------------------------------
(* The pool's threads.                                                     *)

\* Slip: every read is a read() at the descriptor's position.
SlipReadAtDescriptor(r) == fdpos

\* uv__fs_read: a negative offset means read(), any other pread().
ReadAt(r) == IF offset[r] < 0 THEN fdpos ELSE offset[r]

\* As many bytes as the kernel gives, none at the end.
WorkerReads(r) ==
    /\ stage[r] = "queued" /\ r \notin ring /\ fd = "open"
    /\ \E n \in 0 .. Chunk :
         /\ n = 0 <=> ReadAt(r) >= len
         /\ n > 0 => ReadAt(r) + n <= len
         /\ result' = [result EXCEPT ![r] = n]
         /\ fdpos' = IF offset[r] < 0 THEN fdpos + n ELSE fdpos
    /\ from' = [from EXCEPT ![r] = ReadAt(r)]
    /\ stage' = [stage EXCEPT ![r] = "done"]
    /\ UNCHANGED <<append, fd, len, uring, calls, success, reading, writing>>

\* write(): at the end of a file opened to append, else at the descriptor's
\* position, which write() locks: other pool threads' wait.
WriteAt == IF append THEN len ELSE fdpos

\* One write() of uv__fs_write_all's loop; it may write a part only.
WorkerWrites(w) ==
    /\ stage[w] = "queued" /\ w \notin ring /\ fd = "open"
    /\ \E n \in 1 .. Length[w] - total[w] :
         /\ written' = [written EXCEPT ![w] =
                           @ \cup (WriteAt .. WriteAt + n - 1)]
         /\ total' = [total EXCEPT ![w] = @ + n]
         /\ fdpos' = WriteAt + n
         /\ len' = IF WriteAt + n > len THEN WriteAt + n ELSE len
    /\ UNCHANGED <<append, fd, stage, uring, result, calls, success, reading,
                   from>>

\* Slip: a write that failed half-way reports all it was asked for.
SlipWriteReportsLength(w) ==
    /\ stage[w] = "queued" /\ total[w] > 0
    /\ result' = [result EXCEPT ![w] = Length[w]]
    /\ stage' = [stage EXCEPT ![w] = "done"]
    /\ UNCHANGED <<append, fd, len, fdpos, uring, calls, success, reading, from,
                   writing>>

\* The loop ends: everything is written, or write() failed after a part was.
WorkerWrote(w) ==
    /\ stage[w] = "queued" /\ w \notin ring
    /\ total[w] > 0 \/ (Length[w] = 0 /\ fd = "open")
    /\ result' = [result EXCEPT ![w] = total[w]]
    /\ stage' = [stage EXCEPT ![w] = "done"]
    /\ UNCHANGED <<append, fd, len, fdpos, uring, calls, success, reading, from,
                   writing>>

\* What has ended has no place in the file.
Leave(j) ==
    at' = [q \in Readers \cup Writers |-> IF q = j THEN 0 ELSE at[q]]

\* The pool's or the ring's system call fails; with EBADF if the descriptor is
\* closed.
Fails(j) ==
    /\ stage[j] \in {"queued", "taken"}
    /\ j \in Writers => total[j] = 0
    /\ result' = [result EXCEPT ![j] = Error]
    /\ stage' = [stage EXCEPT ![j] = "done"]
    /\ ring' = ring \ {j} /\ Leave(j)
    /\ fd' = IF j = Closer THEN "closed" ELSE fd
    /\ UNCHANGED <<append, len, fdpos, shared, calls, success, reading, from,
                   writing>>

\* close() does not wait for other requests, nor are they cancelled.
WorkerCloses ==
    /\ stage[Closer] = "queued"
    /\ fd' = "closed"
    /\ stage' = [stage EXCEPT ![Closer] = "done"]
    /\ UNCHANGED <<append, len, fdpos, uring, result, calls, success, reading,
                   from, writing>>

-----------------------------------------------------------------------------
(* The io_uring.  For an offset of -1 the kernel reads the descriptor's    *)
(* position when it begins a request and sets it when the request is done, *)
(* without the lock of write(): requests in flight may have one position.  *)

RingTakes(j) ==
    /\ j \in ring /\ stage[j] = "queued" /\ fd = "open"
    /\ at' = [at EXCEPT ![j] = IF j \in Readers THEN ReadAt(j) ELSE fdpos]
    /\ stage' = [stage EXCEPT ![j] = "taken"]
    /\ UNCHANGED <<append, fd, len, fdpos, ring, shared, result, calls, success,
                   reading, from, writing>>

\* A READV is done.
RingReads(r) ==
    /\ stage[r] = "taken"
    /\ \E n \in 0 .. Chunk :
         /\ n = 0 <=> at[r] >= len
         /\ n > 0 => at[r] + n <= len
         /\ result' = [result EXCEPT ![r] = n]
         /\ fdpos' = IF offset[r] < 0 THEN at[r] + n ELSE fdpos
    /\ from' = [from EXCEPT ![r] = at[r]]
    /\ stage' = [stage EXCEPT ![r] = "done"]
    /\ ring' = ring \ {r} /\ Leave(r)
    /\ UNCHANGED <<append, fd, len, shared, calls, success, reading, writing>>

\* Where a WRITEV writes.
RingWriteAt(w) == IF append /\ Length[w] > 0 THEN len ELSE at[w]

\* A WRITEV of n bytes ends, with a result of k.
RingWrote(w, n, k) ==
    /\ written' = [written EXCEPT ![w] =
                      RingWriteAt(w) .. RingWriteAt(w) + n - 1]
    /\ total' = [total EXCEPT ![w] = n]
    /\ fdpos' = RingWriteAt(w) + n
    /\ len' = IF RingWriteAt(w) + n > len THEN RingWriteAt(w) + n ELSE len
    /\ result' = [result EXCEPT ![w] = k]
    /\ stage' = [stage EXCEPT ![w] = "done"]
    /\ ring' = ring \ {w} /\ Leave(w)
    /\ UNCHANGED <<append, fd, shared, calls, success, reading, from>>

\* Slip: a short write is reported as a whole one.
SlipRingReportsLength(w) ==
    /\ stage[w] = "taken"
    /\ \E n \in 0 .. Length[w] :
         (n = 0 <=> Length[w] = 0) /\ RingWrote(w, n, Length[w])

\* A WRITEV is done, and answered as it is: nobody writes the rest.
RingWrites(w) ==
    /\ stage[w] = "taken"
    /\ \E n \in 0 .. Length[w] : (n = 0 <=> Length[w] = 0) /\ RingWrote(w, n, n)

\* The kernel does not support the operation: uv__poll_io_uring posts the
\* request to the pool.
RingRefuses(j) ==
    /\ j \in ring /\ stage[j] = "queued"
    /\ ring' = ring \ {j}
    /\ UNCHANGED <<append, fd, len, fdpos, stage, at, shared, result, calls,
                   success, reading, from, writing>>

-----------------------------------------------------------------------------
(* The loop's thread answers.                                              *)

\* The request is answered and freed.
Answer(j) ==
    /\ calls' = [calls EXCEPT ![j] = @ + 1]
    /\ success' = IF result[j] < 0 THEN success ELSE success \cup {j}
    /\ stage' = [stage EXCEPT ![j] = "over"]

\* Slip: a short read is taken for the end of the file.
SlipAnsweredShort(j) ==
    /\ stage[j] = "done"
    /\ j \in Readers => result[j] < Chunk
    /\ Answer(j)
    /\ UNCHANGED <<append, fd, len, fdpos, uring, result, reading, from,
                   writing>>

\* The callbacks of write and close, and read_callback at an error or at the
\* end of the file.
Answered(j) ==
    /\ stage[j] = "done"
    /\ j \in Readers => result[j] <= 0
    /\ Answer(j)
    /\ UNCHANGED <<append, fd, len, fdpos, uring, result, reading, from,
                   writing>>

\* Slip: the whole buffer is kept, however many bytes were read.
SlipCollectsBuffer(r) == [i \in 1 .. Chunk |-> from[r] + i - 1]

\* The bytes a read's buffer holds.
Collected(r) == [i \in 1 .. result[r] |-> from[r] + i - 1]

\* Slip: each buffer is answered.
SlipReadOnAnswers(r) ==
    /\ stage[r] = "done" /\ result[r] > 0
    /\ offset' = [offset EXCEPT ![r] = @ + result[r]]
    /\ array' = [array EXCEPT ![r] = @ \o Collected(r)]
    /\ stage' = [stage EXCEPT ![r] = "queued"]
    /\ calls' = [calls EXCEPT ![r] = @ + 1]
    /\ UNCHANGED <<append, fd, len, fdpos, uring, result, success, start,
                   sizeAt, from, writing>>

\* Slip: a failure of the second uv_fs_read is not reported.
SlipReadOnSilent(r) ==
    /\ stage[r] = "done" /\ result[r] > 0
    /\ stage' = [stage EXCEPT ![r] = "over"]
    /\ UNCHANGED <<append, fd, len, fdpos, uring, result, calls, success,
                   reading, from, writing>>

\* read_callback with bytes: keep them and read on with the same request.
ReadOn(r) ==
    /\ stage[r] = "done" /\ result[r] > 0
    /\ offset' = [offset EXCEPT ![r] = @ + result[r]]
    /\ array' = [array EXCEPT ![r] = @ \o Collected(r)]
    /\ result' = [result EXCEPT ![r] = 0] /\ from' = [from EXCEPT ![r] = 0]
    /\ stage' = [stage EXCEPT ![r] = "queued"]
    /\ Submit(r)
    /\ UNCHANGED <<append, fd, len, fdpos, at, shared, calls, success, start,
                   sizeAt, writing>>

Pool ==
    \/ \E r \in Readers : WorkerReads(r)
    \/ \E w \in Writers : WorkerWrites(w) \/ WorkerWrote(w)
    \/ \E j \in Jobs \ ring : Fails(j)
    \/ WorkerCloses

Ring ==
    \/ \E j \in ring : RingTakes(j) \/ RingRefuses(j) \/ Fails(j)
    \/ \E r \in Readers : RingReads(r)
    \/ \E w \in Writers : RingWrites(w)

LoopThread ==
    \/ \E j \in Jobs : Answered(j)
    \/ \E r \in Readers : ReadOn(r)

\* The file is closed and every request made was answered.
Ended ==
    /\ stage[Closer] = "over"
    /\ \A j \in Jobs : stage[j] \in {"idle", "over"}
    /\ UNCHANGED vars

Next ==
    \/ \E r \in Readers : Read(r)
    \/ \E w \in Writers : Write(w)
    \/ Close
    \/ Pool
    \/ Ring
    \/ LoopThread
    \/ Ended

Spec == Init /\ [][Next]_vars

\* The pool and the ring do what they were given and the loop answers it.
FairSpec == Spec /\ WF_vars(Pool) /\ WF_vars(Ring) /\ WF_vars(LoopThread)

-----------------------------------------------------------------------------
(* Properties.                                                             *)

\* Every variable stays within the values the code can give it; in particular
\* what a read collects are bytes of the file.
TypeOK ==
    /\ append \in BOOLEAN /\ fd \in {"open", "closed"}
    /\ len \in Nat /\ fdpos \in 0 .. len
    /\ stage \in [Jobs -> {"idle", "queued", "taken", "done", "over"}]
    /\ ring \subseteq Readers \cup Writers /\ shared \in BOOLEAN
    /\ at \in [Readers \cup Writers -> Nat]
    /\ result \in [Jobs -> Nat \cup {Error}]
    /\ calls \in [Jobs -> Nat] /\ success \subseteq Jobs
    /\ start \in [Readers -> Nat \cup {-1}]
    /\ offset \in [Readers -> Nat \cup {-1}]
    /\ sizeAt \in [Readers -> Nat] /\ from \in [Readers -> Nat]
    /\ array \in [Readers -> Seq(Nat)]
    /\ \A r \in Readers : \A i \in 1 .. Len(array[r]) : array[r][i] < len
    /\ total \in [Writers -> Nat] /\ \A w \in Writers : total[w] <= Length[w]
    /\ written \in [Writers -> SUBSET Nat]
    /\ \A w \in Writers : \A p \in written[w] : p < len

\* A read that starts at an offset of its own collects the file's bytes from
\* there in order, each once, whatever its buffers hold and whatever other
\* requests do to the descriptor's position.
ReadsInOrder ==
    \A r \in Readers : start[r] >= 0 =>
        /\ Len(array[r]) = offset[r] - start[r]
        /\ \A i \in 1 .. Len(array[r]) : array[r][i] = start[r] + i - 1

\* Such a read is answered Success only with every byte that was in the file
\* from there on when it was requested.
ReadsWhole ==
    \A r \in Readers \cap success :
        start[r] >= 0 => Len(array[r]) >= sizeAt[r] - start[r]

\* A read with an offset returns the file's bytes from there: in order, all.
ReadsRight == ReadsInOrder /\ ReadsWhole

\* The count a write is answered with is how many bytes of the file are its
\* own, and no other write of the same descriptor went over them.
WritesStand ==
    /\ \A w \in Writers \cap success : Cardinality(written[w]) = result[w]
    /\ \A v, w \in Writers : v # w => written[v] \cap written[w] = {}

\* That is so of any writes on the pool, of any writes to a file opened to
\* append, and on the ring as long as no request that uses the descriptor's
\* position is under way beside another; but not beyond.
WritesKept == append \/ ~shared => WritesStand

\* However many reads a request needs it is answered once, and so is each
\* write and close.
CallsOnce == INSTANCE Requests WITH
    Calls <- Jobs,
    pending <- {j \in Jobs : stage[j] \in {"queued", "taken", "done"}},
    answers <- calls
RequestsSpec == CallsOnce!Spec

\* Every request made is answered, also when the file is closed meanwhile.
AllAnswered == \A j \in Jobs : stage[j] = "queued" ~> calls[j] > 0

\* "Read the entire files contents": a read answered Success, and run alone,
\* gives each byte of the file once and in order.
ReadsEntireFile ==
    \A r \in Readers \cap success : array[r] = [i \in 1 .. sizeAt[r] |-> i - 1]
==============================================================================
