# hxcpp_luv_io in TLA+

This directory holds TLA+ models of hxcpp_luv_io, the libuv-backed asynchronous
I/O and event loop for Haxe's C++ target: modules that follow the code in
`src/src/cpp` and the parts of libuv 1.48 it drives, TLC configurations that
check them on small instances, and TLAPS proofs that hold for every instance.

Paths below are relative to the repository (`src/cpp/...`, `libuv-1.48.0/...`).

## 1. The system

A Haxe program owns a `uv_loop_t` per thread. Everything happens on that
thread, except the jobs libuv gives to its thread pool and `async::send`, which
any thread may call. Each C++ binding has the same shape: allocate a handle or
request, keep the Haxe callback alive as a GC root reachable from `data`, call
libuv, and in the C callback leave the GC-free zone (`AutoGCZone`), call the
Haxe closure and give everything back.

| part | files | state | operations | interacts through |
|---|---|---|---|---|
| loop | `luv/HxcppLuv.cpp` | `uv_loop_t`: handles, active requests, stop flag, closing queue | alloc, run (default, once, nowait), stop, shutdown, free | runs every callback of the others |
| timers | `luv/HxcppLuvTimer.cpp` | handle, heap, ready queue, rooted task | repeat, run, stop, close | callbacks inside `uv__run_timers` |
| asyncs | `luv/HxcppLuvAsync.cpp` | handle, pending flag, the loop's eventfd | init, send, ref, unref, close | other threads, `uv__async_io` |
| GC | `utils/AutoGCZone.cpp`, `utils/RootedObject.cpp` | zone of the thread, set of roots | enter and leave, root and drop | every wrapper |
| directory | `luv/HxcppLuvDirectory.cpp`, `asio/Directory.hx` | `uv_dir_t`, its `dirents` pointer, the buffer of each read | open, read, iter, close | pool threads, which share the `uv_dir_t` |
| file | `luv/HxcppLuvFile.cpp`, `asio/File.hx` | descriptor and its position, offset and array of each read | open, read, write, close | the loop's io_uring and pool threads, which share the descriptor |
| stream | `luv/HxcppLuvStream.cpp`, `luv/streams/*.hx` | write queues, shutdown request, watcher; `StreamData` for reading | read, stop, write, shutdown, close | the loop's poll and pending queue |
| TCP, pipe, TTY | `luv/HxcppLuv{Tcp,Pipe,TTY}.cpp` | a handle whose stream is the one above; a server's callback | bind, listen, accept; open; init, close | stream |
| process | `luv/HxcppLuvProcess.cpp` | process handle, three pipes, exit callback | spawn, stdio, exit | stream, SIGCHLD through the loop's signal pipe |
| signal | `luv/HxcppLuvSignal.cpp` | handle, rooted callback | init, start, stop, close | the kernel's handler, the loop's signal pipe |
| work | `luv/HxcppLuvWork.cpp` | queued task | queue | pool threads, GC registration, `wq_async` |

What is hard here, and what correctness means:

* **Re-entrancy.** Every callback may close, stop, start or issue anything,
  while libuv is in the middle of a queue. Correct: what the loop can still call
  is live memory with a rooted callback, and nothing is called after its close.
* **Other threads.** Sends and finished jobs arrive at any point of a round.
  Correct: no wake-up is lost, each request is answered once.
* **Shared buffers.** A directory's `dirents` and a file descriptor's position
  belong to no request. Correct: a request's answer is made of its own data.
* **Shutdown.** `shutdownLoop` closes handles in any state, and `freeLoop` frees
  the loop. Correct: all is closed, the run ends, nothing live is freed.
* **One pipe for all signals.** The kernel coalesces SIGCHLD, the pipe has an end,
  and messages outlive the watchers they are for. Correct: no child's end is
  missed, no message reaches a freed handle or a deleted root.
* **Back-pressure.** A server stops polling while it holds a connection. Correct:
  it never polls while it holds one and never stays deaf when it does not.
* **Order.** Stream writes are split, fail, and are made inside callbacks of
  earlier ones. Correct: order on the wire, order of answers, shutdown last.

`PROJECT.json` lists each such hazard at its line with the properties that
cover it, and those no property covers yet with the reason.

## 2. Modules

| module | what it is |
|---|---|
| `EventLoop` | the loop, timers, asyncs, one-shot requests, GC zone, shutdown and free |
| `MCEventLoop` | its instances for TLC |
| `EventLoopProofs` | its theorems |
| `Listing` | abstract: what listing a directory answers |
| `Directory` | open, read, iter, close over libuv's readdir; implements `Listing` |
| `DirectoryProofs` | its theorems |
| `Requests` | abstract: a request is answered once |
| `File` | read, write, close on one descriptor; implements `Requests` |
| `MCFile`, `FileProofs` | instances and theorems |
| `Stream` | the writing half of a stream; implements `Requests` |
| `StreamRead` | the reading half |
| `StreamProofs`, `StreamReadProofs` | their theorems |
| `Wakeup` | abstract: what `async::send` promises |
| `AsyncSend` | the steps of `uv_async_send` against the loop, pool tasks and the collector; implements `Wakeup` |
| `AsyncSendProofs` | its theorems |
| `Round` | where the loop's thread is in an iteration, shared by the next three |
| `Signals` | signal handles and the loop's signal pipe |
| `Process` | spawn, the wait for children, exit callbacks, pipes (extends `Signals`) |
| `Tcp` | a server, its backlog and its connections |
| `Handles` | one loop that serves signals, processes and a server: composes the three |
| `HandlesProofs` | theorems about `Handles` |

Operators named `Slip...` are plausible mistakes, each beside the definition it
is a variant of. No specification uses them; they are there so that each property
can be seen to fail when the code is wrong (`mutants` in `PROJECT.json`).

### EventLoop

`phase` is where `uv_run` is: `pretimers`/`prefire` are the timers libuv runs
before the first round of `UV_RUN_DEFAULT`, then each round is `poll`, `events`
(finished requests, then the pass over the asyncs, then the closing handles),
`timers`, `fire`; `exit` is the way out. `cb` is the handle or request whose Haxe
callback runs; Haxe code runs when `cb # NoCb` or between two runs, and then any
`HaxeCall` is possible. `ready`, `visit` and `batch` are the queues libuv has
taken to its stack and works through: the re-entrancy hazards are the actions
that change them from inside a callback. `handle`, `mem` and `rooted` are a
handle's life in libuv, of its heap block, and of its Haxe callback; `closeCb`
tells a close by the binding (which frees) from one by `shutdownLoop`'s walk
(which passes no callback and keeps the memory).

The clock is abstract: any set of active timers may be due, except that a timer
of `timer::run` has timeout 0 and is always due. `uv_async_send` is one step;
`AsyncSend` shows that it may be. `wq_async`, the pool's own wake-up, is first in
the async pass, as it is the first handle made. A one-shot request is one that libuv
always gives to the pool (`directory::open`); those that may go to the io_uring, and are then
called back by `uv__poll_io_uring` without `wq_async`, are in `File`.

Closing twice, or closing what `shutdownLoop` already closed, violates libuv's
contract and is no step of the model; nor is `timer::close` on a handle of
`timer::run`. After `shutdownLoop` returns, the program only frees the loop.

### Directory

The worker's `readdir` is two steps, reading the entry and storing its copied
name through `dir->dirents`, since the loop's thread may move that pointer
between them. An entry stands for its name. `Cleaned` is `uv_fs_req_cleanup`. Two
clients: one calls `read` again when the last read is over, one calls `iter`, which
reads on inside its callback. A client closes when it has no read pending or to
come: outside the callbacks, or in the last one, as the README's example closes in
`iter`'s callback for the end. `ClosesEarly` lets `close` be called at any other time too.

`misuse` is who used the `uv_dir_t` or a read's buffer after it was freed: the next
request (`issue`), a pool thread (`worker`) or `uv_fs_req_cleanup` (`cleanup`).
`closedIn` is a history: the read in whose callback `close` was called. A client that
closes inside a callback races with the cleanup that follows it
(`directory_close_inside`), so `NoUseAfterFree` does not hold; `OnlyCleanupMisuses` says
that this is all, and that without it nobody uses freed memory.

### File

A byte is represented by its position in the file. Reads at offset -1 go
through the descriptor's position, others do not; `cpp.asio.File` passes -1, other
callers of `cpp.luv.File` any offset. `read_callback` issues its own request again until the
file ends. Any request may fail at any time; close may overtake.

On Linux libuv 1.48 hands a read or a write that has a callback to the loop's io_uring
(`uv__iou_fs_read_or_write`; kernels from 5.10.186 on, unless `UV_USE_IO_URING=0`),
and to the pool when there is no ring or no room in it, or when the kernel refuses the
operation (`RingRefuses`). `Submit` chooses for each request, also for each one of a
chunked read, and the two ways differ:

* On the pool (`WorkerReads`, `WorkerWrites`, `WorkerWrote`) a read is one `read` or
  `pread`; a write is `uv__fs_write_all`'s loop of `write` calls, each of which takes
  and moves the descriptor's position in one step, and it may fail after some of them.
* On the ring (`RingTakes`, then `RingReads` or `RingWrites`) a request with offset -1 takes
  the position when the kernel begins it and sets it when it is done, with other requests'
  steps in between; a write that ends short is answered as it is. The
  kernel's side is external, modelled from the offset -1 that `linux.c:1039` gives it and
  what io_uring documents of that: requests in flight together do not order their positions.

`shared` is a history: two requests that use the position were under way together,
one of them on the ring. After that two writes may lie over each other, so
`WritesKept` claims `WritesStand` only for files opened to append and while `shared` is
false, which covers everything on the pool. `ReadsRight` holds on either way, since
it speaks of reads with an offset of their own.

Assumed: nobody truncates the file, a `write` on the pool is atomic per call, and the
descriptor's number is not used again. A close goes to the ring as well, where
it does what it does on the pool, so there is one action for it.

### Stream

`Try` is `uv__try_write` for the head of the queue: all of it, a part, nothing, or an
error. `io` says where `uv__stream_io`, or the flush in `uv__stream_destroy`, is;
user code runs in `called` and `drained`, which are inside the callbacks, and in
`idle`. `left` is a request's share of `write_queue_size`, on which the decision to
write at once rests, and which a failed request keeps until its callback.
Assumed: one connected nonblocking stream, no sent handles, no `uv_try_write`.
`ReadFails` is all the reading half does to this one, apart from `Close`, which is
in both modules.

### StreamRead

Each call of `read` has a number, and `reader` is the one whose callbacks
`StreamData` holds; `got` and `end` are what each was told. `io` says where
`uv__stream_io` is: in the loop of `uv__read`, in one of its callbacks (`told`, `ended`,
`failed`, where user code runs), or behind it, where a POLLHUP may end the reading
without another `read(2)`. The flags have libuv's names. Bytes are counted;
`Fills` takes what is there, up to the buffer. `PeerSends` and `PeerEnds` are the other end:
it sends, closes its side, goes away, or resets, and the kernel may drop what it holds
at a reset. POLLHUP is what the poll saw, not what is true later.

### AsyncSend

`pc[k]` is where the thread of task `k` is in `uv_async_send` (cheap read, busy,
exchange, write, not busy) or in its life on the pool; `lpc` where the loop's thread is:
in Haxe code, spinning in `uv_close`, in the pass of `uv__async_io`, in `uv__work_done`,
or waiting to enter or leave the GC-free zone. `Wq` is the loop's `wq_async`: a
finished task sends to it under `wq_mutex`. The collector belongs to hxcpp and is
modelled from how `AutoGCZone` and `onCallback` use it: it waits for every registered
thread that is not in the GC-free zone.

`Wakeup` knows no flags: a send takes effect once between its start and its
end, by asking for its handle's callback; what is asked is answered while a loop runs,
unless the handle is closed. The refinement maps `asked` to the set pending flags of
handles whose close has not begun, and a sender has taken effect once it has done
the exchange.

Assumed: memory is sequentially consistent (the relaxed first read is taken as an
ordinary one), the program starts a send only on an open handle, and the root of a
task may be dropped after its thread left the collector's list, as hxcpp allows. A
send already on its way when the handle is closed may reach it when the close callback has
deleted it: that is undefined, `undef` says so, and nothing is claimed
afterwards. The loop thread's own sends and `unref` are in `EventLoop` only. A task
that throws unwinds through libuv's C frames, which ends the program.

### Signals, Process, Tcp, Handles

`uv__signal_handler` writes one message per watcher into the signal pipe (`pipe`), the loop
reads up to 32 at a time (`batch`) and calls the watchers that still watch that signal. `Trapped`
is `caught_signals > dispatched_signals`, which keeps a closing handle from being
freed. SIGCHLD goes the same way to the loop's own watcher, whose callback looks at
every process (`toCheck`), while children may go on ending, and then calls the exit
callbacks. `raised` is one flag, as the kernel keeps one SIGCHLD pending however many
children ended. `dropped` is a history: the last SIGCHLD found the pipe full and no
other SIGCHLD in it. Only then may a child be forgotten, and the next SIGCHLD that is
written finds it all the same, which `ExitPending` and `AllTold` say. SIGINT without a watcher ends the program and is no step. On
Linux `SignalType` has the one value SIGINT: `start` cannot fail, so that it would report a
failure as the value 1 (`HxcppLuvSignal.cpp:32`) is seen only by reading.

In `Tcp` a connection goes from the kernel's `backlog` to the server's `accepted_fd`
(`held`) and to its own handle (`open`). `polled` is the server's POLLIN; it goes when
the connection callback returns with the connection still held, and comes back with
`Accept`. `ShedLoad` is the trick with the spare descriptor on EMFILE. Not every
connection is offered to the program: `ShedForCause` names which are `shed` (EMFILE while the
loop has its spare; the server's close) or `dropped` (held when the server is closed), and
`AllOffered` says that the others become `held`.
`TcpRequest.reject` does nothing, so a program that rejects a connection never hears
of another one: nothing in the repository promises otherwise, and `AllOffered` assumes
that the program does not sit on a connection for ever.

`Handles` composes them in one loop and lets every callback call anything: sockets
are served first, then the signal pipe, then the closing handles, as in
`uv__io_poll` and `uv_run`. Two things are undefined in the code and the model goes on with the
harmless outcome: the process handle and the refused client that are
deleted inside the handle queue (their blocks are not reused), and a closed server's root
deleted as a `StreamData` (the words behind it are null). A program stops a signal handle once for
each start, and does not listen again while a connection is held, which would run
into `uv__server_io`'s assertion.

## 3. What is model-checked

| run | bounds | shows |
|---|---|---|
| `event_loop` | one repeating and one run timer, one async, one request | `TypeOK`; `CallbacksSafe`: what can be called back is live and rooted, memory goes with its close, the GC zone fits the code that runs; `NoLostWakeup`; `NoCallbackAfterClose`; `ShutdownComplete`; `FinishedMeansNothingLeft`; `LoopAnswers`: under fairness sends and requests are answered and `shutdownLoop` returns |
| `event_loop_free` | the same | violated: a loop is freed with handles closing |
| `directory` | 3 entries, 5 reads, both clients | `NamesKept`, `OnlyCleanupMisuses`, `ListingSpec` (entries answered once, then the end), `IterRunsToEnd` (nothing after an error, and an end) |
| `directory_iter` | as above | violated: `iter` loses names |
| `directory_close_inside` | `iter` alone | violated: the cleanup reads a freed `uv_dir_t` |
| `directory_close` | early close | violated: reads outlive close |
| `file` | one read, two writes, a close, on the ring or the pool; an empty file, buffer 2, writes of 2 bytes and of 1 | `ReadsRight` (in order, and whole); `WritesKept`: writes count and keep their bytes, on the ring only while none shares the position; `RequestsSpec`, `AllAnswered` |
| `file_read` | one read alone, 3 bytes, buffer 2 | violated: a byte is read twice |
| `stream` | 3 writes of 2 bytes, 2 shutdowns, burst 1 | `WireInOrder`, `AnsweredInOrder`, `ShutdownIsLast`, `ClosedMeansAnswered`, `RequestsSpec`, `AllAnswered` |
| `stream_read` | 3 reads, 5 bytes, buffer 2, burst 2 | bytes only to the read that is on, the end after all bytes and once, reading goes on |
| `async_send` | one async and `wq_async`, two tasks with two sends each, one collection | `WakeupSpec`: a send takes effect at an instant and is answered; `NoWriteAfterClose`: after the spin of `uv_close` nobody writes for the handle; `NobodyStuck`: close, tasks and collection end |
| `handles` | one signal handle, two processes, one server with two connections, of which a program makes three, or the server and one other; pipe and batch of 2 messages, two SIGINTs, one EMFILE | `MessagesSafe`, `ExitPending`, `OneAtATime`, `ShedForCause`; under fairness `AllTold` (every child's end, also of one whose SIGCHLD was dropped when the next is written, and every close) and `AllOffered` (every connection that is not shed) |

Why the bounds are enough to be interesting. A handle's life has one close, so
each handle is made once. In the event loop one timer of each kind puts two timers in the ready
queue at once, and one async is enough to be closed in the middle of a pass, by the
callback of a request, which `wq_async` brings first in the same pass; the theorems
cover any number. In
the directory run 5 reads cover 3 entries, the end, and one read beyond it. In the file runs
the file is shorter than the buffer and grows by the writes, so the read takes
several chunks, whole or short, on the ring or not; two writes are enough for one
to go over the other, and one of them is long enough to be written in part; the theorems cover
more of each. Burst 1 stands for libuv's 32: with three writes the loop stops in the middle of a queue.
Two shutdowns give one accepted and one refused. In `async_send` two tasks meet in one send, one collection meets every state of the
other threads, and a second send of a task meets the handle's close. In `handles` two
children make one SIGCHLD, a SIGINT's message can share and fill the pipe of 2, a full
batch makes the loop read again, and one connection waits while another is held. A program
makes any pair of handles, and without a server also all three others, so that two children
end beside a pipe full of SIGINTs: the server counts for two in `Made`. Five bytes with
buffers of 2 and a burst of 2 fill a burst with a byte left over, and give whole and
short buffers; three reads give one refused, and one accepted between two others.

Fairness. `EventLoop`: the loop's thread goes on, a Haxe callback returns, each
job given to the pool is finished; nothing is assumed of what the program calls
or other threads send, and the clock need not advance. `Directory`, `File`: the
pool runs what it was given and the loop answers; the kernel completes what was
submitted to the io_uring, whose completions wake `uv__io_poll`, which calls them back. `Stream`: the loop runs, and if
it asks again and again for room the peer takes bytes or goes away (strong
fairness of `Progress`); without that a write to a peer that never reads is
never answered, which is correct. `StreamRead`: the loop runs and callbacks return; the
peer need do nothing. `AsyncSend`: each thread runs, the loop's too, and a Haxe thread
comes to a safe point when a collection waits for it; nobody need call send, close or queue.
`Handles`: the loop runs and the kernel delivers a SIGCHLD it has raised; no child need
end and no host connect. `AllOffered` is conditional on the program taking, or closing,
what it holds.

### Disagreements found

1. `freeLoop` ignores `uv_loop_close`'s refusal (`HxcppLuv.cpp:29`). A `stopLoop` called
   while nothing runs, or by a callback of `shutdownLoop`'s own run, makes that run
   return with close callbacks still to be made; then the loop is freed under the handles.
2. `Directory.iter` may answer an entry without a name: the wrapper cleans up
   after the callback that has already issued the next read, through the
   `dirents` pointer that read has moved (`HxcppLuvDirectory.cpp:106`).
3. Closing a directory in `iter`'s last callback, as the README's example does, races with the
   wrapper's own `uv_fs_req_cleanup`, which reads `dir->dirents` after the callback; a
   pool thread may have freed the `uv_dir_t` by then (`HxcppLuvDirectory.cpp:106`).
4. `Directory.close` is documented to cancel pending reads and does not; the
   worker can run `closedir` first.
5. `File.read` repeats the last byte of the first buffer of any file longer
   than 1024 bytes: it starts at the descriptor's position, -1, and goes on at
   -1 + 1024 (`HxcppLuvFile.cpp:145`).

Three more are plain from the code, show in no particular order of events, and have no run:

* Two writes outstanding on one descriptor may overwrite each other on the io_uring, which
  takes their position without `write`'s lock (`linux.c:1039`), although libuv's docs say that
  the ring changes nothing that can be observed (`fs.rst:16-18`). This is what the
  condition of `WritesKept` leaves out: without the condition TLC finds the overwriting. A
  program that waits for each write, or opens the file to append, is not exposed.
* A client whose `uv_accept` fails is deleted without `uv_close` (`HxcppLuvTcp.cpp:73`),
  and stays in the loop's handle queue. `lost` counts such clients.
* The exit callback of a process deletes the `uv_process_t` without `uv_close`
  (`HxcppLuvProcess.cpp:199`). It is still in the loop's handle queue, next to the
  pipes that are closed with it, so that taking those out writes to freed memory.

## 4. What is proved

The proofs use only the named assumptions on the constants (`IdsDisjoint`,
`DirectoryAssumption`, `FileAssumption`, `SignalsAssumption`,
`ProcessAssumption`, `TcpAssumption`, `StreamAssumption`,
`StreamReadAssumption`, `AsyncSendAssumption`: sizes are natural numbers, a write and a buffer
are not empty, model values are distinct) and hold for any finite or infinite sets of
handles, requests, reads and writes (signal handles: any finite set), any sizes, and any of the configurations.

* **EventLoop** (`EventLoopProofs`): `TypeCorrect`, `AlwaysCallbacksSafe` (with its
  parts `AlwaysDispatchSafe`, `AlwaysFreedByItsClose`, `AlwaysZoneMatchesCode`),
  `AlwaysNoLostWakeup`, and the
  action properties `NeverCalledAfterClose`, `RunResultSound`, `ShutdownSound`. The
  properties are not inductive. The invariant adds what the code relies on and
  says nowhere: which queue is non-empty in which phase, that closing removes a
  handle from all of them at once, that what is in a queue is open, that the
  memory and root of what is open or outstanding are there, and what `r` still
  guarantees at the exit of `uv_run`.
* **Directory** (`DirectoryProofs`): `TypeCorrect`; that every step of `Directory` is a step of
  `Listing` or a stutter (`Implements`), `NamesAlwaysKept` (`EveryNameRead` and
  `NoNameLeaked`); `MemorySafe`, that of clients that close when nothing is pending, in a
  callback or not, only the cleanup after the callback they closed in may use freed memory, and
  `SafeOutsideCallbacks`, that nobody does if they close elsewhere; `IterStopsAtEnd`, that
  `iter` answers nothing after an error or the end. The invariant says that
  one read at most is in flight and where `dirents` points meanwhile, for each of
  the two clients.
* **File** (`FileProofs`): `TypeCorrect`, `AlwaysRight` (`AlwaysInOrder` and `AlwaysWhole`), `AlwaysKept`, for any number
  of reads and writes at once, and `AnsweredOnce`, the refinement of `Requests`. The
  invariant ties a request's result, its buffer and its offset together between
  the worker's or the ring's step and the callback's, and the positions written to the
  descriptor's position (or the file's length in append mode). `AlwaysKept` covers the
  ring under the condition that `WritesKept` states; its invariant says that a write the ring
  has begun stands at the descriptor's position as long as `shared` is false.
* **Handles** (`HandlesProofs`): `HoldsOneAtATime`, for any number of connections and
  whatever else the loop serves; beside the property the invariant needs only that
  what is polled listens. `NoneLostWithoutCause`, from the same invariant: each connection that goes
  unheard does so for a cause `ShedForCause` names. `AlwaysMessagesSafe`, for any watchers, pipe and buffer: what
  watches is open and rooted, so a message is sound when it is written, and what a
  message refers to is not freed before it is dispatched. `AlwaysExitPending`, for any
  number of children: SIGCHLD has exactly one watcher from the first spawn on, so its
  message is never stale, and the buffer is empty whenever the pipe is read.
  What is dropped is excepted only until the next SIGCHLD is written. `TypeCorrect`, for the three parts together; that pipe and buffer keep their size rests on
  a lemma of its own, that a handler writes only what fits (`DeliverFits`).
* **Stream** (`StreamProofs`): `TypeCorrect`, `AlwaysInOrder`, `AlwaysAnsweredInOrder`,
  `NoRequestOutlivesStream`, `ShutdownComesLast`, and `AnsweredOnce`, the refinement of
  `Requests`. A write goes from `queue` to `completed` to `calling`, and callbacks may
  write into the first while the loop works through the last: the invariant says that
  each is increasing and all of one lies below all of the next (`OrderInv`), so that
  called back in order is inductive; that what is queued has exactly its missing bytes left and no
  later write a byte on the wire yet (`WireInv`, which counts the
  positions of the wire and needs the library's facts about cardinality and
  sequences); and which queues are empty in which phase of `uv__stream_io` and of
  `uv__stream_destroy` (`PhaseInv`), without which a stream might be freed with
  requests in it.
* **StreamRead** (`StreamReadProofs`): `TypeCorrect`, `AlwaysEndAfterData`,
  `NothingToldAfterEnd`, `OnlyTheReaderIsTold`. Behind the end after the data is the rule
  of `uv__stream_io` that a POLLHUP ends the reading only after a buffer that was not
  filled: the invariant says that once the peer is gone such a buffer was the last,
  also while user code still runs in the callback that got it.
* **AsyncSend** (`AsyncSendProofs`): `TypeCorrect`, `NeverWrittenAfterClose`, and
  `ImplementsWakeup`, for any number of handles, tasks, sends and collections. The invariant says
  that pending stays 1 from the close on, so that a thread that found it 0 finds the handle
  open and still counts as busy (`WriterInv`), and that nothing closes `wq_async`.
  The refinement goes step by step: most steps are none of `Wakeup`; the exchange is
  `Effect`, the callback in the pass `Answer`, the beginning of `uv_close` `Close`.

Only model-checked: liveness, which is out of the prover's reach: `LoopAnswers`,
`AllAnswered` (twice), `AllArrives`, `AllTold`, `AllOffered`, `NobodyStuck`, the
second half of `IterRunsToEnd` (that an iteration reaches its end), and the fairness of
`Wakeup!Spec`, which is why no theorem says `WakeupSpec` itself. Every safety property of a passing
run is stated by a theorem. The five violated runs show what the code does and are
nothing to prove.

## 5. Not modelled, and the plan

Not modelled: `errorToString`, `uv_library_shutdown`, failures for lack of
memory, exceptions thrown by Haxe callbacks through libuv's C frames, the opening of pipes
and terminals (one call each, without interleavings; what they carry is a stream),
arguments and environment of a process, the value types and
build glue, Windows' side of libuv, the timer heap's order, overlapping reads of one
directory, and offsets beyond an `int`, where the code is undefined.

The repository is mostly vendored: libuv for all its platforms, and curl, which nothing
under `src/src` uses. The bindings and the parts of libuv they reach on Linux are a small
share of its lines, and the models keep to them; what is modelled covers nearly all of
`src/src/cpp/luv`, and of libuv the loop, timers, asyncs, the pool's hand-over, streams, signals,
processes and the file and directory requests the bindings make.

Order of the work that follows:

1. The timer heap's order (due time, then start order) as a module of its own, and the
   abstract clock of `EventLoop` as what it implements.
2. `EventLoop`'s pass over the asyncs implements `Wakeup` too, which would say by a theorem what
   the two modules promise in common.
