------------------------------ MODULE Directory ------------------------------
(***************************************************************************)
(* cpp::luv::directory::{open,read,close} under cpp.asio.Directory's open, *)
(* read, iter and close, with libuv's readdir on a pool thread.  The       *)
(* uv_dir_t is shared: the loop's thread points dir->dirents at the        *)
(* buffer of the newest read, the worker stores the name it read there,    *)
(* and uv_fs_req_cleanup frees what it finds there.                        *)
(***************************************************************************)
EXTENDS Naturals

CONSTANTS
    Entries,        \* entries of the directory, "." and ".." not counted
    MaxReads,       \* bound on the reads of one behaviour
    Clients,        \* a client calls read ("reads") or iter ("iter")
    ClosesEarly     \* close may be called while reads are pending or to come

ASSUME DirectoryAssumption ==
    /\ Entries \in Nat /\ MaxReads \in Nat /\ MaxReads > Entries
    /\ Clients \subseteq {"reads", "iter"}
    /\ ClosesEarly \in BOOLEAN

Reads == 1 .. MaxReads
None  == 0          \* no request; a NULL pointer; a NULL name
Names == 0 .. Entries   \* an entry stands for its name

VARIABLES
    client,     \* which of Clients uses the directory
    dir,        \* none, opening, opened, failed, live, freed
    pos,        \* entries the kernel's DIR stream has given out
    dirents,    \* dir->dirents: the read whose buffer it points at
    rd,         \* life of each read: idle, queued, got, done, called, over
    got,        \* the entry a worker holds between readdir and the store
    result,     \* req->result: none, entry (1), eof (0), error (< 0)
    name,       \* the name pointer in each read's uv_dirent_t
    buf,        \* each read's ReaddirData: none, live, freed
    cb,         \* the read whose callback is running
    closing,    \* the close request: idle, queued, done, called
    count,      \* Success answers so far
    last,       \* the last answer: none, entry, eof, error
    shown,      \* the name of the last Success answer
    leaked,     \* names whose last pointer was dropped
    misuse,     \* who used freed memory: issue, worker, cleanup
    closedIn    \* history: the read in whose callback close was called

vars == <<client, dir, pos, dirents, rd, got, result, name, buf, cb, closing,
          count, last, shown, leaked, misuse, closedIn>>

worker == <<pos, got, result>>
answers == <<count, last, shown>>
memory == <<leaked, misuse, closedIn>>

\* A read that the pool or the loop still has to deal with.
Pending == {k \in Reads : rd[k] \in {"queued", "got", "done"}}

Init ==
    /\ client \in Clients
    /\ dir = "none" /\ pos = 0 /\ dirents = None
    /\ rd = [k \in Reads |-> "idle"]
    /\ got = [k \in Reads |-> None]
    /\ result = [k \in Reads |-> "none"]
    /\ name = [k \in Reads |-> None]
    /\ buf = [k \in Reads |-> "none"]
    /\ cb = None /\ closing = "idle"
    /\ count = 0 /\ last = "none" /\ shown = None
    /\ leaked = {} /\ misuse = {} /\ closedIn = None

-----------------------------------------------------------------------------
(* Directory.open.                                                         *)

Open ==
    /\ dir = "none"
    /\ dir' = "opening"
    /\ UNCHANGED <<client, worker, dirents, rd, name, buf, cb, closing, answers,
                   memory>>

WorkerOpens ==
    /\ dir = "opening"
    /\ dir' \in {"opened", "failed"}
    /\ UNCHANGED <<client, worker, dirents, rd, name, buf, cb, closing, answers,
                   memory>>

OpenAnswered ==
    /\ dir = "opened"
    /\ dir' = "live"
    /\ UNCHANGED <<client, worker, dirents, rd, name, buf, cb, closing, answers,
                   memory>>

-----------------------------------------------------------------------------
(* directory::read.                                                        *)

\* The next request: a fresh ReaddirData, dir->dirents pointed at its entry,
\* uv_fs_readdir.  Both touch the uv_dir_t.
IssueRead(k) ==
    /\ rd[k] = "idle"
    /\ \A j \in 1 .. k - 1 : rd[j] # "idle"
    /\ rd' = [rd EXCEPT ![k] = "queued"]
    /\ buf' = [buf EXCEPT ![k] = "live"]
    /\ dirents' = k
    /\ misuse' = misuse \cup {u \in {"issue"} : dir = "freed"}
    /\ UNCHANGED <<client, dir, worker, name, cb, closing, answers, leaked,
                   closedIn>>

\* Slip: a client calls read again inside the callback of its last read.
SlipReadsInCallback(k) ==
    /\ dir = "live" /\ closing = "idle"
    /\ Pending = {}
    /\ client = "iter" => k = 1
    /\ IssueRead(k)

\* A client calls read again, or iter once, when its last read is over.
ClientReads(k) ==
    /\ dir = "live" /\ closing = "idle"
    /\ cb = None /\ Pending = {}
    /\ client = "iter" => k = 1
    /\ IssueRead(k)

\* Slip: iter reads on whatever the answer was.
SlipIterIgnoresError ==
    /\ client = "iter" /\ cb # None
    /\ cb + 1 \in Reads
    /\ IssueRead(cb + 1)

\* Slip: iter reads on once only.
SlipIterReadsOnOnce ==
    /\ client = "iter" /\ cb # None /\ result[cb] = "entry"
    /\ cb = 1 /\ cb + 1 \in Reads
    /\ IssueRead(cb + 1)

\* iter's own success callback reads on, after the client's callback and
\* whatever the client did there.
IterReadsOn ==
    /\ client = "iter" /\ cb # None /\ result[cb] = "entry"
    /\ cb + 1 \in Reads
    /\ IssueRead(cb + 1)

\* uv__fs_readdir, up to readdir(): an entry, the end, or an error.
WorkerTakes(k) ==
    /\ rd[k] = "queued"
    /\ \/ /\ pos < Entries
          /\ pos' = pos + 1
          /\ got' = [got EXCEPT ![k] = pos + 1]
          /\ rd' = [rd EXCEPT ![k] = "got"]
          /\ UNCHANGED result
       \/ /\ pos = Entries
          /\ rd' = [rd EXCEPT ![k] = "done"]
          /\ result' = [result EXCEPT ![k] = "eof"]
          /\ UNCHANGED <<pos, got>>
       \/ /\ rd' = [rd EXCEPT ![k] = "done"]
          /\ result' = [result EXCEPT ![k] = "error"]
          /\ UNCHANGED <<pos, got>>
    /\ misuse' = misuse \cup {u \in {"worker"} : dir = "freed"}
    /\ UNCHANGED <<client, dir, dirents, name, buf, cb, closing, answers,
                   leaked, closedIn>>

\* The rest of it: the copied name goes where dir->dirents points now.
WorkerStores(k) ==
    /\ rd[k] = "got"
    /\ name' = [name EXCEPT ![dirents] = got[k]]
    /\ leaked' = leaked \cup ({name[dirents]} \ {None})
    /\ result' = [result EXCEPT ![k] = "entry"]
    /\ rd' = [rd EXCEPT ![k] = "done"]
    /\ misuse' = misuse \cup
         {u \in {"worker"} : dir = "freed" \/ buf[dirents] = "freed"}
    /\ UNCHANGED <<client, dir, pos, dirents, got, buf, cb, closing, answers,
                   closedIn>>

\* Slip: the end of the directory is taken for an entry.
SlipAnswerEofAsEntry(k) ==
    /\ rd[k] = "done" /\ cb = None
    /\ rd' = [rd EXCEPT ![k] = "called"]
    /\ cb' = k
    /\ last' = IF result[k] = "eof" THEN "entry" ELSE result[k]
    /\ IF last' = "entry" THEN count' = count + 1 /\ shown' = name[k]
                          ELSE UNCHANGED <<count, shown>>
    /\ UNCHANGED <<client, dir, worker, dirents, name, buf, closing, memory>>

\* The loop calls the wrapper, which answers Success with the name in the
\* request's own buffer, or Error with UV_EOF or the error.
AnswerRead(k) ==
    /\ rd[k] = "done" /\ cb = None
    /\ rd' = [rd EXCEPT ![k] = "called"]
    /\ cb' = k
    /\ last' = result[k]
    /\ IF result[k] = "entry" THEN count' = count + 1 /\ shown' = name[k]
                              ELSE UNCHANGED <<count, shown>>
    /\ UNCHANGED <<client, dir, worker, dirents, name, buf, closing, memory>>

\* Slip: no uv_fs_req_cleanup.
SlipNoCleanup == name

\* What uv_fs_req_cleanup leaves of the names: it frees as many names as the
\* request read, in the buffer dir->dirents points at now.
Cleaned == [name EXCEPT ![dirents] = IF result[cb] = "entry" THEN None ELSE @]

\* The wrapper's end: uv_fs_req_cleanup unless the read failed, then the
\* ReaddirData goes, with any name still in it.  The cleanup reads dir->dirents
\* even when the request read nothing.
ReadReturns ==
    /\ cb # None
    /\ client = "iter" /\ result[cb] = "entry" /\ cb + 1 \in Reads
         => rd[cb + 1] # "idle"
    /\ name' = [Cleaned EXCEPT ![cb] = None]
    /\ leaked' = leaked \cup ({Cleaned[cb]} \ {None})
    /\ misuse' = misuse \cup
         {u \in {"cleanup"} : result[cb] # "error" /\ dir = "freed"}
    /\ rd' = [rd EXCEPT ![cb] = "over"]
    /\ buf' = [buf EXCEPT ![cb] = "freed"]
    /\ cb' = None
    /\ UNCHANGED <<client, dir, worker, dirents, closing, answers, closedIn>>

-----------------------------------------------------------------------------
(* Directory.close.                                                        *)

\* Slip: close is called while a read is pending.
SlipCloseAnyTime ==
    /\ dir = "live" /\ closing = "idle"
    /\ closing' = "queued" /\ closedIn' = cb
    /\ UNCHANGED <<client, dir, worker, dirents, rd, name, buf, cb, answers,
                   leaked, misuse>>

\* A client closes when no read of its own is to come: outside the callbacks,
\* in one of read's, or in iter's for the end or an error.  One that closes
\* early may do so with a read pending, or in any callback of iter, where its
\* code runs before iter reads on.
Close ==
    /\ dir = "live" /\ closing = "idle"
    /\ \/ /\ Pending = {}
          /\ client = "iter" /\ cb # None => result[cb] # "entry"
       \/ /\ ClosesEarly
          /\ cb # None => \A k \in Reads : k > cb => rd[k] = "idle"
    /\ closing' = "queued" /\ closedIn' = cb
    /\ UNCHANGED <<client, dir, worker, dirents, rd, name, buf, cb, answers,
                   leaked, misuse>>

\* uv__fs_closedir frees the uv_dir_t.
WorkerCloses ==
    /\ closing = "queued"
    /\ closing' = "done"
    /\ dir' = "freed"
    /\ UNCHANGED <<client, worker, dirents, rd, name, buf, cb, answers,
                   memory>>

CloseAnswered ==
    /\ closing = "done" /\ cb = None
    /\ closing' = "called"
    /\ UNCHANGED <<client, dir, worker, dirents, rd, name, buf, cb, answers,
                   memory>>

Pool == \/ WorkerOpens \/ WorkerCloses
        \/ \E k \in Reads : WorkerTakes(k) \/ WorkerStores(k)

LoopThread == \/ OpenAnswered \/ CloseAnswered \/ IterReadsOn \/ ReadReturns
              \/ \E k \in Reads : AnswerRead(k)

Ended ==
    /\ dir = "failed" \/ (closing = "called" /\ Pending = {} /\ cb = None)
    /\ UNCHANGED vars

Next ==
    \/ Open \/ Close
    \/ \E k \in Reads : ClientReads(k)
    \/ Pool
    \/ LoopThread
    \/ Ended

Spec == Init /\ [][Next]_vars

\* The pool runs what it was given, the loop answers, callbacks return.
FairSpec == Spec /\ WF_vars(Pool) /\ WF_vars(LoopThread)

-----------------------------------------------------------------------------
(* Properties.                                                             *)

\* Every variable stays within the values the code can give it; in particular
\* no more entries are answered than the directory has.
TypeOK ==
    /\ client \in Clients
    /\ dir \in {"none", "opening", "opened", "failed", "live", "freed"}
    /\ pos \in Names /\ count \in Names
    /\ dirents \in Reads \cup {None} /\ cb \in Reads \cup {None}
    /\ rd \in [Reads -> {"idle", "queued", "got", "done", "called", "over"}]
    /\ result \in [Reads -> {"none", "entry", "eof", "error"}]
    /\ got \in [Reads -> Names] /\ name \in [Reads -> Names]
    /\ buf \in [Reads -> {"none", "live", "freed"}]
    /\ closing \in {"idle", "queued", "done", "called"}
    /\ last \in {"none", "entry", "eof", "error"}
    /\ shown \in Names /\ leaked \subseteq Names \ {None}
    /\ misuse \subseteq {"issue", "worker", "cleanup"}
    /\ closedIn \in Reads \cup {None}

\* The i-th Success answer carries the name of the i-th entry.
NamesEveryEntry == last = "entry" => shown = count

\* A client that waits for each read to be over gets every name.
ReadsNameEveryEntry == client = "reads" => NamesEveryEntry

\* No name read by such a client is lost unfreed, as long as the cleanup does
\* not look for it in freed memory.
ReadsLeakNothing == client = "reads" /\ misuse = {} => leaked = {}

\* A client that waits gets every name, and none is lost unfreed.
NamesKept == ReadsNameEveryEntry /\ ReadsLeakNothing

\* A client that closes with no read pending never has the worker or the next
\* request use the uv_dir_t after closedir freed it, nor a name stored in a
\* buffer whose request is over.  What is left is uv_fs_req_cleanup after a
\* callback in which the client itself closed, and which was not for an error.
OnlyCleanupMisuses ==
    /\ misuse \subseteq {"cleanup"}
    /\ misuse # {} => closedIn # None /\ result[closedIn] # "error"

\* Nobody uses the uv_dir_t after closedir freed it, whether the client closes
\* outside the callbacks or, as the example of the repository's README does,
\* in iter's callback for the end.
NoUseAfterFree == misuse = {}

\* read and iter answer as Listing says: as many Success answers as there are
\* entries, and UV_EOF only after the last of them.
AbstractListing == INSTANCE Listing WITH N <- Entries
ListingSpec == AbstractListing!Spec

\* iter calls back no more once it has answered an error or UV_EOF.
NoAnswerAfterError ==
    [][client = "iter" /\ last \in {"eof", "error"} =>
         UNCHANGED answers]_vars

\* An iteration that began reaches its error or UV_EOF.
IterEnds ==
    client = "iter" /\ rd[1] # "idle" ~> last \in {"eof", "error"}

\* iter goes on to its end and stops there.
IterRunsToEnd == NoAnswerAfterError /\ IterEnds

\* "No more `read` or `iter` calls can be made after closing, any pending
\* requests will also be cancelled": when close is answered no read is left.
NoReadOutlivesClose == misuse = {} /\ closing = "called" => Pending = {}
==============================================================================
