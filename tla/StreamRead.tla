------------------------------ MODULE StreamRead ------------------------------
(***************************************************************************)
(* The reading half of cpp::luv::stream on one connected stream: read,     *)
(* stop and close, with uv__read and the end-of-file rules of              *)
(* uv__stream_io under them.                                               *)
(*                                                                         *)
(* Each read names new callbacks, which StreamData keeps until the next    *)
(* read that libuv accepts.  User code runs between the loop's steps and   *)
(* inside each callback, where it may stop, read again or close.  Bytes    *)
(* are counted; read(2) gives what is there, up to the buffer's size.      *)
(***************************************************************************)
EXTENDS Naturals

CONSTANTS
    MaxReads,   \* bound on the calls of stream::read
    MaxBytes,   \* bound on the bytes the peer sends
    BufLen,     \* the buffer's size, 65536 in the code
    Burst       \* buffers uv__read fills before it returns, 32 in the code

ASSUME StreamReadAssumption ==
    /\ MaxReads \in Nat /\ MaxBytes \in Nat
    /\ BufLen \in Nat \ {0} /\ Burst \in Nat \ {0}

Reads == 1 .. MaxReads
None == 0

VARIABLES
    handle,     \* open, closing, closed
    asked,      \* calls of stream::read so far; the last is the read of that number
    reader,     \* the read whose callbacks StreamData holds
    got,        \* bytes given to each read's success callback
    end,        \* what each read's failure callback was told
    reading,    \* UV_HANDLE_READING
    readable,   \* UV_HANDLE_READABLE
    pollin,     \* the watcher waits for POLLIN
    eof,        \* UV_HANDLE_READ_EOF
    partial,    \* UV_HANDLE_READ_PARTIAL
    io,         \* idle; in uv__read's loop (reading) or in one of its
                \* callbacks (told, again, ended, failed); behind it (checking,
                \* hungup)
    short,      \* the last read(2) did not fill the buffer
    count,      \* uv__read's count
    hup,        \* the poll reported POLLHUP
    peer,       \* open, closed (it sends no more), gone, reset
    sent,       \* bytes that have come in
    taken       \* bytes that read(2) has given out

user == <<asked, reader, got, end>>
flags == <<reading, readable, pollin, eof, partial>>
local == <<io, short, count, hup>>
net == <<peer, sent, taken>>
vars == <<handle, user, flags, local, net>>

Init ==
    /\ handle = "open"
    /\ asked = 0 /\ reader = None
    /\ got = [r \in Reads |-> 0]
    /\ end = [r \in Reads |-> "none"]
    /\ reading = FALSE /\ readable = TRUE /\ pollin = FALSE
    /\ eof = FALSE /\ partial = FALSE
    /\ io = "idle" /\ short = FALSE /\ count = 0 /\ hup = FALSE
    /\ peer = "open" /\ sent = 0 /\ taken = 0

-----------------------------------------------------------------------------
(* User code.                                                              *)

\* Between the loop's steps, or in a callback of this stream.
UserRuns ==
    /\ handle # "closed"
    /\ io \in {"idle", "told", "ended", "failed", "hungup"}

\* uv_read_start refuses.
Refuses == handle # "open" \/ reading \/ ~readable

\* Slip: the callbacks are stored before uv_read_start is asked.
SlipReadStoresFirst ==
    /\ UserRuns /\ asked < MaxReads
    /\ asked' = asked + 1
    /\ reader' = asked'
    /\ IF Refuses
       THEN /\ end' = [end EXCEPT ![asked'] = "refused"]
            /\ UNCHANGED <<reading, pollin, eof>>
       ELSE /\ reading' = TRUE /\ pollin' = TRUE /\ eof' = FALSE
            /\ UNCHANGED end
    /\ UNCHANGED <<handle, got, readable, partial, local, net>>

\* Slip: the watcher is not started.
SlipReadNotStarted ==
    /\ UserRuns /\ asked < MaxReads
    /\ asked' = asked + 1
    /\ IF Refuses
       THEN /\ end' = [end EXCEPT ![asked'] = "refused"]
            /\ UNCHANGED <<reader, reading, eof>>
       ELSE /\ reading' = TRUE /\ eof' = FALSE
            /\ reader' = asked'
            /\ UNCHANGED end
    /\ UNCHANGED <<handle, got, readable, pollin, partial, local, net>>

\* stream::read: a refusal is answered at once and leaves StreamData alone.
Read ==
    /\ UserRuns /\ asked < MaxReads
    /\ asked' = asked + 1
    /\ IF Refuses
       THEN /\ end' = [end EXCEPT ![asked'] = "refused"]
            /\ UNCHANGED <<reader, reading, pollin, eof>>
       ELSE /\ reading' = TRUE /\ pollin' = TRUE /\ eof' = FALSE
            /\ reader' = asked'
            /\ UNCHANGED end
    /\ UNCHANGED <<handle, got, readable, partial, local, net>>

\* stream::stop.
Stop ==
    /\ UserRuns /\ reading
    /\ reading' = FALSE /\ pollin' = FALSE
    /\ UNCHANGED <<handle, user, readable, eof, partial, local, net>>

\* stream::close: uv__stream_close stops the reading too.
Close ==
    /\ UserRuns /\ handle = "open"
    /\ handle' = "closing"
    /\ reading' = FALSE /\ pollin' = FALSE /\ readable' = FALSE
    /\ UNCHANGED <<user, eof, partial, local, net>>

-----------------------------------------------------------------------------
(* The other end, and the kernel.                                          *)

PeerSends ==
    /\ peer = "open" /\ sent < MaxBytes
    /\ sent' = sent + 1
    /\ UNCHANGED <<handle, user, flags, local, peer, taken>>

\* It sends no more, or is gone altogether (POLLHUP), or resets the
\* connection (POLLHUP too), with which the kernel may drop what it holds.
PeerEnds ==
    /\ \/ peer = "open" /\ peer' \in {"closed", "gone"} /\ UNCHANGED sent
       \/ peer = "closed" /\ peer' = "gone" /\ UNCHANGED sent
       \/ peer # "reset" /\ peer' = "reset" /\ sent' \in {sent, taken}
    /\ UNCHANGED <<handle, user, flags, local, taken>>

-----------------------------------------------------------------------------
(* The loop.                                                               *)

\* uv__stream_io, from the poll.
IoBegins ==
    /\ handle = "open" /\ io = "idle" /\ pollin
    /\ taken < sent \/ peer # "open"
    /\ io' = "reading" /\ count' = Burst
    /\ hup' = (peer \in {"gone", "reset"})
    /\ partial' = FALSE
    /\ UNCHANGED <<handle, user, reading, readable, pollin, eof, short, net>>

\* Slip: the loop does not look whether a callback stopped the reading.
SlipFillsUnasked ==
    /\ io = "reading" /\ count > 0
    /\ taken < sent
    /\ LET n == IF sent - taken < BufLen THEN sent - taken ELSE BufLen
       IN  /\ taken' = taken + n
           /\ got' = [got EXCEPT ![reader] = @ + n]
           /\ short' = (n < BufLen)
    /\ count' = count - 1
    /\ io' = "told"
    /\ UNCHANGED <<handle, asked, reader, end, flags, hup, peer, sent>>

\* Slip: the buffer counts as full, whatever read(2) answered.
SlipFillsWholeBuffer ==
    /\ io = "reading" /\ reading /\ count > 0
    /\ taken < sent
    /\ taken' = taken + BufLen
    /\ got' = [got EXCEPT ![reader] = @ + BufLen]
    /\ short' = FALSE
    /\ count' = count - 1
    /\ io' = "told"
    /\ UNCHANGED <<handle, asked, reader, end, flags, hup, peer, sent>>

\* One round of uv__read's loop, with bytes: a buffer is allocated, filled,
\* copied and given to the success callback.
Fills ==
    /\ io = "reading" /\ reading /\ count > 0
    /\ taken < sent
    /\ LET n == IF sent - taken < BufLen THEN sent - taken ELSE BufLen
       IN  /\ taken' = taken + n
           /\ got' = [got EXCEPT ![reader] = @ + n]
           /\ short' = (n < BufLen)
    /\ count' = count - 1
    /\ io' = "told"
    /\ UNCHANGED <<handle, asked, reader, end, flags, hup, peer, sent>>

\* EAGAIN: the callback is called with 0 and calls nobody.
FindsNothing ==
    /\ io = "reading" /\ reading /\ count > 0
    /\ taken = sent /\ peer = "open"
    /\ io' = "checking"
    /\ UNCHANGED <<handle, user, flags, short, count, hup, net>>

\* uv__stream_eof: the reading stops, then the failure callback gets UV_EOF.
Eof(where) ==
    /\ eof' = TRUE
    /\ reading' = FALSE /\ pollin' = FALSE
    /\ end' = [end EXCEPT ![reader] = "eof"]
    /\ io' = where
    /\ UNCHANGED <<handle, asked, reader, got, readable, partial, short, count,
                   hup, net>>

FindsEnd ==
    /\ io = "reading" /\ reading /\ count > 0
    /\ taken = sent /\ peer \in {"closed", "gone"}
    /\ Eof("ended")

\* An error: the failure callback runs with the reading still on.
Fails ==
    /\ io = "reading" /\ reading /\ count > 0
    /\ taken = sent /\ peer = "reset"
    /\ readable' = FALSE
    /\ end' = [end EXCEPT ![reader] = "error"]
    /\ io' = "failed"
    /\ UNCHANGED <<handle, asked, reader, got, reading, pollin, eof, partial,
                   short, count, hup, net>>

\* A callback returns into uv__read.
Returns ==
    /\ \/ /\ io = "told"
          /\ partial' = (partial \/ short)
          /\ io' = IF short THEN "checking" ELSE "reading"
          /\ UNCHANGED <<reading, pollin>>
       \/ /\ io = "failed"
          /\ reading' = FALSE /\ pollin' = FALSE
          /\ io' = "checking"
          /\ UNCHANGED partial
       \/ /\ io = "ended"
          /\ io' = "checking"
          /\ UNCHANGED <<reading, pollin, partial>>
    /\ UNCHANGED <<handle, user, readable, eof, short, count, hup, net>>

\* uv__read's loop ends: it was stopped, or has filled its share of buffers.
Leaves ==
    /\ io = "reading" /\ (~reading \/ count = 0)
    /\ io' = "checking"
    /\ UNCHANGED <<handle, user, flags, short, count, hup, net>>

\* Slip: a hang-up is the end of the data.
SlipHangsUp == handle = "open" /\ hup /\ reading /\ ~eof

\* uv__stream_io may report the end without another read(2).
HangsUp == handle = "open" /\ hup /\ reading /\ partial /\ ~eof

\* uv__stream_io behind uv__read.
IoEnds ==
    \/ io = "checking" /\ HangsUp /\ Eof("hungup")
    \/ /\ io = "hungup" \/ (io = "checking" /\ ~HangsUp)
       /\ io' = "idle"
       /\ UNCHANGED <<handle, user, flags, short, count, hup, net>>

\* uv__finish_close and stream::close's callback, which frees StreamData.
Destroy ==
    /\ handle = "closing" /\ io = "idle"
    /\ handle' = "closed"
    /\ UNCHANGED <<user, flags, local, net>>

Loop == \/ IoBegins \/ Fills \/ FindsNothing \/ FindsEnd \/ Fails \/ Returns
        \/ Leaves \/ IoEnds \/ Destroy

\* Nothing happens to a closed stream.
Ended == handle = "closed" /\ UNCHANGED vars

Next == Read \/ Stop \/ Close \/ PeerSends \/ PeerEnds \/ Loop \/ Ended

Spec == Init /\ [][Next]_vars

\* The loop runs and callbacks return.
FairSpec == Spec /\ WF_vars(Loop)

-----------------------------------------------------------------------------
(* Properties.                                                             *)

\* Every variable stays within the values the code can give it.
TypeOK ==
    /\ handle \in {"open", "closing", "closed"}
    /\ asked \in 0 .. MaxReads /\ reader \in 0 .. asked
    /\ got \in [Reads -> Nat]
    /\ end \in [Reads -> {"none", "eof", "error", "refused"}]
    /\ reading \in BOOLEAN /\ readable \in BOOLEAN /\ pollin \in BOOLEAN
    /\ eof \in BOOLEAN /\ partial \in BOOLEAN
    /\ io \in {"idle", "reading", "told", "ended", "failed", "checking",
               "hungup"}
    /\ short \in BOOLEAN /\ count \in 0 .. Burst /\ hup \in BOOLEAN
    /\ peer \in {"open", "closed", "gone", "reset"}
    /\ sent \in Nat /\ taken \in 0 .. sent
    /\ reading => reader # None

\* A read is told of the end of the data only when every byte that came in
\* was given to a read, also when the end is reported without reading it.
EndAfterData == \A r \in Reads : end[r] = "eof" => taken = sent

\* A read that was refused, or was told of an end or an error, is told nothing
\* more, whatever reads follow it.
NothingAfterEnd ==
    [][\A r \in Reads :
         end[r] # "none" => UNCHANGED <<got[r], end[r]>>]_vars

\* Only the read that was accepted last is told anything, and nothing once it
\* is stopped or the stream is closed, in whichever callback that happens.
ToldWhileReading ==
    [][\A r \in Reads :
         got'[r] # got[r] \/ (end'[r] # end[r] /\ end'[r] # "refused")
           => reading /\ reader = r /\ handle = "open"]_vars

\* While somebody reads, what has come in is given out and the end is told (or
\* the reading stops): a burst that ends before the data does, a read made in a
\* callback, and a hang-up with bytes left all wake the loop again.
AllArrives ==
    /\ \A n \in 1 .. MaxBytes :
          sent >= n /\ reading ~> taken >= n \/ sent < n \/ ~reading
    /\ peer # "open" /\ reading ~> ~reading
==============================================================================
