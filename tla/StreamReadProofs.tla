--------------------------- MODULE StreamReadProofs ---------------------------
(***************************************************************************)
(* Theorems about module StreamRead, for any number of reads, any bytes    *)
(* and buffers of any size.                                                *)
(***************************************************************************)
EXTENDS StreamRead, TLAPS

\* The read that is told has not been told of an end, except inside the
\* callback of an error, where the stream takes no other read.
ReaderOpen ==
    /\ reading => handle = "open" /\ (io # "failed" => end[reader] = "none")
    /\ io = "failed" => ~readable
    /\ \A r \in Reads : r > asked => end[r] = "none"

\* The end comes behind the data, and a hang-up too once a buffer stayed short.
EndBehindData ==
    /\ \A r \in Reads : end[r] = "eof" => taken = sent /\ peer # "open"
    /\ hup => peer \in {"gone", "reset"}
    /\ hup /\ (partial \/ (io = "told" /\ short)) => taken = sent

IInv == TypeOK /\ ReaderOpen /\ EndBehindData

\* What the proofs use of the constants.
LEMMA Sizes ==
    /\ BufLen \in Nat /\ BufLen > 0 /\ Burst \in Nat /\ Burst > 0
    /\ MaxReads \in Nat
BY StreamReadAssumption DEF StreamReadAssumption

\* The initial state.
LEMMA IInvInit == Init => IInv
<1> SUFFICES ASSUME Init PROVE IInv
  OBVIOUS
<1>1. /\ got \in [Reads -> Nat]
      /\ end \in [Reads -> {"none", "eof", "error", "refused"}]
      /\ \A r \in Reads : end[r] = "none"
  BY DEF Init
<1>2. /\ asked \in 0 .. MaxReads /\ reader \in 0 .. asked
      /\ count \in 0 .. Burst /\ sent \in Nat /\ taken \in 0 .. sent
  BY Sizes DEF Init, None
<1>3. TypeOK
  BY <1>1, <1>2 DEF Init, TypeOK
<1> QED
  BY <1>1, <1>3 DEF Init, IInv, ReaderOpen, EndBehindData

\* What the user calls.
LEMMA UserKeeps == ASSUME IInv, Read \/ Stop \/ Close PROVE IInv'
<1> USE DEF IInv
<1>1. CASE Read
  <2>1. /\ asked' = asked + 1 /\ asked' \in Reads
        /\ end[asked'] = "none"
    BY <1>1, Sizes DEF Read, TypeOK, ReaderOpen, Reads
  <2>2. UNCHANGED <<handle, got, readable, partial, local, net>>
    BY <1>1 DEF Read
  <2>3. CASE Refuses
    <3>1. /\ end' = [end EXCEPT ![asked'] = "refused"]
          /\ UNCHANGED <<reader, reading, pollin, eof>>
      BY <1>1, <2>3 DEF Read
    <3>2. /\ asked' \in 0 .. MaxReads /\ reader' \in 0 .. asked'
          /\ end' \in [Reads -> {"none", "eof", "error", "refused"}]
      BY <2>1, <3>1, Sizes DEF TypeOK, Reads
    <3>3. TypeOK'
      BY <2>2, <3>1, <3>2 DEF TypeOK, local, net
    <3>4. reader # asked'
      BY <2>1 DEF TypeOK
    <3>5. reader \in Reads \/ ~reading
      BY Sizes DEF TypeOK, Reads, None
    <3>6. ReaderOpen'
      BY <2>1, <2>2, <3>1, <3>4, <3>5 DEF TypeOK, ReaderOpen, Reads, local
    <3>7. EndBehindData'
      BY <2>2, <3>1 DEF TypeOK, EndBehindData, local, net
    <3> QED
      BY <3>3, <3>6, <3>7
  <2>4. CASE ~Refuses
    <3>1. /\ reading' = TRUE /\ pollin' = TRUE /\ eof' = FALSE
          /\ reader' = asked' /\ UNCHANGED end
      BY <1>1, <2>4 DEF Read
    <3>2. asked' \in 0 .. MaxReads /\ reader' \in 0 .. asked' /\ reader' # None
      BY <2>1, <3>1, Sizes DEF Reads, None
    <3>3. TypeOK'
      BY <2>2, <3>1, <3>2 DEF TypeOK, local, net
    <3>4. ReaderOpen'
      BY <2>1, <2>2, <2>4, <3>1 DEF Refuses, TypeOK, ReaderOpen, Reads, local
    <3>5. EndBehindData'
      BY <2>2, <3>1 DEF EndBehindData, local, net
    <3> QED
      BY <3>3, <3>4, <3>5
  <2> QED
    BY <2>3, <2>4
<1>2. CASE Stop
  BY <1>2 DEF Stop, TypeOK, ReaderOpen, EndBehindData, user, local, net
<1>3. CASE Close
  BY <1>3 DEF Close, TypeOK, ReaderOpen, EndBehindData, user, local, net
<1> QED
  BY <1>1, <1>2, <1>3

\* What the peer does.
LEMMA PeerKeeps == ASSUME IInv, PeerSends \/ PeerEnds PROVE IInv'
<1>1. UNCHANGED <<handle, user, flags, local, taken>>
  BY DEF PeerSends, PeerEnds
<1>2. /\ peer' \in {"open", "closed", "gone", "reset"}
      /\ sent' \in Nat /\ taken \in 0 .. sent'
      /\ sent' # sent => peer = "open" \/ sent' = taken
      /\ peer # "open" => peer' # "open"
      /\ peer \in {"gone", "reset"} => peer' \in {"gone", "reset"}
  BY DEF IInv, TypeOK, PeerSends, PeerEnds
<1>3. TypeOK'
  BY <1>1, <1>2 DEF IInv, TypeOK, user, flags, local
<1>4. ReaderOpen'
  BY <1>1 DEF IInv, ReaderOpen, user, flags, local
<1>5. EndBehindData'
  BY <1>1, <1>2 DEF IInv, EndBehindData, user, flags, local
<1> QED
  BY <1>3, <1>4, <1>5 DEF IInv

\* The end of the data is told.
LEMMA EofKeeps ==
    ASSUME IInv, NEW where \in {"ended", "hungup"}, Eof(where), reading,
           io # "failed", taken = sent, peer # "open"
    PROVE  IInv'
<1>1. reader \in Reads
  BY Sizes DEF IInv, TypeOK, Reads, None
<1>2. /\ eof' = TRUE /\ reading' = FALSE /\ pollin' = FALSE /\ io' = where
      /\ end' = [end EXCEPT ![reader] = "eof"]
      /\ UNCHANGED <<handle, asked, reader, got, readable, partial, short, count, hup, net>>
  BY DEF Eof
<1>3. end' \in [Reads -> {"none", "eof", "error", "refused"}]
  BY <1>1, <1>2 DEF IInv, TypeOK
<1>4. TypeOK'
  BY <1>2, <1>3 DEF IInv, TypeOK, net
<1>5. reader <= asked
  BY DEF IInv, TypeOK
<1>6. ReaderOpen'
  BY <1>1, <1>2, <1>5 DEF IInv, TypeOK, ReaderOpen, Reads
<1>7. EndBehindData'
  BY <1>1, <1>2 DEF IInv, TypeOK, EndBehindData, net
<1> QED
  BY <1>4, <1>6, <1>7 DEF IInv

\* Bytes are given to the read that is told.
LEMMA FillsKeeps == ASSUME IInv, Fills PROVE IInv'
<1> DEFINE n == IF sent - taken < BufLen THEN sent - taken ELSE BufLen
<1>1. /\ taken' = taken + n /\ got' = [got EXCEPT ![reader] = @ + n]
      /\ short' = (n < BufLen) /\ count' = count - 1 /\ io' = "told"
      /\ taken < sent /\ count > 0 /\ reading /\ io = "reading"
      /\ UNCHANGED <<handle, asked, reader, end, flags, hup, peer, sent>>
  BY DEF Fills
<1>2. n \in Nat /\ n <= sent - taken /\ (n < BufLen => n = sent - taken)
  BY <1>1, Sizes DEF IInv, TypeOK
<1>3. reader \in Reads
  BY <1>1, Sizes DEF IInv, TypeOK, Reads, None
<1> HIDE DEF n
<1>4. /\ got' \in [Reads -> Nat]
      /\ taken' \in 0 .. sent /\ count' \in 0 .. Burst
      /\ n < BufLen => taken' = sent
  <2>1. got' \in [Reads -> Nat]
    BY <1>1, <1>2, <1>3 DEF IInv, TypeOK
  <2>2. taken' \in 0 .. sent /\ (n < BufLen => taken' = sent)
    BY <1>1, <1>2 DEF IInv, TypeOK
  <2>3. count' \in 0 .. Burst
    BY <1>1, Sizes DEF IInv, TypeOK
  <2> QED
    BY <2>1, <2>2, <2>3
<1>5. TypeOK'
  BY <1>1, <1>4 DEF IInv, TypeOK, flags
<1>6. ReaderOpen'
  BY <1>1 DEF IInv, ReaderOpen, flags
<1>7. taken # sent
  BY <1>1 DEF IInv, TypeOK
<1>8. EndBehindData'
  BY <1>1, <1>4, <1>7 DEF IInv, EndBehindData, flags
<1> QED
  BY <1>5, <1>6, <1>8 DEF IInv

\* What the loop does.
LEMMA LoopKeeps == ASSUME IInv, Loop PROVE IInv'
<1> USE DEF IInv
<1>1. CASE IoBegins
  <2>1. count' \in 0 .. Burst
    BY <1>1, Sizes DEF IoBegins
  <2>2. hup' \in BOOLEAN
    BY <1>1 DEF IoBegins
  <2>3. TypeOK'
    BY <1>1, <2>1, <2>2 DEF IoBegins, TypeOK, user, net
  <2>4. ReaderOpen' /\ EndBehindData'
    BY <1>1 DEF IoBegins, ReaderOpen, EndBehindData, user, net
  <2> QED
    BY <2>3, <2>4
<1>2. CASE FindsNothing \/ Leaves
  <2>1. /\ io = "reading" /\ io' = "checking"
        /\ UNCHANGED <<handle, user, flags, short, count, hup, net>>
    BY <1>2 DEF FindsNothing, Leaves
  <2> QED
    BY <2>1 DEF TypeOK, ReaderOpen, EndBehindData, user, flags, net
<1>3. CASE FindsEnd
  BY <1>3, EofKeeps DEF FindsEnd
<1>4. CASE Fails
  <2>1. reader \in Reads /\ reader <= asked
    BY <1>4, Sizes DEF Fails, TypeOK, Reads, None
  <2>2. /\ end' = [end EXCEPT ![reader] = "error"] /\ io' = "failed" /\ readable' = FALSE
        /\ UNCHANGED <<handle, asked, reader, got, reading, pollin, eof, partial,
                       short, count, hup, net>>
    BY <1>4 DEF Fails
  <2>3. end' \in [Reads -> {"none", "eof", "error", "refused"}]
    BY <2>1, <2>2 DEF TypeOK
  <2>4. TypeOK'
    BY <2>2, <2>3 DEF TypeOK, net
  <2>5. ReaderOpen'
    BY <2>1, <2>2 DEF TypeOK, ReaderOpen, Reads
  <2>6. EndBehindData'
    BY <2>1, <2>2 DEF TypeOK, EndBehindData, net
  <2> QED
    BY <2>4, <2>5, <2>6
<1>5. CASE Returns
  <2>1. UNCHANGED <<handle, user, readable, eof, short, count, hup, net>>
    BY <1>5 DEF Returns
  <2>2. CASE /\ io = "told" /\ partial' = (partial \/ short)
             /\ io' \in {"checking", "reading"} /\ UNCHANGED <<reading, pollin>>
    <3>1. partial' \in BOOLEAN
      BY <2>2 DEF TypeOK
    <3>2. TypeOK'
      BY <2>1, <2>2, <3>1 DEF TypeOK, user, net
    <3>3. ReaderOpen'
      BY <2>1, <2>2 DEF ReaderOpen, user
    <3>4. EndBehindData'
      BY <2>1, <2>2 DEF EndBehindData, user, net
    <3> QED
      BY <3>2, <3>3, <3>4
  <2>3. CASE io = "failed" /\ reading' = FALSE /\ pollin' = FALSE
             /\ io' = "checking" /\ UNCHANGED partial
    BY <2>1, <2>3 DEF TypeOK, ReaderOpen, EndBehindData, user, net
  <2>4. CASE io = "ended" /\ io' = "checking" /\ UNCHANGED <<reading, pollin, partial>>
    BY <2>1, <2>4 DEF TypeOK, ReaderOpen, EndBehindData, user, net
  <2> QED
    BY <1>5, <2>2, <2>3, <2>4 DEF Returns
<1>6. CASE IoEnds
  <2>1. CASE io = "checking" /\ HangsUp /\ Eof("hungup")
    BY <2>1, EofKeeps DEF HangsUp, EndBehindData
  <2>2. CASE /\ io \in {"hungup", "checking"} /\ io' = "idle"
             /\ UNCHANGED <<handle, user, flags, short, count, hup, net>>
    BY <2>2 DEF TypeOK, ReaderOpen, EndBehindData, user, flags, net
  <2> QED
    BY <1>6, <2>1, <2>2 DEF IoEnds
<1>7. CASE Destroy
  <2>1. ~reading
    BY <1>7 DEF Destroy, ReaderOpen
  <2> QED
    BY <1>7, <2>1 DEF Destroy, TypeOK, ReaderOpen, EndBehindData, user, flags, local, net
<1> QED
  BY <1>1, <1>2, <1>3, <1>4, <1>5, <1>6, <1>7, FillsKeeps DEF Loop

\* Nothing changes.
LEMMA StutterKeeps == ASSUME IInv, UNCHANGED vars PROVE IInv'
BY DEF IInv, TypeOK, ReaderOpen, EndBehindData, vars, user, flags, local, net

\* Every step of the user, the peer and the loop.
LEMMA IInvStep == IInv /\ [Next]_vars => IInv'
BY UserKeeps, PeerKeeps, LoopKeeps, StutterKeeps DEF Next, Ended

\* The invariant holds in every state.
THEOREM Inductive == Spec => []IInv
BY IInvInit, IInvStep, PTL DEF Spec

\* Every variable stays within the values the code can give it (stream::read,
\* stop and close, uv__read, uv__stream_io).
THEOREM TypeCorrect == Spec => []TypeOK
<1>1. IInv => TypeOK
  BY DEF IInv
<1> QED
  BY <1>1, Inductive, PTL

\* A read is told of the end only behind all the data, also where
\* uv__stream_io reports the end of a hang-up without reading it.
THEOREM AlwaysEndAfterData == Spec => []EndAfterData
<1>1. IInv => EndAfterData
  BY DEF IInv, EndBehindData, EndAfterData
<1> QED
  BY <1>1, Inductive, PTL

-----------------------------------------------------------------------------
(* What a step tells.                                                      *)

\* A read is given bytes, is told of an end or an error, or is refused.
Gives(r) == got'[r] # got[r]
Ends(r) == end'[r] # end[r]

\* Only three kinds of steps tell a read anything: an accepted read is told
\* while it is the reader, and a refused one when it is made.
LEMMA WhoIsTold ==
    ASSUME IInv, [Next]_vars, NEW r \in Reads, Gives(r) \/ Ends(r)
    PROVE  \/ reading /\ reader = r /\ io # "failed"
           \/ r = asked + 1 /\ got'[r] = got[r] /\ end'[r] = "refused"
<1> USE DEF Gives, Ends, IInv
<1>1. CASE Read
  <2>1. /\ asked' = asked + 1 /\ got' = got
        /\ end' = [end EXCEPT ![asked'] = "refused"] \/ end' = end
    BY <1>1 DEF Read
  <2> QED
    BY <2>1 DEF TypeOK
<1>2. CASE Fills
  BY <1>2 DEF Fills, TypeOK
<1>3. CASE FindsEnd
  BY <1>3 DEF FindsEnd, Eof, TypeOK
<1>4. CASE Fails
  BY <1>4 DEF Fails, TypeOK
<1>5. CASE IoEnds
  BY <1>5 DEF IoEnds, HangsUp, Eof, TypeOK, user
<1>6. CASE UNCHANGED <<got, end>>
  BY <1>6
<1>7. Stop \/ Close \/ PeerSends \/ PeerEnds \/ IoBegins \/ FindsNothing \/ Returns
        \/ Leaves \/ Destroy \/ UNCHANGED vars => UNCHANGED <<got, end>>
  BY DEF Stop, Close, PeerSends, PeerEnds, IoBegins, FindsNothing, Returns, Leaves,
         Destroy, vars, user
<1> QED
  BY <1>1, <1>2, <1>3, <1>4, <1>5, <1>6, <1>7 DEF Next, Loop, Ended

\* A read that was refused or was told of an end is told nothing more,
\* whatever reads follow it (stream::read, uv__read, uv__stream_eof).
THEOREM NothingToldAfterEnd == Spec => NothingAfterEnd
<1>1. ASSUME IInv, [Next]_vars, NEW r \in Reads, end[r] # "none"
      PROVE  UNCHANGED <<got[r], end[r]>>
  <2>1. ~(reading /\ reader = r /\ io # "failed")
    BY <1>1 DEF IInv, ReaderOpen
  <2>2. r # asked + 1
    BY <1>1 DEF IInv, TypeOK, ReaderOpen
  <2> QED
    BY <1>1, <2>1, <2>2, WhoIsTold DEF Gives, Ends
<1>2. IInv /\ [Next]_vars
        => [\A r \in Reads : end[r] # "none" => UNCHANGED <<got[r], end[r]>>]_vars
  BY <1>1
<1> QED
  BY <1>2, Inductive, PTL DEF Spec, NothingAfterEnd

\* Only the read accepted last is told anything, and nothing once it is
\* stopped or the stream is closed (stream::stop, uv__stream_close).
THEOREM OnlyTheReaderIsTold == Spec => ToldWhileReading
<1>1. ASSUME IInv, [Next]_vars, NEW r \in Reads,
             got'[r] # got[r] \/ (end'[r] # end[r] /\ end'[r] # "refused")
      PROVE  reading /\ reader = r /\ handle = "open"
  BY <1>1, WhoIsTold DEF Gives, Ends, IInv, ReaderOpen
<1>2. IInv /\ [Next]_vars
        => [\A r \in Reads :
              got'[r] # got[r] \/ (end'[r] # end[r] /\ end'[r] # "refused")
                => reading /\ reader = r /\ handle = "open"]_vars
  BY <1>1
<1> QED
  BY <1>2, Inductive, PTL DEF Spec, ToldWhileReading
=============================================================================
