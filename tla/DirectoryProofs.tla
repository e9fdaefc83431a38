--------------------------- MODULE DirectoryProofs ---------------------------
(***************************************************************************)
(* What holds of Directory for any number of entries and reads.            *)
(***************************************************************************)
EXTENDS Directory, TLAPS

\* Reads are issued in order, one at a time; the callback that runs is that
\* of the read before the pending one.
OneAtATime ==
    /\ \A j, k \in Reads : j < k /\ rd[k] # "idle" => rd[j] # "idle"
    /\ \A k \in Reads : rd[k] # "idle" => dirents # None
    /\ \A j, k \in Pending : j = k
    /\ cb # None => rd[cb] = "called" /\ Pending \subseteq {cb + 1}

\* The kernel is ahead of the answers by the entry a read holds, if any.
Holding == {k \in Reads : \/ rd[k] = "got"
                          \/ rd[k] = "done" /\ result[k] = "entry"}

Counted ==
    /\ \A k \in Holding : pos = count + 1
    /\ Holding = {} => pos = count
    /\ \A k \in Reads : rd[k] = "done" /\ result[k] = "eof" => pos = Entries
    /\ \A k \in Reads : rd[k] = "done" => result[k] # "none"

\* The pending read's buffer is the one dir->dirents points at, and it is
\* alive.
InUse ==
    /\ \A k \in Pending : dirents = k /\ buf[k] = "live"
    /\ \A k \in Reads : rd[k] = "idle" => name[k] = None

\* Without an early close nothing that is freed is still in use, but for the
\* cleanup after the callback in which close was called.
ClosedLast == ~ClosesEarly =>
    /\ OnlyCleanupMisuses
    /\ dir = "freed" \/ misuse # {} => closing # "idle"
    /\ closing # "idle" => Pending = {}
    /\ closing # "idle" /\ cb # None =>
         closedIn = cb /\ (client = "iter" => result[cb] # "entry")

\* A client that waits for its read to be over: every name is where its
\* request looks for it.
Waiting == client = "reads" =>
    /\ misuse = {} => leaked = {}
    /\ cb # None => Pending = {} /\ dirents = cb
    /\ \A k \in Reads : rd[k] = "got" => got[k] = pos
    /\ \A k \in Reads : rd[k] = "done" /\ result[k] = "entry" => name[k] = pos
    /\ \A k \in Reads : name[k] # None =>
         rd[k] \in {"done", "called"} /\ result[k] = "entry"
    /\ NamesEveryEntry

DirInv == TypeOK /\ OneAtATime /\ Counted /\ InUse /\ ClosedLast /\ Waiting

\* The names, as a set the prover need not look into.
LEMMA NameFacts == None \in Names /\ Names \subseteq Nat /\ Reads \subseteq Nat
  BY DirectoryAssumption DEF Names, None, Reads

\* Before the first step.
LEMMA DirInit == Init => DirInv
<1> SUFFICES ASSUME Init PROVE DirInv
  OBVIOUS
<1>1. TypeOK
  BY NameFacts DEF Init, TypeOK, None
<1>2. OneAtATime /\ Counted /\ InUse /\ ClosedLast /\ Waiting
  BY NameFacts DEF Init, OneAtATime, Counted, Holding, Pending, None, InUse,
                   ClosedLast, Waiting, NamesEveryEntry, OnlyCleanupMisuses
<1> QED
  BY <1>1, <1>2 DEF DirInv

\* The types, action by action.
LEMMA DirTypeStep == DirInv /\ [Next]_vars => TypeOK'
<1> SUFFICES ASSUME DirInv, [Next]_vars PROVE TypeOK'
  OBVIOUS
<1> USE NameFacts DEF DirInv, TypeOK, worker, answers, memory
<1>1. CASE Open \/ Close \/ Ended \/ UNCHANGED vars
  BY <1>1 DEF Open, Close, Ended, vars
<1>2. CASE WorkerOpens \/ WorkerCloses \/ OpenAnswered \/ CloseAnswered
  BY <1>2 DEF WorkerOpens, WorkerCloses, OpenAnswered, CloseAnswered
<1>3. ASSUME NEW k \in Reads, IssueRead(k) PROVE TypeOK'
  BY <1>3 DEF IssueRead
<1>4. ASSUME NEW k \in Reads, WorkerTakes(k) PROVE TypeOK'
  <2>1. pos < Entries => pos + 1 \in Names
    BY DirectoryAssumption DEF Names
  <2>2. /\ misuse' \subseteq {"issue", "worker", "cleanup"}
        /\ result' \in [Reads -> {"none", "entry", "eof", "error"}]
        /\ rd' \in [Reads -> {"idle", "queued", "got", "done", "called", "over"}]
    BY <1>4 DEF WorkerTakes
  <2>3. got' \in [Reads -> Names] /\ pos' \in Names
    BY <1>4, <2>1 DEF WorkerTakes
  <2>4. UNCHANGED <<client, dir, dirents, name, buf, cb, closing, answers, leaked,
                   closedIn>>
    BY <1>4 DEF WorkerTakes
  <2> QED
    BY <2>2, <2>3, <2>4
<1>5. ASSUME NEW k \in Reads, WorkerStores(k) PROVE TypeOK'
  <2>1. dirents \in Reads /\ got[k] \in Names /\ name[dirents] \in Names
    BY <1>5 DEF WorkerStores, OneAtATime
  <2>2. misuse' \subseteq {"issue", "worker", "cleanup"}
    BY <1>5 DEF WorkerStores
  <2>3. name' \in [Reads -> Names]
    BY <1>5, <2>1 DEF WorkerStores
  <2>5. leaked' \subseteq Names \ {None}
    <3>1. leaked' = leaked \cup ({name[dirents]} \ {None})
      BY <1>5 DEF WorkerStores
    <3> QED
      BY <2>1, <3>1
  <2>4. /\ result' \in [Reads -> {"none", "entry", "eof", "error"}]
        /\ rd' \in [Reads -> {"idle", "queued", "got", "done", "called", "over"}]
        /\ UNCHANGED <<client, dir, pos, dirents, got, buf, cb, closing, answers,
                       closedIn>>
    BY <1>5 DEF WorkerStores
  <2> QED
    BY <2>2, <2>3, <2>4, <2>5
<1>6. ASSUME NEW k \in Reads, AnswerRead(k) PROVE TypeOK'
  <2>1. result[k] = "entry" => count + 1 \in Names
    BY <1>6 DEF AnswerRead, Counted, Holding
  <2>2. /\ last' \in {"none", "entry", "eof", "error"}
        /\ count' \in Names /\ shown' \in Names
    BY <1>6, <2>1 DEF AnswerRead
  <2>3. /\ cb' = k
        /\ rd' \in [Reads -> {"idle", "queued", "got", "done", "called", "over"}]
        /\ UNCHANGED <<client, dir, worker, dirents, name, buf, closing, memory>>
    BY <1>6 DEF AnswerRead
  <2> QED
    BY <2>2, <2>3
<1>7. CASE ReadReturns
  <2>1. /\ cb \in Reads /\ Cleaned \in [Reads -> Names]
        /\ Cleaned[cb] \in Names
    BY <1>7 DEF ReadReturns, Cleaned
  <2>2. misuse' \subseteq {"issue", "worker", "cleanup"}
    BY <1>7 DEF ReadReturns
  <2>3. name' \in [Reads -> Names]
    BY <1>7, <2>1 DEF ReadReturns
  <2>5. leaked' \subseteq Names \ {None}
    <3>1. leaked' = leaked \cup ({Cleaned[cb]} \ {None})
      BY <1>7 DEF ReadReturns
    <3> QED
      BY <2>1, <3>1
  <2>4. /\ buf' \in [Reads -> {"none", "live", "freed"}]
        /\ rd' \in [Reads -> {"idle", "queued", "got", "done", "called", "over"}]
        /\ cb' = None
        /\ UNCHANGED <<client, dir, worker, dirents, closing, answers, closedIn>>
    BY <1>7, <2>1 DEF ReadReturns
  <2> QED
    BY <2>2, <2>3, <2>4, <2>5
<1> QED
  BY <1>1, <1>2, <1>3, <1>4, <1>5, <1>6, <1>7
     DEF Next, Pool, LoopThread, ClientReads, IterReadsOn

-----------------------------------------------------------------------------
(* The invariant's other parts, part by part.                              *)

\* Every step is one of these, a read being issued by its client or by iter.
DirStep ==
    \/ Open \/ Close \/ Ended \/ UNCHANGED vars
    \/ WorkerOpens \/ WorkerCloses \/ OpenAnswered \/ CloseAnswered
    \/ \E k \in Reads : ClientReads(k)
    \/ IterReadsOn
    \/ \E k \in Reads : WorkerTakes(k)
    \/ \E k \in Reads : WorkerStores(k)
    \/ \E k \in Reads : AnswerRead(k)
    \/ ReadReturns

\* Next, as the list of its actions.
LEMMA DirCases == [Next]_vars => DirStep
  BY DEF Next, Pool, LoopThread, DirStep

\* The pool and the loop work on one read at a time.
LEMMA OneAtATimeStep == DirInv /\ [Next]_vars => OneAtATime'
<1> SUFFICES ASSUME TypeOK, OneAtATime, DirStep PROVE OneAtATime'
  BY DirCases DEF DirInv
<1> USE NameFacts DEF TypeOK, OneAtATime, Pending, worker, answers, memory
<1>1. CASE Open \/ Close \/ Ended \/ UNCHANGED vars
  BY <1>1 DEF Open, Close, Ended, vars
<1>2. CASE WorkerOpens \/ WorkerCloses \/ OpenAnswered \/ CloseAnswered
  BY <1>2 DEF WorkerOpens, WorkerCloses, OpenAnswered, CloseAnswered
<1>3. \A j, k \in Reads : j < k => j \in 1 .. k - 1
  BY DEF Reads
<1>4. CASE \E k \in Reads : ClientReads(k)
  <2>1. PICK k \in Reads : ClientReads(k)
    BY <1>4
  <2>2. /\ rd[k] = "idle" /\ \A j \in 1 .. k - 1 : rd[j] # "idle"
        /\ rd' = [rd EXCEPT ![k] = "queued"] /\ dirents' = k /\ cb' = None
        /\ Pending = {}
    BY <2>1 DEF ClientReads, IssueRead
  <2>3. Pending' = {k}
    BY <2>2
  <2>4. \A j, l \in Reads : j < l /\ rd'[l] # "idle" => rd'[j] # "idle"
    BY <1>3, <2>2
  <2>5. k # None
    BY DEF Reads, None
  <2> QED
    BY <2>2, <2>3, <2>4, <2>5
<1>5. CASE IterReadsOn
  BY <1>3, <1>5 DEF IterReadsOn, IssueRead, None
<1>6. CASE \E k \in Reads : WorkerTakes(k)
  <2>1. PICK k \in Reads : WorkerTakes(k)
    BY <1>6
  <2>2. /\ rd[k] = "queued" /\ UNCHANGED <<dirents, cb>>
        /\ \/ rd' = [rd EXCEPT ![k] = "got"]
           \/ rd' = [rd EXCEPT ![k] = "done"]
    BY <2>1 DEF WorkerTakes
  <2>3. Pending' = Pending
    BY <2>2
  <2> QED
    BY <2>2, <2>3
<1>7. CASE \E k \in Reads : WorkerStores(k)
  BY <1>7 DEF WorkerStores
<1>8. CASE \E k \in Reads : AnswerRead(k)
  <2>1. PICK k \in Reads : AnswerRead(k)
    BY <1>8
  <2>2. /\ rd[k] = "done" /\ cb' = k /\ UNCHANGED dirents
        /\ rd' = [rd EXCEPT ![k] = "called"]
    BY <2>1 DEF AnswerRead
  <2>3. \A j \in Reads : j # k => j \notin Pending /\ rd'[j] = rd[j]
    BY <2>2
  <2>4. rd'[k] = "called"
    BY <2>2
  <2>5. Pending' = {}
    BY <2>3, <2>4
  <2> QED
    BY <2>2, <2>3, <2>4, <2>5
<1>9. CASE ReadReturns
  BY <1>9 DEF ReadReturns
<1> QED
  BY <1>1, <1>2, <1>4, <1>5, <1>6, <1>7, <1>8, <1>9 DEF DirStep

\* Answers and names go with the position in the directory.
LEMMA CountedStep == DirInv /\ [Next]_vars => Counted'
<1> SUFFICES ASSUME TypeOK, OneAtATime, Counted, DirStep PROVE Counted'
  BY DirCases DEF DirInv
<1> USE NameFacts DEF TypeOK, OneAtATime, Counted, Holding, Pending, worker,
                      answers, memory
<1>1. CASE Open \/ Close \/ Ended \/ UNCHANGED vars
  BY <1>1 DEF Open, Close, Ended, vars
<1>2. CASE WorkerOpens \/ WorkerCloses \/ OpenAnswered \/ CloseAnswered
  BY <1>2 DEF WorkerOpens, WorkerCloses, OpenAnswered, CloseAnswered
<1>4. CASE \E k \in Reads : ClientReads(k)
  BY <1>4 DEF ClientReads, IssueRead
<1>5. CASE IterReadsOn
  BY <1>5 DEF IterReadsOn, IssueRead
<1>6. CASE \E k \in Reads : WorkerTakes(k)
  <2>1. PICK k \in Reads : WorkerTakes(k)
    BY <1>6
  <2>0. rd[k] = "queued"
    BY <2>1 DEF WorkerTakes
  <2>6. \A j \in Reads : j # k => rd[j] \notin {"queued", "got", "done"}
    BY <2>0
  <2>2. rd[k] = "queued" /\ Pending = {k} /\ Holding = {} /\ pos = count
    BY <2>0, <2>6
  <2>3. CASE pos' = pos + 1 /\ rd' = [rd EXCEPT ![k] = "got"] /\ UNCHANGED result
    <3>1. Holding' = {k}
      BY <2>2, <2>3
    <3> QED
      BY <2>1, <2>2, <2>3, <3>1 DEF WorkerTakes
  <2>4. CASE /\ pos = Entries /\ rd' = [rd EXCEPT ![k] = "done"]
             /\ result' = [result EXCEPT ![k] = "eof"] /\ UNCHANGED pos
    BY <2>1, <2>2, <2>4 DEF WorkerTakes
  <2>5. CASE /\ rd' = [rd EXCEPT ![k] = "done"]
             /\ result' = [result EXCEPT ![k] = "error"] /\ UNCHANGED pos
    BY <2>1, <2>2, <2>5 DEF WorkerTakes
  <2> QED
    BY <2>1, <2>3, <2>4, <2>5 DEF WorkerTakes
<1>7. CASE \E k \in Reads : WorkerStores(k)
  BY <1>7 DEF WorkerStores
<1>8. CASE \E k \in Reads : AnswerRead(k)
  BY <1>8 DEF AnswerRead
<1>9. CASE ReadReturns
  BY <1>9 DEF ReadReturns
<1> QED
  BY <1>1, <1>2, <1>4, <1>5, <1>6, <1>7, <1>8, <1>9 DEF DirStep

\* What a request refers to is in memory.
LEMMA InUseStep == DirInv /\ [Next]_vars => InUse'
<1> SUFFICES ASSUME TypeOK, OneAtATime, InUse, DirStep PROVE InUse'
  BY DirCases DEF DirInv
<1> USE NameFacts DEF TypeOK, OneAtATime, InUse, Pending, worker, answers,
                      memory
<1>1. CASE Open \/ Close \/ Ended \/ UNCHANGED vars
  BY <1>1 DEF Open, Close, Ended, vars
<1>2. CASE WorkerOpens \/ WorkerCloses \/ OpenAnswered \/ CloseAnswered
  BY <1>2 DEF WorkerOpens, WorkerCloses, OpenAnswered, CloseAnswered
<1>3. CASE \E k \in Reads : ClientReads(k)
  BY <1>3 DEF ClientReads, IssueRead
<1>4. CASE IterReadsOn
  <2>1. rd[cb + 1] = "idle" /\ Pending = {} /\ cb + 1 \in Reads
    BY <1>4 DEF IterReadsOn, IssueRead
  <2> QED
    BY <1>4, <2>1 DEF IterReadsOn, IssueRead
<1>5. CASE \E k \in Reads : WorkerTakes(k)
  BY <1>5 DEF WorkerTakes
<1>6. CASE \E k \in Reads : WorkerStores(k)
  BY <1>6 DEF WorkerStores
<1>7. CASE \E k \in Reads : AnswerRead(k)
  BY <1>7 DEF AnswerRead
<1>8. CASE ReadReturns
  BY <1>8 DEF ReadReturns, Cleaned
<1> QED
  BY <1>1, <1>2, <1>3, <1>4, <1>5, <1>6, <1>7, <1>8 DEF DirStep

\* Once closed, nothing but the callback that closed is left to run.
LEMMA ClosedLastStep == DirInv /\ [Next]_vars => ClosedLast'
<1> SUFFICES ASSUME TypeOK, OneAtATime, InUse, ClosedLast, DirStep, ~ClosesEarly
             PROVE  ClosedLast'
  BY DirCases DEF DirInv, ClosedLast
<1> USE NameFacts DEF TypeOK, OneAtATime, InUse, ClosedLast, OnlyCleanupMisuses,
                      Pending, worker, answers, memory
<1>1. CASE Open \/ Ended \/ UNCHANGED vars
  BY <1>1 DEF Open, Ended, vars
<1>2. CASE Close
  BY <1>2 DEF Close
<1>3. CASE WorkerOpens \/ WorkerCloses \/ OpenAnswered \/ CloseAnswered
  BY <1>3 DEF WorkerOpens, WorkerCloses, OpenAnswered, CloseAnswered
<1>4. CASE \E k \in Reads : ClientReads(k)
  BY <1>4 DEF ClientReads, IssueRead
<1>5. CASE IterReadsOn
  <2>1. closing = "idle" /\ dir # "freed"
    BY <1>5 DEF IterReadsOn
  <2> QED
    BY <1>5, <2>1 DEF IterReadsOn, IssueRead
<1>6. CASE \E k \in Reads : WorkerTakes(k)
  <2>1. closing = "idle" /\ dir # "freed"
    BY <1>6 DEF WorkerTakes
  <2> QED
    BY <1>6, <2>1 DEF WorkerTakes
<1>7. CASE \E k \in Reads : WorkerStores(k)
  <2>1. closing = "idle" /\ dir # "freed"
    BY <1>7 DEF WorkerStores
  <2> QED
    BY <1>7, <2>1 DEF WorkerStores
<1>8. CASE \E k \in Reads : AnswerRead(k)
  <2>1. closing = "idle"
    BY <1>8 DEF AnswerRead
  <2> QED
    BY <1>8, <2>1 DEF AnswerRead
<1>9. CASE ReadReturns
  BY <1>9 DEF ReadReturns
<1> QED
  BY <1>1, <1>2, <1>3, <1>4, <1>5, <1>6, <1>7, <1>8, <1>9 DEF DirStep

\* A client of read has one request under way.
LEMMA WaitingStep == DirInv /\ [Next]_vars => Waiting'
<1> SUFFICES ASSUME DirInv, DirStep, client' = "reads" PROVE Waiting'
  BY DirCases DEF Waiting
<1>0. client = "reads"
  BY DEF DirStep, Open, Close, Ended, vars, WorkerOpens, WorkerCloses,
         OpenAnswered, CloseAnswered, ClientReads, IterReadsOn, IssueRead,
         WorkerTakes, WorkerStores, AnswerRead, ReadReturns
\* Steps that leave all it speaks of alone.
<1>i. ASSUME UNCHANGED <<client, worker, dirents, rd, name, cb, answers, leaked,
                         misuse>>
      PROVE  Waiting'
  BY <1>i DEF DirInv, Waiting, Pending, NamesEveryEntry, worker, answers
<1> USE <1>0, NameFacts
        DEF DirInv, TypeOK, OneAtATime, InUse, Counted, Holding, Pending,
            Waiting, NamesEveryEntry, worker, answers, memory
<1>1. CASE Open \/ Close \/ Ended \/ UNCHANGED vars
  <2>1. UNCHANGED <<client, worker, dirents, rd, name, cb, answers, leaked, misuse>>
    BY <1>1 DEF Open, Close, Ended, vars
  <2> QED
    BY ONLY <1>i, <2>1
<1>2. CASE WorkerOpens \/ WorkerCloses \/ OpenAnswered \/ CloseAnswered
  <2>1. UNCHANGED <<client, worker, dirents, rd, name, cb, answers, leaked, misuse>>
    BY <1>2 DEF WorkerOpens, WorkerCloses, OpenAnswered, CloseAnswered
  <2> QED
    BY ONLY <1>i, <2>1
<1>3. CASE \E k \in Reads : ClientReads(k)
  <2>1. PICK k \in Reads : ClientReads(k)
    BY <1>3
  <2>2. /\ rd[k] = "idle" /\ rd' = [rd EXCEPT ![k] = "queued"]
        /\ cb' = None /\ misuse \subseteq misuse'
        /\ UNCHANGED <<client, worker, name, answers, leaked>>
    BY <2>1 DEF ClientReads, IssueRead
  <2> QED
    BY <2>2
<1>4. CASE IterReadsOn
  BY <1>4 DEF IterReadsOn
<1>5. CASE \E k \in Reads : WorkerTakes(k)
  <2>1. PICK k \in Reads : WorkerTakes(k)
    BY <1>5
  <2>2. rd[k] = "queued" /\ name[k] = None /\ cb = None /\ \A j \in Pending : j = k
    BY <2>1 DEF WorkerTakes
  <2>3. /\ \A j \in Reads : j # k => /\ rd'[j] = rd[j] /\ got'[j] = got[j]
                                    /\ result'[j] = result[j]
        /\ \/ rd'[k] = "got" /\ got'[k] = pos'
           \/ rd'[k] = "done" /\ result'[k] # "entry"
        /\ cb' = cb /\ misuse \subseteq misuse'
        /\ UNCHANGED <<client, name, dirents, answers, leaked>>
    BY <2>1 DEF WorkerTakes
  <2> QED
    BY <2>2, <2>3
<1>6. CASE \E k \in Reads : WorkerStores(k)
  <2>1. PICK k \in Reads : WorkerStores(k)
    BY <1>6
  <2>2. /\ rd[k] = "got" /\ dirents = k /\ name[k] = None /\ got[k] = pos
        /\ cb = None
    BY <2>1 DEF WorkerStores
  <2>3. misuse' = {} => leaked' = {}
    <3>1. /\ leaked' = leaked \cup ({name[k]} \ {None})
          /\ misuse \subseteq misuse'
      BY <2>1, <2>2 DEF WorkerStores
    <3> QED
      BY <2>2, <3>1
  <2>4. /\ name' = [name EXCEPT ![k] = pos] /\ rd' = [rd EXCEPT ![k] = "done"]
        /\ result' = [result EXCEPT ![k] = "entry"]
        /\ UNCHANGED <<client, pos, dirents, got, cb, answers>>
    BY <2>1, <2>2 DEF WorkerStores
  <2> QED
    BY <2>2, <2>3, <2>4
<1>7. CASE \E k \in Reads : AnswerRead(k)
  <2>1. PICK k \in Reads : AnswerRead(k)
    BY <1>7
  <2>2. rd[k] = "done" /\ dirents = k /\ \A j \in Pending : j = k
    BY <2>1 DEF AnswerRead
  <2>3. /\ rd' = [rd EXCEPT ![k] = "called"] /\ cb' = k /\ last' = result[k]
        /\ result[k] = "entry" => count' = count + 1 /\ shown' = name[k]
        /\ result[k] # "entry" => UNCHANGED <<count, shown>>
        /\ UNCHANGED <<client, worker, dirents, name, leaked, misuse>>
    BY <2>1 DEF AnswerRead
  <2>4. Pending' = {}
    BY <2>2, <2>3
  <2>5. NamesEveryEntry'
    <3>1. result[k] = "entry" => name[k] = pos /\ pos = count + 1
      BY <2>2
    <3>2. last' = "entry" => shown' = count'
      BY <2>3, <3>1
    <3> QED
      BY <3>2 DEF NamesEveryEntry
  <2> QED
    BY <2>2, <2>3, <2>4, <2>5
<1>8. CASE ReadReturns
  <2>1. /\ Pending = {} /\ dirents = cb /\ rd[cb] = "called" /\ cb \in Reads
        /\ misuse \subseteq misuse'
    BY <1>8 DEF ReadReturns
  <2>2. Cleaned[cb] = None /\ \A k \in Reads : k # cb => Cleaned[k] = name[k]
    BY <2>1 DEF Cleaned
  <2>3. misuse' = {} => leaked' = {}
    <3>1. leaked' = leaked \cup ({Cleaned[cb]} \ {None})
      BY <1>8 DEF ReadReturns
    <3> QED
      BY <2>1, <2>2, <3>1
  <2>4. /\ \A k \in Reads : k # cb => name'[k] = name[k] /\ rd'[k] = rd[k]
        /\ name'[cb] = None /\ rd'[cb] = "over" /\ cb' = None
        /\ UNCHANGED <<client, worker, answers>>
    BY <1>8, <2>1, <2>2 DEF ReadReturns, Cleaned
  <2> QED
    BY <2>1, <2>3, <2>4
<1> QED
  BY <1>1, <1>2, <1>3, <1>4, <1>5, <1>6, <1>7, <1>8 DEF DirStep

\* The invariant that relates the pool's position in the directory, the
\* shared dir->dirents and the answers, for any number of entries.
THEOREM DirInductive == Spec => []DirInv
<1>1. DirInv /\ [Next]_vars => DirInv'
  BY DirTypeStep, OneAtATimeStep, CountedStep, InUseStep, ClosedLastStep,
     WaitingStep DEF DirInv
<1> QED
  BY <1>1, DirInit, PTL DEF Spec

-----------------------------------------------------------------------------
(* The properties.                                                         *)

\* Every variable stays within the values the code can give it: the pool keeps
\* its place in the directory, and names are made and freed by it and the client.
THEOREM TypeCorrect == Spec => []TypeOK
<1>1. DirInv => TypeOK
  BY DEF DirInv
<1> QED
  BY <1>1, DirInductive, PTL

\* Every behaviour answers as the abstract listing does, whichever of read
\* and iter the client calls and whenever it closes: one Success for each
\* entry at most, and UV_EOF after all of them only.
THEOREM Implements == Spec => ListingSpec
<1>1. Init => AbstractListing!Init
  BY DEF Init, AbstractListing!Init
<1>2. DirInv /\ [Next]_vars => [AbstractListing!Next]_<<count, last>>
  <2> SUFFICES ASSUME DirInv, DirStep
               PROVE  AbstractListing!Next \/ UNCHANGED <<count, last>>
    BY DirCases
  <2>1. CASE \E k \in Reads : AnswerRead(k)
    <3>1. PICK k \in Reads : AnswerRead(k)
      BY <2>1
    <3>2. rd[k] = "done" /\ result[k] \in {"entry", "eof", "error"}
      BY <3>1 DEF AnswerRead, DirInv, TypeOK, Counted
    <3>3. CASE result[k] = "entry"
      <4>1. pos = count + 1 /\ pos \in 0 .. Entries /\ count \in 0 .. Entries
        BY <3>2, <3>3 DEF DirInv, Counted, Holding, TypeOK, Names
      <4> QED
        BY <3>1, <3>3, <4>1, DirectoryAssumption
           DEF AnswerRead, AbstractListing!Next, AbstractListing!Entry
    <3>4. CASE result[k] = "eof"
      <4>1. Holding = {}
        BY <3>2, <3>4 DEF DirInv, OneAtATime, Holding, Pending
      <4>2. count = Entries
        BY <3>2, <3>4, <4>1 DEF DirInv, Counted
      <4> QED
        BY <3>1, <3>4, <4>2
           DEF AnswerRead, AbstractListing!Next, AbstractListing!Eof
    <3>5. CASE result[k] = "error"
      BY <3>1, <3>5
         DEF AnswerRead, AbstractListing!Next, AbstractListing!Failure
    <3> QED
      BY <3>2, <3>3, <3>4, <3>5
  <2>2. CASE ~ \E k \in Reads : AnswerRead(k)
    BY <2>2 DEF DirStep, Open, Close, Ended, vars, answers, WorkerOpens,
       WorkerCloses, OpenAnswered, CloseAnswered, ClientReads, IterReadsOn,
       IssueRead, WorkerTakes, WorkerStores, ReadReturns
  <2> QED
    BY <2>1, <2>2
<1> QED
  BY <1>1, <1>2, DirInductive, PTL
     DEF Spec, ListingSpec, AbstractListing!Spec

\* A client that waits for each read to be over is answered with the name of
\* every entry, in order.
THEOREM EveryNameRead == Spec => []ReadsNameEveryEntry
<1>1. DirInv => ReadsNameEveryEntry
  BY DEF DirInv, Waiting, ReadsNameEveryEntry
<1> QED
  BY <1>1, DirInductive, PTL

\* Such a client leaks no name.
THEOREM NoNameLeaked == Spec => []ReadsLeakNothing
<1>1. DirInv => ReadsLeakNothing
  BY DEF DirInv, Waiting, ReadsLeakNothing
<1> QED
  BY <1>1, DirInductive, PTL

\* Both: a client that waits gets every name and leaks none.
THEOREM NamesAlwaysKept == Spec => []NamesKept
  BY EveryNameRead, NoNameLeaked, PTL DEF NamesKept

\* A client that closes with no read pending or to come, in a callback or not,
\* never has a worker or a new request use freed memory, whichever of read and
\* iter it calls.  The cleanup alone does, and only when the client closed in
\* the callback that the cleanup follows and that answered no error.
THEOREM MemorySafe == Spec => [](~ClosesEarly => OnlyCleanupMisuses)
<1>1. DirInv => (~ClosesEarly => OnlyCleanupMisuses)
  BY DEF DirInv, ClosedLast
<1> QED
  BY <1>1, DirInductive, PTL

\* One that also closes outside the callbacks has nobody use freed memory.
THEOREM SafeOutsideCallbacks ==
    Spec => [](~ClosesEarly /\ closedIn = None => NoUseAfterFree)
<1>1. OnlyCleanupMisuses /\ closedIn = None => NoUseAfterFree
  BY DEF OnlyCleanupMisuses, NoUseAfterFree
<1> QED
  BY <1>1, MemorySafe, PTL

\* Once iter has answered the end nothing is pending and its callback, if it
\* still runs, is not the one that reads on; before its first read it has
\* answered nothing.
IterDone == client = "iter" =>
    /\ \A k \in Reads : k = 1 /\ rd[k] = "idle" => last = "none"
    /\ last \in {"eof", "error"} =>
          Pending = {} /\ (cb # None => result[cb] # "entry")

\* IterDone is kept.
LEMMA IterDoneStep == DirInv /\ IterDone /\ [Next]_vars => IterDone'
<1> SUFFICES ASSUME DirInv, IterDone, DirStep, client' = "iter" PROVE IterDone'
  BY DirCases DEF IterDone
<1> USE NameFacts DEF DirInv, TypeOK, OneAtATime, IterDone, Pending, worker, answers, memory
<1>0. client = "iter"
  BY DEF DirStep, Open, Close, Ended, vars, WorkerOpens,
     WorkerCloses, OpenAnswered, CloseAnswered, ClientReads, IterReadsOn,
     IssueRead, WorkerTakes, WorkerStores, ReadReturns, AnswerRead
<1>1. CASE \E k \in Reads : AnswerRead(k)
  <2>1. PICK k \in Reads : AnswerRead(k)
    BY <1>1
  <2>2. Pending' = {}
    <3>1. k \in Pending
      BY <2>1 DEF AnswerRead
    <3>2. \A j \in Reads : j # k => rd[j] \notin {"queued", "got", "done"}
      BY <3>1
    <3>3. rd' = [rd EXCEPT ![k] = "called"]
      BY <2>1 DEF AnswerRead
    <3> QED
      BY <3>2, <3>3
  <2>3. \A j \in Reads : j = 1 => rd[j] # "idle"
    BY <2>1 DEF AnswerRead, Reads
  <2> QED
    BY <1>0, <2>1, <2>2, <2>3 DEF AnswerRead
<1>2. CASE \E k \in Reads : ClientReads(k)
  BY <1>0, <1>2 DEF ClientReads, IssueRead
<1>3. CASE IterReadsOn
  BY <1>0, <1>3 DEF IterReadsOn, IssueRead
<1>4. CASE ReadReturns
  BY <1>0, <1>4 DEF ReadReturns
<1>5. CASE \E k \in Reads : WorkerTakes(k) \/ WorkerStores(k)
  BY <1>0, <1>5 DEF WorkerTakes, WorkerStores
<1>6. CASE \/ Open \/ Close \/ WorkerOpens \/ WorkerCloses
           \/ OpenAnswered \/ CloseAnswered \/ Ended \/ UNCHANGED vars
  BY <1>0, <1>6 DEF Open, Close, WorkerOpens, WorkerCloses, OpenAnswered,
     CloseAnswered, Ended, vars
<1> QED
  BY <1>1, <1>2, <1>3, <1>4, <1>5, <1>6 DEF DirStep

\* iter answers nothing after an error or UV_EOF, whatever its client does in
\* the callbacks.
THEOREM IterStopsAtEnd == Spec => NoAnswerAfterError
<1>1. Init => IterDone
  BY DEF Init, IterDone
<1>2. ASSUME DirInv, IterDone, [Next]_vars, client = "iter", last \in {"eof", "error"}
      PROVE  UNCHANGED answers
  <2>1. \A k \in Reads : ~AnswerRead(k)
    BY <1>2 DEF IterDone, Pending, AnswerRead
  <2> QED
    BY <1>2, <2>1, DirCases
       DEF DirStep, Open, Close, Ended, vars, answers, WorkerOpens,
       WorkerCloses, OpenAnswered, CloseAnswered, ClientReads, IterReadsOn,
       IssueRead, WorkerTakes, WorkerStores, ReadReturns
<1> QED
  BY <1>1, <1>2, IterDoneStep, DirInductive, PTL DEF Spec, NoAnswerAfterError
==============================================================================
