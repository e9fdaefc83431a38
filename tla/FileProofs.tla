----------------------------- MODULE FileProofs -----------------------------
(***************************************************************************)
(* What holds of File for any number of reads and writes of any size.      *)
(***************************************************************************)
EXTENDS File, FiniteSetTheorems, SequenceTheorems, TLAPS

\* A read with an offset of its own stands right behind what it collected;
\* what is in its buffer comes from there; it sees the end of the file only
\* where the file ended, which is no earlier than when it was requested.
ReadState(r) ==
    /\ stage[r] = "idle" => array[r] = <<>>
    /\ sizeAt[r] <= len
    /\ stage[r] = "done" => from[r] + result[r] <= len \/ result[r] <= 0
    /\ start[r] >= 0 =>
         /\ offset[r] = start[r] + Len(array[r])
         /\ \A i \in 1 .. Len(array[r]) : array[r][i] = start[r] + i - 1
         /\ stage[r] = "done" => from[r] = offset[r] \/ result[r] < 0
         /\ stage[r] = "done" /\ result[r] = 0 => offset[r] >= sizeAt[r]
         /\ r \in success => offset[r] >= sizeAt[r]

\* What the ring holds has been requested and not begun, or begun and not
\* done; it wrote nothing yet.  Unless the descriptor's position was shared,
\* a request of the ring that uses it works alone and where it stands.
RingState ==
    /\ \A j \in ring : stage[j] \in {"queued", "taken"}
    /\ \A j \in Jobs : stage[j] = "taken" => j \in ring
    /\ \A j \in AtPosition : stage[j] = "taken" => at[j] <= len
    /\ \A r \in Readers : stage[r] = "taken" /\ offset[r] >= 0 => at[r] = offset[r]
    /\ \A w \in Writers :
         stage[w] = "idle" \/ w \in ring => written[w] = {} /\ total[w] = 0
    /\ ~shared => /\ ~Sharing
                  /\ \A j \in AtPosition : stage[j] = "taken" => at[j] = fdpos

\* The bytes written are a write's result.
Results ==
    \A w \in Writers :
        /\ stage[w] = "done" /\ result[w] >= 0 => result[w] = total[w]
        /\ w \in success => result[w] = total[w]

\* What was written lies before the place of the next write().
Behind == \A w \in Writers : \A p \in written[w] : p < WriteAt

\* total counts the positions written.
Counted == \A w \in Writers : /\ IsFiniteSet(written[w])
                              /\ Cardinality(written[w]) = total[w]

Apart == \A v, w \in Writers : v # w => written[v] \cap written[w] = {}

Kept == append \/ ~shared => Behind /\ Counted /\ Apart

\* A callback is called at the end of a request's life.
Called ==
    \A j \in Jobs : /\ calls[j] = IF stage[j] = "over" THEN 1 ELSE 0
                    /\ j \in success => stage[j] = "over"

FileInv ==
    /\ TypeOK
    /\ \A r \in Readers : ReadState(r)
    /\ RingState /\ Results /\ Kept /\ Called

FileStep ==
    \/ \E r \in Readers : Read(r)
    \/ \E w \in Writers : Write(w)
    \/ Close
    \/ \E r \in Readers : WorkerReads(r)
    \/ \E w \in Writers : WorkerWrites(w)
    \/ \E w \in Writers : WorkerWrote(w)
    \/ \E j \in Jobs : Fails(j)
    \/ WorkerCloses
    \/ \E j \in Readers \cup Writers : RingTakes(j)
    \/ \E r \in Readers : RingReads(r)
    \/ \E w \in Writers : RingWrites(w)
    \/ \E j \in Readers \cup Writers : RingRefuses(j)
    \/ \E j \in Jobs : Answered(j)
    \/ \E r \in Readers : ReadOn(r)
    \/ UNCHANGED vars

\* Next, as the list of its actions.
LEMMA FileCases == TypeOK /\ [Next]_vars => FileStep
<1> SUFFICES ASSUME ring \subseteq Readers \cup Writers, [Next]_vars PROVE FileStep
  BY DEF TypeOK
<1> QED
  BY DEF Next, FileStep, Pool, Ring, LoopThread, Ended, Jobs

\* Before the first step.
LEMMA FileInit == Init => FileInv
<1> SUFFICES ASSUME Init PROVE FileInv
  OBVIOUS
<1>1. TypeOK
  <2>1. array \in [Readers -> Seq(Nat)] /\ \A r \in Readers : Len(array[r]) = 0
    BY DEF Init
  <2>2. append \in BOOLEAN /\ shared \in BOOLEAN
    BY DEF Init
  <2> QED
    BY <2>1, <2>2, FileAssumption DEF Init, TypeOK, Jobs
<1>2. \A r \in Readers : ReadState(r)
  BY FileAssumption DEF Init, ReadState, Jobs
<1>3. Behind /\ Counted /\ Apart /\ Called /\ Results
  BY FS_EmptySet DEF Init, Behind, Counted, Apart, Called, Results, Jobs
<1>4. RingState
  BY DEF Init, RingState, AtPosition, Sharing, Jobs
<1> QED
  BY <1>1, <1>2, <1>3, <1>4 DEF FileInv, Kept

\* What ReadOn adds to a read's array.
LEMMA CollectedFacts ==
    ASSUME TypeOK, NEW r \in Readers, result[r] > 0
    PROVE  /\ Collected(r) \in Seq(Nat) /\ Len(Collected(r)) = result[r]
           /\ \A i \in 1 .. result[r] : Collected(r)[i] = from[r] + i - 1
<1>1. result[r] \in Nat /\ from[r] \in Nat
  BY DEF TypeOK, Jobs, Error
<1>2. \A i \in 1 .. result[r] : from[r] + i - 1 \in Nat
  BY <1>1
<1>3. Collected(r) \in [1 .. result[r] -> Nat]
  BY <1>2 DEF Collected
<1>4. Collected(r) \in Seq(Nat) /\ Len(Collected(r)) = result[r]
  BY <1>1, <1>3, IsASeq
<1> QED
  BY <1>4 DEF Collected

\* What a read has when it takes up a result: its bytes and those of the result.
LEMMA Longer ==
    ASSUME TypeOK, NEW r \in Readers, result[r] > 0
    PROVE  LET both == array[r] \o Collected(r) IN
           /\ both \in Seq(Nat)
           /\ Len(both) = Len(array[r]) + result[r]
           /\ \A i \in 1 .. Len(both) :
                both[i] = IF i <= Len(array[r]) THEN array[r][i]
                          ELSE from[r] + (i - Len(array[r])) - 1
<1>1. array[r] \in Seq(Nat)
  BY DEF TypeOK
<1>2. result[r] \in Nat /\ from[r] \in Nat /\ Len(array[r]) \in Nat
  BY <1>1, LenProperties DEF TypeOK, Jobs, Error
<1>3. /\ Collected(r) \in Seq(Nat) /\ Len(Collected(r)) = result[r]
      /\ \A i \in 1 .. result[r] : Collected(r)[i] = from[r] + i - 1
  BY CollectedFacts
<1>4. /\ array[r] \o Collected(r) \in Seq(Nat)
      /\ Len(array[r] \o Collected(r)) = Len(array[r]) + Len(Collected(r))
      /\ \A i \in 1 .. Len(array[r]) + Len(Collected(r)) :
           (array[r] \o Collected(r))[i] =
             IF i <= Len(array[r]) THEN array[r][i]
             ELSE Collected(r)[i - Len(array[r])]
  BY <1>1, <1>3, ConcatProperties
<1>5. ASSUME NEW i \in 1 .. Len(array[r]) + result[r], i > Len(array[r])
      PROVE  Collected(r)[i - Len(array[r])] = from[r] + (i - Len(array[r])) - 1
  <2>1. i - Len(array[r]) \in 1 .. result[r]
    BY <1>2, <1>5
  <2> QED
    BY <1>3, <2>1
<1> QED
  BY <1>2, <1>3, <1>4, <1>5

\* What n bytes written at p add to a set of earlier positions.
LEMMA WriteFacts ==
    ASSUME NEW S \in SUBSET Nat, NEW p \in Nat, NEW n \in Nat,
           IsFiniteSet(S), \A q \in S : q < p
    PROVE  LET more == S \cup (p .. p + n - 1) IN
           /\ IsFiniteSet(more) /\ Cardinality(more) = Cardinality(S) + n
           /\ \A q \in more : q < p + n
<1>1. S \cap (p .. p + n - 1) = {}
  OBVIOUS
<1>2. /\ IsFiniteSet(p .. p + n - 1)
      /\ Cardinality(p .. p + n - 1) = n
  <2>1. p \in Int /\ p + n - 1 \in Int
    OBVIOUS
  <2>2. IsFiniteSet(p .. p + n - 1)
    BY <2>1, FS_Interval
  <2>3. Cardinality(p .. p + n - 1) =
          IF p > p + n - 1 THEN 0 ELSE (p + n - 1) - p + 1
    BY <2>1, FS_Interval
  <2> QED
    BY <2>2, <2>3
<1>3. /\ IsFiniteSet(S \cup (p .. p + n - 1))
      /\ Cardinality(S \cup (p .. p + n - 1)) =
           Cardinality(S) + Cardinality(p .. p + n - 1)
           - Cardinality(S \cap (p .. p + n - 1))
  BY <1>2, FS_Union
<1>4. Cardinality(S \cup (p .. p + n - 1)) = Cardinality(S) + n
  <2>1. Cardinality(S \cap (p .. p + n - 1)) = 0
    BY <1>1, FS_EmptySet
  <2>2. Cardinality(S) \in Nat
    BY FS_CardinalityType
  <2> QED
    BY <1>2, <1>3, <2>1, <2>2
<1>5. \A q \in S \cup (p .. p + n - 1) : q < p + n
  OBVIOUS
<1> QED
  BY <1>3, <1>4, <1>5

\* A write() writes within the file or at its end.
LEMMA Place == TypeOK => WriteAt \in 0 .. len
  BY DEF TypeOK, WriteAt

\* A positional request the ring has begun is not beyond the end of the file.
LEMMA RingPlace ==
    ASSUME TypeOK, RingState, NEW w \in Writers, stage[w] = "taken"
    PROVE  RingWriteAt(w) \in 0 .. len
<1>1. w \in AtPosition
  BY FileAssumption DEF AtPosition
<1>2. at[w] \in Nat /\ len \in Nat /\ at[w] <= len
  BY <1>1 DEF TypeOK, RingState
<1> QED
  BY <1>2 DEF RingWriteAt

\* The types, action by action.
LEMMA FileTypeStep == FileInv /\ [Next]_vars => TypeOK'
<1> SUFFICES ASSUME FileInv, FileStep PROVE TypeOK'
  BY FileCases DEF FileInv
<1> USE FileAssumption DEF FileInv, TypeOK, reading, writing, uring, MayCall, Error, Submit
<1>0. Readers \subseteq Jobs /\ Writers \subseteq Jobs /\ Closer \in Jobs
  BY DEF Jobs
<1>1. ASSUME NEW r \in Readers, Read(r) PROVE TypeOK'
  <2>1. shared' \in BOOLEAN
    BY <1>1 DEF Read
  <2> QED
    BY <1>0, <1>1, <2>1 DEF Read
<1>2. ASSUME NEW w \in Writers, Write(w) PROVE TypeOK'
  <2>1. shared' \in BOOLEAN
    BY <1>2 DEF Write
  <2> QED
    BY <1>0, <1>2, <2>1 DEF Write
<1>c. CASE Close
  BY <1>0, <1>c DEF Close
<1>3. ASSUME NEW r \in Readers, WorkerReads(r) PROVE TypeOK'
  <2>1. ReadAt(r) \in Nat
    BY DEF ReadAt
  <2>2. PICK n \in 0 .. Chunk :
          /\ n = 0 <=> ReadAt(r) >= len
          /\ n > 0 => ReadAt(r) + n <= len
          /\ result' = [result EXCEPT ![r] = n]
          /\ fdpos' = IF offset[r] < 0 THEN fdpos + n ELSE fdpos
    BY <1>3 DEF WorkerReads
  <2>3. fdpos' \in 0 .. len
    BY <2>1, <2>2 DEF ReadAt
  <2>4. result' \in [Jobs -> Nat \cup {Error}]
    BY <1>0, <2>2
  <2> QED
    BY <1>0, <1>3, <2>1, <2>3, <2>4 DEF WorkerReads
<1>4. ASSUME NEW w \in Writers, WorkerWrites(w) PROVE TypeOK'
  <2>1. PICK n \in 1 .. Length[w] - total[w] :
          /\ written' = [written EXCEPT ![w] =
                            @ \cup (WriteAt .. WriteAt + n - 1)]
          /\ total' = [total EXCEPT ![w] = @ + n]
          /\ fdpos' = WriteAt + n
          /\ len' = IF WriteAt + n > len THEN WriteAt + n ELSE len
    BY <1>4 DEF WorkerWrites
  <2>2. WriteAt \in 0 .. len
    BY Place
  <2>3. len' \in Nat /\ len <= len' /\ fdpos' \in 0 .. len'
    BY <2>1, <2>2
  <2>4. total' \in [Writers -> Nat] /\ \A v \in Writers : total'[v] <= Length[v]
    BY <2>1
  <2>5. written' \in [Writers -> SUBSET Nat]
    BY <2>1, <2>2
  <2>6. \A v \in Writers : \A p \in written'[v] : p < len'
    BY <2>1, <2>2, <2>3
  <2>7. UNCHANGED <<append, fd, stage, uring, result, calls, success, reading,
                    from>>
    BY <1>4 DEF WorkerWrites
  <2>8. \A r \in Readers : \A i \in 1 .. Len(array'[r]) : array'[r][i] < len'
    BY <2>3, <2>7
  <2> QED
    BY <2>3, <2>4, <2>5, <2>6, <2>7, <2>8
<1>5. ASSUME NEW w \in Writers, WorkerWrote(w) PROVE TypeOK'
  BY <1>0, <1>5 DEF WorkerWrote
<1>6. ASSUME NEW j \in Jobs, Fails(j) PROVE TypeOK'
  BY <1>0, <1>6 DEF Fails, Leave
<1>7. CASE WorkerCloses
  BY <1>0, <1>7 DEF WorkerCloses
<1>8. ASSUME NEW j \in Jobs, Answered(j) PROVE TypeOK'
  BY <1>8 DEF Answered, Answer
<1>9. ASSUME NEW r \in Readers, ReadOn(r) PROVE TypeOK'
  <2>1. result[r] > 0 /\ result[r] \in Nat /\ from[r] + result[r] <= len
    BY <1>0, <1>9 DEF ReadOn, ReadState
  <2>2. /\ array[r] \o Collected(r) \in Seq(Nat)
        /\ Len(array[r] \o Collected(r)) = Len(array[r]) + result[r]
        /\ \A i \in 1 .. Len(array[r] \o Collected(r)) :
             (array[r] \o Collected(r))[i] = IF i <= Len(array[r]) THEN array[r][i]
               ELSE from[r] + (i - Len(array[r])) - 1
    BY <2>1, Longer
  <2>3. \A i \in 1 .. Len(array[r] \o Collected(r)) :
          (array[r] \o Collected(r))[i] < len
    <3>1. Len(array[r]) \in Nat /\ from[r] \in Nat /\ len \in Nat
      BY LenProperties
    <3>2. \A i \in 1 .. Len(array[r]) : array[r][i] < len
      OBVIOUS
    <3>3. ASSUME NEW i \in 1 .. Len(array[r]) + result[r], i > Len(array[r])
          PROVE  from[r] + (i - Len(array[r])) - 1 < len
      BY <2>1, <3>1, <3>3
    <3> SUFFICES ASSUME NEW i \in 1 .. Len(array[r] \o Collected(r))
                 PROVE  (array[r] \o Collected(r))[i] < len
      OBVIOUS
    <3> HIDE DEF FileInv, TypeOK
    <3>4. i \in 1 .. Len(array[r]) + result[r]
      BY <2>2
    <3>5. CASE i <= Len(array[r])
      <4>1. i \in 1 .. Len(array[r])
        BY <3>1, <3>4, <3>5
      <4> QED
        BY <2>2, <3>2, <3>5, <4>1
    <3>6. CASE i > Len(array[r])
      <4>1. ~(i <= Len(array[r]))
        BY <2>1, <3>1, <3>4, <3>6
      <4> QED
        BY <2>2, <3>3, <3>4, <3>6, <4>1
    <3> QED
      BY <2>1, <3>1, <3>4, <3>5, <3>6
  <2>4. array' = [array EXCEPT ![r] = array[r] \o Collected(r)]
    BY <1>9 DEF ReadOn
  <2>5. array' \in [Readers -> Seq(Nat)]
    BY <2>2, <2>4
  <2>6. \A q \in Readers : \A i \in 1 .. Len(array'[q]) : array'[q][i] < len
    BY <2>3, <2>4
  <2>7. offset' \in [Readers -> Nat \cup {-1}]
    <3>0. offset[r] \in Nat \cup {-1}
      OBVIOUS
    <3>1. offset[r] + result[r] \in Nat
      <4> HIDE DEF FileInv, TypeOK
      <4> QED
        BY <2>1, <3>0
    <3>2. offset' = [offset EXCEPT ![r] = offset[r] + result[r]]
      BY <1>9 DEF ReadOn
    <3> QED
      BY <3>1, <3>2
  <2> QED
    BY <1>0, <1>9, <2>5, <2>6, <2>7 DEF ReadOn
<1>10. CASE UNCHANGED vars
  BY <1>10 DEF vars
<1>11. ASSUME NEW j \in Readers \cup Writers, RingTakes(j) PROVE TypeOK'
  <2>1. j \in Readers => ReadAt(j) \in Nat
    BY DEF ReadAt
  <2>2. at' \in [Readers \cup Writers -> Nat]
    BY <1>11, <2>1 DEF RingTakes
  <2> QED
    BY <1>0, <1>11, <2>2 DEF RingTakes
<1>12. ASSUME NEW r \in Readers, RingReads(r) PROVE TypeOK'
  <2>1. PICK n \in 0 .. Chunk :
          /\ n = 0 <=> at[r] >= len
          /\ n > 0 => at[r] + n <= len
          /\ result' = [result EXCEPT ![r] = n]
          /\ fdpos' = IF offset[r] < 0 THEN at[r] + n ELSE fdpos
    BY <1>12 DEF RingReads
  <2>2. offset[r] < 0 => at[r] <= len
    BY <1>12 DEF RingReads, RingState, AtPosition
  <2>3. fdpos' \in 0 .. len
    BY <2>1, <2>2
  <2>4. result' \in [Jobs -> Nat \cup {Error}]
    BY <1>0, <2>1
  <2> QED
    BY <1>0, <1>12, <2>3, <2>4 DEF RingReads, Leave
<1>13. ASSUME NEW w \in Writers, RingWrites(w) PROVE TypeOK'
  <2>1. PICK n \in 0 .. Length[w] : RingWrote(w, n, n)
    BY <1>13 DEF RingWrites
  <2>2. RingWriteAt(w) \in 0 .. len
    BY <1>13, RingPlace DEF RingWrites
  <2>3. len' \in Nat /\ len <= len' /\ fdpos' \in 0 .. len'
    BY <2>1, <2>2 DEF RingWrote
  <2>4. total' \in [Writers -> Nat] /\ \A v \in Writers : total'[v] <= Length[v]
    BY <2>1 DEF RingWrote
  <2>5. written' \in [Writers -> SUBSET Nat]
    BY <2>1, <2>2 DEF RingWrote
  <2>6. \A v \in Writers : \A p \in written'[v] : p < len'
    BY <2>1, <2>2, <2>3 DEF RingWrote
  <2>7. /\ stage' = [stage EXCEPT ![w] = "done"]
        /\ result' = [result EXCEPT ![w] = n]
        /\ ring' = ring \ {w} /\ Leave(w)
        /\ UNCHANGED <<append, fd, shared, calls, success, reading, from>>
    BY <2>1 DEF RingWrote
  <2>8. \A r \in Readers : \A i \in 1 .. Len(array'[r]) : array'[r][i] < len'
    BY <2>3, <2>7
  <2>9. at' \in [Readers \cup Writers -> Nat]
    BY <2>7 DEF Leave
  <2> QED
    <3>1. /\ stage' \in [Jobs -> {"idle", "queued", "taken", "done", "over"}]
          /\ result' \in [Jobs -> Nat \cup {Error}]
          /\ ring' \subseteq Readers \cup Writers
      BY <1>0, <2>7
    <3>2. UNCHANGED <<append, fd, shared, calls, success, reading, from>>
      BY <2>7
    <3> QED
      BY <2>3, <2>4, <2>5, <2>6, <2>8, <2>9, <3>1, <3>2
<1>14. ASSUME NEW j \in Readers \cup Writers, RingRefuses(j) PROVE TypeOK'
  BY <1>14 DEF RingRefuses
<1> QED
  BY <1>1, <1>2, <1>c, <1>3, <1>4, <1>5, <1>6, <1>7, <1>8, <1>9, <1>10, <1>11,
     <1>12, <1>13, <1>14 DEF FileStep

\* Steps that leave a read's own state alone keep its part of the invariant.
LEMMA ReadStateStep ==
    FileInv /\ [Next]_vars => \A r \in Readers : ReadState(r)'
<1> SUFFICES ASSUME FileInv, FileStep, NEW r \in Readers PROVE ReadState(r)'
  BY FileCases DEF FileInv
<1>0. r \in Jobs /\ ReadState(r)
  BY DEF Jobs, FileInv
<1>t. /\ len \in Nat /\ sizeAt[r] \in Nat /\ from[r] \in Nat
      /\ offset[r] \in Nat \cup {-1} /\ start[r] \in Nat \cup {-1}
      /\ result[r] \in Nat \cup {-1} /\ array[r] \in Seq(Nat)
  BY <1>0 DEF FileInv, TypeOK, Error
<1>L. Len(array[r]) \in Nat
  BY <1>t, LenProperties
<1>f. \A j \in Jobs : j \in success => stage[j] = "over"
  BY DEF FileInv, Called
<1> USE DEF reading, writing, uring, MayCall, Error, ReadState
<1>m. ASSUME UNCHANGED <<start, sizeAt, offset, array>>, UNCHANGED from[r],
             UNCHANGED stage[r], UNCHANGED result[r], len' >= len, len' \in Nat,
             r \in success' <=> r \in success
      PROVE  ReadState(r)'
  BY <1>0, <1>t, <1>L, <1>m
<1>1. ASSUME NEW q \in Readers, Read(q) PROVE ReadState(r)'
  <2>1. PICK o \in Offsets : /\ start' = [start EXCEPT ![q] = o]
                             /\ offset' = [offset EXCEPT ![q] = o]
    BY <1>1 DEF Read
  <2>2. /\ stage' = [stage EXCEPT ![q] = "queued"] /\ stage[q] = "idle"
        /\ sizeAt' = [sizeAt EXCEPT ![q] = len]
        /\ UNCHANGED <<len, result, success, from, array>>
    BY <1>1 DEF Read
  <2>3. CASE q = r
    <3>1. stage'[r] = "queued" /\ sizeAt'[r] = len /\ start'[r] = o /\ offset'[r] = o
      BY <1>0, <2>1, <2>2, <2>3 DEF FileInv, TypeOK
    <3>2. array'[r] = <<>> /\ r \notin success'
      BY <1>0, <1>f, <2>2, <2>3
    <3>3. o \in Nat \cup {-1}
      BY FileAssumption
    <3> QED
      BY <1>t, <2>2, <3>1, <3>2, <3>3
  <2>4. CASE q # r
    BY <1>0, <1>t, <1>L, <2>1, <2>2, <2>4 DEF FileInv, TypeOK
  <2> QED
    BY <2>3, <2>4
<1>2. ASSUME NEW w \in Writers, Write(w) PROVE ReadState(r)'
  <2>1. w # r
    BY FileAssumption
  <2> QED
    BY <1>0, <1>2, <1>m, <1>t, <2>1 DEF Write, FileInv, TypeOK
<1>c. CASE Close
  <2>1. Closer # r
    BY FileAssumption
  <2> QED
    BY <1>0, <1>c, <1>m, <1>t, <2>1 DEF Close, FileInv, TypeOK
<1>3. ASSUME NEW q \in Readers, WorkerReads(q) PROVE ReadState(r)'
  <2>1. PICK n \in 0 .. Chunk :
          /\ n = 0 <=> ReadAt(q) >= len
          /\ n > 0 => ReadAt(q) + n <= len
          /\ result' = [result EXCEPT ![q] = n]
    BY <1>3 DEF WorkerReads
  <2>2. /\ stage[q] = "queued" /\ stage' = [stage EXCEPT ![q] = "done"]
        /\ from' = [from EXCEPT ![q] = ReadAt(q)]
        /\ UNCHANGED <<len, success, reading>>
    BY <1>3 DEF WorkerReads
  <2>3. CASE q = r
    <3>1. stage'[r] = "done" /\ result'[r] = n /\ from'[r] = ReadAt(r)
      BY <1>0, <2>1, <2>2, <2>3 DEF FileInv, TypeOK
    <3>2. start[r] >= 0 => ReadAt(r) = offset[r]
      BY <1>0, <1>t, <1>L DEF ReadAt
    <3>3. r \notin success'
      BY <1>0, <1>f, <2>2, <2>3
    <3>4. n \in Nat /\ ReadAt(r) \in Nat
      BY <1>t, FileAssumption DEF ReadAt, FileInv, TypeOK
    <3>5. UNCHANGED <<start, sizeAt, offset, array, len>>
      BY <2>2
    <3>6. start[r] >= 0 /\ n = 0 => offset[r] >= sizeAt[r]
      BY <1>0, <1>t, <2>1, <2>3, <3>2
    <3>7. n > 0 => ReadAt(r) + n <= len
      BY <2>1, <2>3
    <3> QED
      BY <1>0, <1>t, <1>L, <3>1, <3>2, <3>3, <3>4, <3>5, <3>6, <3>7
  <2>4. CASE q # r
    BY <1>0, <1>m, <1>t, <2>1, <2>2, <2>4 DEF FileInv, TypeOK
  <2> QED
    BY <2>3, <2>4
<1>4. ASSUME NEW w \in Writers, WorkerWrites(w) PROVE ReadState(r)'
  <2>1. len' \in Nat /\ len' >= len
    <3>1. PICK n \in 1 .. Length[w] - total[w] :
            len' = IF WriteAt + n > len THEN WriteAt + n ELSE len
      BY <1>4 DEF WorkerWrites
    <3>2. WriteAt \in 0 .. len
      BY Place DEF FileInv
    <3> QED
      BY <1>t, <3>1, <3>2
  <2> QED
    BY <1>4, <1>m, <2>1 DEF WorkerWrites
<1>5. ASSUME NEW w \in Writers, WorkerWrote(w) PROVE ReadState(r)'
  <2>1. w # r
    BY FileAssumption
  <2> QED
    BY <1>0, <1>5, <1>m, <1>t, <2>1 DEF WorkerWrote, FileInv, TypeOK
<1>6. ASSUME NEW j \in Jobs, Fails(j) PROVE ReadState(r)'
  <2>1. CASE j = r
    <3>1. stage'[r] = "done" /\ result'[r] = -1 /\ r \notin success'
      BY <1>0, <1>6, <1>f, <2>1 DEF Fails, FileInv, TypeOK
    <3> QED
      BY <1>0, <1>6, <1>t, <2>1, <3>1 DEF Fails
  <2>2. CASE j # r
    BY <1>0, <1>6, <1>m, <1>t, <2>2 DEF Fails, FileInv, TypeOK
  <2> QED
    BY <2>1, <2>2
<1>7. CASE WorkerCloses
  <2>1. Closer # r
    BY FileAssumption
  <2> QED
    BY <1>0, <1>7, <1>m, <1>t, <2>1 DEF WorkerCloses, FileInv, TypeOK
<1>8. ASSUME NEW j \in Jobs, Answered(j) PROVE ReadState(r)'
  <2>1. CASE j = r
    <3>1. stage[r] = "done" /\ stage'[r] = "over" /\ result[r] <= 0
      BY <1>0, <1>8, <2>1 DEF Answered, Answer, FileInv, TypeOK
    <3>2. r \in success' => result[r] = 0
      BY <1>0, <1>8, <1>f, <1>t, <2>1, <3>1 DEF Answered, Answer
    <3> QED
      BY <1>0, <1>8, <1>t, <2>1, <3>1, <3>2 DEF Answered
  <2>2. CASE j # r
    BY <1>0, <1>8, <1>m, <1>t, <2>2 DEF Answered, Answer, FileInv, TypeOK
  <2> QED
    BY <2>1, <2>2
<1>9. ASSUME NEW q \in Readers, ReadOn(q) PROVE ReadState(r)'
  <2>1. CASE q # r
    BY <1>0, <1>9, <1>t, <1>L, <2>1 DEF ReadOn, FileInv, TypeOK
  <2>2. CASE q = r
    <3>1. /\ stage[r] = "done" /\ result[r] > 0
          /\ stage'[r] = "queued" /\ offset'[r] = offset[r] + result[r]
          /\ array'[r] = array[r] \o Collected(r)
          /\ UNCHANGED <<start, sizeAt, len, success>>
      BY <1>0, <1>9, <2>2 DEF ReadOn, FileInv, TypeOK
    <3>2. /\ Len(array'[r]) = Len(array[r]) + result[r]
          /\ \A i \in 1 .. Len(array'[r]) :
               array'[r][i] = IF i <= Len(array[r]) THEN array[r][i]
                              ELSE from[r] + (i - Len(array[r])) - 1
      BY <3>1, Longer DEF FileInv
    <3>3. start[r] >= 0 => \A i \in 1 .. Len(array'[r]) :
                              array'[r][i] = start[r] + i - 1
      <4> SUFFICES ASSUME start[r] >= 0, NEW i \in 1 .. Len(array'[r])
                   PROVE  array'[r][i] = start[r] + i - 1
        OBVIOUS
      <4>1. CASE i <= Len(array[r])
        BY <1>0, <1>L, <3>2, <4>1
      <4>2. CASE i > Len(array[r])
        <5>1. from[r] = start[r] + Len(array[r])
          BY <1>0, <1>t, <3>1
        <5>2. array'[r][i] = from[r] + (i - Len(array[r])) - 1
          BY <1>L, <3>2, <4>2
        <5>3. i \in Nat
          BY <1>t, <1>L, <3>1, <3>2
        <5> HIDE DEF ReadState
        <5> QED
          BY <1>t, <1>L, <5>1, <5>2, <5>3
      <4> QED
        BY <1>L, <3>2, <4>1, <4>2
    <3>4. r \notin success
      BY <1>0, <1>f, <3>1
    <3>5. start'[r] = start[r] /\ sizeAt'[r] = sizeAt[r] /\ len' = len
      BY <3>1
    <3>6. start[r] >= 0 => offset'[r] = start'[r] + Len(array'[r])
      BY <1>0, <1>t, <1>L, <3>1, <3>2, <3>5
    <3>7. sizeAt'[r] <= len'
      BY <1>0, <3>5
    <3> QED
      BY <3>1, <3>3, <3>4, <3>5, <3>6, <3>7
  <2> QED
    BY <2>1, <2>2
<1>10. CASE UNCHANGED vars
  BY <1>0, <1>10, <1>m, <1>t DEF vars
<1>11. ASSUME NEW j \in Readers \cup Writers, RingTakes(j) PROVE ReadState(r)'
  <2>1. CASE j = r
    <3>1. stage'[r] = "taken" /\ r \notin success
      BY <1>0, <1>f, <1>11, <2>1 DEF RingTakes, FileInv, TypeOK
    <3> QED
      BY <1>0, <1>11, <1>t, <3>1 DEF RingTakes
  <2>2. CASE j # r
    BY <1>0, <1>11, <1>m, <1>t, <2>2 DEF RingTakes, FileInv, TypeOK
  <2> QED
    BY <2>1, <2>2
<1>12. ASSUME NEW q \in Readers, RingReads(q) PROVE ReadState(r)'
  <2>1. PICK n \in 0 .. Chunk :
          /\ n = 0 <=> at[q] >= len
          /\ n > 0 => at[q] + n <= len
          /\ result' = [result EXCEPT ![q] = n]
    BY <1>12 DEF RingReads
  <2>2. /\ stage[q] = "taken" /\ stage' = [stage EXCEPT ![q] = "done"]
        /\ from' = [from EXCEPT ![q] = at[q]]
        /\ UNCHANGED <<len, success, reading>>
    BY <1>12 DEF RingReads
  <2>3. CASE q = r
    <3>1. stage'[r] = "done" /\ result'[r] = n /\ from'[r] = at[r]
      BY <1>0, <2>1, <2>2, <2>3 DEF FileInv, TypeOK
    <3>2. start[r] >= 0 => at[r] = offset[r]
      BY <1>0, <1>t, <1>L, <2>2, <2>3 DEF FileInv, RingState
    <3>3. r \notin success'
      BY <1>0, <1>f, <2>2, <2>3
    <3>4. n \in Nat /\ at[r] \in Nat
      BY FileAssumption DEF FileInv, TypeOK
    <3>5. UNCHANGED <<start, sizeAt, offset, array, len>>
      BY <2>2
    <3>6. start[r] >= 0 /\ n = 0 => offset[r] >= sizeAt[r]
      BY <1>0, <1>t, <2>1, <2>3, <3>2
    <3>7. n > 0 => at[r] + n <= len
      BY <2>1, <2>3
    <3>8. stage'[r] = "done" => from'[r] + result'[r] <= len' \/ result'[r] <= 0
      BY <1>t, <3>1, <3>4, <3>5, <3>7
    <3>9. start'[r] >= 0 => /\ offset'[r] = start'[r] + Len(array'[r])
                            /\ from'[r] = offset'[r]
                            /\ result'[r] = 0 => offset'[r] >= sizeAt'[r]
      BY <1>0, <3>1, <3>2, <3>5, <3>6
    <3> QED
      BY <1>0, <3>1, <3>3, <3>5, <3>8, <3>9
  <2>4. CASE q # r
    <3>1. UNCHANGED <<from[r], stage[r], result[r]>>
      BY <1>0, <2>1, <2>2, <2>4 DEF FileInv, TypeOK
    <3> QED
      BY <1>m, <1>t, <2>2, <3>1
  <2> QED
    BY <2>3, <2>4
<1>13. ASSUME NEW w \in Writers, RingWrites(w) PROVE ReadState(r)'
  <2>1. PICK n \in 0 .. Length[w] : RingWrote(w, n, n)
    BY <1>13 DEF RingWrites
  <2>2. RingWriteAt(w) \in 0 .. len
    BY <1>13, RingPlace DEF RingWrites, FileInv
  <2>3. len' \in Nat /\ len' >= len
    BY <1>t, <2>1, <2>2 DEF RingWrote
  <2>4. w # r
    BY FileAssumption
  <2> QED
    BY <1>0, <1>m, <2>1, <2>3, <2>4 DEF RingWrote, FileInv, TypeOK
<1>14. ASSUME NEW j \in Readers \cup Writers, RingRefuses(j) PROVE ReadState(r)'
  BY <1>0, <1>14, <1>m, <1>t DEF RingRefuses
<1> QED
  BY <1>1, <1>2, <1>c, <1>3, <1>4, <1>5, <1>6, <1>7, <1>8, <1>9, <1>10, <1>11,
     <1>12, <1>13, <1>14 DEF FileStep

\* The ring's requests, and the descriptor's position while it is not shared.
LEMMA RingStateStep == FileInv /\ [Next]_vars => RingState'
<1> SUFFICES ASSUME TypeOK, RingState, Called, FileStep PROVE RingState'
  BY FileCases DEF FileInv
<1> USE FileAssumption DEF TypeOK, reading, writing, uring, MayCall, Submit
<1>j. /\ Readers \subseteq Jobs /\ Writers \subseteq Jobs /\ Closer \in Jobs
      /\ AtPosition \subseteq Readers \cup Writers
      /\ \A j \in Jobs : j = Closer \/ j \in Readers \cup Writers
  BY DEF Jobs, AtPosition
<1>o. \A r \in Readers : offset[r] \in Int /\ (offset[r] >= 0 <=> ~(offset[r] < 0))
  OBVIOUS
\* Steps that add nothing to the ring's work, nor move a position in use.
<1>m. ASSUME AtPosition' \subseteq AtPosition, ring' \subseteq ring,
             UNCHANGED shared, len' >= len, len' \in Nat,
             \A j \in Readers \cup Writers : stage'[j] = "taken" => at'[j] = at[j],
             \A j \in Jobs : stage'[j] = "taken" => stage[j] = "taken" /\ j \in ring',
             \A j \in ring' : stage'[j] = stage[j],
             \A r \in Readers : stage'[r] = "taken" => offset'[r] = offset[r],
             \A w \in Writers : stage'[w] = "idle" \/ w \in ring' =>
                /\ stage[w] = "idle" \/ w \in ring
                /\ written'[w] = written[w] /\ total'[w] = total[w],
             \/ fdpos' = fdpos
             \/ shared
             \/ \A j \in AtPosition' : stage'[j] # "taken"
      PROVE  RingState'
  <2>1. ~shared => ~Sharing'
    BY <1>m DEF RingState, Sharing
  <2>2. \A j \in AtPosition' : stage'[j] = "taken" => at'[j] <= len'
    <3>1. \A j \in AtPosition' :
            stage'[j] = "taken" => stage[j] = "taken" /\ at'[j] = at[j]
      BY <1>j, <1>m
    <3>2. \A j \in AtPosition : stage[j] = "taken" => at[j] <= len
      BY DEF RingState
    <3>3. len \in Nat /\ \A j \in AtPosition : at[j] \in Nat
      BY <1>j
    <3> HIDE DEF TypeOK
    <3> QED
      BY <1>m, <3>1, <3>2, <3>3
  <2>3. ~shared => \A j \in AtPosition' : stage'[j] = "taken" => at'[j] = fdpos'
    BY <1>j, <1>m DEF RingState
  <2>4. \A r \in Readers : stage'[r] = "taken" /\ offset'[r] >= 0 => at'[r] = offset'[r]
    BY <1>j, <1>m DEF RingState
  <2> QED
    BY <1>m, <2>1, <2>2, <2>3, <2>4 DEF RingState
\* Who works at the position beside a request of the ring shares it.
<1>a. ASSUME ~shared, NEW i \in AtPosition, NEW j \in AtPosition, i # j
      PROVE  stage[j] # "taken"
  BY <1>a, <1>j DEF RingState, Sharing
<1>1. ASSUME NEW q \in Readers, Read(q) PROVE RingState'
  <2>1. PICK o \in Offsets : offset' = [offset EXCEPT ![q] = o]
    BY <1>1 DEF Read
  <2>2. /\ stage[q] = "idle" /\ stage' = [stage EXCEPT ![q] = "queued"]
        /\ ring' \subseteq ring \cup {q} /\ ring \subseteq ring'
        /\ ~shared' => ~shared /\ ~Sharing'
        /\ UNCHANGED <<len, fdpos, at, writing>>
    BY <1>1 DEF Read
  <2>3. \A j \in AtPosition' : j # q => j \in AtPosition
    BY <2>1, <2>2 DEF AtPosition
  <2>4. q \notin Writers /\ stage'[q] = "queued"
    BY <1>j, <2>2
  <2>5. \A j \in Jobs : j # q => stage'[j] = stage[j]
    BY <2>2
  <2>6. \A j \in Readers : j # q => offset'[j] = offset[j]
    BY <2>1
  <2> QED
    BY <1>j, <2>2, <2>3, <2>4, <2>5, <2>6 DEF RingState
<1>2. ASSUME NEW v \in Writers, Write(v) PROVE RingState'
  <2>2. /\ stage[v] = "idle" /\ stage' = [stage EXCEPT ![v] = "queued"]
        /\ ring' \subseteq ring \cup {v} /\ ring \subseteq ring'
        /\ ~shared' => ~shared /\ ~Sharing'
        /\ UNCHANGED <<len, fdpos, at, offset, writing>>
    BY <1>2 DEF Write
  <2>3. \A j \in AtPosition' : j # v => j \in AtPosition
    BY <2>2 DEF AtPosition
  <2>4. v \notin Readers /\ stage'[v] = "queued"
    BY <1>j, <2>2
  <2>5. \A j \in Jobs : j # v => stage'[j] = stage[j]
    BY <2>2
  <2> QED
    BY <1>j, <2>2, <2>3, <2>4, <2>5 DEF RingState
<1>3. CASE Close \/ WorkerCloses
  <2>1. /\ \A j \in Readers \cup Writers : stage'[j] = stage[j]
        /\ stage'[Closer] # "taken"
        /\ UNCHANGED <<len, fdpos, at, ring, shared, offset, writing>>
    BY <1>j, <1>3 DEF Close, WorkerCloses
  <2>2. AtPosition' = AtPosition
    BY <2>1 DEF AtPosition
  <2>3. \A j \in Jobs : stage'[j] = "taken" => stage[j] = "taken" /\ j \in ring'
    BY <1>j, <2>1 DEF RingState
  <2> QED
    BY <1>j, <1>m, <2>1, <2>2, <2>3
<1>4. ASSUME NEW q \in Readers, WorkerReads(q) PROVE RingState'
  <2>1. /\ stage[q] = "queued" /\ q \notin ring
        /\ stage' = [stage EXCEPT ![q] = "done"]
        /\ ~(offset[q] < 0) => fdpos' = fdpos
        /\ UNCHANGED <<len, at, ring, shared, offset, writing>>
    BY <1>4 DEF WorkerReads
  <2>2. AtPosition' \subseteq AtPosition \ {q}
    BY <1>j, <2>1 DEF AtPosition
  <2>3. offset[q] < 0 => q \in AtPosition
    BY <2>1 DEF AtPosition
  <2>4. ~shared /\ fdpos' # fdpos => \A j \in AtPosition' : stage'[j] # "taken"
    BY <1>a, <1>j, <2>1, <2>2, <2>3
  <2> QED
    BY <1>j, <1>m, <2>1, <2>2, <2>4 DEF RingState
<1>5. ASSUME NEW v \in Writers, WorkerWrites(v) PROVE RingState'
  <2>1. /\ stage[v] = "queued" /\ v \notin ring
        /\ UNCHANGED <<stage, at, ring, shared, offset>>
        /\ \A w \in Writers : w # v => written'[w] = written[w] /\ total'[w] = total[w]
    BY <1>5 DEF WorkerWrites
  <2>2. len' >= len /\ len' \in Nat
    BY <1>5, Place DEF WorkerWrites
  <2>3. AtPosition' = AtPosition /\ v \in AtPosition
    BY <1>j, <2>1 DEF AtPosition
  <2>4. ~shared => \A j \in AtPosition' : stage'[j] # "taken"
    BY <1>a, <2>1, <2>3
  <2> QED
    BY <1>j, <1>m, <2>1, <2>2, <2>3, <2>4 DEF RingState
<1>6. ASSUME NEW j \in Jobs,
             (WorkerWrote(j) /\ j \in Writers) \/ Fails(j) \/ Answered(j)
      PROVE  RingState'
  <2>1. /\ stage[j] # "idle" /\ \E t \in {"done", "over"} : stage' = [stage EXCEPT ![j] = t]
        /\ ring' = ring \ {j}
        /\ UNCHANGED <<len, fdpos, shared, offset, writing>>
        /\ at' = at \/ Leave(j)
    BY <1>6 DEF WorkerWrote, Fails, Answered, Answer, RingState
  <2>2. AtPosition' \subseteq AtPosition
    BY <1>j, <2>1 DEF AtPosition
  <2> QED
    BY <1>j, <1>m, <2>1, <2>2 DEF RingState, Leave
<1>7. ASSUME NEW i \in Readers \cup Writers, RingTakes(i) PROVE RingState'
  <2>1. /\ i \in ring /\ stage[i] = "queued"
        /\ stage' = [stage EXCEPT ![i] = "taken"]
        /\ at' = [at EXCEPT ![i] = IF i \in Readers THEN ReadAt(i) ELSE fdpos]
        /\ UNCHANGED <<len, fdpos, ring, shared, offset, writing>>
    BY <1>7 DEF RingTakes
  <2>2. AtPosition' = AtPosition
    BY <1>j, <2>1 DEF AtPosition
  <2>3. i \in AtPosition => at'[i] = fdpos
    BY <2>1 DEF AtPosition, ReadAt
  <2>4. i \in Readers /\ offset[i] >= 0 => at'[i] = offset[i]
    BY <1>o, <2>1 DEF ReadAt
  <2>5. \A j \in Readers \cup Writers : j # i => at'[j] = at[j]
    BY <2>1
  <2>6. \A j \in Jobs : stage'[j] = IF j = i THEN "taken" ELSE stage[j]
    BY <1>j, <2>1
  <2>7. Sharing' = Sharing
    BY <2>1, <2>2 DEF Sharing
  <2> QED
    BY <1>j, <2>1, <2>2, <2>3, <2>4, <2>5, <2>6, <2>7 DEF RingState
<1>8. ASSUME NEW q \in Readers, RingReads(q) PROVE RingState'
  <2>1. /\ stage[q] = "taken" /\ stage' = [stage EXCEPT ![q] = "done"]
        /\ ~(offset[q] < 0) => fdpos' = fdpos
        /\ ring' = ring \ {q} /\ Leave(q)
        /\ UNCHANGED <<len, shared, offset, writing>>
    BY <1>8 DEF RingReads
  <2>2. AtPosition' \subseteq AtPosition \ {q}
    BY <1>j, <2>1 DEF AtPosition
  <2>3. offset[q] < 0 => q \in AtPosition
    BY <2>1 DEF AtPosition
  <2>4. ~shared /\ fdpos' # fdpos => \A j \in AtPosition' : stage'[j] # "taken"
    BY <1>a, <1>j, <2>1, <2>2, <2>3
  <2> QED
    BY <1>j, <1>m, <2>1, <2>2, <2>4 DEF RingState, Leave
<1>9. ASSUME NEW v \in Writers, RingWrites(v) PROVE RingState'
  <2>0. PICK n \in 0 .. Length[v] : RingWrote(v, n, n) /\ stage[v] = "taken"
    BY <1>9 DEF RingWrites
  <2>1. /\ stage[v] = "taken" /\ stage' = [stage EXCEPT ![v] = "done"]
        /\ ring' = ring \ {v} /\ Leave(v)
        /\ UNCHANGED <<shared, offset>>
        /\ \A w \in Writers : w # v => written'[w] = written[w] /\ total'[w] = total[w]
    BY <2>0 DEF RingWrote
  <2>2. len' >= len /\ len' \in Nat
    BY <2>0, RingPlace DEF RingWrote
  <2>3. AtPosition' \subseteq AtPosition \ {v} /\ v \in AtPosition
    BY <1>j, <2>1 DEF AtPosition
  <2>4. ~shared => \A j \in AtPosition' : stage'[j] # "taken"
    BY <1>a, <1>j, <2>1, <2>3
  <2> QED
    BY <1>j, <1>m, <2>1, <2>2, <2>3, <2>4 DEF RingState, Leave
<1>10. ASSUME NEW i \in Readers \cup Writers, RingRefuses(i) PROVE RingState'
  <2>1. /\ i \in ring /\ stage[i] = "queued" /\ ring' = ring \ {i}
        /\ UNCHANGED <<len, fdpos, stage, at, shared, offset, writing>>
    BY <1>10 DEF RingRefuses
  <2>2. AtPosition' = AtPosition
    BY <2>1 DEF AtPosition
  <2> QED
    BY <1>j, <1>m, <2>1, <2>2 DEF RingState
<1>11. ASSUME NEW q \in Readers, ReadOn(q) PROVE RingState'
  <2>1. /\ stage[q] = "done" /\ result[q] > 0
        /\ stage' = [stage EXCEPT ![q] = "queued"]
        /\ offset' = [offset EXCEPT ![q] = @ + result[q]]
        /\ ring' \subseteq ring \cup {q} /\ ring \subseteq ring'
        /\ UNCHANGED <<len, fdpos, at, shared, writing>>
    BY <1>11 DEF ReadOn
  <2>2. offset'[q] \in Nat /\ ~(offset'[q] < 0)
    <3>1. result[q] \in Nat /\ offset[q] \in Nat \cup {-1}
      BY <1>j, <2>1 DEF Error
    <3>2. offset'[q] = offset[q] + result[q]
      BY <2>1
    <3> QED
      BY <2>1, <3>1, <3>2
  <2>3. AtPosition' \subseteq AtPosition \ {q}
    BY <2>1, <2>2 DEF AtPosition
  <2>4. /\ \A j \in Jobs : stage'[j] = IF j = q THEN "queued" ELSE stage[j]
        /\ \A j \in Readers : j # q => offset'[j] = offset[j]
        /\ q \notin Writers
    BY <1>j, <2>1
  <2>5. ~shared' => ~Sharing'
    <3>1. ~shared => \A i, j \in AtPosition : i # j => i \notin ring
      BY DEF RingState, Sharing
    <3>2. ~shared' => \A i, j \in AtPosition' : i # j => i \notin ring'
      BY <2>1, <2>3, <3>1
    <3> QED
      BY <3>2 DEF Sharing
  <2> QED
    BY <1>j, <2>1, <2>3, <2>4, <2>5 DEF RingState
<1>12. CASE UNCHANGED vars
  BY <1>12 DEF vars, RingState, AtPosition, Sharing
<1> QED
  BY <1>j, <1>1, <1>2, <1>3, <1>4, <1>5, <1>6, <1>7, <1>8, <1>9, <1>10, <1>11, <1>12
     DEF FileStep

\* A write's result is what it wrote.
LEMMA ResultsStep == FileInv /\ [Next]_vars => Results'
<1> SUFFICES ASSUME FileInv, FileStep, NEW w \in Writers
             PROVE  /\ stage'[w] = "done" /\ result'[w] >= 0 => result'[w] = total'[w]
                    /\ w \in success' => result'[w] = total'[w]
  BY FileCases DEF FileInv, Results
<1>0. /\ w \in Jobs /\ w \notin Readers /\ w # Closer
      /\ stage[w] = "done" /\ result[w] >= 0 => result[w] = total[w]
      /\ w \in success => result[w] = total[w] /\ stage[w] = "over"
      /\ stage \in [Jobs -> {"idle", "queued", "taken", "done", "over"}]
      /\ result \in [Jobs -> Nat \cup {-1}]
      /\ total \in [Writers -> Nat]
  BY FileAssumption DEF Jobs, FileInv, Results, Called, TypeOK, Error
<1> USE <1>0 DEF reading, writing, uring, MayCall, Error
<1>1. CASE \/ \E r \in Readers : Read(r) \/ WorkerReads(r) \/ RingReads(r) \/ ReadOn(r)
           \/ Close \/ WorkerCloses
  <2>1. stage'[w] = stage[w] /\ result'[w] = result[w] /\ UNCHANGED <<success, total>>
    BY <1>1 DEF Read, WorkerReads, RingReads, ReadOn, Close, WorkerCloses
  <2> QED
    BY <2>1
<1>2. CASE \E v \in Writers : Write(v)
  BY <1>2 DEF Write
<1>3. CASE \E v \in Writers : WorkerWrites(v)
  BY <1>3 DEF WorkerWrites
<1>4. CASE \E v \in Writers : WorkerWrote(v)
  BY <1>4 DEF WorkerWrote
<1>5. CASE \E v \in Writers : RingWrites(v)
  BY <1>5 DEF RingWrites, RingWrote
<1>6. CASE \E j \in Jobs : Fails(j)
  BY <1>6 DEF Fails
<1>7. CASE \E j \in Jobs : Answered(j)
  BY <1>7 DEF Answered, Answer
<1>8. CASE \E j \in Readers \cup Writers : RingTakes(j) \/ RingRefuses(j)
  BY <1>8 DEF RingTakes, RingRefuses
<1>9. CASE UNCHANGED vars
  BY <1>9 DEF vars
<1> QED
  BY <1>1, <1>2, <1>3, <1>4, <1>5, <1>6, <1>7, <1>8, <1>9 DEF FileStep

\* What was written lies behind the next write's place, each writer counts what
\* it wrote, and no two wrote the same byte.
LEMMA KeptStep == FileInv /\ [Next]_vars => Kept'
<1>s. ASSUME FileStep, append' \/ ~shared' PROVE append' = append /\ (append \/ ~shared)
  <2>1. CASE \/ \E r \in Readers : Read(r)
             \/ \E w \in Writers : Write(w)
    <3>1. append' = append /\ (~shared' => ~shared)
      BY <2>1 DEF Read, Write
    <3> QED
      BY <1>s, <3>1
  <2>2. CASE UNCHANGED <<append, shared>>
    BY <1>s, <2>2
  <2> QED
    BY <1>s, <2>1, <2>2
       DEF FileStep, Close, WorkerReads, WorkerWrites, WorkerWrote, Fails,
       WorkerCloses, RingTakes, RingReads, RingWrites, RingWrote, RingRefuses,
       Answered, ReadOn, vars, uring
<1> SUFFICES ASSUME FileInv, FileStep, append' = append, append \/ ~shared
             PROVE  Behind' /\ Counted' /\ Apart'
  BY <1>s, FileCases DEF FileInv, Kept
<1>0. /\ Behind /\ Counted /\ Apart
      /\ len \in Nat /\ fdpos \in Nat /\ fdpos <= len
      /\ written \in [Writers -> SUBSET Nat]
      /\ total \in [Writers -> Nat]
      /\ WriteAt \in Nat
  BY Place DEF FileInv, TypeOK, Kept
<1> USE DEF reading, writing, uring
\* Steps of others, which may move the position forwards.
<1>m. ASSUME UNCHANGED <<written, total, len>>,
             fdpos' \in Nat, append \/ fdpos' >= fdpos
      PROVE  Behind' /\ Counted' /\ Apart'
  BY <1>0, <1>m DEF Behind, Counted, Apart, WriteAt
\* n bytes written at p, where the next write() was to write.
<1>w. ASSUME NEW w \in Writers, NEW n \in Nat, NEW p \in Nat, n > 0 => p = WriteAt,
             n = 0 => written[w] = {} /\ total[w] = 0,
             written' = [written EXCEPT ![w] = written[w] \cup (p .. p + n - 1)],
             total' = [total EXCEPT ![w] = total[w] + n],
             WriteAt' >= WriteAt + n, WriteAt' \in Nat
      PROVE  Behind' /\ Counted' /\ Apart'
  <2> DEFINE more == written[w] \cup (p .. p + n - 1)
  <2>1. /\ IsFiniteSet(written[w]) /\ Cardinality(written[w]) = total[w]
        /\ written[w] \in SUBSET Nat /\ \A q \in written[w] : q < p
    BY <1>0, <1>w DEF Counted, Behind
  <2>2. /\ IsFiniteSet(more) /\ Cardinality(more) = total[w] + n
        /\ \A q \in more : q < p + n
    BY <2>1, WriteFacts
  <2>m. \A q \in more : q \in Nat
    BY <2>1
  <2>3. n = 0 => more = {}
    BY <1>w
  <2>4. /\ written'[w] = more /\ total'[w] = total[w] + n
        /\ \A v \in Writers : v # w => written'[v] = written[v] /\ total'[v] = total[v]
    BY <1>0, <1>w
  <2> HIDE DEF more
  <2>5. Behind'
    <3>1. \A q \in more : q < WriteAt'
      <4>1. CASE n = 0
        BY <2>3, <4>1
      <4>2. CASE n # 0
        BY <1>0, <1>w, <2>2, <2>m, <4>2
      <4> QED
        BY <4>1, <4>2
    <3>2. \A v \in Writers : \A q \in written[v] : q < WriteAt'
      BY <1>0, <1>w DEF Behind
    <3> QED
      BY <2>4, <3>1, <3>2 DEF Behind
  <2>6. Counted'
    BY <1>0, <2>2, <2>4 DEF Counted
  <2>7. Apart'
    <3>1. \A v \in Writers : v # w => written[v] \cap more = {}
      <4>1. \A v \in Writers : \A q \in written[v] : q \notin p .. p + n - 1
        BY <1>0, <1>w DEF Behind
      <4> QED
        BY <1>0, <4>1 DEF Apart, more
    <3> QED
      BY <1>0, <2>4, <3>1 DEF Apart
  <2> QED
    BY <2>5, <2>6, <2>7
<1>1. CASE \/ \E r \in Readers : Read(r) \/ ReadOn(r)
           \/ \E w \in Writers : Write(w) \/ WorkerWrote(w)
           \/ Close \/ WorkerCloses
           \/ \E j \in Jobs : Fails(j) \/ Answered(j)
           \/ \E j \in Readers \cup Writers : RingTakes(j) \/ RingRefuses(j)
           \/ UNCHANGED vars
  <2>1. UNCHANGED <<written, total, len, fdpos>>
    BY <1>1 DEF Read, ReadOn, Write, WorkerWrote, Close, WorkerCloses, Fails,
       Answered, RingTakes, RingRefuses, vars
  <2> QED
    BY <1>0, <1>m, <2>1
<1>2. ASSUME NEW r \in Readers, WorkerReads(r) PROVE Behind' /\ Counted' /\ Apart'
  <2>1. UNCHANGED <<written, total, len>> /\ fdpos' \in Nat /\ fdpos' >= fdpos
    BY <1>0, <1>2, FileAssumption DEF WorkerReads
  <2> QED
    BY <1>m, <2>1
<1>3. ASSUME NEW w \in Writers, WorkerWrites(w) PROVE Behind' /\ Counted' /\ Apart'
  <2>1. PICK n \in 1 .. Length[w] - total[w] :
          /\ written' = [written EXCEPT ![w] =
                            @ \cup (WriteAt .. WriteAt + n - 1)]
          /\ total' = [total EXCEPT ![w] = @ + n]
          /\ fdpos' = WriteAt + n
          /\ len' = IF WriteAt + n > len THEN WriteAt + n ELSE len
    BY <1>3 DEF WorkerWrites
  <2>2. n \in Nat /\ n > 0
    OBVIOUS
  <2>3. WriteAt' = WriteAt + n
    BY <1>0, <2>1, <2>2 DEF WriteAt
  <2> QED
    <3>1. written' = [written EXCEPT ![w] = written[w] \cup (WriteAt .. WriteAt + n - 1)]
      BY <2>1
    <3>2. total' = [total EXCEPT ![w] = total[w] + n]
      BY <2>1
    <3>3. ~(n = 0) /\ WriteAt' >= WriteAt + n /\ WriteAt' \in Nat
      BY <1>0, <2>2, <2>3
    <3> HIDE DEF FileInv
    <3> QED
      BY <1>0, <1>w, <2>2, <3>1, <3>2, <3>3
<1>4. ASSUME NEW r \in Readers, RingReads(r) PROVE Behind' /\ Counted' /\ Apart'
  <2>1. PICK n \in 0 .. Chunk : fdpos' = IF offset[r] < 0 THEN at[r] + n ELSE fdpos
    BY <1>4 DEF RingReads
  <2>2. ~shared /\ offset[r] < 0 => at[r] = fdpos
    BY <1>4 DEF RingReads, FileInv, RingState, AtPosition
  <2>3. at[r] \in Nat /\ n \in Nat
    BY FileAssumption DEF FileInv, TypeOK
  <2>4. UNCHANGED <<written, total, len>>
    BY <1>4 DEF RingReads
  <2> QED
    BY <1>0, <1>m, <2>1, <2>2, <2>3, <2>4
<1>5. ASSUME NEW w \in Writers, RingWrites(w) PROVE Behind' /\ Counted' /\ Apart'
  <2>1. PICK n \in 0 .. Length[w] : RingWrote(w, n, n) /\ (n = 0 <=> Length[w] = 0)
    BY <1>5 DEF RingWrites
  <2>2. /\ RingWriteAt(w) \in 0 .. len /\ stage[w] = "taken"
        /\ w \in ring /\ w \in AtPosition
    BY <1>5, RingPlace, FileAssumption
       DEF RingWrites, FileInv, RingState, AtPosition, Jobs
  <2>3. written[w] = {} /\ total[w] = 0 /\ (~shared => at[w] = fdpos)
    BY <2>2 DEF FileInv, RingState
  <2>4. n \in Nat /\ (n > 0 => Length[w] > 0)
    BY <2>1, FileAssumption
  <2>5. n > 0 => RingWriteAt(w) = WriteAt
    BY <2>3, <2>4 DEF RingWriteAt, WriteAt
  <2>6. WriteAt' >= WriteAt + n /\ WriteAt' \in Nat
    <3>1. /\ fdpos' = RingWriteAt(w) + n
          /\ len' = IF RingWriteAt(w) + n > len THEN RingWriteAt(w) + n ELSE len
      BY <2>1 DEF RingWrote
    <3>2. ~append => RingWriteAt(w) = fdpos
      BY <2>3 DEF RingWriteAt
    <3> QED
      BY <1>0, <2>2, <2>4, <2>5, <3>1, <3>2 DEF WriteAt
  <2>7. /\ written' = [written EXCEPT ![w] =
                          written[w] \cup (RingWriteAt(w) .. RingWriteAt(w) + n - 1)]
        /\ total' = [total EXCEPT ![w] = total[w] + n]
    BY <2>1, <2>3 DEF RingWrote
  <2> HIDE DEF FileInv
  <2>8. RingWriteAt(w) \in Nat
    BY <1>0, <2>2
  <2> QED
    BY <1>w, <2>3, <2>4, <2>5, <2>6, <2>7, <2>8
<1> QED
  BY <1>1, <1>2, <1>3, <1>4, <1>5 DEF FileStep

\* A request is called back when it is over, and once.
LEMMA CalledStep == FileInv /\ [Next]_vars => Called'
<1> SUFFICES ASSUME FileInv, FileStep PROVE Called'
  BY FileCases DEF FileInv
<1>0. /\ stage \in [Jobs -> {"idle", "queued", "taken", "done", "over"}]
      /\ calls \in [Jobs -> Nat] /\ Called
  BY DEF FileInv, TypeOK
<1>1. ASSUME NEW j \in Jobs, Answered(j) PROVE Called'
  BY <1>0, <1>1 DEF Answered, Answer, Called
<1>2. ASSUME NEW j \in Jobs, NEW s \in {"queued", "taken", "done"}, stage[j] # "over",
             stage' = [stage EXCEPT ![j] = s], UNCHANGED <<calls, success>>
      PROVE  Called'
  BY <1>0, <1>2 DEF Called
<1>3. ASSUME UNCHANGED <<stage, calls, success>> PROVE Called'
  BY <1>0, <1>3 DEF Called
<1>4. CASE \E j \in Jobs, s \in {"queued", "taken", "done"} :
             /\ stage[j] # "over" /\ stage' = [stage EXCEPT ![j] = s]
             /\ UNCHANGED <<calls, success>>
  BY <1>2, <1>4
<1>5. \/ \E j \in Jobs : Answered(j)
      \/ \E j \in Jobs, s \in {"queued", "taken", "done"} :
             /\ stage[j] # "over" /\ stage' = [stage EXCEPT ![j] = s]
             /\ UNCHANGED <<calls, success>>
      \/ UNCHANGED <<stage, calls, success>>
  BY DEF FileStep, Read, Write, Close, MayCall, WorkerReads, WorkerWrites,
         WorkerWrote, Fails, WorkerCloses, RingTakes, RingReads, RingWrites,
         RingWrote, RingRefuses, ReadOn, vars, Jobs
<1> QED
  BY <1>1, <1>3, <1>4, <1>5

\* The strengthened invariant holds in every reachable state.
THEOREM FileInductive == Spec => []FileInv
<1>1. FileInv /\ [Next]_vars => FileInv'
  BY FileTypeStep, ReadStateStep, RingStateStep, ResultsStep, KeptStep,
     CalledStep DEF FileInv
<1> QED
  BY <1>1, FileInit, PTL DEF Spec

\* Every variable stays within the values the code can give it: offsets, results
\* and the bytes gathered by each request.
THEOREM TypeCorrect == Spec => []TypeOK
<1>1. FileInv => TypeOK
  BY DEF FileInv
<1> QED
  BY <1>1, FileInductive, PTL

\* Whatever the other requests do, a read with an offset of its own collects
\* the file's bytes from there, in order.
THEOREM AlwaysInOrder == Spec => []ReadsInOrder
<1>1. FileInv => ReadsInOrder
  <2> SUFFICES ASSUME FileInv, NEW r \in Readers, start[r] >= 0
               PROVE  /\ Len(array[r]) = offset[r] - start[r]
                      /\ \A i \in 1 .. Len(array[r]) : array[r][i] = start[r] + i - 1
    BY DEF ReadsInOrder
  <2>1. start[r] \in Nat /\ Len(array[r]) \in Nat
    BY LenProperties DEF FileInv, TypeOK
  <2>2. ReadState(r)
    BY DEF FileInv
  <2> QED
    BY <2>1, <2>2 DEF ReadState
<1> QED
  BY <1>1, FileInductive, PTL

\* Its Success means that it has all of the file from there on.
THEOREM AlwaysWhole == Spec => []ReadsWhole
<1>1. FileInv => ReadsWhole
  <2> SUFFICES ASSUME FileInv, NEW r \in Readers, r \in success, start[r] >= 0
               PROVE  Len(array[r]) >= sizeAt[r] - start[r]
    BY DEF ReadsWhole
  <2>1. start[r] \in Nat /\ Len(array[r]) \in Nat /\ sizeAt[r] \in Nat
    BY LenProperties DEF FileInv, TypeOK
  <2>2. ReadState(r)
    BY DEF FileInv
  <2> QED
    BY <2>1, <2>2 DEF ReadState
<1> QED
  BY <1>1, FileInductive, PTL

\* Both: a read with an offset of its own returns the file's bytes from there.
THEOREM AlwaysRight == Spec => []ReadsRight
  BY AlwaysInOrder, AlwaysWhole, PTL DEF ReadsRight

\* Writes never overwrite each other, and each is answered with the number of
\* bytes it left in the file: any writes on the pool, any to a file opened to
\* append, and on the ring those that share the position with no other request.
THEOREM AlwaysKept == Spec => []WritesKept
<1>1. FileInv => WritesKept
  BY DEF FileInv, Kept, Results, Counted, Apart, WritesKept, WritesStand
<1> QED
  BY <1>1, FileInductive, PTL

\* Each request is answered once, after all its system calls.
THEOREM AnsweredOnce == Spec => RequestsSpec
<1> DEFINE open(st) == {j \in Jobs : st[j] \in {"queued", "taken", "done"}}
<1>1. Init => CallsOnce!Init
  BY DEF Init, CallsOnce!Init
<1>2. FileInv /\ [Next]_vars => [CallsOnce!Next]_<<open(stage), calls>>
  <2> SUFFICES ASSUME FileInv, FileStep
               PROVE  CallsOnce!Next \/ UNCHANGED <<open(stage), calls>>
    BY FileCases DEF FileInv
  <2>0. /\ stage \in [Jobs -> {"idle", "queued", "taken", "done", "over"}]
        /\ Called
    BY DEF FileInv, TypeOK
  <2>1. ASSUME NEW j \in Jobs, Answered(j) PROVE CallsOnce!Answer(j)
    BY <2>0, <2>1 DEF Answered, Answer, CallsOnce!Answer
  <2>2. ASSUME NEW j \in Jobs, stage[j] = "idle", UNCHANGED calls,
               stage' = [stage EXCEPT ![j] = "queued"]
        PROVE  CallsOnce!Make(j)
    BY <2>0, <2>2 DEF Called, CallsOnce!Make
  <2>3. ASSUME NEW j \in Jobs, NEW s \in {"queued", "taken", "done"},
               stage[j] \in {"queued", "taken", "done"}, UNCHANGED calls,
               stage' = [stage EXCEPT ![j] = s]
        PROVE  UNCHANGED <<open(stage), calls>>
    BY <2>0, <2>3
  <2>4. \/ \E j \in Jobs : Answered(j)
        \/ \E j \in Jobs : /\ stage[j] = "idle" /\ UNCHANGED calls
                           /\ stage' = [stage EXCEPT ![j] = "queued"]
        \/ \E j \in Jobs, s \in {"queued", "taken", "done"} :
              /\ stage[j] \in {"queued", "taken", "done"} /\ UNCHANGED calls
              /\ stage' = [stage EXCEPT ![j] = s]
        \/ UNCHANGED <<stage, calls>>
    BY DEF FileStep, Read, Write, Close, MayCall, WorkerReads, WorkerWrites,
           WorkerWrote, Fails, WorkerCloses, RingTakes, RingReads, RingWrites,
           RingWrote, RingRefuses, ReadOn, vars, Jobs
  <2> QED
    BY <2>1, <2>2, <2>3, <2>4 DEF CallsOnce!Next
<1> QED
  BY <1>1, <1>2, FileInductive, PTL DEF Spec, RequestsSpec, CallsOnce!Spec
==============================================================================
