----------------------------- MODULE StreamProofs -----------------------------
(***************************************************************************)
(* Theorems about module Stream, for any number of writes and shutdowns,   *)
(* writes of any length and bursts of any size.                            *)
(***************************************************************************)
EXTENDS Stream, SequenceTheorems, FiniteSetTheorems, TLAPS

-----------------------------------------------------------------------------
(* The inductive invariant.                                                *)

Elems(s) == {s[i] : i \in DOMAIN s}
Increasing(s) == \A i, j \in DOMAIN s : i < j => s[i] < s[j]
Below(S, T) == \A v \in S, w \in T : v < w

\* A request is called back, or on its way to it.
Made(w) == answers[w] > 0 \/ w \in Queued

\* The three queues hold the writes in the order in which they were made.
OrderInv ==
    /\ Increasing(queue) /\ Increasing(completed) /\ Increasing(calling)
    /\ Below(Elems(calling), Elems(completed) \cup Elems(queue))
    /\ Below(Elems(completed), Elems(queue))

\* Requests are made in order, and what is pending was not answered.
MadeInv ==
    /\ \A v, w \in Writes : v < w /\ Made(w) => Made(v)
    /\ \A j \in Pending : answers[j] = 0
    /\ AnsweredInOrder

\* What is queued has no outcome and bytes left, what is completed has one.
StatusInv ==
    /\ \A w \in Elems(queue) : status[w] = "none" /\ left[w] > 0
    /\ \A w \in Elems(completed) \cup Elems(calling) :
          status[w] \in {"ok", "error", "canceled"}
    /\ \A w \in Writes : ~Made(w) => status[w] = "none"

\* Where the loop is, what the life of the handle is, and what is empty then.
PhaseInv ==
    /\ io \in {"idle", "writing", "written", "drained"} => calling = <<>>
    /\ io \in {"writing", "written"} => handle = "open"
    /\ handle = "destroying" =>
          /\ io \in {"calls", "called", "drained"}
          /\ queue = <<>> /\ completed = <<>>
          /\ io = "drained" => shutting = None
    /\ handle = "closed" =>
          /\ io = "idle" /\ shutting = None
          /\ queue = <<>> /\ completed = <<>>

\* Once a shutdown is asked for no write is accepted, and once it is done none
\* is left; writes are canceled by closing alone.
ShutInv ==
    /\ shutting # None => ~writable
    /\ shut => ~writable /\ queue = <<>>
    /\ shut \/ handle \in {"open", "closing"} =>
          \A w \in Writes : status[w] # "canceled"

\* The wire holds the writes in order, as far as they have got, and each write
\* has its room on it.
WireInv ==
    /\ WireInOrder
    /\ \A i \in DOMAIN wire : Made(wire[i])
    /\ \A w \in Elems(queue) :
          /\ Bytes(w) + left[w] = Length
          /\ \A i \in DOMAIN wire : wire[i] <= w
          /\ Len(wire) + left[w] <= w * Length
    /\ \A w \in Writes : ~Made(w) => Len(wire) <= (w - 1) * Length

IInv == TypeOK /\ OrderInv /\ MadeInv /\ StatusInv /\ PhaseInv /\ ShutInv /\ WireInv

-----------------------------------------------------------------------------
(* Sequences, and the sets of their elements.                              *)

\* What the proofs use of the constants.
LEMMA Sizes ==
    /\ MaxWrites \in Nat /\ MaxShutdowns \in Nat /\ Burst \in Nat
    /\ Length \in Nat /\ Length > 0
BY StreamAssumption DEF StreamAssumption

\* Writes and shutdowns are numbers, and no number is both.
LEMMA Numbers ==
    /\ Writes \subseteq Nat \ {0} /\ Shutdowns \subseteq Nat \ {0}
    /\ Writes \cap Shutdowns = {} /\ None \notin Jobs
    /\ \A w \in Writes : w <= MaxWrites
BY Sizes DEF Writes, Shutdowns, Jobs, None

\* A sequence of writes is one of numbers.
LEMMA WritesAreNumbers == ASSUME NEW s \in Seq(Writes) PROVE s \in Seq(Nat)
<1>1. Writes \subseteq Nat
  BY Numbers
<1> QED
  BY <1>1, SeqMonotonic

\* The set Queued, by its three parts, before and after a step.
LEMMA QueuedElems ==
    /\ Queued = Elems(queue) \cup Elems(completed) \cup Elems(calling)
    /\ Queued' = Elems(queue') \cup Elems(completed') \cup Elems(calling')
BY DEF Queued, Elems

\* The empty sequence.
LEMMA ElemsEmpty ==
    /\ Elems(<<>>) = {}
    /\ Increasing(<<>>)
    /\ \A S : \A s \in Seq(S) : Elems(s) \subseteq S /\ (Elems(s) = {} => s = <<>>)
BY DEF Elems, Increasing

\* One element more at the end.
LEMMA ElemsAppend ==
    ASSUME NEW s \in Seq(Nat), NEW w \in Nat
    PROVE  /\ Elems(Append(s, w)) = Elems(s) \cup {w}
           /\ Increasing(s) /\ Below(Elems(s), {w}) => Increasing(Append(s, w))
<1>1. Elems(Append(s, w)) = Elems(s) \cup {w}
  <2>1. ASSUME NEW v \in Elems(s) \cup {w} PROVE v \in Elems(Append(s, w))
    <3>1. CASE v = w
      <4>1. Len(s) + 1 \in DOMAIN Append(s, w) /\ Append(s, w)[Len(s) + 1] = w
        OBVIOUS
      <4> QED
        BY <3>1, <4>1 DEF Elems
    <3>2. CASE v \in Elems(s)
      <4>1. PICK i \in DOMAIN s : s[i] = v
        BY <3>2 DEF Elems
      <4>2. i \in DOMAIN Append(s, w) /\ Append(s, w)[i] = v
        BY <4>1
      <4> QED
        BY <4>2 DEF Elems
    <3> QED
      BY <2>1, <3>1, <3>2
  <2>2. ASSUME NEW v \in Elems(Append(s, w)) PROVE v \in Elems(s) \cup {w}
    BY DEF Elems
  <2> QED
    BY <2>1, <2>2
<1>2. ASSUME Increasing(s), Below(Elems(s), {w}) PROVE Increasing(Append(s, w))
  BY <1>2 DEF Increasing, Below, Elems
<1> QED
  BY <1>1, <1>2

\* The first element.
LEMMA ElemsHead ==
    ASSUME NEW S, NEW s \in Seq(S), s # <<>>
    PROVE  /\ Head(s) \in S /\ Tail(s) \in Seq(S)
           /\ Elems(s) = {Head(s)} \cup Elems(Tail(s))
           /\ <<Head(s)>> \o Tail(s) = s
<1>1. ASSUME NEW v \in Elems(s) PROVE v = Head(s) \/ v \in Elems(Tail(s))
  <2>1. PICK i \in DOMAIN s : s[i] = v
    BY DEF Elems
  <2>2. i # 1 => i - 1 \in DOMAIN Tail(s) /\ Tail(s)[i - 1] = v
    BY <2>1
  <2> QED
    BY <2>1, <2>2 DEF Elems
<1>2. ASSUME NEW v \in Elems(Tail(s)) PROVE v \in Elems(s)
  <2>1. PICK i \in DOMAIN Tail(s) : Tail(s)[i] = v
    BY DEF Elems
  <2>2. i + 1 \in DOMAIN s /\ s[i + 1] = v
    BY <2>1
  <2> QED
    BY <2>2 DEF Elems
<1>3. Head(s) \in Elems(s)
  BY DEF Elems
<1>4. <<Head(s)>> \o Tail(s) = s
  OBVIOUS
<1> QED
  BY <1>1, <1>2, <1>3, <1>4

\* The first element of an increasing sequence is below all others.
LEMMA IncreasingHead ==
    ASSUME NEW s \in Seq(Nat), s # <<>>, Increasing(s)
    PROVE  Increasing(Tail(s)) /\ Below({Head(s)}, Elems(Tail(s)))
<1>1. \A i \in DOMAIN Tail(s) : i + 1 \in DOMAIN s /\ Tail(s)[i] = s[i + 1] /\ i + 1 > 1
  OBVIOUS
<1>2. DOMAIN Tail(s) \subseteq Nat /\ 1 \in DOMAIN s /\ Head(s) = s[1]
  OBVIOUS
<1> QED
  BY <1>1, <1>2 DEF Increasing, Below, Elems

\* Two sequences one after the other.
LEMMA ElemsConcat ==
    ASSUME NEW s \in Seq(Nat), NEW t \in Seq(Nat)
    PROVE  /\ Elems(s \o t) = Elems(s) \cup Elems(t)
           /\ Increasing(s) /\ Increasing(t) /\ Below(Elems(s), Elems(t))
                => Increasing(s \o t)
<1>1. ASSUME NEW v \in Elems(s) \cup Elems(t) PROVE v \in Elems(s \o t)
  <2>1. CASE v \in Elems(s)
    <3>1. PICK i \in DOMAIN s : s[i] = v
      BY <2>1 DEF Elems
    <3>2. i \in DOMAIN (s \o t) /\ (s \o t)[i] = v
      BY <3>1
    <3> QED
      BY <3>2 DEF Elems
  <2>2. CASE v \in Elems(t)
    <3>1. PICK i \in DOMAIN t : t[i] = v
      BY <2>2 DEF Elems
    <3>2. Len(s) + i \in DOMAIN (s \o t) /\ (s \o t)[Len(s) + i] = v
      BY <3>1
    <3> QED
      BY <3>2 DEF Elems
  <2> QED
    BY <1>1, <2>1, <2>2
<1>2. ASSUME NEW i \in DOMAIN (s \o t)
      PROVE  \/ i \in DOMAIN s /\ (s \o t)[i] = s[i]
             \/ i - Len(s) \in DOMAIN t /\ (s \o t)[i] = t[i - Len(s)] /\ i > Len(s)
  OBVIOUS
<1>3. ASSUME NEW v \in Elems(s \o t) PROVE v \in Elems(s) \cup Elems(t)
  BY <1>2 DEF Elems
<1>4. ASSUME Increasing(s), Increasing(t), Below(Elems(s), Elems(t))
      PROVE  Increasing(s \o t)
  <2> SUFFICES ASSUME NEW i \in DOMAIN (s \o t), NEW j \in DOMAIN (s \o t), i < j
               PROVE  (s \o t)[i] < (s \o t)[j]
    BY DEF Increasing
  <2>1. CASE j \in DOMAIN s /\ (s \o t)[j] = s[j]
    BY <1>2, <1>4, <2>1 DEF Increasing
  <2>2. CASE j - Len(s) \in DOMAIN t /\ (s \o t)[j] = t[j - Len(s)]
    <3>1. CASE i \in DOMAIN s /\ (s \o t)[i] = s[i]
      BY <1>4, <2>2, <3>1 DEF Below, Elems
    <3>2. CASE i - Len(s) \in DOMAIN t /\ (s \o t)[i] = t[i - Len(s)]
      <4>1. i - Len(s) < j - Len(s)
        OBVIOUS
      <4> QED
        BY <1>4, <2>2, <3>2, <4>1 DEF Increasing
    <3> QED
      BY <1>2, <3>1, <3>2
  <2> QED
    BY <1>2, <2>1, <2>2
<1> QED
  BY <1>1, <1>3, <1>4

-----------------------------------------------------------------------------
(* The wire.                                                               *)

\* A write that comes later has more room before it.
LEMMA Rooms ==
    ASSUME NEW v \in Nat, NEW w \in Nat, v < w
    PROVE  v * Length <= (w - 1) * Length
<1>1. PICK d \in Nat : w - 1 = v + d
  <2>1. w - 1 - v \in Nat /\ w - 1 = v + (w - 1 - v)
    OBVIOUS
  <2> QED
    BY <2>1
<1>2. (v + d) * Length = v * Length + d * Length
  BY Sizes
<1>3. d * Length \in Nat /\ v * Length \in Nat
  BY Sizes
<1> QED
  BY <1>1, <1>2, <1>3

\* The bytes of one write are a natural number.
LEMMA BytesType ==
    ASSUME wire \in Seq(Writes), NEW w
    PROVE  IsFiniteSet({i \in DOMAIN wire : wire[i] = w}) /\ Bytes(w) \in Nat
<1>1. IsFiniteSet(1 .. Len(wire))
  BY FS_Interval
<1>2. IsFiniteSet({i \in DOMAIN wire : wire[i] = w})
  BY <1>1, FS_Subset
<1> QED
  BY <1>2, FS_CardinalityType DEF Bytes

\* What it means that the kernel takes n bytes of w.
GrowsBy(w, n) ==
    /\ wire' \in Seq(Writes) /\ Len(wire') = Len(wire) + n
    /\ DOMAIN wire \subseteq DOMAIN wire'
    /\ \A i \in DOMAIN wire : wire'[i] = wire[i]
    /\ \A i \in DOMAIN wire' : i \in DOMAIN wire \/ (i > Len(wire) /\ wire'[i] = w)
    /\ \A v \in Writes : v # w => Bytes(v)' = Bytes(v)
    /\ Bytes(w)' = Bytes(w) + n

\* The bytes taken are appended to the wire.
LEMMA WireGrows ==
    ASSUME wire \in Seq(Writes), NEW w \in Writes, NEW n \in Nat,
           wire' = wire \o [i \in 1 .. n |-> w]
    PROVE  GrowsBy(w, n)
<1> DEFINE more == [i \in 1 .. n |-> w]
<1>1. more \in Seq(Writes) /\ Len(more) = n
  OBVIOUS
<1>2. \A i \in 1 .. n : more[i] = w
  OBVIOUS
<1> HIDE DEF more
<1>3. wire' = wire \o more
  BY DEF more
<1>4. wire' \in Seq(Writes) /\ Len(wire') = Len(wire) + n
  BY <1>1, <1>3
<1>5. /\ DOMAIN wire \subseteq DOMAIN wire'
      /\ \A i \in DOMAIN wire : wire'[i] = wire[i]
  BY <1>1, <1>3
<1>6. \A i \in DOMAIN wire' : i \in DOMAIN wire \/ (i > Len(wire) /\ wire'[i] = w)
  BY <1>1, <1>2, <1>3
<1>7. ASSUME NEW v \in Writes, v # w PROVE Bytes(v)' = Bytes(v)
  <2>1. {i \in DOMAIN wire' : wire'[i] = v} = {i \in DOMAIN wire : wire[i] = v}
    BY <1>5, <1>6, <1>7
  <2> QED
    BY <2>1 DEF Bytes
<1>8. Bytes(w)' = Bytes(w) + n
  <2> DEFINE old == {i \in DOMAIN wire : wire[i] = w}
             new == Len(wire) + 1 .. Len(wire) + n
  <2>1. \A i \in new : i \in DOMAIN wire' /\ i \notin DOMAIN wire
    BY <1>4
  <2>2. {i \in DOMAIN wire' : wire'[i] = w} = old \cup new
    <3>1. \A i \in DOMAIN wire' : i \notin DOMAIN wire => i \in new
      BY <1>4
    <3> QED
      BY <1>5, <1>6, <2>1, <3>1
  <2>3. old \cap new = {}
    BY <2>1
  <2>4. IsFiniteSet(new) /\ Cardinality(new) = n
    BY FS_Interval
  <2>5. IsFiniteSet(old) /\ Cardinality(old) \in Nat
    BY BytesType DEF Bytes
  <2> HIDE DEF old, new
  <2>6. Cardinality(old \cup new)
         = Cardinality(old) + Cardinality(new) - Cardinality(old \cap new)
    BY <2>4, <2>5, FS_Union
  <2>7. Cardinality(old \cap new) = 0
    BY <2>3, FS_EmptySet
  <2>8. Bytes(w)' = Cardinality(old \cup new) /\ Bytes(w) = Cardinality(old)
    BY <2>2 DEF Bytes, old
  <2> QED
    BY <2>4, <2>5, <2>6, <2>7, <2>8
<1> QED
  BY <1>4, <1>5, <1>6, <1>7, <1>8 DEF GrowsBy

\* Or none.
LEMMA WireStays ==
    ASSUME wire \in Seq(Writes), NEW w \in Writes, UNCHANGED wire
    PROVE  GrowsBy(w, 0)
<1>1. \A v \in Writes : Bytes(v)' = Bytes(v) /\ Bytes(v) \in Nat
  BY BytesType DEF Bytes
<1> QED
  BY <1>1 DEF GrowsBy

\* The two ways in which uv__try_write leaves w: finished, or not.
TakenWhole(w, bytes, rest, n) ==
    /\ queue' = rest /\ completed' = Append(completed, w)
    /\ \E o \in {"ok", "error"} :
         status' = [status EXCEPT ![w] = o] /\ (o = "ok" => n = bytes)
    /\ \E l \in 0 .. bytes : left' = [left EXCEPT ![w] = l]

TakenInPart(w, bytes, rest, n) ==
    /\ queue' = <<w>> \o rest /\ n < bytes
    /\ left' = [left EXCEPT ![w] = bytes - n]
    /\ UNCHANGED <<completed, status>>

\* uv__try_write of w: all of it goes out or fails, or a part goes out.
LEMMA TryTakes ==
    ASSUME wire \in Seq(Writes), NEW w \in Writes, NEW bytes \in 1 .. Length,
           NEW rest, Try(w, bytes, rest)
    PROVE  \E n \in 0 .. bytes :
              /\ GrowsBy(w, n)
              /\ TakenWhole(w, bytes, rest, n) \/ TakenInPart(w, bytes, rest, n)
<1>0. bytes \in Nat /\ bytes \in 0 .. bytes /\ 0 \in 0 .. bytes
  BY Sizes
<1>1. CASE /\ wire' = wire \o [i \in 1 .. bytes |-> w]
           /\ left' = [left EXCEPT ![w] = 0]
           /\ status' = [status EXCEPT ![w] = "ok"]
           /\ completed' = Append(completed, w) /\ queue' = rest
  <2>1. GrowsBy(w, bytes)
    BY <1>0, <1>1, WireGrows
  <2>2. TakenWhole(w, bytes, rest, bytes)
    BY <1>0, <1>1 DEF TakenWhole
  <2> QED
    BY <1>0, <2>1, <2>2
<1>2. ASSUME NEW n \in 0 .. bytes - 1,
             wire' = wire \o [i \in 1 .. n |-> w],
             left' = [left EXCEPT ![w] = bytes - n],
             queue' = <<w>> \o rest, UNCHANGED <<completed, status>>
      PROVE  \E m \in 0 .. bytes : GrowsBy(w, m) /\ TakenInPart(w, bytes, rest, m)
  <2>1. n \in Nat /\ n \in 0 .. bytes /\ n < bytes
    BY <1>0
  <2>2. GrowsBy(w, n)
    BY <1>2, <2>1, WireGrows
  <2>3. TakenInPart(w, bytes, rest, n)
    BY <1>2, <2>1 DEF TakenInPart
  <2> QED
    BY <2>1, <2>2, <2>3
<1>3. CASE /\ left' = [left EXCEPT ![w] = bytes]
           /\ status' = [status EXCEPT ![w] = "error"]
           /\ completed' = Append(completed, w) /\ queue' = rest
           /\ UNCHANGED wire
  <2>1. GrowsBy(w, 0)
    BY <1>3, WireStays
  <2>2. TakenWhole(w, bytes, rest, 0)
    BY <1>0, <1>3 DEF TakenWhole
  <2> QED
    BY <1>0, <2>1, <2>2
<1> QED
  BY <1>1, <1>2, <1>3 DEF Try

-----------------------------------------------------------------------------
(* uv__try_write keeps the invariant, made by stream::write or uv__write.  *)

\* What holds when w is tried with bytes left and rest behind it.
Triable(w, bytes, rest) ==
    /\ status[w] = "none" /\ answers[w] = 0
    /\ \A v \in Writes : v < w => Made(v)
    /\ Elems(queue) \ {w} = Elems(rest) /\ Increasing(rest)
    /\ Below({w}, Elems(rest))
    /\ Below(Elems(calling) \cup Elems(completed), {w} \cup Elems(rest))
    /\ Bytes(w) + bytes = Length
    /\ \A i \in DOMAIN wire : wire[i] <= w
    /\ Len(wire) + bytes <= w * Length
    /\ ~shut /\ handle = "open"

\* What is then queued.
LEMMA TryQueues ==
    ASSUME IInv, NEW w \in Writes, NEW bytes \in 1 .. Length, NEW rest \in Seq(Writes),
           NEW n \in 0 .. bytes, Triable(w, bytes, rest), UNCHANGED <<calling, answers>>,
           TakenWhole(w, bytes, rest, n) \/ TakenInPart(w, bytes, rest, n)
    PROVE  /\ queue' \in Seq(Writes) /\ completed' \in Seq(Writes)
           /\ Elems(queue') \cup Elems(completed') \cup Elems(calling')
                = Elems(queue) \cup Elems(completed) \cup Elems(calling) \cup {w}
           /\ Elems(queue') \subseteq Elems(rest) \cup {w}
           /\ OrderInv'
<1>1. w \in Nat /\ rest \in Seq(Nat) /\ completed \in Seq(Nat) /\ w \notin Elems(rest)
  <2>1. w \in Nat /\ rest \in Seq(Nat) /\ completed \in Seq(Nat)
    BY Numbers, WritesAreNumbers DEF IInv, TypeOK
  <2>2. w \notin Elems(rest)
    BY <2>1 DEF Triable
  <2> QED
    BY <2>1, <2>2
<1>2. /\ Elems(<<w>>) = {w} /\ Increasing(<<w>>) /\ <<w>> \in Seq(Nat)
      /\ <<w>> \in Seq(Writes)
  BY <1>1 DEF Elems, Increasing
<1>3. CASE TakenWhole(w, bytes, rest, n)
  <2>1. queue' = rest /\ completed' = Append(completed, w)
    BY <1>3 DEF TakenWhole
  <2>2. Elems(completed') = Elems(completed) \cup {w}
    BY <1>1, <2>1, ElemsAppend
  <2>3. Increasing(completed')
    BY <1>1, <2>1, ElemsAppend DEF IInv, OrderInv, Triable, Below
  <2>4. queue' \in Seq(Writes) /\ completed' \in Seq(Writes)
    BY <2>1 DEF IInv, TypeOK
  <2>5. OrderInv'
    BY <2>1, <2>2, <2>3 DEF IInv, OrderInv, Triable, Below
  <2> QED
    BY <2>1, <2>2, <2>4, <2>5 DEF Triable
<1>4. CASE TakenInPart(w, bytes, rest, n)
  <2>1. queue' = <<w>> \o rest /\ UNCHANGED completed
    BY <1>4 DEF TakenInPart
  <2>2. Elems(queue') = {w} \cup Elems(rest)
    BY <1>1, <1>2, <2>1, ElemsConcat
  <2>3. Increasing(queue')
    BY <1>1, <1>2, <2>1, ElemsConcat DEF Triable
  <2>4. queue' \in Seq(Writes) /\ completed' \in Seq(Writes)
    BY <1>2, <2>1 DEF IInv, TypeOK
  <2>5. OrderInv'
    BY <2>1, <2>2, <2>3 DEF IInv, OrderInv, Triable, Below
  <2> QED
    BY <2>1, <2>2, <2>4, <2>5 DEF Triable
<1> QED
  BY <1>3, <1>4

\* What is then answered, known and out, and that it is in order.
LEMMA TryKeeps ==
    ASSUME IInv, NEW w \in Writes, NEW bytes \in 1 .. Length, NEW rest \in Seq(Writes),
           Triable(w, bytes, rest), Try(w, bytes, rest),
           UNCHANGED <<handle, calling, answers, writable, shutting, shut>>,
           io' \in {"idle", "writing", "written", "called", "drained"},
           io' # "called" => calling = <<>>,
           count' \in 0 .. Burst
    PROVE  IInv' /\ Pending' = Pending \cup {w}
<1>1. PICK n \in 0 .. bytes :
         /\ GrowsBy(w, n)
         /\ TakenWhole(w, bytes, rest, n) \/ TakenInPart(w, bytes, rest, n)
  BY TryTakes DEF IInv, TypeOK
<1>2. /\ queue' \in Seq(Writes) /\ completed' \in Seq(Writes)
      /\ Elems(queue') \cup Elems(completed') \cup Elems(calling')
           = Elems(queue) \cup Elems(completed) \cup Elems(calling) \cup {w}
      /\ Elems(queue') \subseteq Elems(rest) \cup {w}
      /\ OrderInv'
  BY <1>1, TryQueues
<1>3. Queued' = Queued \cup {w} /\ Pending' = Pending \cup {w}
  <2>1. Queued' = Queued \cup {w}
    BY <1>2, QueuedElems
  <2> QED
    BY <2>1 DEF Pending
<1>4. \A v \in Writes : Made(v)' <=> Made(v) \/ v = w
  BY <1>3 DEF Made
<1>5. w \in Jobs /\ w \in Nat /\ \A v \in Writes : v \in Jobs /\ v \in Nat
  BY Numbers DEF Jobs
<1>6. /\ \A v \in Writes : v # w => left'[v] = left[v]
      /\ \A v \in Jobs : v # w => status'[v] = status[v]
      /\ left' \in [Writes -> 0 .. Length]
      /\ status' \in [Jobs -> {"none", "ok", "error", "canceled", "refused"}]
      /\ w \in Elems(queue') => n < bytes /\ left'[w] = bytes - n /\ status'[w] = "none"
      /\ w \notin Elems(queue') => status'[w] \in {"ok", "error"}
      /\ status'[w] = "ok" => n = bytes
  <2>1. CASE TakenWhole(w, bytes, rest, n)
    <3>1. PICK o \in {"ok", "error"}, l \in 0 .. bytes :
            /\ status' = [status EXCEPT ![w] = o] /\ (o = "ok" => n = bytes)
            /\ left' = [left EXCEPT ![w] = l]
      BY <2>1 DEF TakenWhole
    <3>2. l \in 0 .. Length
      BY Sizes
    <3>3. w \notin Elems(queue')
      BY <2>1, <1>5 DEF TakenWhole, Triable, Below
    <3> QED
      BY <1>5, <3>1, <3>2, <3>3 DEF IInv, TypeOK
  <2>2. CASE TakenInPart(w, bytes, rest, n)
    <3>1. /\ left' = [left EXCEPT ![w] = bytes - n] /\ status' = status /\ n < bytes
      BY <2>2 DEF TakenInPart
    <3>2. bytes - n \in 0 .. Length
      BY Sizes
    <3>3. w \in Elems(queue')
      <4>1. Elems(completed') = Elems(completed) /\ Elems(calling') = Elems(calling)
        BY <2>2 DEF TakenInPart
      <4>2. w \notin Elems(completed) /\ w \notin Elems(calling)
        BY <1>5 DEF Triable, Below
      <4> QED
        BY <1>2, <4>1, <4>2
    <3> QED
      BY <1>5, <3>1, <3>2, <3>3 DEF IInv, TypeOK, Triable
  <2> QED
    BY <1>1, <2>1, <2>2
<1>7. MadeInv'
  <2>1. \A u, v \in Writes : u < v /\ Made(v)' => Made(u)'
    BY <1>4, <1>5 DEF IInv, MadeInv, Triable
  <2>2. \A j \in Pending' : answers'[j] = 0
    BY <1>3 DEF IInv, MadeInv, Triable
  <2>3. AnsweredInOrder'
    BY <1>5, <1>6 DEF IInv, MadeInv, AnsweredInOrder, Triable, TypeOK
  <2> QED
    BY <2>1, <2>2, <2>3 DEF MadeInv
<1>8. StatusInv'
  <2>1. ASSUME NEW v \in Elems(queue') PROVE status'[v] = "none" /\ left'[v] > 0
    <3>1. v \in Writes
      BY <1>2 DEF Elems
    <3>2. v # w => v \in Elems(queue)
      BY <1>2 DEF Triable
    <3> QED
      BY <1>5, <1>6, <3>1, <3>2 DEF IInv, StatusInv
  <2>2. ASSUME NEW v \in Elems(completed') \cup Elems(calling')
        PROVE  status'[v] \in {"ok", "error", "canceled"}
    <3>1. v \in Writes
      BY <1>2 DEF Elems, IInv, TypeOK
    <3>2. v # w => v \in Elems(completed) \cup Elems(calling)
      <4>1. v \notin Elems(queue')
        <5>1. Below(Elems(calling'), Elems(queue')) /\ Below(Elems(completed'), Elems(queue'))
          BY <1>2 DEF OrderInv, Below
        <5> QED
          BY <1>5, <3>1, <5>1 DEF Below
      <4>2. CASE TakenWhole(w, bytes, rest, n)
        BY <1>2, <4>1, <4>2 DEF TakenWhole, Triable
      <4>3. CASE TakenInPart(w, bytes, rest, n)
        BY <4>3 DEF TakenInPart
      <4> QED
        BY <1>1, <4>2, <4>3
    <3>3. v = w => w \notin Elems(queue')
      <4>1. Below(Elems(calling'), Elems(queue')) /\ Below(Elems(completed'), Elems(queue'))
        BY <1>2 DEF OrderInv, Below
      <4> QED
        BY <1>5, <4>1 DEF Below
    <3> QED
      BY <1>5, <1>6, <3>1, <3>2, <3>3 DEF IInv, StatusInv
  <2>3. \A v \in Writes : ~Made(v)' => status'[v] = "none"
    BY <1>4, <1>5, <1>6 DEF IInv, StatusInv
  <2> QED
    BY <2>1, <2>2, <2>3 DEF StatusInv
<1>9. PhaseInv'
  BY DEF Triable, PhaseInv
<1>10. ShutInv'
  <2>1. \A v \in Writes : status'[v] # "canceled"
    BY <1>5, <1>6 DEF IInv, ShutInv, Triable
  <2> QED
    BY <2>1 DEF IInv, ShutInv, Triable
<1>11. Len(wire) \in Nat /\ Len(wire') = Len(wire) + n /\ w * Length \in Nat
  BY <1>1, <1>5, Sizes DEF GrowsBy, IInv, TypeOK
<1>12. \A i \in DOMAIN wire' : \/ i \in DOMAIN wire /\ wire'[i] = wire[i]
                               \/ i \notin DOMAIN wire /\ wire'[i] = w
  BY <1>1 DEF GrowsBy, IInv, TypeOK
<1>13. Bytes(w) \in Nat /\ Bytes(w)' = Bytes(w) + n
  BY <1>1, BytesType DEF GrowsBy, IInv, TypeOK
<1>14. WireInOrder'
  <2>1. ASSUME NEW i \in DOMAIN wire', NEW j \in DOMAIN wire', i < j
        PROVE  wire'[i] <= wire'[j]
    <3>1. CASE j \in DOMAIN wire
      <4>1. i \in DOMAIN wire
        BY <1>1, <2>1, <3>1 DEF GrowsBy, IInv, TypeOK
      <4> QED
        BY <1>12, <2>1, <3>1, <4>1 DEF IInv, WireInv, WireInOrder
    <3>2. CASE j \notin DOMAIN wire
      BY <1>5, <1>12, <3>2 DEF Triable
    <3> QED
      BY <3>1, <3>2
  <2>2. ASSUME NEW v \in Writes, status'[v] = "ok" PROVE Bytes(v)' = Length
    <3>1. CASE v = w
      BY <1>6, <1>13, <2>2, <3>1 DEF Triable
    <3>2. CASE v # w
      BY <1>1, <1>5, <1>6, <2>2, <3>2 DEF GrowsBy, IInv, WireInv, WireInOrder
    <3> QED
      BY <3>1, <3>2
  <2> QED
    BY <2>1, <2>2 DEF WireInOrder
<1>15. \A i \in DOMAIN wire' : Made(wire[i])'
  <2>1. \A i \in DOMAIN wire : wire[i] \in Writes /\ Made(wire[i])
    BY DEF IInv, TypeOK, WireInv
  <2>2. \A v \in Writes : Made(v) \/ v = w => answers'[v] > 0 \/ v \in Queued'
    BY <1>4 DEF Made
  <2> QED
    BY <1>12, <2>1, <2>2 DEF Made
<1>16. ASSUME NEW v \in Elems(queue')
       PROVE  /\ Bytes(v)' + left'[v] = Length
              /\ \A i \in DOMAIN wire' : wire'[i] <= v
              /\ Len(wire') + left'[v] <= v * Length
  <2>1. CASE v = w
    <3>1. left'[w] = bytes - n /\ n \in Nat /\ bytes \in Nat
      BY <1>6, <1>16, <2>1
    <3>2. \A i \in DOMAIN wire' : wire'[i] <= w
      BY <1>5, <1>12 DEF Triable
    <3>3. Bytes(w)' + left'[w] = Length /\ Len(wire') + left'[w] <= w * Length
      BY <1>11, <1>13, <3>1 DEF Triable
    <3> QED
      BY <2>1, <3>2, <3>3
  <2>2. CASE v # w
    <3>1. v \in Elems(rest) /\ v \in Elems(queue) /\ v \in Writes /\ w < v
      <4>1. v \in Elems(rest)
        BY <1>2, <1>16, <2>2
      <4>2. v \in Elems(queue) /\ w < v
        BY <4>1 DEF Triable, Below
      <4>3. v \in Writes
        BY <4>1 DEF Elems
      <4> QED
        BY <4>1, <4>2, <4>3
    <3>2. Bytes(v)' + left'[v] = Length /\ left'[v] \in 0 .. Length /\ v \in Nat
      BY <1>1, <1>5, <1>6, <2>2, <3>1 DEF GrowsBy, IInv, WireInv
    <3>3. \A i \in DOMAIN wire' : wire'[i] <= v
      BY <1>5, <1>12, <3>1 DEF Triable, IInv, WireInv
    <3>4. w * Length <= (v - 1) * Length
      BY <1>5, <3>1, <3>2, Rooms
    <3>5. (v - 1) * Length + Length = v * Length /\ (v - 1) * Length \in Int
      BY <3>2, Sizes
    <3>6. Len(wire') <= w * Length
      BY <1>11 DEF Triable
    <3> HIDE DEF Triable
    <3> QED
      BY <1>11, <3>2, <3>3, <3>4, <3>5, <3>6, Sizes
  <2> QED
    BY <2>1, <2>2
<1>17. Len(wire') <= w * Length
  BY <1>11 DEF Triable
<1>18. ASSUME NEW v \in Writes, ~Made(v)' PROVE Len(wire') <= (v - 1) * Length
  <2>1. v \in Nat /\ w < v
    BY <1>4, <1>5, <1>18 DEF Triable
  <2>2. w * Length <= (v - 1) * Length /\ (v - 1) * Length \in Int
    BY <1>5, <2>1, Rooms, Sizes
  <2> QED
    BY <1>11, <1>17, <2>2
<1>19. WireInv'
  BY <1>14, <1>15, <1>16, <1>18 DEF WireInv
<1>20. Len(wire') <= MaxWrites * Length
  <2>1. w <= MaxWrites /\ MaxWrites * Length \in Int
    BY Numbers, Sizes
  <2>2. w * Length <= MaxWrites * Length
    BY <1>5, <2>1, Sizes, Rooms
  <2> QED
    BY <1>11, <1>17, <2>1, <2>2
<1>21. pollout' \in BOOLEAN /\ fed' \in BOOLEAN
  BY DEF Try, IInv, TypeOK
<1>22. TypeOK'
  BY <1>1, <1>2, <1>6, <1>20, <1>21 DEF GrowsBy, IInv, TypeOK
<1> QED
  BY <1>2, <1>3, <1>7, <1>8, <1>9, <1>10, <1>19, <1>22 DEF IInv

-----------------------------------------------------------------------------
(* The steps.                                                              *)

\* Steps that leave the queues, the wire and the outcomes of writes alone.
LEMMA QueuesSame ==
    ASSUME IInv, UNCHANGED sending,
           \A w \in Writes : status'[w] = status[w] /\ answers'[w] = answers[w]
    PROVE  /\ OrderInv' /\ StatusInv' /\ WireInv' /\ AnsweredInOrder'
           /\ \A v, w \in Writes : v < w /\ Made(w)' => Made(v)'
           /\ Queued' = Queued
<1>1. UNCHANGED <<queue, completed, calling, left, wire>>
  BY DEF sending, queues
<1>2. Queued' = Queued
  BY <1>1 DEF Queued
<1>3. \A w \in Writes : Made(w)' <=> Made(w)
  BY <1>2 DEF Made
<1>4. \A w : Bytes(w)' = Bytes(w)
  BY <1>1 DEF Bytes
<1>5. OrderInv' /\ AnsweredInOrder'
  BY <1>1 DEF IInv, OrderInv, MadeInv, AnsweredInOrder
<1>6. StatusInv'
  <2>1. Elems(queue) \cup Elems(completed) \cup Elems(calling) \subseteq Writes
    BY DEF IInv, TypeOK, Elems
  <2> QED
    BY <1>1, <1>3, <2>1 DEF IInv, StatusInv
<1>7. WireInOrder'
  BY <1>1, <1>4 DEF IInv, WireInv, WireInOrder
<1>8. WireInv'
  <2>1. \A i \in DOMAIN wire : wire[i] \in Writes /\ Made(wire[i])
    BY DEF IInv, TypeOK, WireInv
  <2>2. \A v \in Writes : Made(v) => answers'[v] > 0 \/ v \in Queued'
    BY <1>3 DEF Made
  <2>3. \A i \in DOMAIN wire' : Made(wire[i])'
    BY <1>1, <2>1, <2>2 DEF Made
  <2> QED
    BY <1>1, <1>3, <1>4, <1>7, <2>3 DEF IInv, WireInv
<1>9. \A v, w \in Writes : v < w /\ Made(w)' => Made(v)'
  BY <1>3 DEF IInv, MadeInv
<1> QED
  BY <1>2, <1>5, <1>6, <1>8, <1>9

\* Steps that only take writes out of the queue.
LEMMA WireSame ==
    ASSUME IInv, UNCHANGED wire, Elems(queue') \subseteq Elems(queue),
           \A v \in Elems(queue') : left'[v] = left[v],
           \A v \in Writes : /\ Made(v)' <=> Made(v)
                             /\ status'[v] = "ok" => status[v] = "ok"
    PROVE  WireInv'
<1>1. \A w : Bytes(w)' = Bytes(w)
  BY DEF Bytes
<1>2. WireInOrder'
  BY <1>1 DEF IInv, WireInv, WireInOrder
<1>3. \A i \in DOMAIN wire : wire[i] \in Writes /\ Made(wire[i])
  BY DEF IInv, TypeOK, WireInv
<1>4. \A v \in Writes : Made(v) => answers'[v] > 0 \/ v \in Queued'
  BY DEF Made
<1>5. \A i \in DOMAIN wire' : Made(wire[i])'
  BY <1>3, <1>4 DEF Made
<1> QED
  BY <1>1, <1>2, <1>5 DEF IInv, WireInv

\* The next write: all before it are made, none after it is.
LEMMA NextWrite ==
    ASSUME IInv, NEW w \in Writes, Makes(w, Writes)
    PROVE  /\ ~Made(w) /\ w \notin Queued /\ answers[w] = 0 /\ status[w] = "none"
           /\ \A v \in Writes : v < w => Made(v)
           /\ \A v \in Writes : Made(v) => v < w
           /\ \A i \in DOMAIN wire : wire[i] < w
           /\ Len(wire) + Length <= w * Length
           /\ Bytes(w) = 0
<1>1. w \notin Queued /\ answers[w] = 0 /\ ~Made(w)
  BY DEF Makes, Pending, Made
<1>2. \A v \in Writes : v \in Nat /\ v \notin Shutdowns /\ v # None
  BY Numbers, Sizes DEF None
<1>3. \A v \in Writes : v < w => Made(v)
  <2>1. shutting \notin Writes
    BY <1>2, Numbers DEF IInv, TypeOK, None
  <2> QED
    BY <2>1 DEF Makes, Pending, Made, IInv, TypeOK, Jobs
<1>4. \A v \in Writes : Made(v) => v < w
  BY <1>1, <1>2 DEF IInv, MadeInv
<1>5. \A i \in DOMAIN wire : wire[i] < w
  BY <1>4 DEF IInv, TypeOK, WireInv
<1>6. Bytes(w) = 0
  <2>1. {i \in DOMAIN wire : wire[i] = w} = {}
    BY <1>2, <1>5
  <2> QED
    BY <2>1, FS_EmptySet DEF Bytes
<1>7. Len(wire) + Length <= w * Length
  <2>1. Len(wire) <= (w - 1) * Length
    BY <1>1 DEF IInv, WireInv
  <2>2. (w - 1) * Length + Length = w * Length /\ (w - 1) * Length \in Int
    BY <1>2, Sizes
  <2> QED
    BY <2>1, <2>2, Sizes DEF IInv, TypeOK
<1>8. status[w] = "none"
  BY <1>1 DEF IInv, StatusInv
<1> QED
  BY <1>1, <1>3, <1>4, <1>5, <1>6, <1>7, <1>8

\* A call that fails.
LEMMA RefuseKeeps ==
    ASSUME IInv, NEW j \in Jobs, Refuse(j),
           j \notin Pending, answers[j] = 0,
           \A v \in Writes : j \in Writes /\ v < j => Made(v)
    PROVE  IInv' /\ CallsOnce!Refuse(j)
<1>1. /\ status' = [status EXCEPT ![j] = "refused"]
      /\ answers' = [answers EXCEPT ![j] = 1]
      /\ UNCHANGED <<handle, io, count, queue, completed, calling, left, wire,
                     pollout, fed, writable, shutting, shut>>
  BY DEF Refuse, sending, queues
<1>2. Queued' = Queued /\ Pending' = Pending /\ j \notin Queued
  BY <1>1 DEF Pending, Queued
<1>3. \A v \in Writes : v \in Jobs /\ v \in Nat
  BY Numbers DEF Jobs
<1>4. \A v \in Writes : Made(v)' <=> Made(v) \/ v = j
  BY <1>1, <1>2, <1>3 DEF Made, IInv, TypeOK
<1>5. \A v \in Writes : Bytes(v)' = Bytes(v)
  BY <1>1 DEF Bytes
<1>6. TypeOK'
  BY <1>1 DEF IInv, TypeOK
<1>7. OrderInv' /\ PhaseInv'
  BY <1>1 DEF IInv, OrderInv, PhaseInv
<1>8. MadeInv'
  <2>1. \A u, v \in Writes : u < v /\ Made(v)' => Made(u)'
    BY <1>3, <1>4 DEF IInv, MadeInv
  <2>2. \A i \in Pending' : answers'[i] = 0
    BY <1>1, <1>2 DEF IInv, MadeInv
  <2>3. AnsweredInOrder'
    BY <1>1, <1>3 DEF IInv, MadeInv, AnsweredInOrder, TypeOK
  <2> QED
    BY <2>1, <2>2, <2>3 DEF MadeInv
<1>9. StatusInv'
  <2>1. j \notin Elems(queue) /\ j \notin Elems(completed) /\ j \notin Elems(calling)
    BY <1>2, QueuedElems
  <2> QED
    BY <1>1, <1>3, <1>4, <2>1 DEF IInv, StatusInv, TypeOK
<1>10. ShutInv'
  BY <1>1, <1>3 DEF IInv, ShutInv, TypeOK
<1>11. WireInv'
  <2>1. WireInOrder'
    BY <1>1, <1>3, <1>5 DEF IInv, WireInv, WireInOrder, TypeOK
  <2>2. \A i \in DOMAIN wire' : Made(wire[i])'
    BY <1>1, <1>4 DEF IInv, TypeOK, WireInv, Made
  <2>3. \A v \in Elems(queue) : v \in Writes
    BY DEF IInv, TypeOK, Elems
  <2> QED
    BY <1>1, <1>4, <1>5, <2>1, <2>2, <2>3 DEF IInv, WireInv
<1>12. CallsOnce!Refuse(j)
  BY <1>1, <1>2 DEF CallsOnce!Refuse
<1> QED
  BY <1>6, <1>7, <1>8, <1>9, <1>10, <1>11, <1>12 DEF IInv

\* A write that waits behind others.
LEMMA AppendKeeps ==
    ASSUME IInv, NEW w \in Writes, Makes(w, Writes), handle = "open", writable,
           left' = [left EXCEPT ![w] = Length], queue' = Append(queue, w),
           pollout' = TRUE,
           UNCHANGED <<handle, io, count, completed, calling, status, answers,
                       wire, fed, writable, shutting, shut>>
    PROVE  IInv' /\ Pending' = Pending \cup {w}
<1>1. /\ ~Made(w) /\ w \notin Queued /\ answers[w] = 0 /\ status[w] = "none"
      /\ \A v \in Writes : v < w => Made(v)
      /\ \A v \in Writes : Made(v) => v < w
      /\ \A i \in DOMAIN wire : wire[i] < w
      /\ Len(wire) + Length <= w * Length
      /\ Bytes(w) = 0
  BY NextWrite
<1>2. queue \in Seq(Nat) /\ w \in Nat /\ w \in Jobs
  BY Numbers, WritesAreNumbers DEF IInv, TypeOK, Jobs
<1>3. Below(Elems(queue) \cup Elems(completed) \cup Elems(calling), {w})
  <2>1. ASSUME NEW v \in Queued PROVE v < w
    <3>1. v \in Writes /\ Made(v)
      BY DEF IInv, TypeOK, Queued, Made
    <3> QED
      BY <1>1, <3>1
  <2> QED
    BY <2>1, QueuedElems DEF Below
<1>4. Elems(queue') = Elems(queue) \cup {w} /\ Increasing(queue')
  <2>1. Below(Elems(queue), {w})
    BY <1>3 DEF Below
  <2> QED
    BY <1>2, <2>1, ElemsAppend DEF IInv, OrderInv
<1>5. Queued' = Queued \cup {w} /\ Pending' = Pending \cup {w}
  <2>1. Queued' = Queued \cup {w}
    BY <1>4, QueuedElems
  <2> QED
    BY <2>1 DEF Pending
<1>6. \A v \in Writes : Made(v)' <=> Made(v) \/ v = w
  BY <1>5 DEF Made
<1>7. \A v \in Writes : Bytes(v)' = Bytes(v)
  BY DEF Bytes
<1>8. /\ left' \in [Writes -> 0 .. Length] /\ left'[w] = Length
      /\ \A v \in Writes : v # w => left'[v] = left[v]
  BY Sizes DEF IInv, TypeOK
<1>9. TypeOK'
  <2>1. queue' \in Seq(Writes)
    BY DEF IInv, TypeOK
  <2> QED
    BY <1>8, <2>1 DEF IInv, TypeOK
<1>10. OrderInv'
  BY <1>3, <1>4 DEF IInv, OrderInv, Below
<1>11. MadeInv'
  <2>1. \A u, v \in Writes : u < v /\ Made(v)' => Made(u)'
    BY <1>1, <1>6 DEF IInv, MadeInv
  <2>2. AnsweredInOrder'
    BY DEF IInv, MadeInv, AnsweredInOrder
  <2> QED
    BY <1>1, <1>5, <2>1, <2>2 DEF IInv, MadeInv
<1>12. StatusInv'
  <2>1. \A v \in Elems(queue) : v \in Writes
    BY DEF Elems, IInv, TypeOK
  <2> QED
    BY <1>1, <1>4, <1>6, <1>8, <2>1, Sizes DEF IInv, StatusInv
<1>13. ~shut
  BY DEF IInv, ShutInv
<1>14. PhaseInv' /\ ShutInv'
  BY <1>13 DEF IInv, PhaseInv, ShutInv
<1>15. WireInv'
  <2>1. WireInOrder'
    BY <1>7 DEF IInv, WireInv, WireInOrder
  <2>2. \A i \in DOMAIN wire' : Made(wire[i])'
    BY <1>6 DEF IInv, TypeOK, WireInv, Made
  <2>3. ASSUME NEW v \in Elems(queue')
        PROVE  /\ Bytes(v)' + left'[v] = Length
               /\ \A i \in DOMAIN wire' : wire'[i] <= v
               /\ Len(wire') + left'[v] <= v * Length
    <3>1. CASE v = w
      <4>0. wire' = wire /\ \A i \in DOMAIN wire : wire[i] \in Writes
        BY DEF IInv, TypeOK
      <4>1. \A i \in DOMAIN wire' : wire'[i] <= w
        <5>1. ASSUME NEW i \in DOMAIN wire PROVE wire[i] <= w
          <6>1. wire[i] \in Nat
            BY <4>0, Numbers
          <6> QED
            BY <1>1, <1>2, <6>1
        <5> QED
          BY <4>0, <5>1
      <4>2. Bytes(w)' = 0 /\ 0 + Length = Length
        BY <1>1, <1>7, Sizes
      <4> QED
        BY <1>1, <1>8, <3>1, <4>1, <4>2
    <3>2. CASE v # w
      <4>1. v \in Elems(queue) /\ v \in Writes
        BY <1>4, <2>3, <3>2 DEF Elems, IInv, TypeOK
      <4> QED
        BY <1>7, <1>8, <3>2, <4>1 DEF IInv, WireInv
    <3> QED
      BY <3>1, <3>2
  <2> QED
    BY <1>6, <2>1, <2>2, <2>3 DEF IInv, WireInv
<1> QED
  BY <1>5, <1>9, <1>10, <1>11, <1>12, <1>14, <1>15 DEF IInv

\* Before the first step.
LEMMA IInvInit == Init => IInv
<1> SUFFICES ASSUME Init PROVE IInv
  OBVIOUS
<1>1. Elems(<<>>) = {} /\ Increasing(<<>>)
  BY ElemsEmpty
<1>2. Queued = {} /\ Pending = {}
  BY DEF Init, Queued, Pending
<1>3. \A w \in Writes : ~Made(w)
  BY <1>2 DEF Made, Init, Jobs
<1>4. TypeOK
  <2>1. <<>> \in Seq(Writes) /\ Len(<<>>) = 0
    OBVIOUS
  <2>2. 0 <= MaxWrites * Length /\ 0 \in 0 .. Length /\ 0 \in 0 .. Burst
    BY Sizes
  <2>3. /\ left \in [Writes -> 0 .. Length] /\ answers \in [Jobs -> 0 .. 1]
        /\ status \in [Jobs -> {"none", "ok", "error", "canceled", "refused"}]
    BY <2>2 DEF Init
  <2>4. wire \in Seq(Writes) /\ Len(wire) <= MaxWrites * Length
    BY <2>1, <2>2 DEF Init
  <2>5. queue \in Seq(Writes) /\ completed \in Seq(Writes) /\ calling \in Seq(Writes)
    BY <2>1 DEF Init
  <2> QED
    BY <2>2, <2>3, <2>4, <2>5 DEF Init, TypeOK, None
<1>5. OrderInv
  BY <1>1 DEF Init, OrderInv, Below
<1>6. MadeInv
  BY <1>2, <1>3 DEF Init, MadeInv, AnsweredInOrder, Jobs
<1>7. StatusInv
  BY <1>1 DEF Init, StatusInv, Jobs
<1>8. PhaseInv
  BY DEF Init, PhaseInv
<1>9. ShutInv
  BY DEF Init, ShutInv, Jobs
<1>10. WireInv
  <2>1. DOMAIN wire = {} /\ Len(wire) = 0
    BY DEF Init
  <2>2. \A w \in Writes : 0 <= (w - 1) * Length
    BY Numbers, Sizes
  <2>3. WireInOrder
    BY <2>1 DEF Init, WireInOrder, Jobs
  <2> QED
    BY <1>1, <2>1, <2>2, <2>3 DEF Init, WireInv
<1> QED
  BY <1>4, <1>5, <1>6, <1>7, <1>8, <1>9, <1>10 DEF IInv

\* A write.
LEMMA WriteKeeps ==
    ASSUME IInv, NEW w \in Writes, Write(w)
    PROVE  IInv' /\ (CallsOnce!Make(w) \/ CallsOnce!Refuse(w))
<1>0. Makes(w, Writes)
  BY DEF Write
<1>1. /\ ~Made(w) /\ w \notin Queued /\ answers[w] = 0 /\ status[w] = "none"
      /\ \A v \in Writes : v < w => Made(v)
      /\ \A v \in Writes : Made(v) => v < w
      /\ \A i \in DOMAIN wire : wire[i] < w
      /\ Len(wire) + Length <= w * Length
      /\ Bytes(w) = 0
  BY <1>0, NextWrite
<1>2. CASE Refuse(w)
  BY <1>0, <1>1, <1>2, RefuseKeeps DEF Makes, Jobs
<1>3. CASE /\ handle = "open" /\ writable /\ NothingQueued
           /\ Try(w, Length, <<>>)
           /\ UNCHANGED <<handle, io, count, calling, answers, writable,
                          shutting, shut>>
  <2>1. queue = <<>>
    <3>1. \A v \in Elems(queue) : v \in Writes /\ left[v] > 0 /\ left[v] = 0
      BY <1>3, QueuedElems DEF NothingQueued, IInv, StatusInv, TypeOK, Elems
    <3>2. Elems(queue) = {}
      BY <3>1
    <3> QED
      BY <3>2, ElemsEmpty DEF IInv, TypeOK
  <2>2. Below(Elems(calling) \cup Elems(completed), {w})
    <3>1. ASSUME NEW v \in Queued PROVE v < w
      <4>1. v \in Writes /\ Made(v)
        BY DEF IInv, TypeOK, Queued, Made
      <4> QED
        BY <1>1, <4>1
    <3> QED
      BY <3>1, QueuedElems DEF Below
  <2>3. <<>> \in Seq(Writes) /\ Length \in 1 .. Length /\ Bytes(w) + Length = Length
    BY <1>1, Sizes
  <2>4. \A i \in DOMAIN wire : wire[i] <= w
    <3>1. ASSUME NEW i \in DOMAIN wire PROVE wire[i] <= w
      <4>1. wire[i] \in Writes
        BY DEF IInv, TypeOK
      <4>2. wire[i] \in Nat /\ w \in Nat
        BY <4>1, Numbers
      <4> QED
        BY <1>1, <4>2
    <3> QED
      BY <3>1
  <2>5. ~shut
    BY <1>3 DEF IInv, ShutInv
  <2>6. Triable(w, Length, <<>>)
    BY <1>1, <1>3, <2>1, <2>2, <2>3, <2>4, <2>5, ElemsEmpty DEF Triable, Below
  <2>7. io' \in {"idle", "called", "drained"} /\ (io' # "called" => calling = <<>>)
    BY <1>0, <1>3 DEF Makes, IInv, PhaseInv
  <2>8. count' \in 0 .. Burst
    BY <1>3 DEF IInv, TypeOK
  <2>9. IInv' /\ Pending' = Pending \cup {w}
    BY <1>3, <2>3, <2>6, <2>7, <2>8, TryKeeps
  <2> QED
    BY <1>0, <1>1, <1>3, <2>9 DEF CallsOnce!Make, Makes
<1>4. CASE /\ handle = "open" /\ writable
           /\ left' = [left EXCEPT ![w] = Length]
           /\ queue' = Append(queue, w)
           /\ pollout' = TRUE
           /\ UNCHANGED <<handle, io, count, completed, calling, status, answers,
                          wire, fed, writable, shutting, shut>>
  <2>1. IInv' /\ Pending' = Pending \cup {w}
    BY <1>0, <1>4, AppendKeeps
  <2> QED
    BY <1>0, <1>1, <1>4, <2>1 DEF CallsOnce!Make, Makes
<1> QED
  BY <1>2, <1>3, <1>4 DEF Write

\* A shutdown.
LEMMA ShutdownKeeps ==
    ASSUME IInv, NEW s \in Shutdowns, Shutdown(s)
    PROVE  IInv' /\ (CallsOnce!Make(s) \/ CallsOnce!Refuse(s))
<1>0. /\ s \in Jobs /\ s \notin Writes /\ s # None
      /\ s \notin Pending /\ answers[s] = 0
  BY Numbers DEF Shutdown, Makes, Jobs, None
<1>1. CASE Refuse(s)
  BY <1>0, <1>1, RefuseKeeps
<1>2. CASE /\ ~(~writable \/ shut \/ shutting # None \/ handle # "open")
           /\ shutting' = s /\ writable' = FALSE
           /\ fed' = (fed \/ queue = <<>>)
           /\ UNCHANGED <<handle, io, count, sending, status, answers, pollout,
                          shut>>
  <2>1. UNCHANGED <<queue, completed, calling, left, wire>>
    BY <1>2 DEF sending, queues
  <2>2. /\ OrderInv' /\ StatusInv' /\ WireInv' /\ AnsweredInOrder'
        /\ \A v, w \in Writes : v < w /\ Made(w)' => Made(v)'
        /\ Queued' = Queued
    BY <1>2, QueuesSame
  <2>3. Pending' = Pending \cup {s}
    BY <1>0, <1>2, <2>2 DEF Pending
  <2>4. MadeInv'
    BY <1>0, <1>2, <2>2, <2>3 DEF IInv, MadeInv
  <2>5. fed' \in BOOLEAN
    BY <1>2 DEF IInv, TypeOK
  <2>6. TypeOK'
    BY <1>2, <2>1, <2>5 DEF IInv, TypeOK
  <2>7. PhaseInv'
    BY <1>2, <2>1 DEF IInv, PhaseInv
  <2>8. ShutInv'
    BY <1>2, <2>1 DEF IInv, ShutInv
  <2>9. CallsOnce!Make(s)
    BY <1>0, <1>2, <2>3 DEF CallsOnce!Make
  <2> QED
    BY <2>2, <2>4, <2>6, <2>7, <2>8, <2>9 DEF IInv
<1> QED
  BY <1>1, <1>2 DEF Shutdown

\* Steps that change none of the requests.
LEMMA RequestsSame ==
    ASSUME IInv, UNCHANGED <<sending, status, answers, shutting>>
    PROVE  /\ UNCHANGED <<queue, completed, calling, left, wire>>
           /\ OrderInv' /\ MadeInv' /\ StatusInv' /\ WireInv'
           /\ Pending' = Pending
<1>1. /\ OrderInv' /\ StatusInv' /\ WireInv' /\ AnsweredInOrder'
      /\ \A v, w \in Writes : v < w /\ Made(w)' => Made(v)'
      /\ Queued' = Queued
  BY QueuesSame
<1>2. Pending' = Pending
  BY <1>1 DEF Pending
<1>3. MadeInv'
  BY <1>1, <1>2 DEF IInv, MadeInv
<1> QED
  BY <1>1, <1>2, <1>3 DEF sending, queues

\* A close.
LEMMA CloseKeeps == ASSUME IInv, Close PROVE IInv' /\ UNCHANGED <<Pending, answers>>
<1>1. /\ UNCHANGED <<queue, completed, calling, left, wire>>
      /\ OrderInv' /\ MadeInv' /\ StatusInv' /\ WireInv'
      /\ Pending' = Pending /\ UNCHANGED answers
  BY RequestsSame DEF Close
<1>2. TypeOK'
  BY <1>1 DEF Close, IInv, TypeOK
<1>3. PhaseInv' /\ ShutInv'
  BY <1>1 DEF Close, IInv, PhaseInv, ShutInv
<1> QED
  BY <1>1, <1>2, <1>3 DEF IInv

\* An error of the reading half.
LEMMA ReadFailsKeeps == ASSUME IInv, ReadFails PROVE IInv' /\ UNCHANGED <<Pending, answers>>
<1>1. /\ UNCHANGED <<queue, completed, calling, left, wire>>
      /\ OrderInv' /\ MadeInv' /\ StatusInv' /\ WireInv'
      /\ Pending' = Pending /\ UNCHANGED answers
  BY RequestsSame DEF ReadFails
<1>2. TypeOK'
  BY <1>1 DEF ReadFails, IInv, TypeOK
<1>3. PhaseInv' /\ ShutInv'
  BY <1>1 DEF ReadFails, IInv, PhaseInv, ShutInv
<1> QED
  BY <1>1, <1>2, <1>3 DEF IInv

\* The beginning of uv__stream_io.
LEMMA IoBeginsKeeps == ASSUME IInv, IoBegins PROVE IInv' /\ UNCHANGED <<Pending, answers>>
<1>1. /\ UNCHANGED <<queue, completed, calling, left, wire>>
      /\ OrderInv' /\ MadeInv' /\ StatusInv' /\ WireInv'
      /\ Pending' = Pending /\ UNCHANGED answers
  BY RequestsSame DEF IoBegins
<1>2. count' \in 0 .. Burst /\ fed' \in BOOLEAN
  <2>1. count' \in 0 .. Burst
    BY Sizes DEF IoBegins
  <2>2. fed' \in BOOLEAN
    BY DEF IoBegins, IInv, TypeOK
  <2> QED
    BY <2>1, <2>2
<1>3. TypeOK'
  BY <1>1, <1>2 DEF IoBegins, IInv, TypeOK
<1>4. PhaseInv' /\ ShutInv'
  BY <1>1 DEF IoBegins, IInv, PhaseInv, ShutInv
<1> QED
  BY <1>1, <1>3, <1>4 DEF IInv

\* Its end.
LEMMA IoEndsKeeps == ASSUME IInv, IoEnds PROVE IInv' /\ UNCHANGED <<Pending, answers>>
<1>1. /\ UNCHANGED <<queue, completed, calling, left, wire>>
      /\ OrderInv' /\ MadeInv' /\ StatusInv' /\ WireInv'
      /\ Pending' = Pending /\ UNCHANGED answers
  BY RequestsSame DEF IoEnds
<1>2. pollout' \in BOOLEAN
  BY DEF IoEnds, IInv, TypeOK
<1>3. TypeOK'
  BY <1>1, <1>2 DEF IoEnds, IInv, TypeOK
<1>4. PhaseInv'
  BY <1>1 DEF IoEnds, IInv, PhaseInv, TypeOK
<1>5. ShutInv'
  BY <1>1 DEF IoEnds, IInv, ShutInv, TypeOK
<1> QED
  BY <1>1, <1>3, <1>4, <1>5 DEF IInv

\* The next request of uv__write.
LEMMA WritingKeeps == ASSUME IInv, Writing PROVE IInv' /\ UNCHANGED <<Pending, answers>>
<1> DEFINE w == Head(queue)
           rest == Tail(queue)
<1>1. queue # <<>> /\ io = "writing" /\ calling = <<>> /\ handle = "open"
  BY DEF Writing, IInv, PhaseInv
<1>2. /\ w \in Writes /\ rest \in Seq(Writes)
      /\ Elems(queue) = {w} \cup Elems(rest)
  BY <1>1, ElemsHead DEF IInv, TypeOK
<1>3. queue \in Seq(Nat) /\ w \in Nat
  BY <1>2, Numbers, WritesAreNumbers DEF IInv, TypeOK
<1>4. Increasing(rest) /\ Below({w}, Elems(rest))
  BY <1>1, <1>3, IncreasingHead DEF IInv, OrderInv
<1>5. Try(w, left[w], rest)
  BY DEF Writing
<1>6. io' \in {"writing", "written"} /\ count' \in 0 .. Burst
  <2>1. io' \in {"writing", "written"}
    BY <1>1 DEF Writing
  <2>2. count' = IF count > 0 THEN count - 1 ELSE 0
    BY DEF Writing
  <2>3. count' \in 0 .. Burst
    BY <2>2, Sizes DEF IInv, TypeOK
  <2> QED
    BY <2>1, <2>3
<1>7. UNCHANGED <<handle, calling, answers, writable, shutting, shut>>
  BY DEF Writing
<1> HIDE DEF w, rest
<1>8. w \in Elems(queue) /\ w \in Queued /\ w \in Pending
  BY <1>2, QueuedElems DEF Pending
<1>9. /\ status[w] = "none" /\ answers[w] = 0 /\ left[w] \in 1 .. Length
      /\ Bytes(w) + left[w] = Length
      /\ \A i \in DOMAIN wire : wire[i] <= w
      /\ Len(wire) + left[w] <= w * Length
  BY <1>2, <1>8, Sizes DEF IInv, StatusInv, MadeInv, WireInv, TypeOK
<1>10. \A v \in Writes : v < w => Made(v)
  BY <1>2, <1>8 DEF IInv, MadeInv, Made
<1>11. Elems(queue) \ {w} = Elems(rest)
  <2>1. w \notin Elems(rest)
    BY <1>3, <1>4 DEF Below
  <2> QED
    BY <1>2, <2>1
<1>12. Below(Elems(calling) \cup Elems(completed), {w} \cup Elems(rest))
  BY <1>2 DEF IInv, OrderInv, Below
<1>13. ~shut
  BY <1>1 DEF IInv, ShutInv
<1>14. Triable(w, left[w], rest)
  BY <1>1, <1>4, <1>9, <1>10, <1>11, <1>12, <1>13 DEF Triable
<1>15. IInv' /\ Pending' = Pending \cup {w}
  BY <1>1, <1>2, <1>5, <1>6, <1>7, <1>9, <1>14, TryKeeps
<1> QED
  BY <1>7, <1>8, <1>15

\* uv__write_callbacks takes the completed queue.
LEMMA CallbacksBeginKeeps ==
    ASSUME IInv, CallbacksBegin PROVE IInv' /\ UNCHANGED <<Pending, answers>>
<1>1. /\ io' = "calls" /\ calling' = completed /\ completed' = <<>>
      /\ UNCHANGED <<handle, count, queue, left, wire, status, answers, pollout,
                     fed, writable, shutting, shut>>
  BY DEF CallbacksBegin
<1>2. io \in {"writing", "written"} /\ calling = <<>> /\ handle = "open"
  BY DEF CallbacksBegin, IInv, PhaseInv
<1>3. Elems(<<>>) = {} /\ Increasing(<<>>)
  BY ElemsEmpty
<1>4. Queued' = Queued /\ Pending' = Pending
  <2>1. Queued' = Queued
    BY <1>1, <1>2, <1>3, QueuedElems
  <2> QED
    BY <1>1, <2>1 DEF Pending
<1>5. \A w \in Writes : Made(w)' <=> Made(w)
  BY <1>1, <1>4 DEF Made
<1>6. TypeOK'
  BY <1>1 DEF IInv, TypeOK
<1>7. OrderInv'
  BY <1>1, <1>3 DEF IInv, OrderInv, Below
<1>8. MadeInv'
  <2>1. AnsweredInOrder'
    BY <1>1 DEF IInv, MadeInv, AnsweredInOrder
  <2> QED
    BY <1>1, <1>4, <1>5, <2>1 DEF IInv, MadeInv
<1>9. StatusInv'
  BY <1>1, <1>2, <1>3, <1>5 DEF IInv, StatusInv
<1>10. PhaseInv' /\ ShutInv'
  BY <1>1, <1>2 DEF IInv, PhaseInv, ShutInv
<1>11. WireInv'
  BY <1>1, <1>5, WireSame
<1> QED
  BY <1>1, <1>4, <1>6, <1>7, <1>8, <1>9, <1>10, <1>11 DEF IInv

\* The callback of a write.
LEMMA CallBackKeeps ==
    ASSUME IInv, CallBack PROVE IInv' /\ \E w \in Writes : CallsOnce!Answer(w)
<1> DEFINE h == Head(calling)
           rest == Tail(calling)
<1>1. /\ io' = "called" /\ calling' = rest
      /\ left' = [left EXCEPT ![h] = 0]
      /\ answers' = [answers EXCEPT ![h] = @ + 1]
      /\ UNCHANGED <<handle, count, queue, completed, wire, status, pollout, fed,
                     writable, shutting, shut>>
  BY DEF CallBack
<1>2. io \in {"calls", "called"} /\ calling # <<>>
  BY DEF CallBack
<1>3. /\ h \in Writes /\ rest \in Seq(Writes)
      /\ Elems(calling) = {h} \cup Elems(rest)
  BY <1>2, ElemsHead DEF IInv, TypeOK
<1>4. calling \in Seq(Nat) /\ h \in Nat /\ h \in Jobs /\ h \notin Shutdowns
  BY <1>3, Numbers, WritesAreNumbers DEF IInv, TypeOK, Jobs
<1>5. Increasing(rest) /\ Below({h}, Elems(rest))
  BY <1>2, <1>4, IncreasingHead DEF IInv, OrderInv
<1> HIDE DEF h, rest
<1>6. Below({h}, Elems(completed) \cup Elems(queue))
  BY <1>3 DEF IInv, OrderInv, Below
<1>7. Queued' = Queued \ {h} /\ h \in Queued
  <2>1. h \notin Elems(rest) /\ h \notin Elems(completed) /\ h \notin Elems(queue)
    BY <1>4, <1>5, <1>6 DEF Below
  <2> QED
    BY <1>1, <1>3, <2>1, QueuedElems
<1>8. Pending' = Pending \ {h} /\ h \in Pending
  BY <1>1, <1>3, <1>4, <1>7 DEF Pending, IInv, TypeOK, None
<1>9. /\ answers' \in [Jobs -> 0 .. 1] /\ answers'[h] = 1
      /\ \A j \in Jobs : j # h => answers'[j] = answers[j]
  <2>1. answers[h] = 0
    BY <1>8 DEF IInv, MadeInv
  <2> QED
    BY <1>1, <1>4, <2>1 DEF IInv, TypeOK
<1>10. \A v \in Writes : v \in Jobs /\ (Made(v)' <=> Made(v))
  BY <1>7, <1>9 DEF Made, Jobs
<1>11. TypeOK'
  <2>1. left' \in [Writes -> 0 .. Length]
    <3>1. 0 \in 0 .. Length
      BY Sizes
    <3> QED
      BY <1>1, <3>1 DEF IInv, TypeOK
  <2> QED
    BY <1>1, <1>3, <1>9, <2>1 DEF IInv, TypeOK
<1>12. OrderInv'
  BY <1>1, <1>3, <1>5 DEF IInv, OrderInv, Below
<1>13. MadeInv'
  <2>1. \A j \in Pending' : answers'[j] = 0
    <3>1. Pending \subseteq Jobs
      BY DEF IInv, TypeOK, Pending, Queued, Jobs
    <3> QED
      BY <1>8, <1>9, <3>1 DEF IInv, MadeInv
  <2>2. ASSUME NEW v \in Writes, NEW w \in Writes,
               v < w, answers'[w] > 0, status'[w] # "refused"
        PROVE  answers'[v] > 0
    <3>1. CASE w = h
      <4>1. Made(v) /\ v # h
        BY <1>4, <1>7, <2>2, <3>1 DEF IInv, MadeInv, Made
      <4>2. v \notin Queued
        <5>1. ASSUME NEW u \in Queued PROVE u = h \/ h < u
          BY <1>3, <1>5, <1>6, QueuedElems DEF Below
        <5> QED
          BY <1>4, <2>2, <3>1, <4>1, <5>1
      <4> QED
        BY <1>9, <1>10, <4>1, <4>2 DEF Made
    <3>2. CASE w # h
      BY <1>1, <1>9, <1>10, <2>2, <3>2 DEF IInv, MadeInv, AnsweredInOrder
    <3> QED
      BY <3>1, <3>2
  <2> QED
    BY <1>10, <2>1, <2>2 DEF IInv, MadeInv, AnsweredInOrder
<1>14. \A v \in Elems(queue) : v \in Writes /\ left'[v] = left[v]
  <2>1. ASSUME NEW v \in Elems(queue) PROVE v \in Writes /\ v # h
    <3>1. v \in Writes
      BY DEF Elems, IInv, TypeOK
    <3>2. h < v
      BY <1>6 DEF Below
    <3> QED
      BY <1>4, <3>1, <3>2
  <2> QED
    BY <1>1, <2>1 DEF IInv, TypeOK
<1>15. StatusInv'
  BY <1>1, <1>3, <1>10, <1>14 DEF IInv, StatusInv
<1>16. PhaseInv' /\ ShutInv'
  BY <1>1, <1>2 DEF IInv, PhaseInv, ShutInv
<1>17. WireInv'
  BY <1>1, <1>10, <1>14, WireSame
<1>18. CallsOnce!Answer(h)
  BY <1>1, <1>8 DEF CallsOnce!Answer
<1> QED
  BY <1>3, <1>11, <1>12, <1>13, <1>15, <1>16, <1>17, <1>18 DEF IInv

\* uv__drain.
LEMMA DrainKeeps ==
    ASSUME IInv, Drain PROVE IInv' /\ \E s \in Shutdowns : CallsOnce!Answer(s)
<1>1. PICK o \in {"ok", "error", "canceled"} :
         /\ o = "canceled" <=> handle # "open"
         /\ status' = [status EXCEPT ![shutting] = o]
         /\ shut' = (shut \/ o = "ok")
  BY DEF Drain
<1>2. /\ io' = "drained" /\ shutting' = None /\ pollout' = FALSE
      /\ answers' = [answers EXCEPT ![shutting] = @ + 1]
      /\ calling = <<>> /\ queue = <<>> /\ shutting # None
      /\ io \in {"calls", "called"}
      /\ UNCHANGED <<handle, count, sending, fed, writable>>
  BY DEF Drain
<1>3. UNCHANGED <<queue, completed, calling, left, wire>>
  BY <1>2 DEF sending, queues
<1>4. shutting \in Jobs /\ shutting \notin Writes /\ shutting \in Pending
  BY <1>2, Numbers DEF IInv, TypeOK, Jobs, Pending
<1>5. answers[shutting] = 0
  BY <1>4 DEF IInv, MadeInv
<1>6. \A w \in Writes : status'[w] = status[w] /\ answers'[w] = answers[w]
  BY <1>1, <1>2, <1>4 DEF IInv, TypeOK, Jobs
<1>7. /\ OrderInv' /\ StatusInv' /\ WireInv' /\ AnsweredInOrder'
      /\ \A v, w \in Writes : v < w /\ Made(w)' => Made(v)'
      /\ Queued' = Queued
  BY <1>2, <1>6, QueuesSame
<1>8. Pending' = Queued /\ Queued \subseteq Writes /\ Queued \subseteq Pending
  <2>1. Pending' = Queued /\ Queued \subseteq Pending
    BY <1>2, <1>7 DEF Pending
  <2>2. Queued \subseteq Writes
    BY DEF Queued, IInv, TypeOK
  <2> QED
    BY <2>1, <2>2
<1>9. MadeInv'
  BY <1>6, <1>7, <1>8 DEF IInv, MadeInv
<1>10. TypeOK'
  <2>1. answers' \in [Jobs -> 0 .. 1]
    <3>1. answers \in [Jobs -> 0 .. 1]
      BY DEF IInv, TypeOK
    <3>2. answers' = [answers EXCEPT ![shutting] = answers[shutting] + 1]
      BY <1>2
    <3>3. answers[shutting] + 1 = 1
      BY <1>5
    <3>4. answers' = [answers EXCEPT ![shutting] = 1]
      BY <3>2, <3>3
    <3> QED
      BY <1>4, <3>1, <3>4
  <2>2. status' \in [Jobs -> {"none", "ok", "error", "canceled", "refused"}]
    BY <1>1 DEF IInv, TypeOK
  <2>3. shut' \in BOOLEAN
    BY <1>1 DEF IInv, TypeOK
  <2> QED
    BY <1>2, <1>3, <2>1, <2>2, <2>3 DEF IInv, TypeOK
<1>11. PhaseInv'
  BY <1>2, <1>3 DEF IInv, PhaseInv
<1>12. ShutInv'
  BY <1>1, <1>2, <1>3, <1>6 DEF IInv, ShutInv
<1>13. shutting \in Shutdowns /\ Pending' = Pending \ {shutting}
  BY <1>2, <1>4, <1>8 DEF IInv, TypeOK, Pending
<1>14. CallsOnce!Answer(shutting)
  BY <1>2, <1>4, <1>13 DEF CallsOnce!Answer
<1> QED
  BY <1>7, <1>9, <1>10, <1>11, <1>12, <1>13, <1>14 DEF IInv

\* uv__stream_destroy.
LEMMA DestroyKeeps ==
    ASSUME IInv, Destroy PROVE IInv' /\ UNCHANGED <<Pending, answers>>
<1>1. /\ handle = "closing" /\ io = "idle"
      /\ handle' = "destroying" /\ io' = "calls"
      /\ calling' = completed \o queue /\ completed' = <<>> /\ queue' = <<>>
      /\ UNCHANGED <<count, left, wire, answers, pollout, fed, writable, shutting,
                     shut>>
  BY DEF Destroy
<1>2. calling = <<>>
  BY <1>1 DEF IInv, PhaseInv
<1>3. Elems(<<>>) = {} /\ Increasing(<<>>)
  BY ElemsEmpty
<1>4. queue \in Seq(Nat) /\ completed \in Seq(Nat)
  BY WritesAreNumbers DEF IInv, TypeOK
<1>5. Elems(calling') = Elems(completed) \cup Elems(queue) /\ Increasing(calling')
  BY <1>1, <1>4, ElemsConcat DEF IInv, OrderInv
<1>6. Queued' = Queued /\ Pending' = Pending
  <2>1. Queued' = Queued
    BY <1>1, <1>2, <1>3, <1>5, QueuedElems
  <2> QED
    BY <1>1, <2>1 DEF Pending
<1>7. \A w \in Writes : w \in Jobs /\ (Made(w)' <=> Made(w))
  BY <1>1, <1>6 DEF Made, Jobs
<1>8. \A j \in Jobs : status'[j] = IF j \in Elems(queue) THEN "canceled" ELSE status[j]
  BY DEF Destroy, Elems
<1>9. TypeOK'
  <2>1. status' \in [Jobs -> {"none", "ok", "error", "canceled", "refused"}]
    BY DEF Destroy, IInv, TypeOK
  <2>2. /\ calling' \in Seq(Writes) /\ completed' \in Seq(Writes)
        /\ queue' \in Seq(Writes)
    BY <1>1 DEF IInv, TypeOK
  <2> QED
    BY <1>1, <2>1, <2>2 DEF IInv, TypeOK
<1>10. OrderInv'
  BY <1>1, <1>3, <1>5 DEF OrderInv, Below
<1>11. MadeInv'
  <2>1. \A w \in Elems(queue) : answers[w] = 0
    BY QueuedElems DEF IInv, MadeInv, Pending
  <2>2. AnsweredInOrder'
    BY <1>1, <1>7, <1>8, <2>1 DEF IInv, MadeInv, AnsweredInOrder
  <2> QED
    BY <1>1, <1>6, <1>7, <2>2 DEF IInv, MadeInv
<1>12. StatusInv'
  <2>1. Elems(completed) \cup Elems(queue) \subseteq Writes
    BY DEF IInv, TypeOK, Elems
  <2>2. \A w \in Elems(calling') : status'[w] \in {"ok", "error", "canceled"}
    BY <1>5, <1>7, <1>8, <2>1 DEF IInv, StatusInv
  <2>3. \A w \in Writes : ~Made(w)' => status'[w] = "none"
    BY <1>7, <1>8, QueuedElems DEF IInv, StatusInv, Made
  <2> QED
    BY <1>1, <1>3, <2>2, <2>3 DEF StatusInv
<1>13. PhaseInv'
  BY <1>1 DEF PhaseInv
<1>14. ShutInv'
  <2>1. ASSUME shut, NEW w \in Writes PROVE status'[w] # "canceled"
    BY <1>3, <1>7, <1>8, <2>1 DEF IInv, ShutInv
  <2> QED
    BY <1>1, <2>1 DEF IInv, ShutInv
<1>15. WireInv'
  BY <1>1, <1>3, <1>7, <1>8, WireSame
<1> QED
  BY <1>1, <1>6, <1>9, <1>10, <1>11, <1>12, <1>13, <1>14, <1>15 DEF IInv

\* A step of Requests, or none.
OnceStep == CallsOnce!Next \/ UNCHANGED <<Pending, answers>>

\* Every step keeps the invariant, and is a step of Requests or none.
LEMMA IInvStep == IInv /\ [Next]_vars => IInv' /\ OnceStep
<1> SUFFICES ASSUME IInv, [Next]_vars PROVE IInv' /\ OnceStep
  OBVIOUS
<1>1. ASSUME NEW w \in Writes, Write(w) PROVE IInv' /\ OnceStep
  BY <1>1, WriteKeeps DEF OnceStep, CallsOnce!Next, Jobs
<1>2. ASSUME NEW s \in Shutdowns, Shutdown(s) PROVE IInv' /\ OnceStep
  BY <1>2, ShutdownKeeps DEF OnceStep, CallsOnce!Next, Jobs
<1>3. CASE Close
  BY <1>3, CloseKeeps DEF OnceStep
<1>4. CASE ReadFails
  BY <1>4, ReadFailsKeeps DEF OnceStep
<1>5. CASE IoBegins
  BY <1>5, IoBeginsKeeps DEF OnceStep
<1>6. CASE Writing
  BY <1>6, WritingKeeps DEF OnceStep
<1>7. CASE CallbacksBegin
  BY <1>7, CallbacksBeginKeeps DEF OnceStep
<1>8. CASE CallBack
  BY <1>8, CallBackKeeps DEF OnceStep, CallsOnce!Next, Jobs
<1>9. CASE Drain
  BY <1>9, DrainKeeps DEF OnceStep, CallsOnce!Next, Jobs
<1>10. CASE IoEnds
  BY <1>10, IoEndsKeeps DEF OnceStep
<1>11. CASE Destroy
  BY <1>11, DestroyKeeps DEF OnceStep
<1>12. CASE UNCHANGED vars
  <2>1. UNCHANGED <<handle, io, count, queue, completed, calling, left, status,
                    answers, wire, pollout, fed, writable, shutting, shut>>
    BY <1>12 DEF vars
  <2>2. OrderInv' /\ MadeInv' /\ StatusInv' /\ WireInv' /\ Pending' = Pending
    BY <2>1, RequestsSame DEF sending, queues
  <2>3. TypeOK' /\ PhaseInv' /\ ShutInv'
    BY <2>1 DEF IInv, TypeOK, PhaseInv, ShutInv
  <2> QED
    BY <2>1, <2>2, <2>3 DEF IInv, OnceStep
<1> QED
  BY <1>1, <1>2, <1>3, <1>4, <1>5, <1>6, <1>7, <1>8, <1>9, <1>10, <1>11, <1>12
  DEF Next, User, Loop, Ended

-----------------------------------------------------------------------------
(* The theorems.                                                           *)

\* The strengthened invariant holds in every reachable state.
THEOREM Inductive == Spec => []IInv
<1> QED
  BY IInvInit, IInvStep, PTL DEF Spec

\* Every variable stays within the values the code can give it; the queues hold
\* writes, a request is called back once at most, and no more bytes go out than
\* were written.
THEOREM TypeCorrect == Spec => []TypeOK
<1>1. IInv => TypeOK
  BY DEF IInv
<1> QED
  BY <1>1, Inductive, PTL

\* uv__write and uv_write2: the writes go out in the order in which they were
\* made and unmixed, and all of each that ends without an error.
THEOREM AlwaysInOrder == Spec => []WireInOrder
<1>1. IInv => WireInOrder
  BY DEF IInv, WireInv
<1> QED
  BY <1>1, Inductive, PTL

\* uv__write_callbacks and uv__stream_destroy: the callbacks of stream::write
\* come in the order of the writes, whatever they do themselves.
THEOREM AlwaysAnsweredInOrder == Spec => []AnsweredInOrder
<1>1. IInv => AnsweredInOrder
  BY DEF IInv, MadeInv
<1> QED
  BY <1>1, Inductive, PTL

\* stream::close's callback frees the stream when no request refers to it.
THEOREM NoRequestOutlivesStream == Spec => []ClosedMeansAnswered
<1>1. ASSUME IInv, handle = "closed" PROVE Pending = {}
  <2>1. queue = <<>> /\ completed = <<>> /\ calling = <<>> /\ shutting = None
    BY <1>1 DEF IInv, PhaseInv
  <2> QED
    BY <2>1 DEF Pending, Queued
<1>2. IInv => ClosedMeansAnswered
  BY <1>1 DEF ClosedMeansAnswered
<1> QED
  BY <1>2, Inductive, PTL

\* uv__drain: shutdown(2) is called when every write accepted is out or failed,
\* and no byte follows it.
THEOREM ShutdownComesLast == Spec => ShutdownIsLast
<1>1. IInv => ShutdownDrains
  <2> SUFFICES ASSUME IInv, shut, NEW w \in Writes
               PROVE  status[w] # "canceled" /\ (w \in Queued => status[w] # "none")
    BY DEF ShutdownDrains
  <2>1. status[w] # "canceled" /\ queue = <<>>
    BY DEF IInv, ShutInv
  <2>2. Elems(queue) = {}
    BY <2>1, ElemsEmpty
  <2>3. w \in Queued => w \in Elems(completed) \cup Elems(calling)
    BY <2>2, QueuedElems
  <2> QED
    BY <2>1, <2>3 DEF IInv, StatusInv
<1>2. IInv /\ [Next]_vars => [shut => UNCHANGED wire]_vars
  <2> SUFFICES ASSUME IInv, shut, Next PROVE UNCHANGED wire
    OBVIOUS
  <2>1. ~writable /\ queue = <<>>
    BY DEF IInv, ShutInv
  <2>2. ASSUME NEW w \in Writes, Write(w) PROVE UNCHANGED wire
    BY <2>1, <2>2 DEF Write, Refuse, sending
  <2>3. ASSUME NEW s \in Shutdowns, Shutdown(s) PROVE UNCHANGED wire
    BY <2>3 DEF Shutdown, Refuse, sending
  <2>4. ~Writing
    BY <2>1 DEF Writing
  <2>5. CASE \/ Close \/ ReadFails \/ IoBegins \/ CallbacksBegin \/ CallBack
             \/ Drain \/ IoEnds \/ Destroy \/ Ended
    BY <2>5 DEF Close, ReadFails, IoBegins, CallbacksBegin, CallBack, Drain, IoEnds,
                Destroy, Ended, sending, vars
  <2> QED
    BY <2>2, <2>3, <2>4, <2>5 DEF Next, User, Loop
<1> QED
  BY <1>1, <1>2, Inductive, PTL DEF Spec, ShutdownIsLast, NothingAfterShutdown

\* Every write and shutdown that is made is answered once, by its callback, and
\* every one that is refused before the call returns.
THEOREM AnsweredOnce == Spec => RequestsSpec
<1>1. Init => CallsOnce!Init
  BY DEF Init, CallsOnce!Init, Pending, Queued
<1>2. IInv /\ [Next]_vars => [CallsOnce!Next]_<<Pending, answers>>
  BY IInvStep DEF OnceStep
<1> QED
  BY <1>1, <1>2, Inductive, PTL DEF Spec, RequestsSpec, CallsOnce!Spec
=============================================================================
