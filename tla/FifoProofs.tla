----------------------------- MODULE FifoProofs -----------------------------
(***************************************************************************)
(* For every capacity, every request and any number of frames: the two     *)
(* threads of a FifoBuffer never touch the same frame, every read is       *)
(* handed the next frames in the order they were written, and all of it is *)
(* to its callers the bounded queue of FrameQueue.                         *)
(***************************************************************************)
EXTENDS Fifo, SequenceTheorems, TLAPS
-----------------------------------------------------------------------------
(* Arithmetic of the ring. *)

\* A counter's index is a slot, and the ring was gone round q times before it.
LEMMA IndexDivides ==
  ASSUME NEW n \in Nat
  PROVE  /\ Index(n) \in 0..(TotalFrames - 1)
         /\ \E q \in Nat : n = TotalFrames * q + Index(n)
<1>1. n \div TotalFrames \in Nat /\ n = TotalFrames * (n \div TotalFrames) + (n % TotalFrames)
  BY TotalAssumption
<1>2. n % TotalFrames \in 0..(TotalFrames - 1)
  BY TotalAssumption
<1> QED BY <1>1, <1>2 DEF Index

\* Division is unique: equal sums have equal remainders.
LEMMA RemaindersEqual ==
  ASSUME NEW q \in Int, NEW p \in Int,
         NEW a \in 0..(TotalFrames - 1), NEW b \in 0..(TotalFrames - 1),
         TotalFrames * q + a = TotalFrames * p + b
  PROVE  q = p /\ a = b
<1> USE TotalAssumption
<1>1. TotalFrames * (q - p) = b - a
  OBVIOUS
<1>2. CASE q = p
  BY <1>2
<1>3. CASE q > p
  <2>1. TotalFrames * (q - p) >= TotalFrames
    BY <1>3
  <2> QED BY <2>1, <1>1
<1>4. CASE q < p
  <2>1. TotalFrames * (p - q) >= TotalFrames
    BY <1>4
  <2> QED BY <2>1, <1>1
<1> QED BY <1>2, <1>3, <1>4

\* The wrap-around of the two-part copy is the index of the frame's counter.
LEMMA SlotIsIndex ==
  ASSUME NEW n \in Nat, NEW k \in 0..(TotalFrames - 1)
  PROVE  Slot(Index(n), k) = Index(n + k)
<1> USE TotalAssumption
<1>0. n + k \in Nat /\ k \in Nat
  OBVIOUS
<1>1. PICK q \in Nat : n = TotalFrames * q + Index(n)
  BY IndexDivides
<1>2. PICK p \in Nat : n + k = TotalFrames * p + Index(n + k)
  BY <1>0, IndexDivides
<1> DEFINE a == Index(n)
           b == Index(n + k)
<1>3. a \in 0..(TotalFrames - 1) /\ b \in 0..(TotalFrames - 1)
  BY <1>0, IndexDivides
<1>4. n = TotalFrames * q + a /\ n + k = TotalFrames * p + b
  BY <1>1, <1>2
<1> HIDE DEF a, b
<1>5. CASE a + k < TotalFrames
  <2>1. TotalFrames * q + (a + k) = TotalFrames * p + b
    BY <1>3, <1>4
  <2>2. a + k \in 0..(TotalFrames - 1)
    BY <1>3, <1>5
  <2>3. a + k = b
    BY <1>3, <2>1, <2>2, RemaindersEqual
  <2> QED BY <1>5, <2>3 DEF Slot, a, b
<1>6. CASE ~(a + k < TotalFrames)
  <2> DEFINE r == q + 1
             c == a + k - TotalFrames
  <2>1. TotalFrames * r + c = TotalFrames * p + b
    BY <1>3, <1>4
  <2>2. c \in 0..(TotalFrames - 1) /\ r \in Int
    BY <1>3, <1>6
  <2>3. c = b
    <3> HIDE DEF r, c
    <3> QED BY <1>3, <2>1, <2>2, RemaindersEqual
  <2> QED BY <1>6, <2>3 DEF Slot, a, b
<1> QED BY <1>5, <1>6

\* Frames less than a ring apart live in different slots.
LEMMA DistinctSlots ==
  ASSUME NEW i \in Nat, NEW j \in Nat, i < j, j - i < TotalFrames
  PROVE  Index(i) # Index(j)
<1> USE TotalAssumption
<1> SUFFICES ASSUME Index(i) = Index(j) PROVE FALSE
  OBVIOUS
<1>1. PICK q \in Nat : i = TotalFrames * q + Index(i)
  BY IndexDivides
<1>2. PICK p \in Nat : j = TotalFrames * p + Index(j)
  BY IndexDivides
<1> DEFINE a == Index(i)
<1>3. a \in 0..(TotalFrames - 1) /\ i = TotalFrames * q + a /\ j = TotalFrames * p + a
  BY <1>1, <1>2, IndexDivides
<1> HIDE DEF a
<1>4. TotalFrames * (p - q) = j - i
  BY <1>3
<1>5. CASE p <= q
  <2>1. TotalFrames * (q - p) >= 0
    BY <1>5
  <2> QED BY <1>4, <2>1
<1>6. CASE p > q
  <2>1. TotalFrames * (p - q) >= TotalFrames
    BY <1>6
  <2> QED BY <1>4, <2>1
<1> QED BY <1>5, <1>6
-----------------------------------------------------------------------------
(* The inductive invariant.  What the two threads claim of the ring while   *)
(* they copy, and what the ring holds, is what the counters alone do not say *)
(* and the properties rest on.                                              *)

\* Frames the writer has put in place, published or not.
Written == writeCounter + IF writer.busy THEN writer.done ELSE 0

\* A write in progress has room for every frame it will copy: the reader can
\* only make more.
WriterClaim ==
  writer.busy => /\ writer.index = Index(writeCounter)
                 /\ writer.done <= writer.frames
                 /\ writeCounter + writer.frames - readCounter <= TotalFrames

\* A read in progress takes published frames only: the writer can only add.
ReaderClaim ==
  reader.busy => /\ reader.index = Index(readCounter)
                 /\ Len(reader.out) <= reader.frames
                 /\ readCounter + reader.frames <= writeCounter

\* Every frame in place and not yet read is in the slot of its number.
Contents == \A j \in readCounter..(Written - 1) : mStorage[Index(j)] = j

IInv == /\ TypeOK /\ WithinCapacity /\ WriterClaim /\ ReaderClaim
        /\ Contents /\ ReadsInOrder

LEMMA InitIInv == FifoInit => IInv
<1> SUFFICES ASSUME FifoInit PROVE IInv
  OBVIOUS
<1> USE TotalAssumption DEF FifoInit, Resting, Silence
<1>1. TypeOK
  BY DEF TypeOK, Writing, Reading
<1>2. WithinCapacity /\ WriterClaim /\ ReaderClaim /\ ReadsInOrder
  BY DEF WithinCapacity, WriterClaim, ReaderClaim, ReadsInOrder
<1>3. Contents
  BY DEF Contents, Written
<1> QED BY <1>1, <1>2, <1>3 DEF IInv

LEMMA WriteBeginIInv ==
  ASSUME IInv, NEW n \in 1..MaxTransfer, WriteBegin(n)
  PROVE  IInv'
<1> USE TotalAssumption, BoundsAssumption DEF IInv, WriteBegin
<1>0. writeCounter \in Nat /\ readCounter \in Nat
  BY DEF TypeOK, Writing, Reading
<1>1. Index(writeCounter) \in 0..(TotalFrames - 1)
  BY <1>0, IndexDivides
<1>2. /\ writer'.frames \in 0..TotalFrames
      /\ writeCounter + writer'.frames - readCounter <= TotalFrames
  BY <1>0 DEF WithinCapacity, EmptyFrames, FullFrames, Lesser
<1>3. TypeOK'
  BY <1>1, <1>2 DEF TypeOK, Writing, Reading
<1>4. WriterClaim'
  BY <1>2 DEF WriterClaim
<1>5. Contents'
  BY <1>0 DEF Contents, Written
<1> QED BY <1>3, <1>4, <1>5
        DEF WithinCapacity, ReaderClaim, ReadsInOrder

LEMMA WriteCopyIInv ==
  ASSUME IInv, WriteCopy
  PROVE  IInv'
<1> USE TotalAssumption DEF IInv, WriteCopy
<1> DEFINE f == writeCounter + writer.done
<1>0. /\ writeCounter \in Nat /\ readCounter \in Nat /\ f \in Nat
      /\ writer.frames \in 0..TotalFrames /\ writer.done \in 0..(TotalFrames - 1)
      /\ mStorage \in [0..(TotalFrames - 1) -> Int]
  BY SMTT(30) DEF TypeOK, Writing, Reading
<1>1. Slot(writer.index, writer.done) = Index(f)
  BY <1>0, SlotIsIndex DEF WriterClaim
<1>2. Index(f) \in 0..(TotalFrames - 1)
  BY <1>0, IndexDivides
<1>3. mStorage' = [mStorage EXCEPT ![Index(f)] = f]
  BY <1>1
<1>4. TypeOK'
  <2>1. mStorage' \in [0..(TotalFrames - 1) -> Int]
    <3>1. f \in Int
      BY <1>0
    <3> HIDE DEF f
    <3> QED BY <1>0, <1>2, <1>3, <3>1
  <2>2. writer.done + 1 \in 0..TotalFrames
    BY <1>0
  <2>3. writer' \in Writing
    BY <2>2 DEF TypeOK, Writing
  <2> QED BY <2>1, <2>3 DEF TypeOK
<1>5. WriterClaim'
  BY <1>0 DEF WriterClaim, TypeOK, Writing, Reading
<1>6. Written = f /\ Written' = f + 1
  BY <1>0, SMTT(30) DEF Written, TypeOK, Writing, Reading
<1>7. ASSUME NEW j \in readCounter'..(Written' - 1)
      PROVE  mStorage'[Index(j)] = j
  <2>1. j \in Nat /\ Index(j) \in 0..(TotalFrames - 1)
    BY <1>0, <1>6, IndexDivides
  <2>2. CASE j = f
    BY <1>0, <1>2, <1>3, <2>2
  <2>3. CASE j # f
    <3>1. j \in readCounter..(Written - 1) /\ j < f
      BY <1>0, <1>6, <2>1, <2>3, SMTT(30)
    <3>2. f - j < TotalFrames
      BY <1>0, <3>1, SMTT(30) DEF WriterClaim
    <3>3. Index(j) # Index(f)
      BY <1>0, <2>1, <3>1, <3>2, DistinctSlots
    <3> QED BY <1>0, <1>2, <1>3, <2>1, <3>1, <3>3 DEF Contents
  <2> QED BY <2>2, <2>3
<1>8. Contents'
  BY <1>7 DEF Contents
<1> QED BY <1>4, <1>5, <1>8
        DEF WithinCapacity, ReaderClaim, ReadsInOrder

LEMMA WriteCommitIInv ==
  ASSUME IInv, WriteCommit
  PROVE  IInv'
<1> USE DEF IInv, WriteCommit
<1>0. /\ writeCounter \in Nat /\ readCounter \in Nat
      /\ writer.frames \in Nat /\ reader.frames \in Nat
  BY TotalAssumption DEF TypeOK, Writing, Reading
<1>1. TypeOK'
  <2>1. writer' \in Writing
    BY DEF TypeOK, Writing
  <2> QED BY <1>0, <2>1 DEF TypeOK
<1>2. WithinCapacity' /\ ReaderClaim'
  BY <1>0 DEF WithinCapacity, WriterClaim, ReaderClaim
<1>3. WriterClaim'
  BY DEF WriterClaim, TypeOK, Writing, Reading
<1>4. Written' = Written
  BY <1>0 DEF Written, TypeOK, Writing, Reading
<1> QED BY <1>1, <1>2, <1>3, <1>4 DEF Contents, ReadsInOrder

LEMMA ReadBeginIInv ==
  ASSUME IInv, NEW n \in 1..MaxTransfer, NEW now \in BOOLEAN, ReadBegin(n, now)
  PROVE  IInv'
<1> USE TotalAssumption, BoundsAssumption DEF IInv, ReadBegin
<1>0. writeCounter \in Nat /\ readCounter \in Nat
  BY DEF TypeOK, Writing, Reading
<1>1. Index(readCounter) \in 0..(TotalFrames - 1)
  BY <1>0, IndexDivides
<1> DEFINE full == Lesser(n, FullFrames(writeCounter, readCounter))
<1>2. /\ full \in 0..TotalFrames /\ readCounter + full <= writeCounter
      /\ n - full \in Nat
  BY <1>0 DEF WithinCapacity, FullFrames, Lesser
<1>3. /\ reader'.frames = full /\ reader'.index = Index(readCounter)
      /\ reader'.out = << >> /\ reader'.pad \in Nat
      /\ reader' = [busy |-> TRUE, frames |-> full, out |-> << >>,
                    index |-> Index(readCounter), pad |-> reader'.pad]
  BY <1>2
<1> HIDE DEF full
<1>4. TypeOK'
  BY <1>1, <1>2, <1>3 DEF TypeOK, Writing, Reading
<1>5. ReaderClaim'
  BY <1>2, <1>3 DEF ReaderClaim
<1>6. ReadsInOrder'
  BY <1>3 DEF ReadsInOrder
<1> QED BY <1>4, <1>5, <1>6 DEF WithinCapacity, WriterClaim, Contents, Written

LEMMA ReadCopyIInv ==
  ASSUME IInv, ReadCopy
  PROVE  IInv'
<1> USE TotalAssumption DEF IInv, ReadCopy
<1> DEFINE k == Len(reader.out)
           f == readCounter + k
<1>0. /\ writeCounter \in Nat /\ readCounter \in Nat /\ k \in Nat /\ f \in Nat
      /\ reader.frames \in 0..TotalFrames /\ k \in 0..(TotalFrames - 1)
      /\ reader.out \in Seq(Int) /\ mStorage \in [0..(TotalFrames - 1) -> Int]
  BY SMTT(30) DEF TypeOK, Writing, Reading
<1>1. Slot(reader.index, k) = Index(f)
  BY <1>0, SlotIsIndex DEF ReaderClaim
<1>2. f \in readCounter..(Written - 1)
  <2>1. Written \in Nat /\ writeCounter <= Written
    BY <1>0, SMTT(30) DEF Written, TypeOK, Writing
  <2> QED BY <1>0, <2>1 DEF ReaderClaim
<1>3. mStorage[Index(f)] = f
  BY <1>2 DEF Contents
<1>4. reader' = [reader EXCEPT !.out = Append(reader.out, f)]
  BY <1>1, <1>3
<1>5. /\ reader'.out = Append(reader.out, f) /\ reader'.frames = reader.frames
      /\ reader'.index = reader.index /\ reader'.busy
  BY <1>4 DEF TypeOK, Writing, Reading
<1>6. TypeOK'
  <2>1. Append(reader.out, f) \in Seq(Int)
    BY <1>0
  <2>2. reader' \in Reading
    BY <1>4, <2>1 DEF TypeOK, Reading
  <2> QED BY <2>2 DEF TypeOK
<1>7. ReaderClaim'
  BY <1>0, <1>5 DEF ReaderClaim
<1>8. ReadsInOrder'
  BY <1>0, <1>5 DEF ReadsInOrder
<1> QED BY <1>6, <1>7, <1>8 DEF WithinCapacity, WriterClaim, Contents, Written

LEMMA ReadCommitIInv ==
  ASSUME IInv, ReadCommit
  PROVE  IInv'
<1> USE TotalAssumption DEF IInv, ReadCommit
<1>0. /\ writeCounter \in Nat /\ readCounter \in Nat
      /\ reader.frames \in Nat /\ reader.pad \in Nat
      /\ reader.out \in Seq(Int)
  BY DEF TypeOK, Writing, Reading
<1>1. [i \in 1..reader.pad |-> Silence] \in Seq(Int)
  BY <1>0 DEF Silence
<1>2. reader.out \o [i \in 1..reader.pad |-> Silence] \in Seq(Int)
  BY <1>0, <1>1
<1>3. TypeOK'
  <2>1. reader' \in Reading
    BY <1>2 DEF TypeOK, Reading
  <2> QED BY <1>0, <2>1 DEF TypeOK
<1>4. ~reader'.busy
  BY DEF TypeOK, Writing, Reading
<1>5. WithinCapacity' /\ readCounter' >= readCounter /\ readCounter' \in Nat
  BY <1>0 DEF WithinCapacity, ReaderClaim
<1>6. WriterClaim'
  <2>1. writer.busy => writer.frames \in Nat
    BY DEF TypeOK, Writing
  <2> QED BY <1>0, <1>5, <2>1 DEF WriterClaim
<1>7. Contents'
  <2>1. Written \in Nat /\ Written' = Written
    BY <1>0 DEF Written, TypeOK, Writing
  <2> QED BY <1>0, <1>5, <2>1 DEF Contents
<1> QED BY <1>3, <1>4, <1>5, <1>6, <1>7 DEF ReaderClaim, ReadsInOrder

LEMMA NextIInv == IInv /\ [FifoNext]_fifoVars => IInv'
<1> SUFFICES ASSUME IInv, [FifoNext]_fifoVars PROVE IInv'
  OBVIOUS
<1>1. ASSUME NEW n \in 1..MaxTransfer, WriteBegin(n) PROVE IInv'
  BY <1>1, WriteBeginIInv
<1>2. CASE WriteCopy
  BY <1>2, WriteCopyIInv
<1>3. CASE WriteCommit
  BY <1>3, WriteCommitIInv
<1>4. ASSUME NEW n \in 1..MaxTransfer, NEW now \in BOOLEAN, ReadBegin(n, now)
      PROVE  IInv'
  BY <1>4, ReadBeginIInv
<1>5. CASE ReadCopy
  BY <1>5, ReadCopyIInv
<1>6. CASE ReadCommit
  BY <1>6, ReadCommitIInv
<1>7. CASE UNCHANGED fifoVars
  BY <1>7 DEF fifoVars, IInv, TypeOK, WithinCapacity, WriterClaim, ReaderClaim,
              Contents, Written, ReadsInOrder
<1> QED BY <1>1, <1>2, <1>3, <1>4, <1>5, <1>6, <1>7 DEF FifoNext
-----------------------------------------------------------------------------
LEMMA Invariance == FifoSpec => []IInv
<1> QED BY InitIInv, NextIInv, PTL DEF FifoSpec

\* Every variable keeps its type, whatever the capacity.
THEOREM TypeCorrect == FifoSpec => []TypeOK
<1>1. IInv => TypeOK
  BY DEF IInv
<1> QED BY <1>1, Invariance, PTL

\* At most TotalFrames frames are in the fifo and the reader never overtakes.
THEOREM CapacityKept == FifoSpec => []WithinCapacity
<1>1. IInv => WithinCapacity
  BY DEF IInv
<1> QED BY <1>1, Invariance, PTL

\* A read is handed the next frames in order: none lost, repeated or torn.
THEOREM InOrder == FifoSpec => []ReadsInOrder
<1>1. IInv => ReadsInOrder
  BY DEF IInv
<1> QED BY <1>1, Invariance, PTL

\* Whatever the claims of the two threads, the slots they still have to copy
\* are distinct: the frames being written come after every frame being read,
\* by less than a ring.
LEMMA ClaimsDisjoint == IInv => NoTornFrame
<1> SUFFICES ASSUME IInv, NEW s \in WriterSlots, s \in ReaderSlots PROVE FALSE
  BY DEF NoTornFrame
<1> USE TotalAssumption DEF IInv
<1>0. /\ writeCounter \in Nat /\ readCounter \in Nat
      /\ writer.frames \in 0..TotalFrames /\ reader.frames \in 0..TotalFrames
      /\ writer.done \in Nat /\ Len(reader.out) \in Nat
  BY DEF TypeOK, Writing, Reading
<1>1. writer.busy /\ reader.busy
  BY DEF WriterSlots, ReaderSlots
<1>2. PICK j \in writer.done..(writer.frames - 1) : s = Slot(writer.index, j)
  BY <1>1 DEF WriterSlots
<1>3. PICK k \in Len(reader.out)..(reader.frames - 1) : s = Slot(reader.index, k)
  BY <1>1 DEF ReaderSlots
<1>4. /\ j \in 0..(TotalFrames - 1) /\ k \in 0..(TotalFrames - 1)
      /\ writeCounter + j \in Nat /\ readCounter + k \in Nat
  BY <1>0
<1>5. s = Index(writeCounter + j)
  BY <1>0, <1>1, <1>2, <1>4, SlotIsIndex DEF WriterClaim
<1>6. s = Index(readCounter + k)
  BY <1>0, <1>1, <1>3, <1>4, SlotIsIndex DEF ReaderClaim
<1>7. /\ readCounter + k < writeCounter + j
      /\ (writeCounter + j) - (readCounter + k) < TotalFrames
  <2>1. writeCounter + writer.frames - readCounter <= TotalFrames
    BY <1>1 DEF WriterClaim
  <2>2. readCounter + reader.frames <= writeCounter
    BY <1>1 DEF ReaderClaim
  <2>3. j \in Nat /\ k \in Nat /\ j < writer.frames /\ k < reader.frames
    BY <1>0
  <2> DEFINE w == writer.frames
             r == reader.frames
  <2>4. w \in Nat /\ r \in Nat
    BY <1>0
  <2> HIDE DEF w, r, IInv
  <2> QED BY <1>0, <2>1, <2>2, <2>3, <2>4 DEF w, r
<1> QED BY <1>4, <1>5, <1>6, <1>7, DistinctSlots

\* The unlocked copies of the two threads never meet in the mStorage.
THEOREM NoDataRace == FifoSpec => []NoTornFrame
<1> QED BY ClaimsDisjoint, Invariance, PTL
-----------------------------------------------------------------------------
(* The queue that FrameQueue promises. *)

\* The frames from number a to number b - 1.
Frames(a, b) == [i \in 1..(b - a) |-> a + i - 1]

LEMMA FramesSeq ==
  ASSUME NEW a \in Nat, NEW b \in Nat, a <= b
  PROVE  /\ Frames(a, b) \in Seq(Int) /\ Len(Frames(a, b)) = b - a
         /\ \A i \in 1..(b - a) : Frames(a, b)[i] = a + i - 1
<1>1. b - a \in Nat /\ \A i \in 1..(b - a) : a + i - 1 \in Int
  OBVIOUS
<1> QED BY <1>1 DEF Frames

\* A batch of n frames.
LEMMA FramesBatch ==
  ASSUME NEW a \in Nat, NEW n \in Nat
  PROVE  Frames(a, a + n) = [i \in 1..n |-> a + i - 1]
<1> DEFINE m == a + n - a
<1>1. m = n OBVIOUS
<1> HIDE DEF m
<1>2. [i \in 1..m |-> a + i - 1] = [i \in 1..n |-> a + i - 1] BY <1>1
<1> QED BY <1>2 DEF Frames, m

LEMMA FramesOf ==
  ASSUME NEW a \in Nat, NEW n \in Nat
  PROVE  /\ Frames(a, a + n) \in Seq(Int) /\ Len(Frames(a, a + n)) = n
         /\ \A i \in 1..n : Frames(a, a + n)[i] = a + i - 1
<1>1. \A i \in 1..n : a + i - 1 \in Int OBVIOUS
<1> DEFINE x == [i \in 1..n |-> a + i - 1]
<1>2. x \in Seq(Int) /\ Len(x) = n /\ \A i \in 1..n : x[i] = a + i - 1
  BY <1>1
<1>3. Frames(a, a + n) = x BY FramesBatch
<1> HIDE DEF x
<1> QED BY <1>2, <1>3

\* A batch that follows another one joins it.
LEMMA FramesJoin ==
  ASSUME NEW a \in Nat, NEW b \in Nat, NEW c \in Nat, a <= b, b <= c
  PROVE  Frames(a, b) \o Frames(b, c) = Frames(a, c)
<1> DEFINE x == Frames(a, b)
           y == Frames(b, c)
           z == Frames(a, c)
<1>1. /\ x \in Seq(Int) /\ Len(x) = b - a /\ \A i \in 1..(b - a) : x[i] = a + i - 1
      /\ y \in Seq(Int) /\ Len(y) = c - b /\ \A i \in 1..(c - b) : y[i] = b + i - 1
      /\ z \in Seq(Int) /\ Len(z) = c - a /\ \A i \in 1..(c - a) : z[i] = a + i - 1
  <2>1. a <= c OBVIOUS
  <2> QED BY <2>1, FramesSeq
<1> HIDE DEF x, y, z
<1>2. /\ x \o y \in Seq(Int) /\ Len(x \o y) = c - a
      /\ \A i \in 1..(c - a) : (x \o y)[i] = IF i <= b - a THEN x[i] ELSE y[i - (b - a)]
  <2>1. /\ x \o y \in Seq(Int) /\ Len(x \o y) = Len(x) + Len(y)
        /\ \A i \in 1..(Len(x) + Len(y)) :
             (x \o y)[i] = IF i <= Len(x) THEN x[i] ELSE y[i - Len(x)]
    BY <1>1, ConcatProperties
  <2>2. Len(x) + Len(y) = c - a /\ Len(x) = b - a BY <1>1
  <2> QED BY <2>1, <2>2
<1>3. ASSUME NEW i \in 1..(c - a) PROVE (x \o y)[i] = z[i]
  <2>1. CASE i <= b - a
    <3>1. i \in 1..(b - a) BY <2>1
    <3> QED BY <1>1, <1>2, <2>1, <3>1
  <2>2. CASE ~(i <= b - a)
    <3>1. i - (b - a) \in 1..(c - b) BY <2>2
    <3>2. y[i - (b - a)] = b + (i - (b - a)) - 1 BY <1>1, <3>1
    <3> QED BY <1>1, <1>2, <2>2, <3>2, SMTT(30)
  <2> QED BY <2>1, <2>2
<1>4. x \o y = z BY <1>1, <1>2, <1>3, SeqEqual
<1> QED BY <1>4 DEF x, y, z

\* Taking a batch off the head leaves the rest.
LEMMA FramesTake ==
  ASSUME NEW a \in Nat, NEW b \in Nat, NEW c \in Nat, a <= b, b <= c
  PROVE  /\ SubSeq(Frames(a, c), 1, b - a) = Frames(a, b)
         /\ SubSeq(Frames(a, c), b - a + 1, c - a) = Frames(b, c)
<1> DEFINE x == Frames(a, b)
           y == Frames(b, c)
           z == Frames(a, c)
           u == SubSeq(z, 1, b - a)
           v == SubSeq(z, b - a + 1, c - a)
<1>1. /\ x \in Seq(Int) /\ Len(x) = b - a /\ \A i \in 1..(b - a) : x[i] = a + i - 1
      /\ y \in Seq(Int) /\ Len(y) = c - b /\ \A i \in 1..(c - b) : y[i] = b + i - 1
      /\ z \in Seq(Int) /\ Len(z) = c - a /\ \A i \in 1..(c - a) : z[i] = a + i - 1
  <2>1. a <= c OBVIOUS
  <2> QED BY <2>1, FramesSeq
<1> HIDE DEF x, y, z
<1>2. \A i \in 1..(c - a) : z[i] \in Int BY <1>1
<1>3. u \in Seq(Int) /\ Len(u) = b - a /\ \A i \in 1..(b - a) : u[i] = z[i]
  <2>1. \A i \in 1..(b - a) : z[i] \in Int BY <1>2
  <2> QED BY <2>1, SubSeqProperties
<1>4. v \in Seq(Int) /\ Len(v) = c - b /\ \A i \in 1..(c - b) : v[i] = z[b - a + i]
  <2>1. \A i \in (b - a + 1)..(c - a) : z[i] \in Int BY <1>2
  <2> QED BY <2>1, SubSeqProperties
<1> HIDE DEF u, v
<1>5. u = x BY <1>1, <1>3, SeqEqual
<1>6. v = y
  <2>1. ASSUME NEW i \in 1..(c - b) PROVE v[i] = y[i]
    <3>1. b - a + i \in 1..(c - a) BY <2>1
    <3>2. z[b - a + i] = a + (b - a + i) - 1 BY <1>1, <3>1
    <3> QED BY <1>1, <1>4, <3>2
  <2> QED BY <1>1, <1>4, <2>1, SeqEqual
<1> QED BY <1>5, <1>6 DEF u, v, x, y, z

\* Wherever the ring is in its mStorage, it holds the frames not yet read.
LEMMA RingIsFrames == IInv => Ring = Frames(readCounter, writeCounter)
<1> SUFFICES ASSUME IInv PROVE Ring = Frames(readCounter, writeCounter)
  OBVIOUS
<1>1. readCounter \in Nat /\ writeCounter \in Nat BY DEF IInv, TypeOK
<1>2. readCounter <= writeCounter /\ writeCounter - readCounter <= TotalFrames
  BY DEF IInv, WithinCapacity
<1>3. ASSUME NEW i \in 1..(writeCounter - readCounter)
      PROVE  mStorage[Slot(Index(readCounter), i - 1)] = readCounter + i - 1
  <2>1. i - 1 \in 0..(TotalFrames - 1) BY <1>1, <1>2, TotalAssumption
  <2>2. Slot(Index(readCounter), i - 1) = Index(readCounter + (i - 1))
    BY <1>1, <2>1, SlotIsIndex
  <2>3. writeCounter <= Written
    BY <1>1 DEF Written, IInv, TypeOK, Writing
  <2>4. Written \in Int
    BY <1>1 DEF Written, IInv, TypeOK, Writing
  <2>5. readCounter + (i - 1) \in readCounter..(Written - 1)
    BY <1>1, <1>2, <2>3, <2>4
  <2>6. mStorage[Index(readCounter + (i - 1))] = readCounter + (i - 1)
    BY <2>5 DEF IInv, Contents
  <2>7. readCounter + (i - 1) = readCounter + i - 1 BY <1>1
  <2> QED BY <2>2, <2>6, <2>7
<1> QED BY <1>3 DEF Ring, Frames

\* What a read that returns hands over: its frames, and not the silence after.
LEMMA DeliveredAre ==
  ASSUME IInv, ReadCommit
  PROVE  Delivered' = Frames(readCounter, readCounter + reader.frames)
<1> USE TotalAssumption
<1> DEFINE n == reader.frames
           pad == [i \in 1..reader.pad |-> Silence]
           out == reader.out
           x == Frames(readCounter, readCounter + n)
<1>1. /\ readCounter \in Nat /\ n \in Nat /\ out \in Seq(Int) /\ Len(out) = n
      /\ reader.pad \in Nat /\ reader.busy /\ reader \in Reading
  BY DEF IInv, TypeOK, Reading, ReadCommit
<1>2. pad \in Seq(Int) BY <1>1 DEF Silence
<1>3. \A i \in 1..n : out[i] = readCounter + i - 1
  BY <1>1 DEF IInv, ReadsInOrder
<1>4. Delivered' = SubSeq(out \o pad, 1, n)
  BY <1>1 DEF ReadCommit, Delivered, Reading
<1> HIDE DEF n, pad, out, x
<1>5. \A i \in 1..n : (out \o pad)[i] = out[i]
  <2>1. \A i \in 1..(Len(out) + Len(pad)) :
          (out \o pad)[i] = IF i <= Len(out) THEN out[i] ELSE pad[i - Len(out)]
    BY <1>1, <1>2, ConcatProperties
  <2>2. Len(pad) \in Nat BY <1>2
  <2> QED BY <1>1, <2>1, <2>2
<1>6. \A i \in 1..n : (out \o pad)[i] \in Int
  BY <1>1, <1>5
<1> DEFINE u == SubSeq(out \o pad, 1, n)
<1>7. u \in Seq(Int) /\ Len(u) = n /\ \A i \in 1..n : u[i] = (out \o pad)[i]
  BY <1>1, <1>6, SubSeqProperties
<1>8. x \in Seq(Int) /\ Len(x) = n /\ \A i \in 1..n : x[i] = readCounter + i - 1
  BY <1>1, FramesOf DEF x
<1> HIDE DEF u
<1>9. \A i \in 1..n : u[i] = x[i] BY <1>3, <1>5, <1>7, <1>8
<1>10. u = x BY <1>7, <1>8, <1>9, SeqEqual
<1> QED BY <1>4, <1>10 DEF u, x, n

\* A step of either thread is a step of the queue, or none.
LEMMA QueueStep ==
  ASSUME IInv, IInv', [FifoNext]_fifoVars,
         Ring = Frames(readCounter, writeCounter),
         Ring' = Frames(readCounter', writeCounter')
  PROVE  [Queue!QNext]_(Queue!qvars)
<1> DEFINE r == readCounter
           w == writeCounter
<1>0. /\ r \in Nat /\ w \in Nat /\ r <= w /\ w - r <= TotalFrames
      /\ Len(Ring) = w - r /\ writer.frames \in Nat /\ reader.frames \in Nat
  <2>1. /\ r \in Nat /\ w \in Nat /\ r <= w /\ w - r <= TotalFrames
        /\ writer.frames \in Nat /\ reader.frames \in Nat
    BY TotalAssumption DEF IInv, TypeOK, WithinCapacity, Writing, Reading
  <2> QED BY <2>1, FramesSeq
<1>1. ASSUME NEW n \in 1..MaxTransfer, WriteBegin(n) PROVE UNCHANGED Queue!qvars
  BY <1>1 DEF WriteBegin, Queue!qvars, Delivered
<1>2. CASE WriteCopy
  BY <1>2 DEF WriteCopy, Queue!qvars, Delivered
<1>3. CASE WriteCommit
  <2> DEFINE n == writer.frames
  <2>1. w' = w + n /\ r' = r /\ Delivered' = Delivered
    BY <1>3 DEF WriteCommit, Delivered
  <2>2. w + n - r <= TotalFrames BY <1>3 DEF WriteCommit, IInv, WriterClaim
  <2> HIDE DEF n
  <2>3. n \in 0..(TotalFrames - Len(Ring)) /\ w + n \in Nat
    BY <1>0, <2>2, TotalAssumption DEF n
  <2>4. Frames(w, w + n) = [i \in 1..n |-> w + i - 1]
    BY <1>0, <2>3, FramesBatch
  <2>5. Ring' = Ring \o Frames(w, w + n)
    <3>1. w <= w + n BY <1>0, <2>3
    <3> QED BY <1>0, <2>1, <2>3, <3>1, FramesJoin
  <2>6. Queue!Enqueue BY <2>1, <2>3, <2>4, <2>5 DEF Queue!Enqueue
  <2> QED BY <2>6 DEF Queue!QNext
<1>4. ASSUME NEW n \in 1..MaxTransfer, NEW now \in BOOLEAN, ReadBegin(n, now)
      PROVE  Queue!Reuse
  BY <1>4 DEF ReadBegin, Queue!Reuse, Delivered
<1>5. CASE ReadCopy
  <2>1. reader'.busy BY <1>5 DEF ReadCopy, IInv, TypeOK, Reading
  <2> QED BY <1>5, <2>1 DEF ReadCopy, Queue!qvars, Delivered
<1>6. CASE ReadCommit
  <2> DEFINE n == reader.frames
  <2>1. w' = w /\ r' = r + n /\ Delivered' = Frames(r, r + n)
    BY <1>6, DeliveredAre DEF ReadCommit
  <2>2. r + n <= w BY <1>6 DEF ReadCommit, IInv, ReaderClaim
  <2> HIDE DEF n, r, w
  <2>3. n \in 0..Len(Ring) /\ r + n \in Nat /\ r <= r + n /\ r + n - r = n
    BY <1>0, <2>2 DEF n
  <2> DEFINE m == r + n
  <2>4. /\ Frames(r, m) = SubSeq(Ring, 1, n)
        /\ Frames(m, w) = SubSeq(Ring, n + 1, Len(Ring))
    <3>1. m \in Nat /\ r <= m /\ m <= w /\ m - r = n
      BY <1>0, <2>2, <2>3
    <3> HIDE DEF m
    <3>2. /\ SubSeq(Frames(r, w), 1, m - r) = Frames(r, m)
          /\ SubSeq(Frames(r, w), m - r + 1, w - r) = Frames(m, w)
      BY <1>0, <3>1, FramesTake, ZenonT(40)
    <3>3. Ring = Frames(r, w) BY DEF r, w
    <3> QED BY <1>0, <3>1, <3>2, <3>3
  <2>5. Queue!Dequeue BY <2>1, <2>3, <2>4 DEF Queue!Dequeue, r, w
  <2> QED BY <2>5 DEF Queue!QNext
<1>7. CASE UNCHANGED fifoVars
  BY <1>7 DEF fifoVars, Queue!qvars, Delivered
<1> QED BY <1>1, <1>2, <1>3, <1>4, <1>5, <1>6, <1>7 DEF FifoNext, Queue!QNext

\* The lock-free fifo is a bounded first-in first-out queue: FrameQueue holds of
\* what its two threads see, through any interleaving of copies and counters.
THEOREM FifoIsQueue == FifoSpec => ImplementsQueue
<1>1. FifoInit => Queue!QInit
  BY TotalAssumption DEF FifoInit, Queue!QInit, Ring, Delivered
<1>2. /\ IInv /\ IInv' /\ [FifoNext]_fifoVars
      /\ Ring = Frames(readCounter, writeCounter)
      /\ (Ring = Frames(readCounter, writeCounter))'
      => [Queue!QNext]_(Queue!qvars)
  BY QueueStep
<1> QED BY <1>1, <1>2, RingIsFrames, Invariance, PTL
        DEF FifoSpec, ImplementsQueue, Queue!QSpec
=============================================================================
