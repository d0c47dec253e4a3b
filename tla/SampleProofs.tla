---------------------------- MODULE SampleProofs ----------------------------
(***************************************************************************)
(* Proofs about the samples, one part after the other.                     *)
(*                                                                         *)
(* LockFreeQueue: for every capacity and every width of the counters that  *)
(* the queue allows, and any number of items, items are popped once and in *)
(* order, although the counters wrap and nothing is locked.                *)
(*                                                                         *)
(* RhythmGame: whatever fails to load, and whenever the device goes or the *)
(* screen is left, a stream plays the players that there are, and a tap is *)
(* judged once.                                                            *)
(*                                                                         *)
(* AssetExtraction: at any pace of a codec, an asset that was decoded is   *)
(* whole.                                                                  *)
(*                                                                         *)
(* LiveEffect, EffectPlugins: whatever is pressed and whichever stream     *)
(* fails, the screen and its engine agree, and the plugins follow their    *)
(* ports.                                                                  *)
(*                                                                         *)
(* WavReader: in blocks of any size, a file is read whole and in order.    *)
(*                                                                         *)
(* SampleEngines, SamplePlayer: the streams of the samples, what they play *)
(* and the screen, through pauses, errors and pads in any order.           *)
(***************************************************************************)
EXTENDS MCSamples, FiniteSetTheorems, SequenceTheorems, TLAPS
-----------------------------------------------------------------------------
(* LockFreeQueue *)

(* The counters are remainders of the numbers of items. *)

LEMMA Division ==
  ASSUME NEW a \in Int, NEW d \in Nat \ {0}
  PROVE  /\ a \div d \in Int /\ a % d \in Int
         /\ a = d * (a \div d) + (a % d)
         /\ 0 <= a % d /\ a % d < d
OBVIOUS

LEMMA NoMultipleWithin ==
  ASSUME NEW k \in Int, NEW m \in Nat \ {0}, -m < m * k, m * k < m
  PROVE  m * k = 0
<1>1. k < 1
  <2> SUFFICES ASSUME k >= 1 PROVE FALSE OBVIOUS
  <2>1. m * k >= m OBVIOUS
  <2> QED BY <2>1
<1>2. k > -1
  <2> SUFFICES ASSUME k <= -1 PROVE FALSE OBVIOUS
  <2>1. m * k <= -m OBVIOUS
  <2> QED BY <2>1
<1>3. k = 0 BY <1>1, <1>2
<1> QED BY <1>3

\* A number between 0 and m that differs from a by a multiple of m is its
\* remainder.
LEMMA RemainderIs ==
  ASSUME NEW a \in Int, NEW m \in Nat \ {0}, NEW k \in Int, NEW r \in Int,
         a = m * k + r, 0 <= r, r < m
  PROVE  a % m = r
<1> DEFINE q == a \div m
           b == a % m
<1>1. q \in Int /\ b \in Int /\ a = m * q + b /\ 0 <= b /\ b < m BY Division
<1> HIDE DEF q, b
<1> DEFINE e == k - q
<1>2. e \in Int /\ m * k \in Int /\ m * q \in Int /\ m * e \in Int BY <1>1
<1>3. m * e = m * k - m * q BY <1>1
<1>4. m * e = b - r BY <1>1, <1>2, <1>3
<1> HIDE DEF e
<1>5. -m < m * e /\ m * e < m BY <1>1, <1>2, <1>4
<1>6. m * e = 0 BY <1>2, <1>5, NoMultipleWithin
<1>7. b = r BY <1>1, <1>4, <1>6
<1> QED BY <1>7 DEF b

LEMMA SmallRemainder ==
  ASSUME NEW m \in Nat \ {0}, NEW r \in Nat, r < m
  PROVE  r % m = r
<1>1. r = m * 0 + r OBVIOUS
<1> QED BY <1>1, RemainderIs

\* Numbers that differ by a multiple of m have the same remainder.
LEMMA Congruent ==
  ASSUME NEW a \in Int, NEW b \in Int, NEW m \in Nat \ {0}, NEW k \in Int, a = b + m * k
  PROVE  a % m = b % m
<1> DEFINE q == b \div m
           r == b % m
<1>1. q \in Int /\ r \in Int /\ b = m * q + r /\ 0 <= r /\ r < m BY Division
<1> HIDE DEF q, r
<1>2. m * (q + k) = m * q + m * k /\ q + k \in Int /\ m * q \in Int /\ m * k \in Int BY <1>1
<1>3. a = m * (q + k) + r BY <1>1, <1>2
<1>4. a % m = r BY <1>1, <1>2, <1>3, RemainderIs
<1> QED BY <1>4 DEF r

\* A counter that is increased wraps with the number that it counts.
LEMMA CounterWraps ==
  ASSUME NEW n \in Nat, NEW m \in Nat \ {0}
  PROVE  ((n % m) + 1) % m = (n + 1) % m
<1> DEFINE q == n \div m
           r == n % m
<1>1. q \in Int /\ r \in Int /\ n = m * q + r BY Division
<1>d. n % m = r OBVIOUS
<1> HIDE DEF q, r
<1> DEFINE a == n + 1
           b == r + 1
<1>2. a \in Int /\ b \in Int /\ a = b + m * q BY <1>1
<1> HIDE DEF a, b
<1>3. a % m = b % m BY <1>1, <1>2, Congruent, ZenonT(40)
<1> QED BY <1>3, <1>d, Zenon DEF a, b

\* Items less than a ring apart have slots of their own.
LEMMA SlotsDiffer ==
  ASSUME NEW a \in Int, NEW b \in Int, NEW c \in Nat \ {0}, 0 < a - b, a - b < c
  PROVE  a % c # b % c
<1> SUFFICES ASSUME a % c = b % c PROVE FALSE OBVIOUS
<1> DEFINE p == a \div c
           q == b \div c
           r == b % c
<1>1. p \in Int /\ q \in Int /\ r \in Int /\ a = c * p + r /\ b = c * q + r BY Division
<1> HIDE DEF p, q, r
<1> DEFINE e == p - q
<1>2. e \in Int /\ c * p \in Int /\ c * q \in Int /\ c * e \in Int BY <1>1
<1>3. c * e = c * p - c * q BY <1>1
<1>4. c * e = a - b BY <1>1, <1>2, <1>3
<1> HIDE DEF e
<1>5. c * e = 0 BY <1>2, <1>4, NoMultipleWithin
<1> QED BY <1>4, <1>5

\* The difference of two counters is the number of items between them, as long
\* as that is less than the counters can tell apart.
LEMMA CounterDistance ==
  ASSUME NEW a \in Nat, NEW b \in Nat, NEW m \in Nat \ {0}, b <= a, a - b < m
  PROVE  ((a % m) - (b % m)) % m = a - b
<1> DEFINE p == a \div m
           q == b \div m
           x == a % m
           y == b % m
<1>1. p \in Int /\ x \in Int /\ a = m * p + x BY Division
<1>2. q \in Int /\ y \in Int /\ b = m * q + y BY Division
<1>d. a % m = x /\ b % m = y OBVIOUS
<1> HIDE DEF p, q, x, y
<1>3. m * p \in Int /\ m * q \in Int /\ m * (q - p) = m * q - m * p /\ q - p \in Int
  BY <1>1, <1>2
<1>4. x - y = m * (q - p) + (a - b) BY <1>1, <1>2, <1>3
<1> DEFINE z == x - y
           k == q - p
           n == a - b
<1>5. z \in Int /\ k \in Int /\ n \in Int /\ z = m * k + n /\ 0 <= n /\ n < m
  BY <1>1, <1>2, <1>3, <1>4
<1> HIDE DEF z, k, n
<1>6. z % m = n BY <1>5, RemainderIs
<1> QED BY <1>6, <1>d, Zenon DEF z, n

LEMMA Constants ==
  /\ LfqIndex \in Nat \ {0} /\ LfqCapacity \in Nat \ {0} /\ LfqItems \in Nat
  /\ LfqIndex % LfqCapacity = 0 /\ LfqCapacity < LfqIndex
BY LfqAssumption

\* What is lost when a counter wraps does not show in the slot it leads to.
LEMMA SlotOfCounter ==
  ASSUME NEW n \in Nat, NEW i \in Nat
  PROVE  ((n % LfqIndex) + i) % LfqCapacity = (n + i) % LfqCapacity
<1> DEFINE m == LfqIndex
           c == LfqCapacity
<1>c. m \in Nat \ {0} /\ c \in Nat \ {0} /\ m % c = 0 BY Constants
<1> HIDE DEF m, c
<1> DEFINE q == n \div m
           r == n % m
           d == m \div c
<1>1. q \in Int /\ r \in Int /\ n = m * q + r BY <1>c, Division
<1>z. m % c = 0 BY <1>c
<1>2. d \in Int /\ m = c * d + (m % c) BY <1>c, Division
<1>e. n % m = r OBVIOUS
<1> HIDE DEF q, r, d
<1>3. m = c * d BY <1>c, <1>2, <1>z
<1>4. m * q = c * (d * q) /\ d * q \in Int BY <1>c, <1>1, <1>2, <1>3
<1> DEFINE a == n + i
           b == r + i
           k == d * q
<1>5. a \in Int /\ b \in Int /\ k \in Int /\ a = b + c * k BY <1>c, <1>1, <1>4
<1> HIDE DEF a, b, k
<1>6. a % c = b % c BY <1>c, <1>5, Congruent, ZenonT(40)
<1> QED BY <1>6, <1>e, Zenon DEF a, b, m, c
-----------------------------------------------------------------------------
(* The inductive invariant: what a thread has checked stays true until its *)
(* counter moves, since the other thread only makes more room, or more     *)
(* items; and every item that was pushed and not popped is in its slot.    *)

Ring == [0..(LfqCapacity - 1) -> Nat]

LfqTyped ==
  /\ lfq \in [buffer : Ring, read : Nat, write : Nat]
  /\ writer \in {"check", "slot", "counter"} /\ reader \in {"check", "slot", "counter"}
  /\ pushed \in Nat /\ popped \in Nat

Counters == /\ lfq.write = pushed % LfqIndex /\ lfq.read = popped % LfqIndex
            /\ popped <= pushed /\ pushed - popped <= LfqCapacity

WriterRoom == writer # "check" => pushed - popped < LfqCapacity
ReaderItem == reader # "check" => popped < pushed

Items ==
  /\ \A n \in Nat : popped <= n /\ n < pushed => lfq.buffer[n % LfqCapacity] = n + 1
  /\ writer = "counter" => lfq.buffer[pushed % LfqCapacity] = pushed + 1

LastItem == /\ reader = "check" => val = popped
            /\ reader = "counter" => val = popped + 1

LfqInv == LfqTyped /\ Counters /\ WriterRoom /\ ReaderItem /\ Items /\ LastItem
-----------------------------------------------------------------------------
LEMMA SlotsAre ==
  ASSUME LfqTyped
  PROVE  /\ Slots(lfq) = LfqCapacity
         /\ \A n \in Nat : n % LfqCapacity \in DOMAIN lfq.buffer
<1>1. DOMAIN lfq.buffer = 0..(LfqCapacity - 1) BY DEF LfqTyped, Ring
<1>2. Cardinality(0..(LfqCapacity - 1)) = LfqCapacity BY Constants, FS_Interval
<1>3. \A n \in Nat : n % LfqCapacity \in 0..(LfqCapacity - 1)
  <2> TAKE n \in Nat
  <2> DEFINE r == n % LfqCapacity
  <2>1. r \in Int /\ 0 <= r /\ r < LfqCapacity BY Constants, Division
  <2> HIDE DEF r
  <2>2. r \in 0..(LfqCapacity - 1) BY <2>1, Constants
  <2> QED BY <2>2 DEF r
<1> QED BY <1>1, <1>2, <1>3 DEF Slots

LEMMA MaskIs ==
  ASSUME LfqTyped, NEW n \in Nat, NEW i \in Nat
  PROVE  Mask(lfq, (n % LfqIndex) + i) = (n + i) % LfqCapacity
<1>1. ((n % LfqIndex) + i) % LfqCapacity = (n + i) % LfqCapacity
  BY SlotOfCounter
<1>2. Slots(lfq) = LfqCapacity BY SlotsAre
<1> QED BY <1>1, <1>2, Zenon DEF Mask

LEMMA MaskOfCounter ==
  ASSUME LfqTyped, NEW n \in Nat
  PROVE  Mask(lfq, n % LfqIndex) = n % LfqCapacity
<1>1. n % LfqIndex \in Int BY Constants, Division
<1>2. (n % LfqIndex) + 0 = n % LfqIndex /\ n + 0 = n BY <1>1
<1>3. Mask(lfq, (n % LfqIndex) + 0) = (n + 0) % LfqCapacity BY MaskIs
<1> QED BY <1>2, <1>3

LEMMA SizeIs == LfqTyped /\ Counters => QueueSize(lfq) = pushed - popped
<1> SUFFICES ASSUME LfqTyped, Counters PROVE QueueSize(lfq) = pushed - popped OBVIOUS
<1>1. pushed \in Nat /\ popped \in Nat /\ popped <= pushed /\ pushed - popped < LfqIndex
  BY Constants DEF LfqTyped, Counters
<1>2. ((pushed % LfqIndex) - (popped % LfqIndex)) % LfqIndex = pushed - popped
  BY <1>1, Constants, CounterDistance
<1> QED BY <1>2 DEF Counters, QueueSize

\* The counters tell a queue that is full and one that is empty apart.
LEMMA FullAndEmpty ==
  ASSUME LfqTyped, Counters
  PROVE  /\ IsFull(lfq) <=> pushed - popped = LfqCapacity
         /\ IsEmpty(lfq) <=> pushed = popped
<1>1. IsFull(lfq) <=> pushed - popped = LfqCapacity BY SizeIs, SlotsAre DEF IsFull
<1>2. pushed = popped => IsEmpty(lfq) BY DEF Counters, IsEmpty
<1>3. IsEmpty(lfq) => pushed = popped
  <2> SUFFICES ASSUME lfq.read = lfq.write PROVE pushed = popped BY DEF IsEmpty
  <2>1. lfq.write - lfq.read = 0 BY DEF LfqTyped
  <2>2. 0 % LfqIndex = 0 BY Constants, SmallRemainder
  <2>3. QueueSize(lfq) = 0 BY <2>1, <2>2 DEF QueueSize
  <2> QED BY <2>3, SizeIs DEF LfqTyped
<1> QED BY <1>1, <1>2, <1>3
-----------------------------------------------------------------------------
LEMMA LfqInitially == LfqInit => LfqInv
<1> SUFFICES ASSUME LfqInit PROVE LfqInv OBVIOUS
<1>1. 0 % LfqIndex = 0 BY Constants, SmallRemainder
<1>2. lfq.buffer = [i \in 0..(LfqCapacity - 1) |-> 0] /\ lfq.read = 0 /\ lfq.write = 0
  BY DEF LfqInit, Queue
<1>3. [i \in 0..(LfqCapacity - 1) |-> 0] \in Ring BY DEF Ring
<1>4. LfqTyped BY <1>3 DEF LfqInit, Queue, LfqTyped
<1>5. Counters BY <1>1, <1>2, Constants DEF LfqInit, Counters
<1> QED BY <1>4, <1>5 DEF LfqInit, LfqInv, WriterRoom, ReaderItem, Items, LastItem

LEMMA PushCheckKeeps == ASSUME LfqInv, PushCheck PROVE LfqInv'
<1>1. LfqTyped /\ Counters /\ ReaderItem /\ Items /\ LastItem BY DEF LfqInv
<1>2. writer' = "slot" /\ UNCHANGED <<lfq, reader, pushed, popped, val>> /\ ~IsFull(lfq)
  BY DEF PushCheck
<1>3. pushed \in Nat /\ popped \in Nat /\ pushed - popped <= LfqCapacity
  BY <1>1 DEF LfqTyped, Counters
<1>4. WriterRoom' BY <1>1, <1>2, <1>3, FullAndEmpty, Constants DEF WriterRoom
<1>5. LfqTyped' /\ Counters' /\ ReaderItem' /\ LastItem'
  BY <1>1, <1>2 DEF LfqTyped, Counters, ReaderItem, LastItem
<1>6. Items' BY <1>1, <1>2 DEF Items
<1> QED BY <1>4, <1>5, <1>6 DEF LfqInv

\* The item goes to a slot that none of the items in the queue has.
LEMMA PushStoreKeeps == ASSUME LfqInv, PushStore PROVE LfqInv'
<1> DEFINE s == pushed % LfqCapacity
           b == lfq.buffer
<1>1. LfqTyped /\ Counters /\ ReaderItem /\ WriterRoom /\ Items /\ LastItem BY DEF LfqInv
<1>2. /\ writer = "slot" /\ writer' = "counter" /\ UNCHANGED <<reader, pushed, popped, val>>
      /\ lfq' = Stored(lfq, pushed + 1)
  BY DEF PushStore
<1>3. pushed \in Nat /\ popped \in Nat /\ popped <= pushed /\ pushed - popped < LfqCapacity
  BY <1>1, <1>2 DEF LfqTyped, Counters, WriterRoom
<1>4. Mask(lfq, lfq.write) = s BY <1>1, <1>3, MaskOfCounter DEF Counters
<1>5. s \in DOMAIN b /\ b \in Ring BY <1>1, <1>3, SlotsAre DEF LfqTyped
<1>6. lfq' = [lfq EXCEPT !.buffer = [b EXCEPT ![s] = pushed + 1]]
  BY <1>1, <1>2, <1>4 DEF Stored, LfqTyped
<1> HIDE DEF s
<1> DEFINE c == [b EXCEPT ![s] = pushed + 1]
<1>7. c \in Ring
  <2> HIDE DEF b
  <2>1. pushed + 1 \in Nat BY <1>3
  <2> QED BY <1>5, <2>1 DEF Ring
<1>8. /\ lfq'.buffer = c /\ lfq'.read = lfq.read /\ lfq'.write = lfq.write
      /\ lfq' \in [buffer : Ring, read : Nat, write : Nat]
  <2> HIDE DEF c
  <2> QED BY <1>1, <1>6, <1>7 DEF LfqTyped, c
<1>9. c[s] = pushed + 1 /\ \A i \in DOMAIN b : i # s => c[i] = b[i] BY <1>5
<1> HIDE DEF c
<1>10. LfqTyped' BY <1>1, <1>2, <1>8 DEF LfqTyped
<1>11. Counters' BY <1>1, <1>2, <1>8 DEF Counters
<1>12. ReaderItem' /\ WriterRoom' /\ LastItem'
  BY <1>1, <1>2 DEF ReaderItem, WriterRoom, LastItem
<1>13. Items'
  <2>1. c[pushed % LfqCapacity] = pushed + 1 BY <1>9 DEF s
  <2>2. ASSUME NEW n \in Nat, popped <= n, n < pushed
        PROVE  c[n % LfqCapacity] = n + 1
    <3>0. 0 < pushed - n /\ pushed - n < LfqCapacity /\ pushed \in Int /\ n \in Int
      BY <1>3, <2>2, Constants
    <3>1. pushed % LfqCapacity # n % LfqCapacity BY <3>0, Constants, SlotsDiffer
    <3>4. n % LfqCapacity # s BY <3>1, Zenon DEF s
    <3>2. n % LfqCapacity \in DOMAIN b BY <1>1, SlotsAre
    <3>3. b[n % LfqCapacity] = n + 1 BY <1>1, <2>2 DEF Items
    <3> QED BY <1>9, <3>2, <3>3, <3>4
  <2> QED BY <1>2, <1>8, <2>1, <2>2 DEF Items
<1> QED BY <1>10, <1>11, <1>12, <1>13 DEF LfqInv

LEMMA PushCountKeeps == ASSUME LfqInv, PushCount PROVE LfqInv'
<1>1. LfqTyped /\ Counters /\ ReaderItem /\ WriterRoom /\ Items /\ LastItem BY DEF LfqInv
<1>2. /\ writer = "counter" /\ writer' = "check" /\ UNCHANGED <<reader, popped, val>>
      /\ lfq' = Counted(lfq) /\ pushed' = pushed + 1
  BY DEF PushCount
<1>3. pushed \in Nat /\ popped \in Nat /\ popped <= pushed /\ pushed - popped < LfqCapacity
  BY <1>1, <1>2 DEF LfqTyped, Counters, WriterRoom
<1> DEFINE w == (lfq.write + 1) % LfqIndex
<1>4. w = (pushed + 1) % LfqIndex BY <1>1, <1>3, Constants, CounterWraps, ZenonT(40) DEF Counters
<1>5. w \in Nat
  <2>1. pushed + 1 \in Int BY <1>3
  <2>2. (pushed + 1) % LfqIndex \in Int /\ 0 <= (pushed + 1) % LfqIndex
    BY <2>1, Constants, Division
  <2> QED BY <1>4, <2>2
<1>6. lfq' = [lfq EXCEPT !.write = w] BY <1>1, <1>2 DEF Counted, LfqTyped
<1> HIDE DEF w
<1>7. /\ lfq'.buffer = lfq.buffer /\ lfq'.read = lfq.read /\ lfq'.write = w
      /\ lfq' \in [buffer : Ring, read : Nat, write : Nat]
  BY <1>1, <1>5, <1>6 DEF LfqTyped
<1>8. LfqTyped' BY <1>1, <1>2, <1>3, <1>7 DEF LfqTyped
<1>9. Counters' BY <1>1, <1>2, <1>3, <1>4, <1>7, Constants DEF Counters
<1>10. ReaderItem' /\ WriterRoom' /\ LastItem'
  BY <1>1, <1>2, <1>3 DEF ReaderItem, WriterRoom, LastItem
<1>11. Items'
  <2>1. lfq.buffer[pushed % LfqCapacity] = pushed + 1 BY <1>1, <1>2 DEF Items
  <2>2. ASSUME NEW n \in Nat, popped <= n, n < pushed + 1
        PROVE  lfq.buffer[n % LfqCapacity] = n + 1
    <3>1. CASE n = pushed BY <2>1, <3>1
    <3>2. CASE n < pushed BY <1>1, <2>2, <3>2 DEF Items
    <3> QED BY <1>3, <2>2, <3>1, <3>2
  <2> QED BY <1>2, <1>7, <2>2 DEF Items
<1> QED BY <1>8, <1>9, <1>10, <1>11 DEF LfqInv

LEMMA PopCheckKeeps == ASSUME LfqInv, PopCheck PROVE LfqInv'
<1>1. LfqTyped /\ Counters /\ WriterRoom /\ Items /\ LastItem BY DEF LfqInv
<1>2. reader' = "slot" /\ UNCHANGED <<lfq, writer, pushed, popped, val>> /\ ~IsEmpty(lfq)
  BY DEF PopCheck
<1>3. pushed \in Nat /\ popped \in Nat /\ popped <= pushed BY <1>1 DEF LfqTyped, Counters
<1>4. ReaderItem' BY <1>1, <1>2, <1>3, FullAndEmpty DEF ReaderItem
<1>5. LfqTyped' /\ Counters' /\ WriterRoom' /\ LastItem'
  BY <1>1, <1>2 DEF LfqTyped, Counters, WriterRoom, LastItem
<1>6. Items' BY <1>1, <1>2 DEF Items
<1> QED BY <1>4, <1>5, <1>6 DEF LfqInv

LEMMA PopLoadKeeps == ASSUME LfqInv, PopLoad PROVE LfqInv'
<1>1. LfqTyped /\ Counters /\ WriterRoom /\ ReaderItem /\ Items BY DEF LfqInv
<1>2. /\ reader = "slot" /\ reader' = "counter" /\ UNCHANGED <<lfq, writer, pushed, popped>>
      /\ val' = Oldest(lfq)
  BY DEF PopLoad
<1>3. pushed \in Nat /\ popped \in Nat /\ popped < pushed
  BY <1>1, <1>2 DEF LfqTyped, ReaderItem
<1>4. Oldest(lfq) = popped + 1
  <2>1. Mask(lfq, lfq.read) = popped % LfqCapacity BY <1>1, <1>3, MaskOfCounter DEF Counters
  <2>2. lfq.buffer[popped % LfqCapacity] = popped + 1 BY <1>1, <1>3 DEF Items
  <2> QED BY <2>1, <2>2 DEF Oldest
<1>5. LastItem' BY <1>2, <1>4 DEF LastItem
<1>6. LfqTyped' /\ Counters' /\ WriterRoom' /\ ReaderItem'
  BY <1>1, <1>2, <1>3 DEF LfqTyped, Counters, WriterRoom, ReaderItem
<1>7. Items' BY <1>1, <1>2 DEF Items
<1> QED BY <1>5, <1>6, <1>7 DEF LfqInv

LEMMA PopCountKeeps == ASSUME LfqInv, PopCount PROVE LfqInv'
<1>1. LfqTyped /\ Counters /\ ReaderItem /\ WriterRoom /\ Items /\ LastItem BY DEF LfqInv
<1>2. /\ reader = "counter" /\ reader' = "check" /\ UNCHANGED <<writer, pushed, val>>
      /\ lfq' = Popped(lfq) /\ popped' = popped + 1
  BY DEF PopCount
<1>3. pushed \in Nat /\ popped \in Nat /\ popped < pushed /\ pushed - popped <= LfqCapacity
  BY <1>1, <1>2 DEF LfqTyped, Counters, ReaderItem
<1> DEFINE w == (lfq.read + 1) % LfqIndex
<1>4. w = (popped + 1) % LfqIndex BY <1>1, <1>3, Constants, CounterWraps, ZenonT(40) DEF Counters
<1>5. w \in Nat
  <2>1. popped + 1 \in Int BY <1>3
  <2>2. (popped + 1) % LfqIndex \in Int /\ 0 <= (popped + 1) % LfqIndex
    BY <2>1, Constants, Division
  <2> QED BY <1>4, <2>2
<1>6. lfq' = [lfq EXCEPT !.read = w] BY <1>1, <1>2 DEF Popped, LfqTyped
<1> HIDE DEF w
<1>7. /\ lfq'.buffer = lfq.buffer /\ lfq'.write = lfq.write /\ lfq'.read = w
      /\ lfq' \in [buffer : Ring, read : Nat, write : Nat]
  BY <1>1, <1>5, <1>6 DEF LfqTyped
<1>8. LfqTyped' BY <1>1, <1>2, <1>3, <1>7 DEF LfqTyped
<1>9. Counters' BY <1>1, <1>2, <1>3, <1>4, <1>7, Constants DEF Counters
<1>10. ReaderItem' /\ WriterRoom' /\ LastItem'
  BY <1>1, <1>2, <1>3, Constants DEF ReaderItem, WriterRoom, LastItem
<1>11. Items'
  <2>1. ASSUME NEW n \in Nat, popped + 1 <= n, n < pushed
        PROVE  lfq.buffer[n % LfqCapacity] = n + 1
    BY <1>1, <1>3, <2>1 DEF Items
  <2> QED BY <1>1, <1>2, <1>7, <2>1 DEF Items
<1> QED BY <1>8, <1>9, <1>10, <1>11 DEF LfqInv

LEMMA LfqStep == LfqInv /\ [LfqNext]_lfqVars => LfqInv'
<1> SUFFICES ASSUME LfqInv, [LfqNext]_lfqVars PROVE LfqInv' OBVIOUS
<1>1. CASE LfqNext
  BY <1>1, PushCheckKeeps, PushStoreKeeps, PushCountKeeps, PopCheckKeeps, PopLoadKeeps,
     PopCountKeeps DEF LfqNext
<1>2. CASE UNCHANGED lfqVars
  BY <1>2 DEF lfqVars, LfqInv, LfqTyped, Counters, WriterRoom, ReaderItem, Items, LastItem
<1> QED BY <1>1, <1>2
-----------------------------------------------------------------------------
LEMMA InOrder == LfqInv => QueueInOrder
<1> SUFFICES ASSUME LfqInv PROVE QueueInOrder OBVIOUS
<1>1. LfqTyped /\ Counters /\ Items /\ LastItem BY DEF LfqInv
<1>2. pushed \in Nat /\ popped \in Nat /\ popped <= pushed BY <1>1 DEF LfqTyped, Counters
<1>3. \A i \in 1..(pushed - popped) : lfq.buffer[Mask(lfq, lfq.read + i - 1)] = popped + i
  <2> TAKE i \in 1..(pushed - popped)
  <2> DEFINE j == i - 1
             n == popped + j
  <2>1. /\ j \in Nat /\ n \in Nat /\ popped <= n /\ n < pushed
        /\ lfq.read + i - 1 = lfq.read + j /\ n + 1 = popped + i
    BY <1>1, <1>2 DEF LfqTyped
  <2>2. Mask(lfq, (popped % LfqIndex) + j) = n % LfqCapacity BY <1>1, <1>2, <2>1, MaskIs
  <2>3. lfq.buffer[n % LfqCapacity] = n + 1 BY <1>1, <2>1 DEF Items
  <2> HIDE DEF j, n
  <2> QED BY <1>1, <2>1, <2>2, <2>3 DEF Counters
<1>4. Contents(lfq) = [i \in 1..(pushed - popped) |-> popped + i]
  BY <1>1, <1>3, SizeIs DEF Contents
<1> QED BY <1>1, <1>4 DEF QueueInOrder, LastItem

\* What pop returns is what was pushed, each item once and in order, and the
\* queue holds exactly the items in between, although neither call takes a lock
\* and both counters wrap.
THEOREM QueueKeepsOrder == LfqSpec => []QueueInOrder
<1>1. LfqInit => LfqInv BY LfqInitially
<1>2. LfqInv /\ [LfqNext]_lfqVars => LfqInv' BY LfqStep
<1>3. LfqInv => QueueInOrder BY InOrder
<1> QED BY <1>1, <1>2, <1>3, PTL DEF LfqSpec

\* push writes to no slot that pop may be reading: the two plain accesses of the
\* buffer never race.
THEOREM SlotsApart ==
  LfqSpec => [](writer # "check" /\ reader # "check"
                  => Mask(lfq, lfq.write) # Mask(lfq, lfq.read))
<1> DEFINE P == writer # "check" /\ reader # "check"
                  => Mask(lfq, lfq.write) # Mask(lfq, lfq.read)
<1>1. LfqInit => LfqInv BY LfqInitially
<1>2. LfqInv /\ [LfqNext]_lfqVars => LfqInv' BY LfqStep
<1>3. LfqInv => P
  <2> SUFFICES ASSUME LfqInv, writer # "check", reader # "check"
               PROVE  Mask(lfq, lfq.write) # Mask(lfq, lfq.read)
    OBVIOUS
  <2>1. LfqTyped /\ Counters /\ WriterRoom /\ ReaderItem BY DEF LfqInv
  <2>2. pushed \in Nat /\ popped \in Nat /\ popped < pushed /\ pushed - popped < LfqCapacity
    BY <2>1 DEF LfqTyped, WriterRoom, ReaderItem
  <2>3. Mask(lfq, lfq.write) = pushed % LfqCapacity /\ Mask(lfq, lfq.read) = popped % LfqCapacity
    BY <2>1, <2>2, MaskOfCounter DEF Counters
  <2>4. pushed \in Int /\ popped \in Int /\ 0 < pushed - popped BY <2>2
  <2>5. pushed % LfqCapacity # popped % LfqCapacity BY <2>2, <2>4, Constants, SlotsDiffer
  <2> QED BY <2>3, <2>5, Zenon
<1> QED BY <1>1, <1>2, <1>3, PTL DEF LfqSpec
-----------------------------------------------------------------------------
(* RhythmGame *)

GameFields == {"state", "stream", "generation", "mixer", "loads", "claps", "windows",
               "events", "frame", "position", "clap", "erring", "stopping", "crashed"}
LoadPcs == {"none", "open", "sources", "schedule", "start", "playing", "done"}
Results == {"success", "early", "late"}

RgTyped == /\ DOMAIN game = GameFields /\ game.loads \in [Loads -> LoadPcs]
           /\ game.frame \in Nat /\ game.position \in Nat
           /\ game.erring \in BOOLEAN /\ game.stopping \in {"none", "stop", "close", "reset"}
           /\ resumes \in Nat /\ rgShown \in BOOLEAN /\ crossed \in BOOLEAN
           /\ disconnects \in 0..RgDisconnects

\* The load that the last disconnect begins
Newest == disconnects + 1
Unstarted == {"open", "sources", "schedule", "start"}

\* A load begins when the one before has started the stream that was lost.
LoadsInTurn ==
  /\ \A k \in Loads : /\ k > Newest => game.loads[k] = "none"
                      /\ k < Newest => game.loads[k] \in {"playing", "done"}
  /\ game.stream = "started" => game.loads[Newest] \in {"playing", "done"}
  /\ game.loads[Newest] = "none" <=> game.erring

\* Until a pause crosses a load or a disconnect, the newest load finds the stream
\* that it opened, nothing of the load before is left in the mixer, and stop()
\* finds the stream that it asked for.
LoadFinds ==
  /\ ~game.crashed
  /\ game.loads[Newest] = "open" => game.stream = "none" /\ game.mixer = <<>>
  /\ game.loads[Newest] = "sources" => game.stream = "open" /\ game.mixer = <<>>
  /\ game.loads[Newest] \in {"schedule", "start"} =>
       game.stream = "open" /\ game.mixer = <<Newest, Newest>> /\ game.generation = Newest
  /\ game.stream = "started" => game.mixer = <<game.generation, game.generation>>
  /\ resumes > 0 /\ game.loads[Newest] \in Unstarted => rgShown
  /\ ~rgShown /\ game.stopping = "none" => game.stream = "none"
  /\ game.stopping \in {"stop", "close"} => game.stream # "none"
  /\ game.erring => rgShown
  /\ game.state = "failed" => game.stream # "started" /\ game.loads[Newest] = "done"

Resumed == /\ game.stopping # "none" => ~rgShown /\ resumes > 0
           /\ resumes = 0 => ~rgShown

\* A queue whose counters have not been round
FourSlots(q) == /\ DOMAIN q = {"buffer", "read", "write"} /\ DOMAIN q.buffer = 0..3
                /\ q.read \in 0..3 /\ q.write \in 0..3 /\ q.read <= q.write

\* Until a disconnect: the windows are scheduled once, and what has been taken out
\* of either queue is what taps were judged by, and what was drawn.
WindowsTaken(q) ==
  /\ FourSlots(q) /\ q.write \in {0, 3}
  /\ game.loads[1] \in {"none", "open", "sources", "schedule"} => q.write = 0
  /\ \A i \in 0..2 : i < q.write => q.buffer[i] = ClapWindows[i + 1]
  /\ taps \in Seq(Nat) /\ Len(taps) = q.read
  /\ \A i \in 1..3 : i <= Len(taps) => taps[i] = ClapWindows[i]

ResultsTaken(q) ==
  /\ FourSlots(q) /\ q.read = drawn /\ q.write = Len(results)
  /\ results \in Seq(Results) /\ Len(results) = Len(taps)
  /\ \A i \in 0..2 : i < Len(results) => q.buffer[i] = results[i + 1]

RgInv == /\ RgTyped /\ Resumed /\ LoadsInTurn /\ (~crossed => LoadFinds)
         /\ disconnects = 0 => WindowsTaken(game.windows) /\ ResultsTaken(game.events)
-----------------------------------------------------------------------------
LEMMA GameConstants ==
  RgDisconnects \in Nat /\ LfqIndex \in Nat /\ 4 < LfqIndex
BY RgAssumption, LfqAssumption DEF MaxQueueItems

\* The queues of the game, while their counters have not been round
LEMMA SlotsOfFour ==
  ASSUME NEW q, FourSlots(q)
  PROVE  Slots(q) = 4 /\ QueueSize(q) = q.write - q.read /\ ~IsFull(q)
         /\ Mask(q, q.read) = q.read /\ Mask(q, q.write) = q.write
<1>1. Cardinality(0..3) = 4
  <2>1. 3 \in Int /\ 0 \in Int /\ 3 - 0 + 1 = 4 /\ ~(0 > 3) OBVIOUS
  <2>2. Cardinality(0..3) = IF 0 > 3 THEN 0 ELSE 3 - 0 + 1 BY <2>1, FS_Interval
  <2> QED BY <2>1, <2>2
<1>2. Slots(q) = 4 BY <1>1 DEF FourSlots, Slots
<1>3. q.write \in 0..3 /\ q.read \in 0..3 /\ q.read <= q.write BY DEF FourSlots
<1> DEFINE n == q.write - q.read
<1>4. n \in Nat /\ n < 4 BY <1>3
<1> HIDE DEF n
<1>5. n % LfqIndex = n BY <1>4, GameConstants
<1>6. QueueSize(q) = n BY <1>5 DEF QueueSize, n
<1>7. n # 4 BY <1>4
<1>8. ~IsFull(q) BY <1>2, <1>6, <1>7 DEF IsFull
<1>9. Mask(q, q.read) = q.read /\ Mask(q, q.write) = q.write BY <1>2, <1>3 DEF Mask
<1> QED BY <1>2, <1>6, <1>8, <1>9 DEF n

LEMMA PushInto ==
  ASSUME NEW q, FourSlots(q), q.write < 3, NEW x
  PROVE  /\ FourSlots(Push(q, x)) /\ Push(q, x).read = q.read
         /\ Push(q, x).write = q.write + 1
         /\ Push(q, x).buffer = [q.buffer EXCEPT ![q.write] = x]
<1>1. Push(q, x) = Counted(Stored(q, x)) BY SlotsOfFour DEF Push
<1> DEFINE a == Stored(q, x)
<1>2. /\ DOMAIN a = {"buffer", "read", "write"} /\ a.read = q.read /\ a.write = q.write
      /\ a.buffer = [q.buffer EXCEPT ![q.write] = x]
  BY SlotsOfFour DEF Stored, FourSlots
<1> HIDE DEF a
<1>3. q.write \in 0..2 BY DEF FourSlots
<1>4. (q.write + 1) % LfqIndex = q.write + 1
  <2> DEFINE n == q.write + 1
  <2>1. n \in Nat /\ n < 4 BY <1>3
  <2> HIDE DEF n
  <2>2. n % LfqIndex = n BY <2>1, GameConstants
  <2> QED BY <2>2 DEF n
<1>5. /\ DOMAIN Counted(a) = {"buffer", "read", "write"} /\ Counted(a).read = a.read
      /\ Counted(a).write = (a.write + 1) % LfqIndex /\ Counted(a).buffer = a.buffer
  BY <1>2 DEF Counted
<1>6. FourSlots(Counted(a)) BY <1>2, <1>3, <1>4, <1>5 DEF FourSlots
<1> QED BY <1>1, <1>2, <1>4, <1>5, <1>6 DEF a

LEMMA PopFrom ==
  ASSUME NEW q, FourSlots(q), ~IsEmpty(q)
  PROVE  /\ FourSlots(Popped(q)) /\ Popped(q).read = q.read + 1
         /\ Popped(q).write = q.write /\ Popped(q).buffer = q.buffer
         /\ Oldest(q) = q.buffer[q.read] /\ q.read < q.write
<1>1. q.read \in 0..2 /\ q.write \in 0..3 /\ q.read < q.write BY DEF FourSlots, IsEmpty
<1>2. (q.read + 1) % LfqIndex = q.read + 1
  <2> DEFINE n == q.read + 1
  <2>1. n \in Nat /\ n < 4 BY <1>1
  <2> HIDE DEF n
  <2>2. n % LfqIndex = n BY <2>1, GameConstants
  <2> QED BY <2>2 DEF n
<1>3. /\ DOMAIN Popped(q) = {"buffer", "read", "write"}
      /\ Popped(q).read = (q.read + 1) % LfqIndex
      /\ Popped(q).write = q.write /\ Popped(q).buffer = q.buffer
  BY DEF Popped, FourSlots
<1>4. FourSlots(Popped(q)) BY <1>1, <1>2, <1>3 DEF FourSlots
<1>5. Oldest(q) = q.buffer[q.read] BY SlotsOfFour DEF Oldest
<1> QED BY <1>1, <1>2, <1>3, <1>4, <1>5

LEMMA NewQueue ==
  ASSUME NEW q, q = Queue(MaxQueueItems)
  PROVE  FourSlots(q) /\ q.read = 0 /\ q.write = 0
<1>1. q = [buffer |-> [i \in 0..3 |-> 0], read |-> 0, write |-> 0]
  <2>1. 0..(MaxQueueItems - 1) = 0..3 BY DEF MaxQueueItems
  <2> QED BY <2>1 DEF Queue
<1> QED BY <1>1 DEF FourSlots

LEMMA ThreePushed ==
  ASSUME NEW q, FourSlots(q), q.read = 0, q.write = 0
  PROVE  LET p == PushAll(q, ClapWindows) IN
           /\ FourSlots(p) /\ p.read = 0 /\ p.write = 3
           /\ \A i \in 0..2 : p.buffer[i] = ClapWindows[i + 1]
<1> DEFINE a == Push(q, 4)
           b == Push(a, 5)
           c == Push(b, 6)
<1>1. FourSlots(a) /\ a.read = 0 /\ a.write = 1 /\ a.buffer = [q.buffer EXCEPT ![0] = 4]
  BY PushInto
<1> HIDE DEF a
<1>2. FourSlots(b) /\ b.read = 0 /\ b.write = 2 /\ b.buffer = [a.buffer EXCEPT ![1] = 5]
  BY <1>1, PushInto
<1> HIDE DEF b
<1>3. FourSlots(c) /\ c.read = 0 /\ c.write = 3 /\ c.buffer = [b.buffer EXCEPT ![2] = 6]
  BY <1>2, PushInto
<1> HIDE DEF c
<1>4. ClapWindows[1] = 4 /\ ClapWindows[2] = 5 /\ ClapWindows[3] = 6 BY DEF ClapWindows
<1>5. PushAll(q, ClapWindows) = c BY <1>4 DEF PushAll, a, b, c
<1>6. DOMAIN q.buffer = 0..3 BY DEF FourSlots
<1>7. c.buffer[0] = 4 /\ c.buffer[1] = 5 /\ c.buffer[2] = 6 BY <1>1, <1>2, <1>3, <1>6
<1>8. \A i \in 0..2 : c.buffer[i] = ClapWindows[i + 1]
  <2> SUFFICES ASSUME NEW i \in 0..2 PROVE c.buffer[i] = ClapWindows[i + 1] OBVIOUS
  <2>1. i = 0 \/ i = 1 \/ i = 2 OBVIOUS
  <2> QED BY <1>4, <1>7, <2>1
<1> QED BY <1>3, <1>5, <1>8

LEMMA NewGameIs ==
  /\ DOMAIN NewGame = GameFields /\ NewGame.state = "loading" /\ NewGame.stream = "none"
  /\ NewGame.mixer = <<>> /\ NewGame.crashed = FALSE /\ NewGame.frame = 0
  /\ NewGame.position = 0 /\ NewGame.erring = FALSE /\ NewGame.stopping = "none"
  /\ NewGame.loads = [k \in Loads |-> IF k = 1 THEN "open" ELSE "none"]
  /\ NewGame.windows = Queue(MaxQueueItems) /\ NewGame.events = Queue(MaxQueueItems)
BY DEF NewGame, GameFields

\* A game that has just been made
LEMMA NewGameFits ==
  ASSUME game = NewGame, disconnects = 0, taps = <<>>, results = <<>>, drawn = 0
  PROVE  /\ DOMAIN game = GameFields /\ game.loads \in [Loads -> LoadPcs]
         /\ game.frame = 0 /\ game.position = 0 /\ disconnects \in 0..RgDisconnects
         /\ game.erring = FALSE /\ game.stopping = "none"
         /\ LoadsInTurn /\ ((resumes > 0 => rgShown) => LoadFinds)
         /\ WindowsTaken(game.windows) /\ ResultsTaken(game.events)
<1>1. /\ DOMAIN game = GameFields /\ game.loads \in [Loads -> LoadPcs]
      /\ game.frame = 0 /\ game.position = 0
      /\ game.erring = FALSE /\ game.stopping = "none"
  BY NewGameIs DEF LoadPcs
<1>2. 1 \in Loads /\ Newest = 1 /\ 0 \in 0..RgDisconnects BY GameConstants DEF Loads, Newest
<1>3. game.loads[Newest] = "open" BY <1>2, NewGameIs
<1>4. LoadsInTurn BY <1>2, <1>3, NewGameIs DEF LoadsInTurn, Loads
<1>5. (resumes > 0 => rgShown) => LoadFinds BY <1>3, NewGameIs DEF LoadFinds, Unstarted
<1>6. <<>> \in Seq(Nat) /\ <<>> \in Seq(Results) /\ Len(<<>>) = 0 BY EmptySeq
<1>7. WindowsTaken(game.windows) BY <1>6, NewGameIs, NewQueue DEF WindowsTaken
<1>8. ResultsTaken(game.events) BY <1>6, NewGameIs, NewQueue DEF ResultsTaken
<1> QED BY <1>1, <1>2, <1>4, <1>5, <1>7, <1>8
-----------------------------------------------------------------------------
LEMMA WindowsStay ==
  ASSUME WindowsTaken(game.windows), game'.windows = game.windows, taps' = taps,
         game'.loads[1] \in {"none", "open", "sources", "schedule"} =>
           game.loads[1] \in {"none", "open", "sources", "schedule"}
  PROVE  WindowsTaken(game.windows)'
BY DEF WindowsTaken

LEMMA ResultsStay ==
  ASSUME ResultsTaken(game.events), game'.events = game.events, results' = results,
         taps' = taps, drawn' = drawn
  PROVE  ResultsTaken(game.events)'
BY DEF ResultsTaken

LoadOnly == UNCHANGED <<resumes, rgShown, crossed, disconnects, taps, results, drawn>>

LEMMA NewestIs ==
  ASSUME RgInv
  PROVE  Newest \in Loads /\ Newest \in Nat \ {0} /\ 1 \in Loads
         /\ (disconnects = 0 => Newest = 1)
         /\ \A k \in Loads : game.loads[k] \in Unstarted => k = Newest
<1>1. disconnects \in 0..RgDisconnects /\ RgDisconnects \in Nat
  BY GameConstants DEF RgInv, RgTyped
<1>2. Newest \in Loads /\ Newest \in Nat \ {0} /\ (disconnects = 0 => Newest = 1) /\ 1 \in Loads
  BY <1>1 DEF Newest, Loads
<1>3. ASSUME NEW k \in Loads, game.loads[k] \in Unstarted PROVE k = Newest
  <2>1. k \in Int BY GameConstants DEF Loads
  <2> QED BY <1>2, <1>3, <2>1 DEF RgInv, LoadsInTurn, Unstarted
<1> QED BY <1>2, <1>3

\* The newest load goes on at pc.
LEMMA LoadGoes ==
  ASSUME RgInv, LoadOnly, resumes > 0, NEW pc \in LoadPcs \ {"open", "none"},
         game.loads[Newest] \in Unstarted,
         DOMAIN game' = GameFields, game'.loads = [game.loads EXCEPT ![Newest] = pc],
         game'.frame = game.frame, game'.position = game.position,
         game'.erring = game.erring, game'.stopping = game.stopping,
         game'.events = game.events, game'.stream = "started" => pc \in {"playing", "done"},
         ~crossed => LoadFinds',
         WindowsTaken(game.windows) /\ disconnects = 0 => WindowsTaken(game.windows)'
  PROVE  RgInv'
<1>1. /\ resumes' = resumes /\ rgShown' = rgShown /\ crossed' = crossed
      /\ disconnects' = disconnects /\ taps' = taps /\ results' = results /\ drawn' = drawn
  BY DEF LoadOnly
<1>2. RgTyped' BY <1>1, NewestIs DEF RgInv, RgTyped
<1>3. Resumed' BY <1>1 DEF RgInv, Resumed
<1>4. LoadsInTurn'
  <2>1. Newest' = Newest BY <1>1 DEF Newest
  <2>2. Newest \in Loads /\ Newest \in Nat /\ game.loads \in [Loads -> LoadPcs]
    BY NewestIs DEF RgInv, RgTyped
  <2>3. game'.loads[Newest] = pc /\ \A k \in Loads \ {Newest} : game'.loads[k] = game.loads[k]
    BY <2>2
  <2>4. \A k \in Loads : k \in Int BY GameConstants DEF Loads
  <2> QED BY <2>1, <2>2, <2>3, <2>4 DEF RgInv, LoadsInTurn, Unstarted
<1>5. ASSUME disconnects = 0 PROVE WindowsTaken(game.windows)' /\ ResultsTaken(game.events)'
  BY <1>1, <1>5, ResultsStay DEF RgInv
<1> QED BY <1>1, <1>2, <1>3, <1>4, <1>5 DEF RgInv

\* What LoadFinds says of the newest load after the step that takes it to pc
LEMMA FindsNext ==
  ASSUME RgInv, LoadOnly, NEW pc \in LoadPcs,
         game'.loads = [game.loads EXCEPT ![Newest] = pc],
         ~game'.crashed,
         pc \notin {"open", "none"},
         pc = "sources" => game'.stream = "open" /\ game'.mixer = <<>>,
         pc \in {"schedule", "start"} =>
           game'.stream = "open" /\ game'.mixer = <<Newest, Newest>> /\ game'.generation = Newest,
         game'.stream = "started" => game'.mixer = <<game'.generation, game'.generation>>,
         pc \in Unstarted => rgShown,
         ~rgShown /\ game'.stopping = "none" => game'.stream = "none",
         game'.stopping \in {"stop", "close"} => game'.stream # "none",
         game'.erring => rgShown,
         game'.state = "failed" => game'.stream # "started" /\ pc = "done"
  PROVE  LoadFinds'
<1>1. Newest' = Newest /\ resumes' = resumes /\ rgShown' = rgShown BY DEF LoadOnly, Newest
<1>2. game'.loads[Newest] = pc BY NewestIs DEF RgInv, RgTyped
<1> QED BY <1>1, <1>2 DEF LoadFinds

LEMMA OpenGameStreamStep ==
  ASSUME RgInv, NEW k \in Loads, OpenGameStream(k), LoadOnly
  PROVE  RgInv'
<1>1. resumes > 0 /\ game.loads[k] = "open" /\ k = Newest
  BY NewestIs DEF OpenGameStream, At, Unstarted
<1>2. DOMAIN game = GameFields /\ Newest \in Loads /\ (disconnects = 0 => Newest = 1)
      /\ (~crossed => LoadFinds) /\ game.loads \in [Loads -> LoadPcs]
  BY NewestIs DEF RgInv, RgTyped
<1>3. CASE game' = [game EXCEPT !.stream = "open", !.loads[k] = "sources"]
  <2>1. /\ DOMAIN game' = GameFields /\ game'.loads = [game.loads EXCEPT ![Newest] = "sources"]
        /\ game'.frame = game.frame /\ game'.position = game.position
        /\ game'.erring = game.erring /\ game'.stopping = game.stopping
        /\ game'.events = game.events /\ game'.windows = game.windows
        /\ game'.stream = "open" /\ game'.mixer = game.mixer /\ game'.state = game.state
        /\ game'.crashed = game.crashed
    BY <1>1, <1>2, <1>3 DEF GameFields
  <2>2. ~crossed => LoadFinds'
    BY <1>1, <1>2, <2>1, FindsNext DEF LoadFinds, LoadPcs, Unstarted
  <2>3. WindowsTaken(game.windows) /\ disconnects = 0 => WindowsTaken(game.windows)'
    BY <1>1, <1>2, <2>1, WindowsStay DEF LoadOnly
  <2> QED BY <1>1, <2>1, <2>2, <2>3, LoadGoes DEF LoadPcs, Unstarted
<1>4. CASE Fails(k)
  <2>1. /\ DOMAIN game' = GameFields /\ game'.loads = [game.loads EXCEPT ![Newest] = "done"]
        /\ game'.frame = game.frame /\ game'.position = game.position
        /\ game'.erring = game.erring /\ game'.stopping = game.stopping
        /\ game'.events = game.events /\ game'.windows = game.windows
        /\ game'.stream = game.stream /\ game'.mixer = game.mixer
        /\ game'.crashed = game.crashed
    BY <1>1, <1>2, <1>4 DEF GameFields, Fails
  <2>2. ~crossed => LoadFinds'
    BY <1>1, <1>2, <2>1, FindsNext DEF LoadFinds, LoadPcs, Unstarted
  <2>3. WindowsTaken(game.windows) /\ disconnects = 0 => WindowsTaken(game.windows)'
    BY <1>1, <1>2, <2>1, WindowsStay DEF LoadOnly
  <2> QED BY <1>1, <2>1, <2>2, <2>3, LoadGoes DEF LoadPcs, Unstarted
<1> QED BY <1>3, <1>4 DEF OpenGameStream

\* A load that fails, or that finds no stream, after it was opened
LEMMA LoadEnds ==
  ASSUME RgInv, NEW k \in Loads, LoadOnly, resumes > 0,
         game.loads[k] \in {"sources", "start"},
         Crashes \/ (game.stream # "none" /\ Fails(k))
  PROVE  RgInv'
<1>1. k = Newest BY NewestIs DEF Unstarted
<1>2. /\ DOMAIN game = GameFields /\ (disconnects = 0 => Newest = 1)
      /\ (~crossed => LoadFinds) /\ game.loads \in [Loads -> LoadPcs] /\ Newest \in Loads
  BY NewestIs DEF RgInv, RgTyped
<1>3. CASE game.stream # "none" /\ Fails(k)
  <2>1. /\ DOMAIN game' = GameFields /\ game'.loads = [game.loads EXCEPT ![Newest] = "done"]
        /\ game'.frame = game.frame /\ game'.position = game.position
        /\ game'.erring = game.erring /\ game'.stopping = game.stopping
        /\ game'.events = game.events /\ game'.windows = game.windows
        /\ game'.stream = game.stream /\ game'.mixer = game.mixer
        /\ game'.crashed = game.crashed
    BY <1>1, <1>2, <1>3 DEF GameFields, Fails
  <2>2. ~crossed => LoadFinds'
    BY <1>1, <1>2, <2>1, FindsNext DEF LoadFinds, LoadPcs, Unstarted
  <2>3. WindowsTaken(game.windows) /\ disconnects = 0 => WindowsTaken(game.windows)'
    BY <1>1, <1>2, <2>1, WindowsStay DEF LoadOnly
  <2> QED BY <1>1, <2>1, <2>2, <2>3, LoadGoes DEF LoadPcs, Unstarted
<1>4. CASE Crashes
  <2>1. crossed BY <1>1, <1>2, <1>4 DEF LoadFinds, Crashes
  <2>2. /\ DOMAIN game' = GameFields /\ game'.loads = game.loads
        /\ game'.frame = game.frame /\ game'.position = game.position
        /\ game'.erring = game.erring /\ game'.stopping = game.stopping
        /\ game'.events = game.events /\ game'.windows = game.windows
        /\ game'.stream = game.stream
    BY <1>2, <1>4 DEF GameFields, Crashes
  <2>3. /\ resumes' = resumes /\ rgShown' = rgShown /\ crossed' = crossed
        /\ disconnects' = disconnects /\ taps' = taps /\ results' = results /\ drawn' = drawn
    BY DEF LoadOnly
  <2>4. RgTyped' /\ Resumed' BY <2>2, <2>3 DEF RgInv, RgTyped, Resumed
  <2>5. LoadsInTurn' BY <2>2, <2>3 DEF RgInv, LoadsInTurn, Newest
  <2>6. ASSUME disconnects = 0 PROVE WindowsTaken(game.windows)' /\ ResultsTaken(game.events)'
    BY <2>2, <2>3, <2>6, WindowsStay, ResultsStay DEF RgInv
  <2> QED BY <2>1, <2>3, <2>4, <2>5, <2>6 DEF RgInv
<1> QED BY <1>3, <1>4

LEMMA SetupAudioSourcesStep ==
  ASSUME RgInv, NEW k \in Loads, SetupAudioSources(k), LoadOnly
  PROVE  RgInv'
<1>1. resumes > 0 /\ game.loads[k] = "sources" /\ k = Newest
  BY NewestIs DEF SetupAudioSources, At, Unstarted
<1>2. DOMAIN game = GameFields /\ Newest \in Loads /\ (disconnects = 0 => Newest = 1)
      /\ (~crossed => LoadFinds) /\ game.loads \in [Loads -> LoadPcs] /\ LoadsInTurn
  BY NewestIs DEF RgInv, RgTyped
<1>3. CASE game' = [game EXCEPT !.generation = k, !.mixer = @ \o <<k, k>>, !.clap = 0,
                                !.loads[k] = "schedule"]
  <2>1. /\ DOMAIN game' = GameFields /\ game'.loads = [game.loads EXCEPT ![Newest] = "schedule"]
        /\ game'.frame = game.frame /\ game'.position = game.position
        /\ game'.erring = game.erring /\ game'.stopping = game.stopping
        /\ game'.events = game.events /\ game'.windows = game.windows
        /\ game'.stream = game.stream /\ game'.mixer = game.mixer \o <<Newest, Newest>>
        /\ game'.state = game.state /\ game'.crashed = game.crashed
        /\ game'.generation = Newest
    BY <1>1, <1>2, <1>3 DEF GameFields
  <2>2. <<>> \o <<Newest, Newest>> = <<Newest, Newest>>
    <3>1. <<Newest, Newest>> \in Seq({Newest}) OBVIOUS
    <3> QED BY <3>1, ConcatEmptySeq
  <2>3. ASSUME ~crossed PROVE LoadFinds'
    <3>1. game.stream = "open" /\ game.mixer = <<>> /\ rgShown /\ ~game.crashed
          /\ game.state # "failed"
      BY <1>1, <1>2, <2>3 DEF LoadFinds, Unstarted
    <3> QED BY <2>1, <2>2, <3>1, FindsNext DEF LoadPcs
  <2>4. WindowsTaken(game.windows) /\ disconnects = 0 => WindowsTaken(game.windows)'
    BY <1>1, <1>2, <2>1, WindowsStay DEF LoadOnly
  <2>5. game.stream # "started" BY <1>1, <1>2 DEF LoadsInTurn
  <2> QED BY <1>1, <2>1, <2>3, <2>4, <2>5, LoadGoes DEF LoadPcs, Unstarted
<1> QED BY <1>1, <1>3, LoadEnds DEF SetupAudioSources

LEMMA ScheduleSongEventsStep ==
  ASSUME RgInv, NEW k \in Loads, ScheduleSongEvents(k), LoadOnly
  PROVE  RgInv'
<1>1. resumes > 0 /\ game.loads[k] = "schedule" /\ k = Newest
  BY NewestIs DEF ScheduleSongEvents, At, Unstarted
<1>2. DOMAIN game = GameFields /\ Newest \in Loads /\ (disconnects = 0 => Newest = 1)
      /\ (~crossed => LoadFinds) /\ game.loads \in [Loads -> LoadPcs] /\ LoadsInTurn
  BY NewestIs DEF RgInv, RgTyped
<1>3. game' = [game EXCEPT !.claps = PushAll(@, ClapEvents),
                           !.windows = PushAll(@, ClapWindows), !.loads[k] = "start"]
  BY DEF ScheduleSongEvents
<1> DEFINE p == PushAll(game.windows, ClapWindows)
           c == PushAll(game.claps, ClapEvents)
<1>4. game' = [game EXCEPT !.claps = c, !.windows = p, !.loads[k] = "start"] BY <1>3
<1> HIDE DEF p, c
<1>5. /\ DOMAIN game' = GameFields /\ game'.loads = [game.loads EXCEPT ![Newest] = "start"]
      /\ game'.frame = game.frame /\ game'.position = game.position
      /\ game'.erring = game.erring /\ game'.stopping = game.stopping
      /\ game'.events = game.events /\ game'.windows = p
      /\ game'.stream = game.stream /\ game'.mixer = game.mixer
      /\ game'.state = game.state /\ game'.crashed = game.crashed
      /\ game'.generation = game.generation
  BY <1>1, <1>2, <1>4 DEF GameFields
<1>6. ASSUME ~crossed PROVE LoadFinds'
  <2>1. /\ game.stream = "open" /\ game.mixer = <<Newest, Newest>> /\ rgShown /\ ~game.crashed
        /\ game.state # "failed" /\ game.generation = Newest
    BY <1>1, <1>2, <1>6 DEF LoadFinds, Unstarted
  <2> QED BY <1>5, <2>1, FindsNext DEF LoadPcs
<1>7. ASSUME WindowsTaken(game.windows), disconnects = 0 PROVE WindowsTaken(game.windows)'
  <2>1. /\ FourSlots(game.windows) /\ game.windows.write = 0 /\ game.windows.read = 0
        /\ taps \in Seq(Nat) /\ Len(taps) = 0
    <3>1. game.loads[1] = "schedule" BY <1>1, <1>2, <1>7
    <3> QED BY <1>7, <3>1 DEF WindowsTaken, FourSlots
  <2>2. /\ FourSlots(p) /\ p.read = 0 /\ p.write = 3
        /\ \A i \in 0..2 : p.buffer[i] = ClapWindows[i + 1]
    BY <2>1, ThreePushed DEF p
  <2>3. taps' = taps /\ game'.loads[1] = "start" BY <1>1, <1>2, <1>5, <1>7 DEF LoadOnly
  <2> QED BY <1>5, <2>1, <2>2, <2>3 DEF WindowsTaken
<1>8. game.stream # "started" BY <1>1, <1>2 DEF LoadsInTurn
<1> QED BY <1>1, <1>5, <1>6, <1>7, <1>8, LoadGoes DEF LoadPcs, Unstarted

LEMMA RequestStartStep ==
  ASSUME RgInv, NEW k \in Loads, RequestStart(k), LoadOnly
  PROVE  RgInv'
<1>1. resumes > 0 /\ game.loads[k] = "start" /\ k = Newest
  BY NewestIs DEF RequestStart, At, Unstarted
<1>2. DOMAIN game = GameFields /\ Newest \in Loads /\ (disconnects = 0 => Newest = 1)
      /\ (~crossed => LoadFinds) /\ game.loads \in [Loads -> LoadPcs] /\ LoadsInTurn
  BY NewestIs DEF RgInv, RgTyped
<1>3. CASE game' = [game EXCEPT !.stream = "started", !.loads[k] = "playing"]
  <2>1. /\ DOMAIN game' = GameFields /\ game'.loads = [game.loads EXCEPT ![Newest] = "playing"]
        /\ game'.frame = game.frame /\ game'.position = game.position
        /\ game'.erring = game.erring /\ game'.stopping = game.stopping
        /\ game'.events = game.events /\ game'.windows = game.windows
        /\ game'.stream = "started" /\ game'.mixer = game.mixer
        /\ game'.state = game.state /\ game'.crashed = game.crashed
        /\ game'.generation = game.generation
    BY <1>1, <1>2, <1>3 DEF GameFields
  <2>2. ASSUME ~crossed PROVE LoadFinds'
    <3>1. /\ game.mixer = <<Newest, Newest>> /\ rgShown /\ ~game.crashed
          /\ game.state # "failed" /\ game.generation = Newest
      BY <1>1, <1>2, <2>2 DEF LoadFinds, Unstarted
    <3> QED BY <2>1, <3>1, FindsNext DEF LoadPcs, Unstarted
  <2>3. WindowsTaken(game.windows) /\ disconnects = 0 => WindowsTaken(game.windows)'
    BY <1>1, <1>2, <2>1, WindowsStay DEF LoadOnly
  <2> QED BY <1>1, <2>1, <2>2, <2>3, LoadGoes DEF LoadPcs, Unstarted
<1> QED BY <1>1, <1>3, LoadEnds DEF RequestStart

LEMMA SetPlayingStep ==
  ASSUME RgInv, NEW k \in Loads, SetPlaying(k), LoadOnly
  PROVE  RgInv'
<1>1. /\ resumes > 0 /\ game.loads[k] = "playing"
      /\ game' = [game EXCEPT !.state = "playing", !.loads[k] = "done"]
  BY DEF SetPlaying, At
<1>2. DOMAIN game = GameFields /\ Newest \in Loads /\ game.loads \in [Loads -> LoadPcs]
      /\ \A i \in Loads : i \in Int
  BY NewestIs, GameConstants DEF RgInv, RgTyped, Loads
<1>3. /\ DOMAIN game' = GameFields /\ game'.loads = [game.loads EXCEPT ![k] = "done"]
      /\ game'.frame = game.frame /\ game'.position = game.position
      /\ game'.erring = game.erring /\ game'.stopping = game.stopping
      /\ game'.events = game.events /\ game'.windows = game.windows
      /\ game'.stream = game.stream /\ game'.mixer = game.mixer
      /\ game'.state = "playing" /\ game'.crashed = game.crashed
      /\ game'.generation = game.generation
  BY <1>1, <1>2 DEF GameFields
<1>4. /\ resumes' = resumes /\ rgShown' = rgShown /\ crossed' = crossed
      /\ disconnects' = disconnects /\ taps' = taps /\ results' = results /\ drawn' = drawn
      /\ Newest' = Newest
  BY DEF LoadOnly, Newest
<1>5. \A i \in Loads : game'.loads[i] = IF i = k THEN "done" ELSE game.loads[i] BY <1>2, <1>3
<1>6. RgTyped' /\ Resumed' BY <1>3, <1>4 DEF RgInv, RgTyped, Resumed, LoadPcs
<1>7. LoadsInTurn' BY <1>1, <1>2, <1>3, <1>4, <1>5 DEF RgInv, LoadsInTurn
<1>8. ~crossed => LoadFinds'
  BY <1>1, <1>2, <1>3, <1>4, <1>5 DEF RgInv, LoadFinds, Unstarted
<1>9. ASSUME disconnects = 0 PROVE WindowsTaken(game.windows)' /\ ResultsTaken(game.events)'
  <2>1. 1 \in Loads BY NewestIs
  <2>2. game'.loads[1] \in {"done", game.loads[1]} BY <1>5, <2>1
  <2> QED BY <1>3, <1>4, <1>9, <2>2, WindowsStay, ResultsStay DEF RgInv
<1> QED BY <1>4, <1>6, <1>7, <1>8, <1>9 DEF RgInv
-----------------------------------------------------------------------------
LEMMA OnStartStep ==
  ASSUME RgInv, OnStart
  PROVE  RgInv'
<1>1. /\ resumes' = resumes + 1 /\ rgShown' = TRUE /\ game' = NewGame /\ crossed' = crossed
      /\ disconnects' = 0 /\ taps' = <<>> /\ results' = <<>> /\ drawn' = 0
  BY DEF OnStart
<1>2. /\ DOMAIN game' = GameFields /\ game'.loads \in [Loads -> LoadPcs]
      /\ game'.frame = 0 /\ game'.position = 0
      /\ game'.erring = FALSE /\ game'.stopping = "none"
  BY <1>1, NewGameIs DEF LoadPcs
<1>3. RgTyped'
  <2>1. resumes' \in Nat /\ 0 \in 0..RgDisconnects BY <1>1, GameConstants DEF RgInv, RgTyped
  <2>2. rgShown' \in BOOLEAN /\ crossed' \in BOOLEAN BY <1>1 DEF RgInv, RgTyped
  <2>3. game'.erring \in BOOLEAN BY <1>2, Zenon
  <2> QED BY <1>1, <1>2, <2>1, <2>2, <2>3 DEF RgTyped
<1>4. Resumed'
  <2>1. resumes' > 0 BY <1>1 DEF RgInv, RgTyped
  <2> QED BY <1>2, <2>1 DEF Resumed
<1>5. 1 \in Loads /\ Newest' = 1 BY <1>1, GameConstants DEF Loads, Newest
<1>6. game'.loads[1] = "open" BY <1>1, <1>5, NewGameIs
<1>7. LoadsInTurn' BY <1>1, <1>2, <1>5, <1>6, NewGameIs DEF LoadsInTurn, Loads
<1>8. LoadFinds' BY <1>1, <1>2, <1>5, <1>6, NewGameIs DEF LoadFinds, Unstarted
<1>9. <<>> \in Seq(Nat) /\ <<>> \in Seq(Results) /\ Len(<<>>) = 0 BY EmptySeq
<1>10. WindowsTaken(game.windows)' BY <1>1, <1>9, NewGameIs, NewQueue DEF WindowsTaken
<1>11. ResultsTaken(game.events)' BY <1>1, <1>9, NewGameIs, NewQueue DEF ResultsTaken
<1> QED BY <1>1, <1>3, <1>4, <1>7, <1>8, <1>10, <1>11 DEF RgInv

LEMMA OnStopStep ==
  ASSUME RgInv, OnStop
  PROVE  RgInv'
<1> DEFINE next == IF game.stream = "none" THEN "none" ELSE "stop"
<1>1. /\ rgShown /\ rgShown' = FALSE /\ game' = [game EXCEPT !.stopping = next]
      /\ crossed' = (crossed \/ Loading \/ game.erring)
      /\ resumes' = resumes /\ disconnects' = disconnects
      /\ taps' = taps /\ results' = results /\ drawn' = drawn
  BY DEF OnStop, history
<1>2. /\ next \in {"none", "stop"} /\ (next = "none" <=> game.stream = "none")
  OBVIOUS
<1> HIDE DEF next
<1>3. DOMAIN game = GameFields /\ Newest \in Loads /\ game.loads \in [Loads -> LoadPcs]
  BY NewestIs DEF RgInv, RgTyped
<1>4. /\ DOMAIN game' = GameFields /\ game'.loads = game.loads
      /\ game'.frame = game.frame /\ game'.position = game.position
      /\ game'.erring = game.erring /\ game'.stopping = next
      /\ game'.events = game.events /\ game'.windows = game.windows
      /\ game'.stream = game.stream /\ game'.mixer = game.mixer
      /\ game'.state = game.state /\ game'.crashed = game.crashed
      /\ game'.generation = game.generation
  BY <1>1, <1>3 DEF GameFields
<1>5. RgTyped'
  <2>1. crossed' \in BOOLEAN BY <1>1, Zenon
  <2> QED BY <1>1, <1>2, <1>4, <2>1 DEF RgInv, RgTyped
<1>6. Resumed'
  <2>1. resumes \in Nat /\ resumes # 0 BY <1>1 DEF RgInv, RgTyped, Resumed
  <2> QED BY <1>1, <2>1 DEF Resumed
<1>7. LoadsInTurn' BY <1>1, <1>4 DEF RgInv, LoadsInTurn, Newest
<1>8. ASSUME ~crossed' PROVE LoadFinds'
  <2>1. ~crossed /\ ~Loading /\ ~game.erring BY <1>1, <1>8
  <2>2. game.loads[Newest] \notin Unstarted BY <1>3, <2>1 DEF Loading, Unstarted
  <2>3. LoadFinds /\ Newest' = Newest BY <1>1, <2>1 DEF RgInv, Newest
  <2> QED BY <1>1, <1>2, <1>4, <2>1, <2>2, <2>3 DEF LoadFinds, Unstarted
<1>9. ASSUME disconnects = 0 PROVE WindowsTaken(game.windows)' /\ ResultsTaken(game.events)'
  BY <1>1, <1>4, <1>9, WindowsStay, ResultsStay DEF RgInv
<1> QED BY <1>1, <1>5, <1>6, <1>7, <1>8, <1>9 DEF RgInv

\* stop() finds its stream, unless the pause crossed a load or a disconnect.
LEMMA StopStep ==
  ASSUME RgInv, Stop
  PROVE  RgInv'
<1>1. /\ game.stopping \in {"stop", "close", "reset"}
      /\ resumes' = resumes /\ rgShown' = rgShown /\ crossed' = crossed
      /\ disconnects' = disconnects /\ taps' = taps /\ results' = results /\ drawn' = drawn
  BY DEF Stop, StopUses, StopReset, history
<1>2. DOMAIN game = GameFields BY DEF RgInv, RgTyped
<1>3. /\ DOMAIN game' = GameFields /\ game'.loads = game.loads
      /\ game'.frame = game.frame /\ game'.position = game.position
      /\ game'.erring = game.erring /\ game'.events = game.events
      /\ game'.windows = game.windows /\ game'.mixer = game.mixer
      /\ game'.state = game.state /\ game'.generation = game.generation
  BY <1>2 DEF Stop, StopUses, StopReset, GameFields
<1>4. /\ game'.stopping \in {"none", "close", "reset"}
      /\ game'.stream = "started" => game.stream = "started"
      /\ game.stream # "none" \/ game.stopping = "reset" => game'.crashed = game.crashed
      /\ game'.stopping = "none" => game'.stream = "none"
      /\ game'.stopping = "close" => game.stopping = "stop"
      /\ game'.stopping = "close" /\ game.stream # "none" => game'.stream # "none"
  <2>1. CASE StopUses("stop", IF game.stream = "started" THEN "open" ELSE game.stream, "close")
    <3>1. game.stopping = "stop" /\ game'.stopping = "close" /\ game'.stream # "started"
      BY <1>2, <2>1 DEF StopUses, GameFields
    <3>2. game.stream # "none" => game'.stream # "none" /\ game'.crashed = game.crashed
      BY <1>2, <2>1 DEF StopUses, GameFields
    <3> QED BY <3>1, <3>2
  <2>2. CASE StopUses("close", "closed", "reset")
    <3>1. game.stopping = "close" /\ game'.stopping = "reset" /\ game'.stream # "started"
      BY <1>2, <2>2 DEF StopUses, GameFields
    <3>2. game.stream # "none" => game'.crashed = game.crashed
      BY <1>2, <2>2 DEF StopUses, GameFields
    <3> QED BY <3>1, <3>2
  <2>3. CASE StopReset BY <1>2, <2>3 DEF StopReset, GameFields
  <2> QED BY <2>1, <2>2, <2>3 DEF Stop
<1>5. ~rgShown /\ resumes > 0 BY <1>1 DEF RgInv, Resumed
<1>6. RgTyped' BY <1>1, <1>3, <1>4 DEF RgInv, RgTyped
<1>7. Resumed' BY <1>1, <1>5 DEF Resumed
<1>8. LoadsInTurn' BY <1>1, <1>3, <1>4 DEF RgInv, LoadsInTurn, Newest
<1>9. ASSUME ~crossed' PROVE LoadFinds'
  <2>1. LoadFinds /\ Newest' = Newest BY <1>1, <1>9 DEF RgInv, Newest
  <2>2. game.loads[Newest] \notin Unstarted BY <1>5, <2>1 DEF LoadFinds
  <2>3. game.stream # "none" \/ game.stopping = "reset" BY <1>1, <2>1 DEF LoadFinds
  <2>4. ~game'.crashed BY <1>4, <2>1, <2>3 DEF LoadFinds
  <2>5. game'.stopping \in {"stop", "close"} => game'.stream # "none"
    BY <1>4, <2>1 DEF LoadFinds
  <2> QED BY <1>1, <1>3, <1>4, <1>5, <2>1, <2>2, <2>4, <2>5 DEF LoadFinds, Unstarted
<1>10. ASSUME disconnects = 0 PROVE WindowsTaken(game.windows)' /\ ResultsTaken(game.events)'
  BY <1>1, <1>3, <1>10, WindowsStay, ResultsStay DEF RgInv
<1> QED BY <1>1, <1>6, <1>7, <1>8, <1>9, <1>10 DEF RgInv

\* The device goes from a stream whose load has started it.
LEMMA DisconnectsStep ==
  ASSUME RgInv, Disconnects
  PROVE  RgInv'
<1>1. /\ game.stream = "started" /\ disconnects < RgDisconnects
      /\ disconnects' = disconnects + 1 /\ crossed' = (crossed \/ ~rgShown)
      /\ game' = [game EXCEPT !.stream = "closed", !.erring = TRUE]
      /\ resumes' = resumes /\ rgShown' = rgShown
  BY DEF Disconnects
<1>2. /\ DOMAIN game = GameFields /\ game.loads \in [Loads -> LoadPcs] /\ LoadsInTurn /\ Resumed
      /\ disconnects \in Nat /\ RgDisconnects \in Nat
  BY GameConstants DEF RgInv, RgTyped
<1>3. /\ Newest \in Loads /\ Newest \in Nat /\ Newest' \in Loads /\ Newest' = Newest + 1
      /\ \A k \in Loads : k \in Nat
  BY <1>1, <1>2 DEF Loads, Newest
<1>4. /\ DOMAIN game' = GameFields /\ game'.loads = game.loads
      /\ game'.frame = game.frame /\ game'.position = game.position
      /\ game'.erring = TRUE /\ game'.stopping = game.stopping
      /\ game'.stream = "closed" /\ game'.mixer = game.mixer
      /\ game'.state = game.state /\ game'.crashed = game.crashed
  BY <1>1, <1>2 DEF GameFields
<1>5. disconnects' \in 0..RgDisconnects /\ disconnects' # 0 BY <1>1, <1>2
<1>6. RgTyped'
  <2>1. crossed' \in BOOLEAN BY <1>1, Zenon
  <2> QED BY <1>1, <1>4, <1>5, <2>1 DEF RgInv, RgTyped
<1>7. Resumed' BY <1>1, <1>2, <1>4 DEF Resumed
<1>8. /\ game.loads[Newest] \in {"playing", "done"} /\ game.loads[Newest + 1] = "none"
      /\ \A k \in Loads : k < Newest + 1 => game.loads[k] \in {"playing", "done"}
  <2>1. game.loads[Newest] \in {"playing", "done"} BY <1>1, <1>2 DEF LoadsInTurn
  <2>2. game.loads[Newest + 1] = "none" BY <1>2, <1>3 DEF LoadsInTurn
  <2> SUFFICES ASSUME NEW k \in Loads, k < Newest + 1 PROVE game.loads[k] \in {"playing", "done"}
    BY <2>1, <2>2
  <2>3. k = Newest \/ k < Newest BY <1>3
  <2> QED BY <1>2, <2>1, <2>3 DEF LoadsInTurn
<1>9. LoadsInTurn' BY <1>2, <1>3, <1>4, <1>8 DEF LoadsInTurn
<1>10. ASSUME ~crossed' PROVE LoadFinds'
  <2>1. rgShown /\ LoadFinds BY <1>1, <1>10 DEF RgInv
  <2>2. game'.loads[Newest'] = "none" BY <1>3, <1>4, <1>8
  <2>3. game.state # "failed" BY <1>1, <2>1 DEF LoadFinds
  <2> QED BY <1>1, <1>4, <2>1, <2>2, <2>3 DEF LoadFinds, Unstarted
<1> QED BY <1>1, <1>5, <1>6, <1>7, <1>9, <1>10 DEF RgInv

\* The tracks of the load before are gone when the next one begins.
LEMMA OnErrorAfterCloseStep ==
  ASSUME RgInv, OnErrorAfterClose
  PROVE  RgInv'
<1>1. /\ game.erring
      /\ game' = [game EXCEPT !.erring = FALSE, !.state = "loading", !.stream = "none",
                    !.mixer = <<>>, !.frame = 0, !.position = 0, !.loads[Newest] = "open"]
      /\ resumes' = resumes /\ rgShown' = rgShown /\ crossed' = crossed
      /\ disconnects' = disconnects /\ taps' = taps /\ results' = results /\ drawn' = drawn
      /\ Newest' = Newest
  BY DEF OnErrorAfterClose, history, Newest
<1>2. /\ DOMAIN game = GameFields /\ game.loads \in [Loads -> LoadPcs] /\ LoadsInTurn /\ Resumed
      /\ Newest \in Loads /\ Newest \in Nat /\ 1 \in Loads /\ (disconnects = 0 => Newest = 1)
      /\ \A k \in Loads : k \in Int
  BY NewestIs, GameConstants DEF RgInv, RgTyped, Loads
<1>3. game.loads[Newest] = "none" BY <1>1, <1>2 DEF LoadsInTurn
<1>4. /\ DOMAIN game' = GameFields /\ game'.loads = [game.loads EXCEPT ![Newest] = "open"]
      /\ game'.frame = 0 /\ game'.position = 0 /\ game'.stream = "none" /\ game'.mixer = <<>>
      /\ game'.erring = FALSE /\ game'.stopping = game.stopping
      /\ game'.state = "loading" /\ game'.crashed = game.crashed
      /\ game'.events = game.events /\ game'.windows = game.windows
  BY <1>1, <1>2 DEF GameFields
<1>5. \A k \in Loads : game'.loads[k] = IF k = Newest THEN "open" ELSE game.loads[k]
  BY <1>2, <1>4
<1>6. RgTyped'
  <2>1. "open" \in LoadPcs BY DEF LoadPcs
  <2>2. game'.loads \in [Loads -> LoadPcs] BY <1>2, <1>4, <2>1
  <2>3. game'.frame \in Nat /\ game'.position \in Nat BY <1>4
  <2>4. game'.erring \in BOOLEAN BY <1>4, Zenon
  <2> QED BY <1>1, <1>4, <2>2, <2>3, <2>4 DEF RgInv, RgTyped
<1>7. Resumed' BY <1>1, <1>2, <1>4 DEF Resumed
<1>8. LoadsInTurn' BY <1>1, <1>2, <1>4, <1>5 DEF LoadsInTurn
<1>9. ASSUME ~crossed' PROVE LoadFinds'
  <2>1. LoadFinds BY <1>1, <1>9 DEF RgInv
  <2>2. rgShown /\ ~game.crashed BY <1>1, <2>1 DEF LoadFinds
  <2>3. game'.loads[Newest] = "open" BY <1>2, <1>5
  <2>4. game'.stopping = "none" BY <1>2, <1>4, <2>2 DEF Resumed
  <2> QED BY <1>1, <1>4, <2>2, <2>3, <2>4 DEF LoadFinds, Unstarted
<1>10. ASSUME disconnects = 0 PROVE WindowsTaken(game.windows)' /\ ResultsTaken(game.events)'
  <2>1. WindowsTaken(game.windows) /\ ResultsTaken(game.events) BY <1>10 DEF RgInv
  <2>2. game.windows.write = 0
    <3>1. game.loads[1] = "none" BY <1>2, <1>3, <1>10
    <3> QED BY <2>1, <3>1 DEF WindowsTaken
  <2>3. WindowsTaken(game.windows)' BY <1>1, <1>4, <2>1, <2>2 DEF WindowsTaken
  <2>4. ResultsTaken(game.events)' BY <1>1, <1>4, <2>1, ResultsStay
  <2> QED BY <2>3, <2>4
<1> QED BY <1>1, <1>6, <1>7, <1>8, <1>9, <1>10 DEF RgInv

\* What the audio thread, a tap and a frame that is drawn leave alone
SameLoads ==
  /\ game'.loads = game.loads /\ game'.stream = game.stream /\ game'.mixer = game.mixer
  /\ game'.state = game.state /\ game'.crashed = game.crashed
  /\ game'.generation = game.generation
  /\ game'.erring = game.erring /\ game'.stopping = game.stopping
  /\ DOMAIN game' = GameFields
  /\ UNCHANGED <<resumes, rgShown, crossed, disconnects>>

LEMMA LoadsStay ==
  ASSUME RgInv, SameLoads, game'.frame \in Nat, game'.position \in Nat,
         disconnects = 0 => WindowsTaken(game.windows)' /\ ResultsTaken(game.events)'
  PROVE  RgInv'
<1>1. RgTyped' /\ Resumed' BY DEF SameLoads, RgInv, RgTyped, Resumed
<1>2. LoadsInTurn' BY DEF SameLoads, RgInv, LoadsInTurn, Newest
<1>3. ~crossed => LoadFinds' BY DEF SameLoads, RgInv, LoadFinds, Newest
<1> QED BY <1>1, <1>2, <1>3 DEF RgInv, SameLoads

LEMMA GameAudioReadyStep ==
  ASSUME RgInv, GameAudioReady
  PROVE  RgInv'
<1> DEFINE due == ~IsEmpty(game.claps) /\ Oldest(game.claps) <= game.frame
           clap == IF due THEN ClapLength ELSE game.clap
           c == IF due THEN Popped(game.claps) ELSE game.claps
           d == IF clap = 0 THEN 0 ELSE clap - 1
<1>1. /\ game' = [game EXCEPT !.position = game.frame, !.frame = @ + 1, !.claps = c, !.clap = d]
      /\ UNCHANGED <<resumes, rgShown, crossed, disconnects, taps, results, drawn>>
  BY DEF GameAudioReady
<1> HIDE DEF c, d
<1>2. DOMAIN game = GameFields /\ game.frame \in Nat BY DEF RgInv, RgTyped
<1>3. /\ SameLoads /\ game'.frame = game.frame + 1 /\ game'.position = game.frame
      /\ game'.windows = game.windows /\ game'.events = game.events
  BY <1>1, <1>2 DEF SameLoads, GameFields
<1>4. ASSUME disconnects = 0 PROVE WindowsTaken(game.windows)' /\ ResultsTaken(game.events)'
  BY <1>1, <1>3, <1>4, WindowsStay, ResultsStay DEF RgInv, SameLoads
<1> QED BY <1>2, <1>3, <1>4, LoadsStay

LEMMA TickStep ==
  ASSUME RgInv, Tick
  PROVE  RgInv'
<1> DEFINE e == Popped(game.events)
<1>1. /\ ~IsEmpty(game.events) /\ game' = [game EXCEPT !.events = e]
      /\ drawn' = IF disconnects > 0 THEN drawn ELSE drawn + 1
      /\ UNCHANGED <<resumes, rgShown, crossed, disconnects, taps, results>>
  BY DEF Tick
<1> HIDE DEF e
<1>2. DOMAIN game = GameFields /\ game.frame \in Nat /\ game.position \in Nat
      /\ disconnects \in Nat
  BY GameConstants DEF RgInv, RgTyped
<1>3. /\ SameLoads /\ game'.frame = game.frame /\ game'.position = game.position
      /\ game'.windows = game.windows /\ game'.events = e
  BY <1>1, <1>2 DEF SameLoads, GameFields
<1>4. ASSUME disconnects = 0 PROVE WindowsTaken(game.windows)' /\ ResultsTaken(game.events)'
  <2>1. WindowsTaken(game.windows)' BY <1>1, <1>3, <1>4, WindowsStay DEF RgInv, SameLoads
  <2>2. FourSlots(game.events) /\ ResultsTaken(game.events) BY <1>4 DEF RgInv, ResultsTaken
  <2>3. /\ FourSlots(e) /\ e.read = game.events.read + 1
        /\ e.write = game.events.write /\ e.buffer = game.events.buffer
    BY <1>1, <2>2, PopFrom DEF e
  <2>4. drawn' = drawn + 1 BY <1>1, <1>4
  <2>5. ResultsTaken(game.events)' BY <1>1, <1>3, <2>2, <2>3, <2>4 DEF ResultsTaken
  <2> QED BY <2>1, <2>5
<1> QED BY <1>2, <1>3, <1>4, LoadsStay

\* Each tap takes a window out, and puts what it gave in.
LEMMA TapStep ==
  ASSUME RgInv, Tap
  PROVE  RgInv'
<1>1. /\ UNCHANGED <<resumes, rgShown, crossed, disconnects, drawn>>
      /\ DOMAIN game = GameFields /\ game.frame \in Nat /\ game.position \in Nat
      /\ disconnects \in Nat
  BY GameConstants DEF Tap, RgInv, RgTyped
<1>2. CASE IsEmpty(game.windows)
  <2>1. game' = [game EXCEPT !.clap = ClapLength] /\ taps' = taps /\ results' = results
    BY <1>2 DEF Tap
  <2>2. /\ SameLoads /\ game'.frame = game.frame /\ game'.position = game.position
        /\ game'.windows = game.windows /\ game'.events = game.events
    BY <1>1, <2>1 DEF SameLoads, GameFields
  <2>3. ASSUME disconnects = 0 PROVE WindowsTaken(game.windows)' /\ ResultsTaken(game.events)'
    BY <1>1, <2>1, <2>2, <2>3, WindowsStay, ResultsStay DEF RgInv, SameLoads
  <2> QED BY <1>1, <2>2, <2>3, LoadsStay
<1>3. CASE ~IsEmpty(game.windows)
  <2> DEFINE q == game.windows
             window == Oldest(q)
             p == Popped(q)
  <2>1. PICK after \in 0..1 :
          LET result == GetTapResult(game.position + after, window)
          IN /\ game' = [game EXCEPT !.clap = ClapLength, !.windows = p,
                                     !.events = Push(@, result)]
             /\ IF disconnects > 0 THEN UNCHANGED <<taps, results>>
                ELSE taps' = Append(taps, window) /\ results' = Append(results, result)
    BY <1>3 DEF Tap, Judged
  <2> DEFINE result == GetTapResult(game.position + after, window)
             e == Push(game.events, result)
  <2>2. /\ game' = [game EXCEPT !.clap = ClapLength, !.windows = p, !.events = e]
        /\ disconnects = 0 => taps' = Append(taps, window) /\ results' = Append(results, result)
    BY <1>1, <2>1
  <2> HIDE DEF p, e
  <2>3. /\ SameLoads /\ game'.frame = game.frame /\ game'.position = game.position
        /\ game'.windows = p /\ game'.events = e
    BY <1>1, <2>2 DEF SameLoads, GameFields
  <2>4. ASSUME disconnects = 0 PROVE WindowsTaken(game.windows)' /\ ResultsTaken(game.events)'
    <3>1. WindowsTaken(q) /\ ResultsTaken(game.events) BY <2>4 DEF RgInv
    <3>2. /\ FourSlots(p) /\ p.read = q.read + 1 /\ p.write = q.write /\ p.buffer = q.buffer
          /\ window = q.buffer[q.read] /\ q.read < q.write
      BY <1>3, <3>1, PopFrom DEF WindowsTaken, p
    <3> DEFINE n == q.read
    <3>3. n \in 0..2 /\ q.write = 3 /\ Len(taps) = n /\ taps \in Seq(Nat)
          /\ game.loads[1] \notin {"none", "open", "sources", "schedule"}
      BY <3>1, <3>2 DEF WindowsTaken, FourSlots
    <3>4. window = ClapWindows[n + 1]
      BY <3>1, <3>2, <3>3 DEF WindowsTaken
    <3>5. window \in Nat /\ window \in {4, 5, 6}
      <4>1. ClapWindows[1] = 4 /\ ClapWindows[2] = 5 /\ ClapWindows[3] = 6 BY DEF ClapWindows
      <4>2. n = 0 \/ n = 1 \/ n = 2 BY <3>3
      <4> QED BY <3>4, <4>1, <4>2
    <3> HIDE DEF window
    <3>6. taps' = Append(taps, window) /\ results' = Append(results, result) BY <2>2, <2>4
    <3>7. taps' \in Seq(Nat) /\ Len(taps') = n + 1 /\ taps'[n + 1] = window
          /\ \A i \in 1..n : taps'[i] = taps[i]
      BY <3>3, <3>5, <3>6, AppendProperties
    <3>8. \A i \in 1..3 : i <= n + 1 => taps'[i] = ClapWindows[i]
      <4> SUFFICES ASSUME NEW i \in 1..3, i <= n + 1 PROVE taps'[i] = ClapWindows[i] OBVIOUS
      <4>1. CASE i = n + 1 BY <3>4, <3>7, <4>1
      <4>2. CASE i # n + 1
        <5>1. i \in 1..n /\ i <= Len(taps) BY <3>3, <4>2
        <5> QED BY <3>1, <3>7, <5>1 DEF WindowsTaken
      <4> QED BY <4>1, <4>2
    <3>9. WindowsTaken(game.windows)'
      BY <2>3, <3>1, <3>2, <3>3, <3>7, <3>8 DEF WindowsTaken, SameLoads
    <3>10. result \in Results
      <4> DEFINE t == game.position + after
      <4>1. t \in Int BY <1>1
      <4> HIDE DEF t
      <4>2. GetTapResult(t, window) \in Results BY <3>5, <4>1 DEF GetTapResult, Results
      <4> QED BY <4>2 DEF t, window
    <3> HIDE DEF result
    <3>11. /\ FourSlots(game.events) /\ game.events.write = n /\ Len(results) = n
           /\ results \in Seq(Results) /\ game.events.read = drawn
      BY <3>1, <3>3 DEF ResultsTaken
    <3>12. /\ FourSlots(e) /\ e.read = drawn /\ e.write = n + 1
           /\ e.buffer = [game.events.buffer EXCEPT ![n] = result]
      BY <3>3, <3>11, PushInto DEF e
    <3>13. results' \in Seq(Results) /\ Len(results') = n + 1 /\ results'[n + 1] = result
           /\ \A i \in 1..n : results'[i] = results[i]
      BY <3>6, <3>10, <3>11, AppendProperties
    <3>14. \A i \in 0..2 : i < n + 1 => e.buffer[i] = results'[i + 1]
      <4> SUFFICES ASSUME NEW i \in 0..2, i < n + 1 PROVE e.buffer[i] = results'[i + 1] OBVIOUS
      <4>1. DOMAIN game.events.buffer = 0..3 BY <3>11 DEF FourSlots
      <4>2. CASE i = n BY <3>3, <3>12, <3>13, <4>1, <4>2
      <4>3. CASE i # n
        <5>1. i < Len(results) /\ i + 1 \in 1..n BY <3>3, <3>11, <4>3
        <5>2. game.events.buffer[i] = results[i + 1] BY <3>1, <5>1 DEF ResultsTaken
        <5> QED BY <3>12, <3>13, <4>1, <4>3, <5>1, <5>2
      <4> QED BY <4>2, <4>3
    <3>15. ResultsTaken(game.events)'
      BY <1>1, <2>3, <3>7, <3>12, <3>13, <3>14 DEF ResultsTaken
    <3> QED BY <3>9, <3>15
  <2> QED BY <1>1, <2>3, <2>4, LoadsStay
<1> QED BY <1>2, <1>3

LEMMA GameStarts == RgInit => RgInv
<1> SUFFICES ASSUME RgInit PROVE RgInv OBVIOUS
<1>1. /\ resumes = 0 /\ rgShown = FALSE /\ game = NewGame /\ crossed = FALSE
      /\ disconnects = 0 /\ taps = <<>> /\ results = <<>> /\ drawn = 0
  BY DEF RgInit
<1>2. /\ DOMAIN game = GameFields /\ game.loads \in [Loads -> LoadPcs]
      /\ game.frame = 0 /\ game.position = 0 /\ disconnects \in 0..RgDisconnects
      /\ LoadsInTurn /\ LoadFinds
      /\ WindowsTaken(game.windows) /\ ResultsTaken(game.events)
  BY <1>1, NewGameFits
<1>3. RgTyped /\ Resumed
  <2>0. game.erring = FALSE /\ game.stopping = "none" BY <1>1 DEF NewGame
  <2>1. resumes \in Nat /\ rgShown \in BOOLEAN /\ crossed \in BOOLEAN BY <1>1
  <2>2. game.frame \in Nat /\ game.position \in Nat BY <1>2
  <2> QED BY <1>1, <1>2, <2>0, <2>1, <2>2 DEF RgTyped, Resumed
<1> QED BY <1>2, <1>3 DEF RgInv

LEMMA GameStep == RgInv /\ [RgNext]_rgVars => RgInv'
<1> SUFFICES ASSUME RgInv, [RgNext]_rgVars PROVE RgInv' OBVIOUS
<1>1. ASSUME UNCHANGED rgVars PROVE RgInv'
  <2>1. /\ resumes' = resumes /\ rgShown' = rgShown /\ game' = game /\ crossed' = crossed
        /\ disconnects' = disconnects /\ taps' = taps /\ results' = results /\ drawn' = drawn
    BY <1>1 DEF rgVars
  <2>2. SameLoads /\ game'.frame \in Nat /\ game'.position \in Nat
    BY <2>1 DEF SameLoads, RgInv, RgTyped
  <2>3. disconnects = 0 => WindowsTaken(game.windows)' /\ ResultsTaken(game.events)'
    BY <2>1, WindowsStay, ResultsStay DEF RgInv
  <2> QED BY <2>2, <2>3, LoadsStay
<1>2. ASSUME Load PROVE RgInv'
  <2>1. LoadOnly BY <1>2 DEF Load, LoadOnly, history
  <2> QED BY <1>2, <2>1, OpenGameStreamStep, SetupAudioSourcesStep, ScheduleSongEventsStep,
             RequestStartStep, SetPlayingStep DEF Load
<1> QED BY <1>1, <1>2, OnStartStep, OnStopStep, StopStep, DisconnectsStep, OnErrorAfterCloseStep,
           GameAudioReadyStep, TapStep, TickStep DEF RgNext

\* Until a pause and a load, or the end of a stream whose device went, cross: a stream
\* plays the two players that there are, whatever fails to load and whenever the device
\* goes, no thread uses a stream that is gone, and once stop() has returned nothing
\* plays.  Always: each tap is judged by the window after that of the last, its result
\* drawn in turn.
THEOREM RhythmIsInStep == RgSpec => []GamePlays
<1>1. RgInv => RhythmInStep BY DEF RgInv, LoadFinds, RhythmInStep
<1>2. RgInv => TapsInTurn
  <2> SUFFICES ASSUME RgInv, disconnects = 0
               PROVE  /\ taps = SubSeq(ClapWindows, 1, Len(taps))
                      /\ Contents(game.events) = SubSeq(results, drawn + 1, Len(results))
    BY DEF TapsInTurn
  <2> DEFINE n == Len(taps)
             q == game.events
  <2>1. WindowsTaken(game.windows) /\ ResultsTaken(q) BY DEF RgInv
  <2>2. n \in 0..3 /\ taps \in Seq(Nat) /\ \A i \in 1..3 : i <= n => taps[i] = ClapWindows[i]
    BY <2>1 DEF WindowsTaken, FourSlots
  <2>3. \A i \in 1..3 : ClapWindows[i] \in Nat
    <3>1. ClapWindows[1] = 4 /\ ClapWindows[2] = 5 /\ ClapWindows[3] = 6 BY DEF ClapWindows
    <3> SUFFICES ASSUME NEW i \in 1..3 PROVE ClapWindows[i] \in Nat OBVIOUS
    <3>2. i = 1 \/ i = 2 \/ i = 3 OBVIOUS
    <3> QED BY <3>1, <3>2
  <2>4. taps = SubSeq(ClapWindows, 1, n)
    <3> DEFINE s == SubSeq(ClapWindows, 1, n)
    <3> HIDE DEF n
    <3>1. \A i \in 1..n : ClapWindows[i] \in Nat BY <2>2, <2>3
    <3>2. /\ s \in Seq(Nat) /\ Len(s) = IF 1 <= n THEN n - 1 + 1 ELSE 0
          /\ \A i \in 1..(n - 1 + 1) : s[i] = ClapWindows[1 + i - 1]
      BY <2>2, <3>1, SubSeqProperties
    <3> HIDE DEF s
    <3>3. Len(s) = n /\ \A i \in 1..n : s[i] = ClapWindows[i] BY <2>2, <3>2
    <3>4. Len(taps) = n BY DEF n
    <3>5. \A i \in 1..Len(taps) : taps[i] = s[i] BY <2>2, <3>3, <3>4
    <3>6. taps = s BY <2>2, <3>2, <3>3, <3>4, <3>5, SeqEqual
    <3> QED BY <3>6 DEF s
  <2>5. Contents(q) = SubSeq(results, drawn + 1, Len(results))
    <3> DEFINE m == Len(results)
               s == SubSeq(results, drawn + 1, m)
    <3> HIDE DEF q
    <3>1. /\ FourSlots(q) /\ q.read = drawn /\ q.write = m /\ results \in Seq(Results)
          /\ \A i \in 0..2 : i < m => q.buffer[i] = results[i + 1]
      BY <2>1 DEF ResultsTaken
    <3>2. drawn \in 0..3 /\ m \in 0..3 /\ drawn <= m BY <3>1 DEF FourSlots
    <3>3. QueueSize(q) = m - drawn /\ Slots(q) = 4 BY <3>1, SlotsOfFour
    <3>4. \A i \in 1..m : results[i] \in Results BY <3>1
    <3> HIDE DEF m
    <3> DEFINE d == m - drawn
    <3>5. d \in 0..3 BY <3>2
    <3>6. /\ s \in Seq(Results) /\ Len(s) = d
          /\ \A i \in 1..d : s[i] = results[drawn + i]
      <4> DEFINE a == drawn + 1
      <4>1. a \in Int /\ m \in Int /\ \A i \in a..m : results[i] \in Results BY <3>2, <3>4
      <4>2. /\ SubSeq(results, a, m) \in Seq(Results)
            /\ Len(SubSeq(results, a, m)) = IF a <= m THEN m - a + 1 ELSE 0
            /\ \A i \in 1..(m - a + 1) : SubSeq(results, a, m)[i] = results[a + i - 1]
        <5> HIDE DEF a
        <5> QED BY <4>1, SubSeqProperties
      <4>3. m - a + 1 = d /\ (IF a <= m THEN m - a + 1 ELSE 0) = d
            /\ \A i \in 1..d : a + i - 1 = drawn + i
        BY <3>2
      <4> QED BY <4>2, <4>3
    <3> HIDE DEF s
    <3>7. \A i \in 1..d : q.buffer[Mask(q, q.read + i - 1)] = results[drawn + i]
      <4> SUFFICES ASSUME NEW i \in 1..d
                   PROVE  q.buffer[Mask(q, q.read + i - 1)] = results[drawn + i]
        OBVIOUS
      <4> DEFINE k == drawn + i - 1
      <4>1. k \in 0..2 /\ k < m /\ k + 1 = drawn + i BY <3>2
      <4>2. q.read + i - 1 = k BY <3>1
      <4> HIDE DEF k
      <4>3. Mask(q, k) = k BY <3>3, <4>1 DEF Mask
      <4>4. q.buffer[k] = results[k + 1] BY <3>1, <4>1
      <4> QED BY <4>1, <4>2, <4>3, <4>4
    <3>8. Contents(q) = [i \in 1..d |-> results[drawn + i]] BY <3>3, <3>7 DEF Contents
    <3>9. s = [i \in 1..d |-> results[drawn + i]]
      <4>1. s = [i \in 1..d |-> s[i]] BY <3>6, LenProperties
      <4> QED BY <3>6, <4>1
    <3> QED BY <3>8, <3>9 DEF s, m
  <2> QED BY <2>4, <2>5
<1>3. RgInv => GamePlays BY <1>1, <1>2 DEF GamePlays
<1> QED BY <1>3, GameStarts, GameStep, PTL DEF RgSpec
-----------------------------------------------------------------------------
LEMMA FunctionAsList ==
  ASSUME NEW S, NEW n \in Nat, NEW f \in [1..n -> S]
  PROVE  f \in Seq(S) /\ Len(f) = n
<1>1. f \in Seq(S) BY SeqDef
<1>2. Len(f) \in Nat /\ DOMAIN f = 1..Len(f) /\ DOMAIN f = 1..n BY <1>1, LenProperties
<1> QED BY <1>1, <1>2
-----------------------------------------------------------------------------
(* AssetExtraction *)

Blocks(n) == [i \in 1..n |-> i]

AxTyped == /\ axKind \in {"ndk", "ffmpeg"}
           /\ axStep \in {"open", "input", "output", "packet", "converted", "done", "thrown",
                         "overrun"}
           /\ fed \in 0..AxBlocks /\ held \in Seq(Nat) /\ written \in Seq(Nat)
           /\ axRoom \in Nat

\* A codec has one of the loops, and its steps.
LoopIs == /\ axKind = "ndk" => axStep # "packet"
          /\ axKind = "ffmpeg" => axStep \notin {"input", "output"}

\* What was written and what the codec holds is what it was given, in order,
\* and of the NDK's the end, once that is queued.  After the end nothing comes.
BlocksInOrder ==
  axStep # "overrun" =>
    IF isExtracting THEN isDecoding /\ written \o held = Blocks(fed)
    ELSE /\ axKind = "ndk" /\ (cut \/ fed = AxBlocks)
         /\ IF isDecoding THEN written \o held = Append(Blocks(fed), 0)
            ELSE written = Blocks(fed)

\* The codec of FFmpeg keeps little, and what is written fits.
Fits == /\ axKind = "ffmpeg" => Len(held) <= AxDelay
        /\ Len(written) <= axRoom
        /\ axStep = "overrun" => axRoom < AxBlocks

DecodedAll == decoded = "blocks" =>
                /\ axStep \notin {"open", "input", "output", "packet"}
                /\ cut \/ fed = AxBlocks
                /\ axKind = "ndk" => ~isExtracting /\ ~isDecoding
AxInv == AxTyped /\ LoopIs /\ BlocksInOrder /\ Fits /\ DecodedAll
-----------------------------------------------------------------------------
LEMMA BlocksAre ==
  ASSUME NEW n \in Nat
  PROVE  /\ Blocks(n) \in Seq(Nat) /\ Len(Blocks(n)) = n
         /\ \A i \in 1..n : Blocks(n)[i] = i
<1>1. Blocks(n) \in [1..n -> Nat] BY DEF Blocks
<1> QED BY <1>1, FunctionAsList DEF Blocks

LEMMA NextBlock ==
  ASSUME NEW n \in Nat
  PROVE  Append(Blocks(n), n + 1) = Blocks(n + 1)
<1> DEFINE s == Append(Blocks(n), n + 1)
           t == Blocks(n + 1)
<1>1. s \in Seq(Nat) /\ Len(s) = n + 1 /\ \A i \in 1..(n + 1) : s[i] = i BY BlocksAre
<1>2. t \in Seq(Nat) /\ Len(t) = n + 1 /\ \A i \in 1..(n + 1) : t[i] = i BY BlocksAre
<1> HIDE DEF s, t
<1>3. s = t BY <1>1, <1>2, SeqEqual
<1> QED BY <1>3 DEF s, t

LEMMA AppendedBehind ==
  ASSUME NEW S, NEW s \in Seq(S), NEW t \in Seq(S), NEW x \in S
  PROVE  s \o Append(t, x) = Append(s \o t, x)
<1> DEFINE a == s \o Append(t, x)
           b == Append(s \o t, x)
<1>1. Append(t, x) \in Seq(S) /\ s \o t \in Seq(S) BY ConcatProperties
<1>2. /\ Len(s) \in Nat /\ Len(t) \in Nat /\ Len(Append(t, x)) = Len(t) + 1
      /\ Len(s \o t) = Len(s) + Len(t)
      /\ \A i \in 1..(Len(t) + 1) : Append(t, x)[i] = IF i <= Len(t) THEN t[i] ELSE x
      /\ \A i \in 1..(Len(s) + Len(t)) : (s \o t)[i] = IF i <= Len(s) THEN s[i] ELSE t[i - Len(s)]
  BY ConcatProperties
<1>3. /\ a \in Seq(S) /\ Len(a) = Len(s) + Len(t) + 1
      /\ \A i \in 1..(Len(s) + Len(t) + 1) :
           a[i] = IF i <= Len(s) THEN s[i] ELSE Append(t, x)[i - Len(s)]
  <2> DEFINE v == Append(t, x)
  <2>1. v \in Seq(S) /\ Len(v) = Len(t) + 1 BY <1>1, <1>2
  <2> HIDE DEF v
  <2>2. /\ s \o v \in Seq(S) /\ Len(s \o v) = Len(s) + Len(v)
        /\ \A i \in 1..(Len(s) + Len(v)) :
             (s \o v)[i] = IF i <= Len(s) THEN s[i] ELSE v[i - Len(s)]
    BY <2>1, ConcatProperties
  <2>3. a = s \o v BY DEF v
  <2> HIDE DEF a
  <2>4. /\ a \in Seq(S) /\ Len(a) = Len(s) + Len(t) + 1
        /\ \A i \in 1..(Len(s) + Len(t) + 1) :
             a[i] = IF i <= Len(s) THEN s[i] ELSE v[i - Len(s)]
    BY <2>1, <2>2, <2>3, <1>2
  <2> QED BY <2>4 DEF v
<1>4. /\ b \in Seq(S) /\ Len(b) = Len(s) + Len(t) + 1
      /\ \A i \in 1..(Len(s) + Len(t) + 1) :
           b[i] = IF i <= Len(s) + Len(t) THEN (s \o t)[i] ELSE x
  BY <1>1, <1>2
<1> HIDE DEF a, b
<1>5. ASSUME NEW i \in 1..(Len(s) + Len(t) + 1) PROVE a[i] = b[i]
  <2>1. CASE i <= Len(s) BY <2>1, <1>2, <1>3, <1>4
  <2>2. CASE i > Len(s)
    <3> DEFINE j == i - Len(s)
    <3>1. j \in 1..(Len(t) + 1) /\ (j <= Len(t) <=> i <= Len(s) + Len(t)) BY <2>2, <1>2
    <3> HIDE DEF j
    <3>2. Append(t, x)[j] = IF j <= Len(t) THEN t[j] ELSE x BY <3>1, <1>2
    <3>3. a[i] = Append(t, x)[j] BY <2>2, <1>2, <1>3 DEF j
    <3>4. b[i] = IF j <= Len(t) THEN t[j] ELSE x BY <2>2, <3>1, <1>2, <1>4 DEF j
    <3> QED BY <3>2, <3>3, <3>4
  <2> QED BY <2>1, <2>2, <1>2
<1>6. a = b BY <1>3, <1>4, <1>5, SeqEqual
<1> QED BY <1>6 DEF a, b

LEMMA HeadMoved ==
  ASSUME NEW S, NEW s \in Seq(S), NEW t \in Seq(S), t # <<>>
  PROVE  Append(s, Head(t)) \o Tail(t) = s \o t
<1> DEFINE h == Head(t)
           u == Tail(t)
           c == Append(s, h)
           a == c \o u
           b == s \o t
           n == Len(s)
           m == Len(t)
<1>1. /\ h \in S /\ h = t[1] /\ u \in Seq(S) /\ Len(u) = m - 1
      /\ \A i \in 1..(m - 1) : u[i] = t[i + 1]
  BY HeadTailProperties
<1>2. n \in Nat /\ m \in Nat \ {0} BY LenProperties, EmptySeq
<1> HIDE DEF h, u
<1>3. /\ c \in Seq(S) /\ Len(c) = n + 1
      /\ \A i \in 1..(n + 1) : c[i] = IF i <= n THEN s[i] ELSE h
  BY <1>1, <1>2
<1>4. /\ b \in Seq(S) /\ Len(b) = n + m
      /\ \A i \in 1..(n + m) : b[i] = IF i <= n THEN s[i] ELSE t[i - n]
  BY ConcatProperties
<1>5. /\ a \in Seq(S) /\ Len(a) = Len(c) + Len(u)
      /\ \A i \in 1..(Len(c) + Len(u)) : a[i] = IF i <= Len(c) THEN c[i] ELSE u[i - Len(c)]
  BY <1>1, <1>3, ConcatProperties
<1> HIDE DEF a, b, c, n, m
<1>6. Len(c) + Len(u) = n + m BY <1>1, <1>2, <1>3
<1>7. /\ a \in Seq(S) /\ Len(a) = n + m
      /\ \A i \in 1..(n + m) : a[i] = IF i <= n + 1 THEN c[i] ELSE u[i - (n + 1)]
  BY <1>3, <1>5, <1>6
<1>8. ASSUME NEW i \in 1..(n + m) PROVE a[i] = b[i]
  <2>0. /\ a[i] = IF i <= n + 1 THEN c[i] ELSE u[i - (n + 1)]
        /\ b[i] = IF i <= n THEN s[i] ELSE t[i - n]
    BY <1>4, <1>7
  <2>1. CASE i <= n
    <3>1. i \in 1..(n + 1) BY <1>2, <2>1
    <3>2. c[i] = s[i] BY <1>3, <2>1, <3>1
    <3> QED BY <1>2, <2>0, <2>1, <3>2
  <2>2. CASE i = n + 1
    <3>1. i - n = 1 /\ i \in 1..(n + 1) /\ ~(i <= n) BY <1>2, <2>2
    <3>2. c[i] = h BY <1>3, <3>1
    <3> QED BY <1>1, <1>2, <2>0, <2>2, <3>1, <3>2
  <2>3. CASE i > n + 1
    <3> DEFINE j == i - (n + 1)
    <3>1. j \in 1..(m - 1) /\ j + 1 = i - n /\ ~(i <= n + 1) /\ ~(i <= n) BY <1>2, <2>3
    <3> HIDE DEF j
    <3>2. u[j] = t[i - n] BY <1>1, <3>1
    <3> QED BY <2>0, <3>1, <3>2 DEF j
  <2> QED BY <1>2, <2>1, <2>2, <2>3
<1>9. a = b BY <1>4, <1>7, <1>8, SeqEqual
<1> QED BY <1>9 DEF a, b, c, h, u
-----------------------------------------------------------------------------
LEMMA AxSizes == AxBlocks \in Nat /\ AxDelay \in Nat /\ AxRooms \subseteq Nat
BY AxAssumption

LEMMA AxInitInv == AxInit => AxInv
<1> SUFFICES ASSUME AxInit PROVE AxInv OBVIOUS
<1>1. /\ axStep = "open" /\ axKind \in {"ndk", "ffmpeg"} /\ isExtracting /\ isDecoding
      /\ fed = 0 /\ held = <<>> /\ written = <<>> /\ decoded = "nothing" /\ axRoom \in Nat
  BY AxSizes DEF AxInit
<1>2. Blocks(0) \in Seq(Nat) /\ Len(Blocks(0)) = 0 BY BlocksAre
<1>3. Blocks(0) = <<>> BY <1>2, EmptySeq
<1>4. AxTyped BY <1>1, AxSizes DEF AxTyped
<1>5. BlocksInOrder BY <1>1, <1>3 DEF BlocksInOrder
<1>6. Len(<<>>) = 0 OBVIOUS
<1>7. Fits BY <1>1, <1>6, AxSizes DEF Fits
<1> QED BY <1>1, <1>4, <1>5, <1>7 DEF AxInv, LoopIs, DecodedAll

\* Steps that leave the codec and the buffer alone
LEMMA CodecAsBefore ==
  ASSUME AxInv, axStep # "overrun", axStep' # "overrun",
         UNCHANGED <<axKind, axRoom, isExtracting, isDecoding, fed, held, written, cut>>
  PROVE  BlocksInOrder' /\ Fits'
BY DEF AxInv, BlocksInOrder, Fits

LEMMA OpenAssetStep == ASSUME AxInv, OpenAsset PROVE AxInv'
<1>1. /\ UNCHANGED <<axKind, axRoom, isExtracting, isDecoding, fed, held, written, cut>>
      /\ axStep = "open"
      /\ axStep' \in {IF axKind = "ndk" THEN "input" ELSE "packet", "converted"}
      /\ decoded' \in {decoded, "nothing", "error"}
  BY DEF OpenAsset
<1>2. decoded' # "blocks" BY <1>1 DEF AxInv, DecodedAll
<1>3. AxTyped' BY <1>1 DEF AxInv, AxTyped
<1>4. LoopIs' BY <1>1 DEF AxInv, AxTyped, LoopIs
<1>5. axStep' # "overrun" BY <1>1
<1> QED BY <1>1, <1>2, <1>3, <1>4, <1>5, CodecAsBefore DEF AxInv, DecodedAll

LEMMA DequeueInputStep == ASSUME AxInv, DequeueInput PROVE AxInv'
<1>1. /\ axStep = "input" /\ axStep' = "output" /\ axKind = "ndk" /\ decoded # "blocks"
      /\ UNCHANGED <<axKind, axRoom, written, decoded>>
  BY DEF DequeueInput, AxInv, AxTyped, LoopIs, DecodedAll
<1>2. /\ fed \in 0..AxBlocks /\ fed \in Nat /\ held \in Seq(Nat) /\ written \in Seq(Nat)
  BY AxSizes DEF AxInv, AxTyped
<1>3. Fits' BY <1>1 DEF AxInv, Fits
<1>4. CASE UNCHANGED <<isExtracting, isDecoding, fed, held, cut>>
  BY <1>1, <1>4, CodecAsBefore DEF AxInv, AxTyped, LoopIs, DecodedAll
<1>5. CASE /\ isExtracting /\ fed < AxBlocks
           /\ fed' = fed + 1 /\ held' = Append(held, fed + 1)
           /\ UNCHANGED <<isExtracting, isDecoding, cut>>
  <2>1. fed' \in 0..AxBlocks /\ held' \in Seq(Nat) BY <1>2, <1>5, AxSizes
  <2>2. isDecoding /\ written \o held = Blocks(fed) BY <1>1, <1>5 DEF AxInv, BlocksInOrder
  <2>3. written \o held' = Append(written \o held, fed + 1)
    BY <1>2, <1>5, AppendedBehind
  <2>4. written' \o held' = Blocks(fed') BY <1>1, <1>2, <1>5, <2>2, <2>3, NextBlock
  <2>5. AxTyped' BY <1>1, <1>2, <2>1 DEF AxInv, AxTyped
  <2>6. BlocksInOrder' BY <1>5, <2>2, <2>4 DEF BlocksInOrder
  <2> QED BY <1>1, <1>3, <2>5, <2>6 DEF AxInv, LoopIs, DecodedAll
<1>6. CASE isExtracting /\ EndOfData /\ cut' = (fed # AxBlocks) /\ UNCHANGED fed
  <2>1. /\ ~isExtracting' /\ held' = Append(held, 0) /\ fed' = fed
        /\ isDecoding' = isDecoding
    BY <1>6 DEF EndOfData
  <2>0. cut' \/ fed' = AxBlocks BY <1>6, Zenon
  <2>2. isDecoding /\ written \o held = Blocks(fed)
    BY <1>1, <1>6 DEF AxInv, BlocksInOrder
  <2>3. written \o held' = Append(written \o held, 0) BY <1>2, <2>1, AppendedBehind
  <2>4. AxTyped' BY <1>1, <1>2, <2>1 DEF AxInv, AxTyped
  <2>5. BlocksInOrder' BY <1>1, <2>0, <2>1, <2>2, <2>3 DEF BlocksInOrder
  <2> QED BY <1>1, <1>3, <2>4, <2>5 DEF AxInv, LoopIs, DecodedAll
<1> QED BY <1>4, <1>5, <1>6 DEF DequeueInput

\* What comes out of the codec is the next of what went in.
LEMMA Returned ==
  ASSUME AxInv, axStep # "overrun", held # <<>>, isDecoding
  PROVE  /\ Head(held) \in Nat /\ Tail(held) \in Seq(Nat)
         /\ Append(written, Head(held)) \o Tail(held) = written \o held
         /\ Head(held) = 0 => ~isExtracting /\ written = Blocks(fed)
         /\ Head(held) # 0 => Len(written) < AxBlocks
<1> DEFINE all == written \o held
           m == Len(written)
           n == fed
<1>1. held \in Seq(Nat) /\ written \in Seq(Nat) /\ n \in Nat /\ n <= AxBlocks /\ AxBlocks \in Nat
  BY AxSizes DEF AxInv, AxTyped
<1>2. Head(held) \in Nat /\ Tail(held) \in Seq(Nat) /\ Head(held) = held[1]
  BY <1>1, HeadTailProperties
<1>3. Append(written, Head(held)) \o Tail(held) = written \o held BY <1>1, HeadMoved
<1>4. m \in Nat /\ Len(held) \in Nat \ {0} BY <1>1, LenProperties, EmptySeq
<1>5. /\ Len(all) = m + Len(held)
      /\ \A i \in 1..(m + Len(held)) : all[i] = IF i <= m THEN written[i] ELSE held[i - m]
  BY <1>1, ConcatProperties
<1>6. IF isExtracting THEN all = Blocks(n) ELSE all = Append(Blocks(n), 0)
  BY DEF AxInv, BlocksInOrder
<1>7. Blocks(n) \in Seq(Nat) /\ Len(Blocks(n)) = n /\ (\A i \in 1..n : Blocks(n)[i] = i)
  BY <1>1, BlocksAre
<1> HIDE DEF all, n
<1>8. all[m + 1] = Head(held)
  <2>1. m + 1 \in 1..(m + Len(held)) /\ ~(m + 1 <= m) /\ m + 1 - m = 1 BY <1>4
  <2> QED BY <2>1, <1>2, <1>5
<1>9. CASE isExtracting
  <2>1. m + 1 \in 1..n BY <1>1, <1>4, <1>5, <1>6, <1>7, <1>9
  <2>2. all[m + 1] = m + 1 BY <1>6, <1>7, <1>9, <2>1
  <2>3. m < AxBlocks /\ Head(held) # 0 BY <1>1, <1>4, <1>8, <2>1, <2>2
  <2> QED BY <1>2, <1>3, <2>3
<1>10. CASE ~isExtracting
  <2>0. all = Append(Blocks(n), 0) BY <1>6, <1>10
  <2>1. /\ Len(all) = n + 1
        /\ \A i \in 1..(n + 1) : all[i] = IF i <= n THEN i ELSE 0
    BY <1>1, <1>7, <2>0
  <2>2. m + 1 \in 1..(n + 1) BY <1>1, <1>4, <1>5, <2>1
  <2>3. CASE m < n
    <3>1. all[m + 1] = m + 1 BY <1>1, <1>4, <2>1, <2>2, <2>3
    <3>2. Head(held) # 0 /\ m < AxBlocks BY <1>1, <1>4, <1>8, <2>3, <3>1
    <3> QED BY <1>2, <1>3, <3>2
  <2>4. CASE m = n
    <3>1. all[m + 1] = 0 BY <1>1, <2>1, <2>2, <2>4
    <3>2. Head(held) = 0 BY <1>8, <3>1
    <3>3. \A i \in 1..Len(written) : written[i] = Blocks(n)[i]
      BY <1>1, <1>4, <1>5, <1>7, <2>1, <2>4
    <3>4. written = Blocks(n) BY <1>1, <1>7, <2>4, <3>3, SeqEqual
    <3> QED BY <1>2, <1>3, <1>10, <3>2, <3>4 DEF n
  <2>5. m < n \/ m = n BY <1>1, <1>4, <2>2
  <2> QED BY <2>3, <2>4, <2>5
<1> QED BY <1>9, <1>10

LEMMA DequeueOutputStep == ASSUME AxInv, DequeueOutput PROVE AxInv'
<1>1. /\ axStep = "output" /\ axKind = "ndk" /\ decoded # "blocks"
      /\ UNCHANGED <<axKind, axRoom, isExtracting, fed, decoded, cut>>
  BY DEF DequeueOutput, AxInv, AxTyped, LoopIs, DecodedAll
<1>2. CASE axStep' = "input" /\ UNCHANGED <<isDecoding, held, written>>
  BY <1>1, <1>2, CodecAsBefore DEF AxInv, AxTyped, LoopIs, DecodedAll
<1>3. CASE /\ isDecoding /\ held # <<>>
           /\ isDecoding' = (Head(held) # 0)
           /\ held' = Tail(held)
           /\ IF Head(held) = 0 THEN axStep' = "input" /\ UNCHANGED written
              ELSE Writes(Head(held), "input")
  <2>1. /\ Head(held) \in Nat /\ Tail(held) \in Seq(Nat)
        /\ Append(written, Head(held)) \o Tail(held) = written \o held
        /\ Head(held) = 0 => ~isExtracting /\ written = Blocks(fed)
        /\ Head(held) # 0 => Len(written) < AxBlocks
    BY <1>1, <1>3, Returned
  <2>2. /\ written \in Seq(Nat) /\ Len(written) \in Nat /\ Len(written) <= axRoom
        /\ axRoom \in Nat
    BY LenProperties DEF AxInv, AxTyped, Fits
  <2>3. CASE Head(held) = 0
    <3>1. /\ ~isDecoding' /\ written' = Blocks(fed) /\ ~isExtracting' /\ written' = written
          /\ axStep' = "input"
      BY <1>1, <1>3, <2>1, <2>3
    <3>2. AxTyped' BY <1>1, <1>3, <2>1, <3>1 DEF AxInv, AxTyped
    <3>3. BlocksInOrder' BY <1>1, <2>1, <2>3, <3>1 DEF AxInv, BlocksInOrder
    <3>4. Fits' BY <1>1, <2>2, <3>1 DEF Fits
    <3> QED BY <1>1, <3>1, <3>2, <3>3, <3>4 DEF AxInv, LoopIs, DecodedAll
  <2>4. CASE Head(held) # 0 /\ Len(written) < axRoom
    <3>1. /\ isDecoding' /\ written' = Append(written, Head(held)) /\ axStep' = "input"
          /\ held' = Tail(held)
      BY <1>3, <2>4 DEF Writes
    <3>2. written' \in Seq(Nat) /\ Len(written') = Len(written) + 1
      BY <2>1, <2>2, <3>1, AppendProperties
    <3>3. written' \o held' = written \o held BY <2>1, <3>1
    <3>4. AxTyped' BY <1>1, <2>1, <3>1, <3>2 DEF AxInv, AxTyped
    <3>5. BlocksInOrder' BY <1>1, <1>3, <3>1, <3>3 DEF AxInv, BlocksInOrder
    <3>6. Fits' BY <1>1, <2>2, <2>4, <3>1, <3>2 DEF Fits
    <3> QED BY <1>1, <3>1, <3>4, <3>5, <3>6 DEF AxInv, LoopIs, DecodedAll
  <2>5. CASE Head(held) # 0 /\ ~(Len(written) < axRoom)
    <3>1. axStep' = "overrun" /\ written' = written BY <1>3, <2>5 DEF Writes
    <3>2. axRoom < AxBlocks BY <2>1, <2>2, <2>5, AxSizes
    <3>3. AxTyped' BY <1>1, <1>3, <2>1, <3>1 DEF AxInv, AxTyped
    <3>4. BlocksInOrder' BY <3>1 DEF BlocksInOrder
    <3>5. Fits' BY <1>1, <2>2, <3>1, <3>2 DEF Fits
    <3> QED BY <1>1, <3>1, <3>3, <3>4, <3>5 DEF AxInv, LoopIs, DecodedAll
  <2> QED BY <2>3, <2>4, <2>5
<1> QED BY <1>2, <1>3 DEF DequeueOutput

LEMMA EndOfLoopStep == ASSUME AxInv, EndOfLoop PROVE AxInv'
<1>1. /\ axStep = "input" /\ axStep' = "converted" /\ ~isExtracting /\ ~isDecoding
      /\ decoded' = "blocks"
      /\ UNCHANGED <<axKind, axRoom, isExtracting, isDecoding, fed, held, written, cut>>
  BY DEF EndOfLoop
<1>2. cut \/ fed = AxBlocks BY <1>1 DEF AxInv, BlocksInOrder
<1>3. BlocksInOrder' /\ Fits' BY <1>1 DEF AxInv, BlocksInOrder, Fits
<1> QED BY <1>1, <1>2, <1>3 DEF AxInv, AxTyped, LoopIs, DecodedAll

LEMMA ReadFrameStep == ASSUME AxInv, ReadFrame PROVE AxInv'
<1>1. /\ axStep = "packet" /\ fed < AxBlocks /\ axKind = "ffmpeg" /\ isExtracting /\ isDecoding
      /\ decoded # "blocks" /\ UNCHANGED <<axKind, axRoom, isExtracting, isDecoding, cut>>
  BY DEF ReadFrame, AxInv, AxTyped, LoopIs, DecodedAll, BlocksInOrder
<1>2. /\ fed \in 0..AxBlocks /\ fed \in Nat /\ held \in Seq(Nat) /\ written \in Seq(Nat)
      /\ written \o held = Blocks(fed) /\ axRoom \in Nat
      /\ Len(held) \in Nat /\ Len(held) <= AxDelay
      /\ Len(written) \in Nat /\ Len(written) <= axRoom
  BY <1>1, AxSizes, LenProperties DEF AxInv, AxTyped, BlocksInOrder, Fits
<1>3. CASE axStep' = "converted" /\ decoded' = "error" /\ UNCHANGED <<fed, held, written>>
  <2>1. BlocksInOrder' /\ Fits' BY <1>1, <1>3 DEF AxInv, BlocksInOrder, Fits
  <2> QED BY <1>1, <1>3, <2>1 DEF AxInv, AxTyped, LoopIs, DecodedAll
<1> DEFINE queue == Append(held, fed + 1)
<1>4. CASE /\ fed' = fed + 1 /\ UNCHANGED decoded
           /\ \/ Len(queue) <= AxDelay /\ held' = queue /\ UNCHANGED <<axStep, written>>
              \/ held' = Tail(queue) /\ Writes(Head(queue), "packet")
  <2>1. queue \in Seq(Nat) /\ queue # <<>> /\ Len(queue) = Len(held) + 1
    <3>1. fed + 1 \in Nat BY <1>2
    <3>2. queue \in Seq(Nat) /\ Len(queue) = Len(held) + 1
      BY <1>2, <3>1, AppendProperties
    <3> HIDE DEF queue
    <3>3. Len(queue) # 0 BY <1>2, <3>2
    <3> QED BY <3>2, <3>3, EmptySeq
  <2>2. written \o queue = Blocks(fed + 1)
    <3>1. written \o queue = Append(written \o held, fed + 1) BY <1>2, AppendedBehind
    <3> QED BY <1>2, <3>1, NextBlock
  <2> HIDE DEF queue
  <2>3. /\ Head(queue) \in Nat /\ Tail(queue) \in Seq(Nat) /\ Len(Tail(queue)) = Len(held)
        /\ Append(written, Head(queue)) \o Tail(queue) = written \o queue
    <3>1. /\ Len(Tail(queue)) = Len(queue) - 1 /\ Head(queue) \in Nat
          /\ Tail(queue) \in Seq(Nat)
      BY <2>1, HeadTailProperties
    <3>2. Len(Tail(queue)) = Len(held) BY <1>2, <2>1, <3>1
    <3>3. Append(written, Head(queue)) \o Tail(queue) = written \o queue
      BY <1>2, <2>1, HeadMoved
    <3> QED BY <3>1, <3>2, <3>3
  <2>4. fed' \in 0..AxBlocks BY <1>1, <1>2, <1>4, AxSizes
  <2>5. CASE Len(queue) <= AxDelay /\ held' = queue /\ UNCHANGED <<axStep, written>>
    <3>1. AxTyped' BY <1>1, <2>1, <2>4, <2>5 DEF AxInv, AxTyped
    <3>2. BlocksInOrder' BY <1>1, <1>4, <2>2, <2>5 DEF BlocksInOrder
    <3>3. Fits' BY <1>1, <1>2, <2>5 DEF Fits
    <3> QED BY <1>1, <1>4, <2>5, <3>1, <3>2, <3>3 DEF AxInv, LoopIs, DecodedAll
  <2>6. CASE held' = Tail(queue) /\ Writes(Head(queue), "packet") /\ Len(written) < axRoom
    <3>1. written' = Append(written, Head(queue)) /\ axStep' = "packet" BY <2>6 DEF Writes
    <3>2. written' \in Seq(Nat) /\ Len(written') = Len(written) + 1
      BY <1>2, <2>3, <3>1, AppendProperties
    <3>3. written' \o held' = Blocks(fed') BY <1>4, <2>2, <2>3, <2>6, <3>1
    <3>4. AxTyped' BY <1>1, <2>3, <2>4, <2>6, <3>1, <3>2 DEF AxInv, AxTyped
    <3>5. BlocksInOrder' BY <1>1, <3>3 DEF BlocksInOrder
    <3>6. Len(held') = Len(held) /\ Len(written') <= axRoom BY <1>2, <2>3, <2>6, <3>2
    <3>7. Fits' BY <1>1, <1>2, <3>1, <3>6 DEF Fits
    <3> QED BY <1>1, <1>4, <3>1, <3>4, <3>5, <3>7 DEF AxInv, LoopIs, DecodedAll
  <2>7. CASE held' = Tail(queue) /\ Writes(Head(queue), "packet") /\ ~(Len(written) < axRoom)
    <3>1. written' = written /\ axStep' = "overrun" BY <2>7 DEF Writes
    <3>2. Len(written) < AxBlocks
      <4>1. Len(written \o held) = Len(written) + Len(held) BY <1>2, ConcatProperties
      <4>2. Len(Blocks(fed)) = fed BY <1>2, BlocksAre
      <4> QED BY <1>1, <1>2, <4>1, <4>2, AxSizes
    <3>3. AxTyped' BY <1>1, <2>3, <2>4, <2>7, <3>1 DEF AxInv, AxTyped
    <3>4. BlocksInOrder' BY <3>1 DEF BlocksInOrder
    <3>5. Fits' BY <1>1, <1>2, <2>3, <2>7, <3>1, <3>2, AxSizes DEF Fits
    <3> QED BY <1>1, <1>4, <3>1, <3>3, <3>4, <3>5 DEF AxInv, LoopIs, DecodedAll
  <2> QED BY <1>4, <2>5, <2>6, <2>7
<1> QED BY <1>3, <1>4 DEF ReadFrame, TakesHeld

LEMMA EndOfFileStep == ASSUME AxInv, EndOfFile PROVE AxInv'
<1>1. /\ axStep = "packet" /\ axStep' = "converted" /\ decoded' = "blocks"
      /\ cut' = (fed # AxBlocks)
      /\ UNCHANGED <<axKind, axRoom, isExtracting, isDecoding, fed, held, written>>
  BY DEF EndOfFile
<1>2. axKind # "ndk" BY <1>1 DEF AxInv, LoopIs
<1>3. isExtracting BY <1>1, <1>2 DEF AxInv, BlocksInOrder
<1>4. cut' \/ fed' = AxBlocks BY <1>1, Zenon
<1>5. BlocksInOrder' /\ Fits' BY <1>1, <1>3 DEF AxInv, BlocksInOrder, Fits
<1> QED BY <1>1, <1>2, <1>4, <1>5 DEF AxInv, AxTyped, LoopIs, DecodedAll

LEMMA NewSourceStep == ASSUME AxInv, NewSource PROVE AxInv'
<1>1. /\ axStep = "converted" /\ axStep' \in {"thrown", "done"}
      /\ UNCHANGED <<axKind, axRoom, isExtracting, isDecoding, fed, held, written, decoded, cut>>
  BY DEF NewSource
<1>2. AxTyped' BY <1>1 DEF AxInv, AxTyped
<1>3. LoopIs' /\ DecodedAll' BY <1>1 DEF AxInv, LoopIs, DecodedAll
<1>4. BlocksInOrder' /\ Fits' BY <1>1 DEF AxInv, BlocksInOrder, Fits
<1> QED BY <1>2, <1>3, <1>4 DEF AxInv

\* Whatever the pace of the codec, and the number of blocks, of buffers and of
\* packets that a codec holds back, the samples of an asset are its blocks in order
\* from the first to the last, or to a read that failed; FFmpeg's loop leaves out
\* AxDelay of them at most, the NDK's none; and only an asset with more blocks than
\* its buffer was made for overruns it.
THEOREM AssetsAreWhole == AxSpec => []DecodedWhole
<1>1. AxInit => AxInv BY AxInitInv
<1>2. AxInv /\ [AxNext]_axVars => AxInv'
  <2> SUFFICES ASSUME AxInv, [AxNext]_axVars PROVE AxInv' OBVIOUS
  <2>1. CASE UNCHANGED axVars
    BY <2>1 DEF axVars, AxInv, AxTyped, LoopIs, BlocksInOrder, Fits, DecodedAll
  <2> QED BY <2>1, OpenAssetStep, DequeueInputStep, DequeueOutputStep, EndOfLoopStep,
             ReadFrameStep, EndOfFileStep, NewSourceStep DEF AxNext
<1>3. AxInv => DecodedWhole
  <2> SUFFICES ASSUME AxInv PROVE DecodedWhole OBVIOUS
  <2>1. axStep = "overrun" => axRoom < AxBlocks BY DEF AxInv, Fits
  <2>2. ASSUME axStep = "done", decoded = "blocks"
        PROVE  /\ cut \/ fed = AxBlocks
               /\ axKind = "ndk" => written = [i \in 1..fed |-> i]
               /\ axKind = "ffmpeg" => /\ Len(held) <= AxDelay
                                       /\ written \o held = [i \in 1..fed |-> i]
               /\ Len(written) <= axRoom
    <3>1. (cut \/ fed = AxBlocks) /\ (axKind = "ndk" => ~isExtracting /\ ~isDecoding)
      BY <2>2 DEF AxInv, DecodedAll
    <3>2. axKind = "ndk" => written = Blocks(fed) BY <2>2, <3>1 DEF AxInv, BlocksInOrder
    <3>3. axKind = "ffmpeg" => written \o held = Blocks(fed)
      BY <2>2, <3>1 DEF AxInv, BlocksInOrder
    <3>4. Len(written) <= axRoom /\ (axKind = "ffmpeg" => Len(held) <= AxDelay)
      BY DEF AxInv, Fits
    <3> QED BY <3>1, <3>2, <3>3, <3>4 DEF Blocks
  <2> QED BY <2>1, <2>2 DEF DecodedWhole, DecodedInOrder
<1> QED BY <1>1, <1>2, <1>3, PTL DEF AxSpec
-----------------------------------------------------------------------------
(* LiveEffect: the screen, its engine and the callback. *)

\* What the UI thread is about to do, and the lists of calls it can have before it.
Doing == IF leUI = <<>> THEN "rest" ELSE Head(leUI)
LeLeaving == {<<"stop", "closeOutput", "closeInput", "off", "stopped", "delete">>,
              <<"closeOutput", "closeInput", "off", "stopped", "delete">>,
              <<"closeInput", "off", "stopped", "delete">>, <<"off", "stopped", "delete">>,
              <<"stopped", "delete">>, <<"delete">>}
LeStaying == {<<>>, <<"on">>, <<"failed">>, <<"playing">>,
              <<"stop", "closeOutput", "closeInput", "off", "stopped">>,
              <<"closeOutput", "closeInput", "off", "stopped">>,
              <<"closeInput", "off", "stopped">>, <<"off", "stopped">>, <<"stopped">>}

LeApis == {"aaudio", "opensles"}
LeStreams == [dir : {"output", "input"}, rate : LeRates, api : LeApis]

LeEngines == [isEffectOn : BOOLEAN, api : LeApis, rate : LeRates \cup {0},
              rack : {<<>>} \cup {LoadRack(rate) : rate \in LeRates},
              play : LeStreams \cup {None}, recording : LeStreams \cup {None},
              output : LeStreams \cup {None}, input : LeStreams \cup {None}]

LeFields == /\ resumed \in BOOLEAN /\ permission \in BOOLEAN /\ asked \in BOOLEAN
            /\ isPlaying \in BOOLEAN /\ apiSelection \in LeApis
            /\ engine \in LeEngines \cup {None}
            /\ live \subseteq LeStreams /\ started \subseteq {"input", "output"}
            /\ callback \in {"none", "begun", "run"}
            /\ leUI \in LeStaying \cup LeLeaving

\* There is an engine while the activity is shown, and until it has been left.
EngineShown == /\ engine = None <=> (~resumed /\ leUI \notin LeLeaving)
               /\ leUI \in LeLeaving => ~resumed

\* The effect is on: both streams belong together, and the input is open.
LeRunning ==
  /\ engine # None /\ engine.isEffectOn
  /\ engine.rate \in LeRates
  /\ engine.play = [dir |-> "output", rate |-> engine.rate, api |-> apiSelection]
  /\ engine.recording = [dir |-> "input", rate |-> engine.rate, api |-> apiSelection]
  /\ engine.output = engine.play /\ engine.input = engine.recording
  /\ engine.recording \in live /\ live \subseteq {engine.play, engine.recording}

\* Nothing calls back any more.
LeSilent == callback = "none" /\ "output" \notin started

\* How far the engine is with what the UI thread asks it for
LePhase ==
  /\ (Doing = "rest" /\ isPlaying) \/ Doing \in {"playing", "stop", "closeOutput"} => LeRunning
  /\ Doing = "closeInput" =>
       LeSilent /\ engine # None /\ live \subseteq {engine.recording}
  /\ Doing = "off" => LeSilent /\ engine # None /\ live = {}
  /\ (Doing = "rest" /\ ~isPlaying) \/ Doing \in {"on", "failed", "stopped", "delete"} =>
       LeSilent /\ live = {} /\ (engine # None => ~engine.isEffectOn)
  /\ Doing \in {"on", "failed", "playing", "delete"} => ~isPlaying
  /\ Doing = "on" => (engine # None => engine.api = apiSelection)

LeInv == LeFields /\ EngineShown /\ LePhase
-----------------------------------------------------------------------------
LEMMA ListsBegin ==
  /\ <<>> \in LeStaying /\ <<"on">> \in LeStaying /\ <<"failed">> \in LeStaying
  /\ <<"playing">> \in LeStaying
  /\ <<"on">> # <<>> /\ <<"failed">> # <<>> /\ <<"playing">> # <<>>
  /\ Head(<<"on">>) = "on" /\ Head(<<"failed">>) = "failed" /\ Head(<<"playing">>) = "playing"
  /\ LeStaying \cap LeLeaving = {}
<1>1. \A s \in LeLeaving : Len(s) > 0 /\ s[Len(s)] = "delete"
  <2> SUFFICES ASSUME NEW s \in LeLeaving
               PROVE  Len(s) > 0 /\ s[Len(s)] = "delete"
    OBVIOUS
  <2>1. CASE s = <<"stop", "closeOutput", "closeInput", "off", "stopped", "delete">>
    BY <2>1
  <2>2. CASE s = <<"closeOutput", "closeInput", "off", "stopped", "delete">>
    BY <2>2
  <2>3. CASE s = <<"closeInput", "off", "stopped", "delete">>
    BY <2>3
  <2>4. CASE s = <<"off", "stopped", "delete">>
    BY <2>4
  <2>5. CASE s = <<"stopped", "delete">>
    BY <2>5
  <2>6. CASE s = <<"delete">>
    BY <2>6
  <2> QED
    BY <2>1, <2>2, <2>3, <2>4, <2>5, <2>6 DEF LeLeaving
<1>2. \A s \in LeStaying : ~(Len(s) > 0 /\ s[Len(s)] = "delete")
  BY SMTT(60) DEF LeStaying
<1>3. LeStaying \cap LeLeaving = {}
  BY <1>1, <1>2
<1>4. /\ <<>> \in LeStaying /\ <<"on">> \in LeStaying /\ <<"failed">> \in LeStaying
      /\ <<"playing">> \in LeStaying
  BY DEF LeStaying
<1>5. /\ <<"on">> # <<>> /\ <<"failed">> # <<>> /\ <<"playing">> # <<>>
      /\ Head(<<"on">>) = "on" /\ Head(<<"failed">>) = "failed" /\ Head(<<"playing">>) = "playing"
  OBVIOUS
<1> QED
  BY <1>3, <1>4, <1>5

\* Where each list of calls leads, one call at a time
LEMMA ListsEnd ==
  ASSUME NEW s \in LeStaying \cup LeLeaving, s # <<>>
  PROVE  /\ Head(s) \in {"on", "failed", "playing", "stop", "closeOutput", "closeInput", "off",
                         "stopped", "delete"}
         /\ Tail(s) \in LeStaying \cup LeLeaving
         /\ Head(s) \in {"on", "failed", "playing", "delete"} => Tail(s) = <<>>
         /\ Head(s) \in {"on", "failed", "playing"} => s \notin LeLeaving
         /\ Head(s) = "delete" => s \in LeLeaving
         /\ Head(s) # "delete" => (Tail(s) \in LeLeaving <=> s \in LeLeaving)
         /\ Head(s) = "stop" => Tail(s) # <<>> /\ Head(Tail(s)) = "closeOutput"
         /\ Head(s) = "closeOutput" => Tail(s) # <<>> /\ Head(Tail(s)) = "closeInput"
         /\ Head(s) = "closeInput" => Tail(s) # <<>> /\ Head(Tail(s)) = "off"
         /\ Head(s) = "off" => Tail(s) # <<>> /\ Head(Tail(s)) = "stopped"
         /\ Head(s) = "stopped" => Tail(s) = <<>> \/ (Tail(s) # <<>> /\ Head(Tail(s)) = "delete")
<1>1. CASE s = <<"stop", "closeOutput", "closeInput", "off", "stopped">>
  BY <1>1, ListsBegin DEF LeStaying, LeLeaving
<1>2. CASE s = <<"closeOutput", "closeInput", "off", "stopped">>
  BY <1>2, ListsBegin DEF LeStaying, LeLeaving
<1>3. CASE s = <<"closeInput", "off", "stopped">>
  BY <1>3, ListsBegin DEF LeStaying, LeLeaving
<1>4. CASE s = <<"off", "stopped">>
  BY <1>4, ListsBegin DEF LeStaying, LeLeaving
<1>5. CASE s = <<"stopped">>
  BY <1>5, ListsBegin DEF LeStaying, LeLeaving
<1>6. CASE s = <<"stop", "closeOutput", "closeInput", "off", "stopped", "delete">>
  BY <1>6, ListsBegin DEF LeStaying, LeLeaving
<1>7. CASE s = <<"closeOutput", "closeInput", "off", "stopped", "delete">>
  BY <1>7, ListsBegin DEF LeStaying, LeLeaving
<1>8. CASE s = <<"closeInput", "off", "stopped", "delete">>
  BY <1>8, ListsBegin DEF LeStaying, LeLeaving
<1>9. CASE s = <<"off", "stopped", "delete">>
  BY <1>9, ListsBegin DEF LeStaying, LeLeaving
<1>10. CASE s = <<"stopped", "delete">>
  BY <1>10, ListsBegin DEF LeStaying, LeLeaving
<1>11. CASE s = <<"delete">>
  BY <1>11, ListsBegin DEF LeStaying, LeLeaving
<1>12. CASE s = <<"on">>
  BY <1>12, ListsBegin DEF LeStaying, LeLeaving
<1>13. CASE s = <<"failed">>
  BY <1>13, ListsBegin DEF LeStaying, LeLeaving
<1>14. CASE s = <<"playing">>
  BY <1>14, ListsBegin DEF LeStaying, LeLeaving
<1> QED
  BY <1>1, <1>2, <1>3, <1>4, <1>5, <1>6, <1>7, <1>8, <1>9, <1>10, <1>11, <1>12, <1>13, <1>14
  DEF LeStaying, LeLeaving
-----------------------------------------------------------------------------
LEMMA EngineIsThere ==
  /\ None \notin LeEngines
  /\ NewEngine \in LeEngines
<1>1. \A e \in LeEngines : DOMAIN e = {"isEffectOn", "api", "rate", "rack", "play", "recording",
                                     "output", "input"}
  BY DEF LeEngines
<1>2. DOMAIN None = {"none"}
  BY DEF None
<1>3. None \notin LeEngines
  BY <1>1, <1>2
<1>4. NewEngine \in LeEngines
  BY DEF NewEngine, LeEngines, LeApis
<1> QED
  BY <1>3, <1>4

\* The host connects every port of the first plugin of every library but delay
\* and sine.
LEMMA PortsConnected ==
  ASSUME LeLibrary \notin {"delay", "sine"}, NEW rate \in LeRates, NEW k \in DOMAIN LoadRack(rate)
  PROVE  LET plugin == LoadRack(rate)[k]
         IN Connected(plugin) = [i \in DOMAIN plugin.ports |-> Fitting(plugin.ports[i])]
<1> USE DEF AudioIn, AudioOut, Gain, Frequency, Port
<1> DEFINE p == Plugins[LeLibrary][1]
           plugin == LoadRack(rate)[k]
<1>1. plugin = [ports |-> p, rate |-> rate,
                inputPort |-> InputPort(p), outputPort |-> OutputPort(p)]
  BY DEF LoadRack
<1>2. LeLibrary \in {"amp", "filter", "noise"}
  BY LeAssumption DEF Plugins
<1>3. /\ DOMAIN p = {0} \cup InputPort(p) \cup OutputPort(p)
      /\ p[0].kind = "control"
      /\ \A i \in InputPort(p) : i # 0 /\ i \notin OutputPort(p) /\ Fitting(p[i]) = "inputData"
      /\ \A i \in OutputPort(p) : i # 0 /\ Fitting(p[i]) = "outputData"
  <2>1. CASE LeLibrary = "amp"
    <3>1. p = Ports(<<Gain, AudioIn, AudioOut>>)
      BY <2>1 DEF Plugins, AmpPlugins
    <3>2. /\ DOMAIN p = {0, 1, 2}
          /\ p[0] = Gain /\ p[1] = AudioIn /\ p[2] = AudioOut
      BY <3>1 DEF Ports
    <3> HIDE DEF p
    <3>3. InputPort(p) = {1} /\ OutputPort(p) = {2}
      BY <3>2 DEF InputPort, OutputPort, IsAudioInput
    <3> QED
      BY <3>2, <3>3 DEF Fitting
  <2>2. CASE LeLibrary = "filter"
    <3>1. p = Ports(<<Frequency, AudioIn, AudioOut>>)
      BY <2>2 DEF Plugins, FilterPlugins
    <3>2. /\ DOMAIN p = {0, 1, 2}
          /\ p[0] = Frequency /\ p[1] = AudioIn /\ p[2] = AudioOut
      BY <3>1 DEF Ports
    <3> HIDE DEF p
    <3>3. InputPort(p) = {1} /\ OutputPort(p) = {2}
      BY <3>2 DEF InputPort, OutputPort, IsAudioInput
    <3> QED
      BY <3>2, <3>3 DEF Fitting
  <2>3. CASE LeLibrary = "noise"
    <3>1. p = Ports(<<Gain, AudioOut>>)
      BY <2>3 DEF Plugins, NoisePlugins
    <3>2. DOMAIN p = {0, 1} /\ p[0] = Gain /\ p[1] = AudioOut
      BY <3>1 DEF Ports
    <3> HIDE DEF p
    <3>3. InputPort(p) = {} /\ OutputPort(p) = {1}
      BY <3>2 DEF InputPort, OutputPort, IsAudioInput
    <3> QED
      BY <3>2, <3>3 DEF Fitting
  <2> QED
    BY <1>2, <2>1, <2>2, <2>3
<1> HIDE DEF p, plugin
<1>4. Connected(plugin) = [i \in DOMAIN p |-> IF i = 0 THEN "cutoff" ELSE Audio(plugin, i)]
  BY <1>1, <1>3 DEF Connected
<1>5. \A i \in DOMAIN p : (IF i = 0 THEN "cutoff" ELSE Audio(plugin, i)) = Fitting(p[i])
  BY <1>1, <1>3 DEF Audio, Fitting
<1>6. Connected(plugin) = [i \in DOMAIN p |-> Fitting(p[i])]
  BY <1>4, <1>5
<1> QED
  BY <1>1, <1>6 DEF plugin
-----------------------------------------------------------------------------
\* Facts that each step of the invariant starts from
LEMMA EngineKept ==
  ASSUME LeFields, UNCHANGED engine
  PROVE  engine' \in LeEngines \cup {None}
BY DEF LeFields

LEMMA EffectStarts ==
  ASSUME LeInit
  PROVE  LeInv
<1>1. LeFields BY ListsBegin DEF LeInit, LeFields, LeApis
<1>2. EngineShown BY ListsBegin DEF LeInit, EngineShown
<1>3. Doing = "rest" BY DEF LeInit, Doing
<1>4. LePhase BY <1>3 DEF LeInit, LePhase, LeSilent
<1> QED BY <1>1, <1>2, <1>4 DEF LeInv

LEMMA EffectResumeKeeps ==
  ASSUME LeInv, OnResume
  PROVE  LeInv'
<1>0. LeFields /\ EngineShown /\ LePhase BY DEF LeInv
<1>1. leUI = <<>> /\ leUI' = leUI /\ Doing = "rest" /\ Doing' = "rest"
  BY DEF OnResume, UIRests, Doing
<1>2. engine = None BY <1>0, <1>1, ListsBegin DEF EngineShown, OnResume
<1>3. ~isPlaying BY <1>0, <1>1, <1>2 DEF LePhase, LeRunning, LeFields
<1>4. /\ engine' = [NewEngine EXCEPT !.api = apiSelection] /\ apiSelection \in LeApis
      /\ engine' \in LeEngines /\ ~engine'.isEffectOn
  <2>1. engine' = [NewEngine EXCEPT !.api = apiSelection] /\ apiSelection \in LeApis
    BY <1>0, <1>2 DEF OnResume, NullEngine, LeFields
  <2> QED BY <2>1, EngineIsThere DEF LeEngines, NewEngine
<1>5. LeFields' BY <1>0, <1>1, <1>4 DEF OnResume, LeFields
<1>6. EngineShown' BY <1>0, <1>1, <1>4, ListsBegin, EngineIsThere DEF OnResume, EngineShown
<1>7. LePhase'
  BY <1>0, <1>1, <1>3, <1>4 DEF OnResume, LePhase, LeSilent, LeFields
<1> QED BY <1>5, <1>6, <1>7 DEF LeInv

\* The list of calls that turns the effect off, when it is on
LEMMA OffFollows ==
  ASSUME LeInv, leUI = <<>>
  PROVE  /\ isPlaying => Off = OffSteps
         /\ ~isPlaying => Off = <<>>
BY DEF LeInv, LePhase, LeRunning, Doing, Off, NullEngine, LeFields

LeCallNames == {"stop", "closeOutput", "closeInput", "off", "stopped", "delete"}

LEMMA OffEnds ==
  /\ OffSteps \o <<"stopped", "delete">> =
       <<"stop", "closeOutput", "closeInput", "off", "stopped", "delete">>
  /\ OffSteps \o <<"stopped">> = <<"stop", "closeOutput", "closeInput", "off", "stopped">>
  /\ <<>> \o <<"stopped", "delete">> = <<"stopped", "delete">>
  /\ <<>> \o <<"stopped">> = <<"stopped">>
<1>1. OffSteps \in Seq(LeCallNames) /\ <<"stopped", "delete">> \in Seq(LeCallNames)
      /\ <<"stopped">> \in Seq(LeCallNames)
  BY DEF OffSteps, LeCallNames
<1>2. /\ <<>> \o <<"stopped", "delete">> = <<"stopped", "delete">>
      /\ <<>> \o <<"stopped">> = <<"stopped">>
  BY <1>1, EmptySeq, ConcatProperties
<1> DEFINE all == <<"stop", "closeOutput", "closeInput", "off", "stopped", "delete">>
           some == <<"stop", "closeOutput", "closeInput", "off", "stopped">>
<1>3. OffSteps \o <<"stopped", "delete">> = all
  <2> DEFINE s == OffSteps \o <<"stopped", "delete">>
  <2>1. /\ s \in Seq(LeCallNames) /\ Len(s) = Len(OffSteps) + 2
        /\ \A i \in 1..Len(s) : s[i] = IF i <= Len(OffSteps) THEN OffSteps[i]
                                       ELSE <<"stopped", "delete">>[i - Len(OffSteps)]
    BY <1>1, ConcatProperties
  <2>2. all \in Seq(LeCallNames) /\ Len(all) = 6 /\ Len(OffSteps) = 4
    BY DEF OffSteps, LeCallNames
  <2>3. ASSUME NEW i \in 1..6 PROVE s[i] = all[i]
    BY <2>1, <2>2, <2>3 DEF OffSteps
  <2> HIDE DEF s, all
  <2> QED BY <2>1, <2>2, <2>3, SeqEqual DEF s
<1>4. OffSteps \o <<"stopped">> = some
  <2> DEFINE s == OffSteps \o <<"stopped">>
  <2>1. /\ s \in Seq(LeCallNames) /\ Len(s) = Len(OffSteps) + 1
        /\ \A i \in 1..Len(s) : s[i] = IF i <= Len(OffSteps) THEN OffSteps[i]
                                       ELSE <<"stopped">>[i - Len(OffSteps)]
    BY <1>1, ConcatProperties
  <2>2. some \in Seq(LeCallNames) /\ Len(some) = 5 /\ Len(OffSteps) = 4
    BY DEF OffSteps, LeCallNames
  <2>3. ASSUME NEW i \in 1..5 PROVE s[i] = some[i]
    BY <2>1, <2>2, <2>3 DEF OffSteps
  <2> HIDE DEF s, some
  <2> QED BY <2>1, <2>2, <2>3, SeqEqual DEF s
<1> QED BY <1>2, <1>3, <1>4 DEF all, some
-----------------------------------------------------------------------------
LEMMA EffectPauseKeeps ==
  ASSUME LeInv, OnPause
  PROVE  LeInv'
<1>0. LeFields /\ EngineShown /\ LePhase BY DEF LeInv
<1>1. /\ leUI = <<>> /\ Doing = "rest" /\ resumed /\ resumed' = FALSE
      /\ UNCHANGED <<permission, asked, isPlaying, apiSelection, engine, live,
                     started, callback>>
  BY DEF OnPause, UIRests, Doing
<1>2. engine # None BY <1>0, <1>1, ListsBegin DEF EngineShown
<1>3. CASE isPlaying
  <2>1. leUI' = <<"stop", "closeOutput", "closeInput", "off", "stopped", "delete">>
    BY <1>1, <1>3, OffFollows, OffEnds DEF OnPause
  <2>2. /\ leUI' \in LeLeaving /\ Doing' = "stop"
    BY <2>1 DEF LeLeaving, Doing
  <2>3. LeFields' BY <1>0, <1>1, <2>2 DEF LeFields
  <2>4. EngineShown' BY <1>1, <1>2, <2>2 DEF EngineShown
  <2>5. LeRunning' BY <1>0, <1>1, <1>3 DEF LePhase, LeRunning
  <2>6. LePhase' BY <2>2, <2>5 DEF LePhase
  <2> QED BY <2>3, <2>4, <2>6 DEF LeInv
<1>4. CASE ~isPlaying
  <2>1. leUI' = <<"stopped", "delete">>
    BY <1>1, <1>4, OffFollows, OffEnds DEF OnPause
  <2>2. /\ leUI' \in LeLeaving /\ Doing' = "stopped"
    BY <2>1 DEF LeLeaving, Doing
  <2>3. LeFields' BY <1>0, <1>1, <2>2 DEF LeFields
  <2>4. EngineShown' BY <1>1, <1>2, <2>2 DEF EngineShown
  <2>5. LePhase' BY <1>0, <1>1, <1>4, <2>2 DEF LePhase, LeSilent
  <2> QED BY <2>3, <2>4, <2>5 DEF LeInv
<1> QED BY <1>3, <1>4

LEMMA SelectKeeps ==
  ASSUME LeInv, SelectApi
  PROVE  LeInv'
<1>0. LeFields /\ EngineShown /\ LePhase BY DEF LeInv
<1>1. /\ leUI = <<>> /\ leUI' = leUI /\ Doing = "rest" /\ Doing' = "rest" /\ ~isPlaying
      /\ apiSelection' \in LeApis
      /\ UNCHANGED <<resumed, permission, asked, isPlaying, engine, live,
                     started, callback>>
  BY DEF SelectApi, UIRests, Doing, LeApis
<1>2. LeFields' BY <1>0, <1>1 DEF LeFields
<1>3. EngineShown' BY <1>0, <1>1 DEF EngineShown
<1>4. LePhase' BY <1>0, <1>1 DEF LePhase, LeSilent
<1> QED BY <1>2, <1>3, <1>4 DEF LeInv

\* The button, or the answer of the user, turns the effect on or off.
LEMMA ToggleKeeps ==
  ASSUME LeInv, leUI = <<>>, ToggleEffect, permission' \in BOOLEAN, asked' \in BOOLEAN,
         UNCHANGED <<resumed, isPlaying, apiSelection, live, started, callback>>
  PROVE  LeInv'
<1>0. LeFields /\ EngineShown /\ LePhase BY DEF LeInv
<1>1. Doing = "rest" BY DEF Doing
<1>2. CASE isPlaying
  <2>1. /\ leUI' = <<"stop", "closeOutput", "closeInput", "off", "stopped">>
        /\ engine' = engine
    BY <1>2, OffFollows, OffEnds DEF ToggleEffect
  <2>2. leUI' \in LeStaying /\ leUI' \notin LeLeaving /\ Doing' = "stop"
    <3>1. leUI' \in LeStaying /\ Doing' = "stop" BY <2>1 DEF LeStaying, Doing
    <3> QED BY <3>1, ListsBegin
  <2>3. LeFields' BY <1>0, <2>1, <2>2 DEF LeFields
  <2>4. EngineShown' BY <1>0, <2>1, <2>2, ListsBegin DEF EngineShown
  <2>5. LeRunning' BY <1>0, <1>1, <1>2, <2>1 DEF LePhase, LeRunning
  <2>6. LePhase' BY <2>2, <2>5 DEF LePhase
  <2> QED BY <2>3, <2>4, <2>6 DEF LeInv
<1>3. CASE ~isPlaying
  <2>1. /\ SetAudioApi
        /\ leUI' = <<"on">> \/ leUI' = <<>>
    BY <1>3 DEF ToggleEffect
  <2>2. engine # None => ~engine.isEffectOn BY <1>0, <1>1, <1>3 DEF LePhase
  <2>3. /\ engine = None <=> engine' = None
        /\ engine' \in LeEngines \cup {None}
        /\ engine' # None => engine'.api = apiSelection /\ ~engine'.isEffectOn
    <3>1. CASE engine = None
      BY <2>1, <3>1, EngineIsThere DEF SetAudioApi
    <3>2. CASE engine # None
      <4>1. engine' = [engine EXCEPT !.api = apiSelection] /\ engine \in LeEngines
        BY <1>0, <2>1, <2>2, <3>2 DEF SetAudioApi, LeFields
      <4>2. engine' \in LeEngines /\ engine'.api = apiSelection /\ ~engine'.isEffectOn
        BY <1>0, <2>2, <3>2, <4>1 DEF LeEngines, LeFields
      <4> QED BY <3>2, <4>2, EngineIsThere
    <3> QED BY <3>1, <3>2
  <2>4. /\ leUI' \in LeStaying /\ leUI' \notin LeLeaving /\ Doing' \in {"on", "rest"}
    <3>1. leUI' \in LeStaying /\ Doing' \in {"on", "rest"}
      BY <2>1, ListsBegin DEF Doing
    <3> QED BY <3>1, ListsBegin
  <2>5. LeFields' BY <1>0, <2>3, <2>4 DEF LeFields
  <2>6. EngineShown' BY <1>0, <2>3, <2>4, ListsBegin DEF EngineShown
  <2>7. LePhase' BY <1>0, <1>1, <1>3, <2>3, <2>4 DEF LePhase, LeSilent
  <2> QED BY <2>5, <2>6, <2>7 DEF LeInv
<1> QED BY <1>2, <1>3

LEMMA PressKeeps ==
  ASSUME LeInv, PressToggle
  PROVE  LeInv'
<1>1. permission' \in BOOLEAN /\ asked' \in BOOLEAN
  BY DEF PressToggle, LeInv, LeFields
<1> QED BY <1>1, ToggleKeeps DEF PressToggle, UIRests

LEMMA AnswerKeeps ==
  ASSUME LeInv, OnRequestPermissionsResult
  PROVE  LeInv'
<1>1. CASE permission'
  <2>1. permission' \in BOOLEAN /\ asked' \in BOOLEAN
    BY DEF OnRequestPermissionsResult
  <2> QED BY <1>1, <2>1, ToggleKeeps DEF OnRequestPermissionsResult, UIRests
<1>2. CASE ~permission'
  <2>0. LeFields /\ EngineShown /\ LePhase BY DEF LeInv
  <2>1. UNCHANGED <<resumed, isPlaying, apiSelection, live, started, callback,
                    engine, leUI>>
    BY <1>2 DEF OnRequestPermissionsResult
  <2>2. LeFields' BY <2>0, <2>1 DEF OnRequestPermissionsResult, LeFields
  <2>3. EngineShown' BY <2>0, <2>1 DEF EngineShown
  <2>4. LePhase' BY <2>0, <2>1 DEF LePhase, LeRunning, LeSilent, Doing
  <2> QED BY <2>2, <2>3, <2>4 DEF LeInv
<1> QED BY <1>1, <1>2
-----------------------------------------------------------------------------
\* The next call of a list
LEMMA ListGoesOn ==
  ASSUME LeFields, leUI # <<>>, leUI' = Tail(leUI)
  PROVE  /\ leUI' \in LeStaying \cup LeLeaving
         /\ Doing = Head(leUI)
         /\ Doing \in {"on", "failed", "playing", "stop", "closeOutput", "closeInput", "off",
                       "stopped", "delete"}
         /\ Doing \in {"on", "failed", "playing", "delete"} => Doing' = "rest" /\ leUI' = <<>>
         /\ Doing \in {"on", "failed", "playing"} => leUI \notin LeLeaving
         /\ Doing = "delete" => leUI \in LeLeaving
         /\ Doing # "delete" => (leUI' \in LeLeaving <=> leUI \in LeLeaving)
         /\ Doing = "stop" => Doing' = "closeOutput"
         /\ Doing = "closeOutput" => Doing' = "closeInput"
         /\ Doing = "closeInput" => Doing' = "off"
         /\ Doing = "off" => Doing' = "stopped"
         /\ Doing = "stopped" => Doing' \in {"rest", "delete"}
<1>1. leUI \in LeStaying \cup LeLeaving BY DEF LeFields
<1> QED BY <1>1, ListsEnd DEF Doing

LEMMA ShownKeeps ==
  ASSUME LeInv, Shown
  PROVE  LeInv'
<1>0. LeFields /\ EngineShown /\ LePhase BY DEF LeInv
<1>1. /\ leUI # <<>> /\ leUI' = Tail(leUI) /\ Doing \in {"playing", "failed", "stopped"}
      /\ isPlaying' = (Doing = "playing")
      /\ UNCHANGED <<resumed, permission, asked, apiSelection, engine, live,
                     started, callback>>
  BY DEF Shown, Doing
<1>2. /\ leUI' \in LeStaying \cup LeLeaving
      /\ leUI' \in LeLeaving <=> leUI \in LeLeaving
      /\ Doing \in {"playing", "failed"} => Doing' = "rest"
      /\ Doing = "stopped" => Doing' \in {"rest", "delete"}
  BY <1>0, <1>1, ListGoesOn
<1>3. isPlaying' \in BOOLEAN BY <1>1
<1>4. LeFields' BY <1>0, <1>1, <1>2, <1>3 DEF LeFields
<1>5. EngineShown' BY <1>0, <1>1, <1>2 DEF EngineShown
<1>6. LePhase'
  <2>1. CASE Doing = "playing"
    <3>1. LeRunning' BY <1>0, <1>1, <2>1 DEF LePhase, LeRunning
    <3> QED BY <1>1, <1>2, <2>1, <3>1 DEF LePhase
  <2>2. CASE Doing # "playing"
    <3>1. ~isPlaying' /\ Doing' \in {"rest", "delete"} BY <1>1, <1>2, <2>2
    <3>2. (LeSilent /\ live = {} /\ (engine # None => ~engine.isEffectOn))'
      BY <1>0, <1>1, <2>2 DEF LePhase, LeSilent
    <3> QED BY <3>1, <3>2 DEF LePhase
  <2> QED BY <2>1, <2>2
<1> QED BY <1>4, <1>5, <1>6 DEF LeInv

LEMMA OnKeeps ==
  ASSUME LeInv, SetEffectOn
  PROVE  LeInv'
<1>0. LeFields /\ EngineShown /\ LePhase BY DEF LeInv
<1>1. /\ leUI # <<>> /\ Head(leUI) = "on" /\ Doing = "on" /\ ~isPlaying
      /\ UNCHANGED <<resumed, permission, asked, isPlaying, apiSelection, callback>>
  BY <1>0 DEF SetEffectOn, Doing, activity, LePhase
<1>2. leUI \notin LeLeaving
  BY <1>0, <1>1, ListsEnd DEF LeFields
<1>3. /\ LeSilent /\ live = {}
      /\ engine # None => (~engine.isEffectOn /\ engine.api = apiSelection)
  BY <1>0, <1>1 DEF LePhase
<1>4. CASE leUI' = <<"failed">> /\ UNCHANGED <<live, started>>
           /\ (engine' = None <=> engine = None) /\ engine' \in LeEngines \cup {None}
           /\ (engine' # None => ~engine'.isEffectOn)
  <2>1. leUI' \in LeStaying /\ leUI' \notin LeLeaving /\ Doing' = "failed"
    <3>1. leUI' \in LeStaying /\ Doing' = "failed" BY <1>4, ListsBegin DEF Doing
    <3> QED BY <3>1, ListsBegin
  <2>2. LeFields' BY <1>0, <1>1, <1>4, <2>1 DEF LeFields
  <2>3. EngineShown' BY <1>0, <1>1, <1>2, <1>4, <2>1 DEF EngineShown
  <2>4. LePhase' BY <1>1, <1>3, <1>4, <2>1 DEF LePhase, LeSilent
  <2> QED BY <2>2, <2>3, <2>4 DEF LeInv
<1>5. CASE engine = None
  <2>1. leUI' = <<"failed">> /\ UNCHANGED <<engine, live, started>>
    BY <1>5 DEF SetEffectOn, NullEngine
  <2> QED BY <1>4, <1>5, <2>1
<1>6. CASE engine # None /\ OpenFails
  <2>1. PICK rate \in LeRates \cup {0} : engine' = [engine EXCEPT !.rate = rate]
    BY <1>6 DEF OpenFails
  <2>2. engine \in LeEngines BY <1>0, <1>6 DEF LeFields
  <2>3. engine' \in LeEngines /\ ~engine'.isEffectOn
    BY <1>3, <1>6, <2>1, <2>2 DEF LeEngines
  <2> QED BY <1>4, <1>6, <2>3, EngineIsThere DEF OpenFails
<1>7. CASE engine # None /\ TurnOn
  <2> DEFINE out(rate) == [dir |-> "output", rate |-> rate, api |-> apiSelection]
             in(rate) == [dir |-> "input", rate |-> rate, api |-> apiSelection]
             e == engine'
  <2>1. PICK rate \in LeRates :
          /\ engine' = [engine EXCEPT
               !.isEffectOn = TRUE, !.rate = rate,
               !.rack = IF @ = <<>> THEN LoadRack(rate) ELSE @,
               !.play = out(rate), !.output = out(rate),
               !.recording = in(rate), !.input = in(rate)]
          /\ live' = live \cup {out(rate), in(rate)}
    <3>1. \A rate : Stream("output", rate) = out(rate) /\ Stream("input", rate) = in(rate)
      BY <1>3, <1>7 DEF Stream
    <3> HIDE DEF out, in
    <3>2. PICK rate \in LeRates :
            /\ engine' = [engine EXCEPT
                 !.isEffectOn = TRUE, !.rate = rate,
                 !.rack = IF @ = <<>> THEN LoadRack(rate) ELSE @,
                 !.play = Stream("output", rate), !.output = Stream("output", rate),
                 !.recording = Stream("input", rate), !.input = Stream("input", rate)]
            /\ live' = live \cup {Stream("output", rate), Stream("input", rate)}
      BY <1>7, Zenon DEF TurnOn
    <3>3. Stream("output", rate) = out(rate) /\ Stream("input", rate) = in(rate)
      BY <3>1
    <3>4. /\ engine' = [engine EXCEPT
               !.isEffectOn = TRUE, !.rate = rate,
               !.rack = IF @ = <<>> THEN LoadRack(rate) ELSE @,
               !.play = out(rate), !.output = out(rate),
               !.recording = in(rate), !.input = in(rate)]
          /\ live' = live \cup {out(rate), in(rate)}
      BY ONLY <3>2, <3>3, Zenon
    <3> QED BY <3>2, <3>4, Zenon
  <2>2. /\ engine \in LeEngines /\ apiSelection \in LeApis
    BY <1>0, <1>7 DEF LeFields
  <2>3. out(rate) \in LeStreams /\ in(rate) \in LeStreams
    BY <2>2 DEF LeStreams
  <2> HIDE DEF out, in
  <2>4. (IF engine.rack = <<>> THEN LoadRack(rate) ELSE engine.rack)
           \in {<<>>} \cup {LoadRack(r) : r \in LeRates}
    BY <2>1, <2>2 DEF LeEngines
  <2>5. /\ engine' \in LeEngines /\ e.isEffectOn /\ e.rate = rate
        /\ e.play = out(rate) /\ e.output = out(rate)
        /\ e.recording = in(rate) /\ e.input = in(rate)
    BY <2>1, <2>2, <2>3, <2>4 DEF LeEngines
  <2> HIDE DEF e
  <2>6. live' = {out(rate), in(rate)} BY <1>3, <2>1
  <2>7. LeRunning'
    <3>1. engine' # None BY <2>5, EngineIsThere
    <3> QED BY <1>1, <2>5, <2>6, <3>1 DEF LeRunning, out, in, e
  <2>8. leUI' \in LeStaying /\ leUI' \notin LeLeaving /\ Doing' = "playing"
    <3>1. leUI' \in LeStaying /\ Doing' = "playing" BY <1>7, ListsBegin DEF Doing, TurnOn
    <3> QED BY <3>1, ListsBegin
  <2>9. started' \subseteq {"input", "output"} BY <1>7 DEF TurnOn
  <2>10. LeFields' BY <1>0, <1>1, <2>3, <2>5, <2>6, <2>8, <2>9 DEF LeFields
  <2>11. EngineShown' BY <1>0, <1>1, <1>2, <1>7, <2>5, <2>8, EngineIsThere DEF EngineShown
  <2>12. LePhase' BY <1>1, <2>7, <2>8 DEF LePhase
  <2> QED BY <2>10, <2>11, <2>12 DEF LeInv
<1> QED BY <1>3, <1>5, <1>6, <1>7 DEF SetEffectOn, NullEngine
-----------------------------------------------------------------------------
LEMMA StopKeeps ==
  ASSUME LeInv, StopDuplex
  PROVE  LeInv'
<1>0. LeFields /\ EngineShown /\ LePhase BY DEF LeInv
<1>1. /\ leUI # <<>> /\ leUI' = Tail(leUI) /\ Doing = "stop"
      /\ started' \subseteq {"input", "output"}
      /\ UNCHANGED <<resumed, permission, asked, isPlaying, apiSelection, engine,
                     live, callback>>
  BY <1>0 DEF StopDuplex, OffStep, activity, Doing, LeFields
<1>2. /\ leUI' \in LeStaying \cup LeLeaving /\ Doing' = "closeOutput"
      /\ leUI' \in LeLeaving <=> leUI \in LeLeaving
  BY <1>0, <1>1, ListGoesOn
<1>3. LeFields' BY <1>0, <1>1, <1>2 DEF LeFields
<1>4. EngineShown' BY <1>0, <1>1, <1>2 DEF EngineShown
<1>5. LeRunning' BY <1>0, <1>1 DEF LePhase, LeRunning
<1>6. LePhase' BY <1>2, <1>5 DEF LePhase
<1> QED BY <1>3, <1>4, <1>6 DEF LeInv

LEMMA CloseOutputKeeps ==
  ASSUME LeInv, CloseOutput
  PROVE  LeInv'
<1>0. LeFields /\ EngineShown /\ LePhase BY DEF LeInv
<1>1. /\ leUI # <<>> /\ leUI' = Tail(leUI) /\ Doing = "closeOutput"
      /\ live' = live \ {engine.play} /\ started' = started \ {"output"}
      /\ engine' = [engine EXCEPT !.play = None, !.output = None]
      /\ callback = "none"
      /\ UNCHANGED <<resumed, permission, asked, isPlaying, apiSelection, callback>>
  BY <1>0 DEF CloseOutput, OffStep, activity, Doing
<1>2. /\ leUI' \in LeStaying \cup LeLeaving /\ Doing' = "closeInput"
      /\ leUI' \in LeLeaving <=> leUI \in LeLeaving
  BY <1>0, <1>1, ListGoesOn
<1>3. LeRunning BY <1>0, <1>1 DEF LePhase
<1>4. engine \in LeEngines BY <1>0, <1>3 DEF LeFields, LeRunning
<1>5. engine' \in LeEngines /\ engine'.recording = engine.recording
  BY <1>1, <1>4 DEF LeEngines
<1>6. engine # None /\ engine' # None BY <1>3, <1>5, EngineIsThere DEF LeRunning
<1>7. LeFields' BY <1>0, <1>1, <1>2, <1>5 DEF LeFields
<1>8. EngineShown' BY <1>0, <1>1, <1>2, <1>6 DEF EngineShown
<1>9. live' \subseteq {engine'.recording} BY <1>1, <1>3, <1>5 DEF LeRunning
<1>10. LePhase' BY <1>1, <1>2, <1>6, <1>9 DEF LePhase, LeSilent
<1> QED BY <1>7, <1>8, <1>10 DEF LeInv

LEMMA CloseInputKeeps ==
  ASSUME LeInv, CloseInput
  PROVE  LeInv'
<1>0. LeFields /\ EngineShown /\ LePhase BY DEF LeInv
<1>1. /\ leUI # <<>> /\ leUI' = Tail(leUI) /\ Doing = "closeInput"
      /\ live' = live \ {engine.recording} /\ started' = started \ {"input"}
      /\ engine' = [engine EXCEPT !.recording = None, !.input = None]
      /\ UNCHANGED <<resumed, permission, asked, isPlaying, apiSelection, callback>>
  BY <1>0 DEF CloseInput, OffStep, activity, Doing
<1>2. /\ leUI' \in LeStaying \cup LeLeaving /\ Doing' = "off"
      /\ leUI' \in LeLeaving <=> leUI \in LeLeaving
  BY <1>0, <1>1, ListGoesOn
<1>3. LeSilent /\ engine # None /\ live \subseteq {engine.recording}
  BY <1>0, <1>1 DEF LePhase
<1>4. engine \in LeEngines BY <1>0, <1>3 DEF LeFields
<1>5. engine' \in LeEngines BY <1>1, <1>4 DEF LeEngines
<1>6. engine' # None BY <1>5, EngineIsThere
<1>7. LeFields' BY <1>0, <1>1, <1>2, <1>5 DEF LeFields
<1>8. EngineShown' BY <1>0, <1>1, <1>2, <1>3, <1>6 DEF EngineShown
<1>9. live' = {} BY <1>1, <1>3
<1>10. LePhase' BY <1>1, <1>2, <1>3, <1>6, <1>9 DEF LePhase, LeSilent
<1> QED BY <1>7, <1>8, <1>10 DEF LeInv

LEMMA EffectOffKeeps ==
  ASSUME LeInv, EffectOff
  PROVE  LeInv'
<1>0. LeFields /\ EngineShown /\ LePhase BY DEF LeInv
<1>1. /\ leUI # <<>> /\ leUI' = Tail(leUI) /\ Doing = "off"
      /\ engine' = [engine EXCEPT !.isEffectOn = FALSE]
      /\ UNCHANGED <<resumed, permission, asked, isPlaying, apiSelection, live,
                     started, callback>>
  BY <1>0 DEF EffectOff, OffStep, activity, Doing
<1>2. /\ leUI' \in LeStaying \cup LeLeaving /\ Doing' = "stopped"
      /\ leUI' \in LeLeaving <=> leUI \in LeLeaving
  BY <1>0, <1>1, ListGoesOn
<1>3. LeSilent /\ engine # None /\ live = {}
  BY <1>0, <1>1 DEF LePhase
<1>4. engine \in LeEngines BY <1>0, <1>3 DEF LeFields
<1>5. engine' \in LeEngines /\ ~engine'.isEffectOn BY <1>1, <1>4 DEF LeEngines
<1>6. engine' # None BY <1>5, EngineIsThere
<1>7. LeFields' BY <1>0, <1>1, <1>2, <1>5 DEF LeFields
<1>8. EngineShown' BY <1>0, <1>1, <1>2, <1>3, <1>6 DEF EngineShown
<1>9. LePhase' BY <1>1, <1>2, <1>3, <1>5 DEF LePhase, LeSilent
<1> QED BY <1>7, <1>8, <1>9 DEF LeInv

LEMMA DeleteKeeps ==
  ASSUME LeInv, Delete
  PROVE  LeInv'
<1>0. LeFields /\ EngineShown /\ LePhase BY DEF LeInv
<1>1. /\ leUI # <<>> /\ leUI' = Tail(leUI) /\ Doing = "delete" /\ engine' = None
      /\ UNCHANGED <<resumed, permission, asked, isPlaying, apiSelection, live,
                     started, callback>>
  BY <1>0 DEF Delete, OffStep, activity, Doing
<1>2. leUI' = <<>> /\ Doing' = "rest" /\ leUI \in LeLeaving
  BY <1>0, <1>1, ListGoesOn
<1>3. LeSilent /\ live = {} /\ ~isPlaying BY <1>0, <1>1 DEF LePhase
<1>4. ~resumed BY <1>0, <1>2 DEF EngineShown
<1>5. leUI' \in LeStaying /\ leUI' \notin LeLeaving BY <1>2, ListsBegin
<1>6. LeFields' BY <1>0, <1>1, <1>5 DEF LeFields
<1>7. EngineShown' BY <1>1, <1>4, <1>5 DEF EngineShown
<1>8. LePhase' BY <1>1, <1>2, <1>3 DEF LePhase, LeSilent
<1> QED BY <1>6, <1>7, <1>8 DEF LeInv

LEMMA CallbackKeeps ==
  ASSUME LeInv, AudioReady \/ Read \/ Process
  PROVE  LeInv'
<1>0. LeFields /\ EngineShown /\ LePhase BY DEF LeInv
<1>1. /\ callback # "none" \/ "output" \in started
      /\ callback' \in {"none", "begun", "run"} /\ started' \subseteq started
      /\ UNCHANGED <<resumed, permission, asked, isPlaying, apiSelection, engine,
                     live, leUI>>
  BY DEF AudioReady, Read, Process, activity
<1>2. Doing' = Doing BY <1>1 DEF Doing
<1>3. (Doing = "rest" /\ isPlaying) \/ Doing \in {"playing", "stop", "closeOutput"}
  <2>1. ~LeSilent BY <1>1 DEF LeSilent
  <2>2. Doing = "rest" \/ Doing \in {"on", "failed", "playing", "stop", "closeOutput",
                                     "closeInput", "off", "stopped", "delete"}
    BY <1>0, ListsEnd DEF Doing, LeFields
  <2> QED BY <1>0, <2>1, <2>2 DEF LePhase
<1>4. LeRunning' BY <1>0, <1>1, <1>3 DEF LePhase, LeRunning
<1>5. LeFields' BY <1>0, <1>1 DEF LeFields
<1>6. EngineShown' BY <1>0, <1>1 DEF EngineShown
<1>7. ~isPlaying' \/ Doing' = "rest" \/ Doing' \in {"stop", "closeOutput"}
  BY <1>0, <1>1, <1>2, <1>3 DEF LePhase
<1>8. LePhase' BY <1>1, <1>2, <1>3, <1>4, <1>7 DEF LePhase
<1> QED BY <1>5, <1>6, <1>8 DEF LeInv

LEMMA DisconnectKeeps ==
  ASSUME LeInv, Disconnect
  PROVE  LeInv'
<1>0. LeFields /\ EngineShown /\ LePhase BY DEF LeInv
<1>1. /\ "output" \in started
      /\ live' = live \ {engine.play} /\ started' = started \ {"output"}
      /\ UNCHANGED <<resumed, permission, asked, isPlaying, apiSelection, engine,
                     callback, leUI>>
  BY DEF Disconnect, activity
<1>2. Doing' = Doing BY <1>1 DEF Doing
<1>3. (Doing = "rest" /\ isPlaying) \/ Doing \in {"playing", "stop", "closeOutput"}
  <2>1. ~LeSilent BY <1>1 DEF LeSilent
  <2>2. Doing = "rest" \/ Doing \in {"on", "failed", "playing", "stop", "closeOutput",
                                     "closeInput", "off", "stopped", "delete"}
    BY <1>0, ListsEnd DEF Doing, LeFields
  <2> QED BY <1>0, <2>1, <2>2 DEF LePhase
<1>4. LeRunning BY <1>0, <1>3 DEF LePhase
<1>5. LeRunning'
  <2>1. engine.play # engine.recording BY <1>4 DEF LeRunning
  <2> QED BY <1>1, <1>4, <2>1 DEF LeRunning
<1>6. LeFields' BY <1>0, <1>1 DEF LeFields
<1>7. EngineShown' BY <1>0, <1>1 DEF EngineShown
<1>8. Doing = "playing" => ~isPlaying BY <1>0 DEF LePhase
<1>9. LePhase' BY <1>1, <1>2, <1>3, <1>5, <1>8 DEF LePhase
<1> QED BY <1>6, <1>7, <1>9 DEF LeInv

LEMMA EffectStutters ==
  ASSUME LeInv, UNCHANGED leVars
  PROVE  LeInv'
<1>1. LeFields' BY DEF LeInv, LeFields, leVars
<1>2. EngineShown' BY DEF LeInv, EngineShown, leVars
<1>3. LePhase' BY DEF LeInv, LePhase, LeRunning, LeSilent, Doing, leVars
<1> QED BY <1>1, <1>2, <1>3 DEF LeInv

LEMMA EffectStep ==
  ASSUME LeInv, LeNext
  PROVE  LeInv'
BY EffectResumeKeeps, EffectPauseKeeps, SelectKeeps, PressKeeps, AnswerKeeps, ShownKeeps, OnKeeps,
   StopKeeps,
   CloseOutputKeeps, CloseInputKeeps, EffectOffKeeps, DeleteKeeps, CallbackKeeps, DisconnectKeeps
   DEF LeNext

LEMMA EffectIsInStep ==
  ASSUME LeInv, LeLibrary \notin {"delay", "sine"}
  PROVE  EffectInStep /\ CallbackLegal
<1>0. LeFields /\ EngineShown /\ LePhase BY DEF LeInv
<1>1. EffectInStep
  <2> SUFFICES ASSUME leUI = <<>> PROVE
        /\ isPlaying = (~NullEngine /\ engine.isEffectOn)
        /\ ~isPlaying => live = {}
        /\ isPlaying => /\ engine.play = [dir |-> "output", rate |-> engine.rate,
                                          api |-> apiSelection]
                        /\ engine.recording = [engine.play EXCEPT !.dir = "input"]
                        /\ live \subseteq {engine.play, engine.recording}
    BY DEF EffectInStep
  <2>1. Doing = "rest" BY DEF Doing
  <2>2. CASE isPlaying
    <3>1. LeRunning BY <1>0, <2>1, <2>2 DEF LePhase
    <3>2. engine.recording = [engine.play EXCEPT !.dir = "input"] BY <3>1 DEF LeRunning
    <3>3. isPlaying = TRUE BY <1>0, <2>2 DEF LeFields
    <3>4. engine.isEffectOn = TRUE BY <1>0, <3>1 DEF LeRunning, LeFields, LeEngines
    <3> QED BY <2>2, <3>1, <3>2, <3>3, <3>4 DEF LeRunning, NullEngine
  <2>3. CASE ~isPlaying
    <3>1. live = {} /\ (engine # None => ~engine.isEffectOn) BY <1>0, <2>1, <2>3 DEF LePhase
    <3>2. isPlaying = FALSE BY <1>0, <2>3 DEF LeFields
    <3> QED BY <2>3, <3>1, <3>2 DEF NullEngine
  <2> QED BY <2>2, <2>3
<1>2. ASSUME callback # "none" PROVE LeRunning
  <2>1. ~LeSilent BY <1>2 DEF LeSilent
  <2>2. Doing = "rest" \/ Doing \in {"on", "failed", "playing", "stop", "closeOutput",
                                     "closeInput", "off", "stopped", "delete"}
    BY <1>0, ListsEnd DEF Doing, LeFields
  <2> QED BY <1>0, <2>1, <2>2 DEF LePhase
<1>3. ASSUME callback # "none"
      PROVE  ~NullEngine /\ engine.output # None /\ engine.input \in live
  <2>1. LeRunning BY <1>2, <1>3
  <2>2. engine.output = [dir |-> "output", rate |-> engine.rate, api |-> apiSelection]
    BY <2>1 DEF LeRunning
  <2>3. engine.output # None
    <3>1. DOMAIN engine.output = {"dir", "rate", "api"} BY <2>2
    <3>2. DOMAIN None = {"none"} BY DEF None
    <3> QED BY <3>1, <3>2
  <2> QED BY <2>1, <2>3 DEF LeRunning, NullEngine
<1>4. ASSUME callback = "run", NEW k \in DOMAIN engine.rack
      PROVE  Connected(engine.rack[k]) =
               [i \in DOMAIN engine.rack[k].ports |-> Fitting(engine.rack[k].ports[i])]
  <2>1. engine # None BY <1>2, <1>4 DEF LeRunning
  <2>2. engine.rack \in {<<>>} \cup {LoadRack(rate) : rate \in LeRates}
    BY <1>0, <2>1 DEF LeFields, LeEngines
  <2>3. PICK rate \in LeRates : engine.rack = LoadRack(rate) BY <1>4, <2>2
  <2>4. k \in DOMAIN LoadRack(rate) BY <1>4, <2>3
  <2> QED BY <2>3, <2>4, PortsConnected
<1> QED BY <1>1, <1>3, <1>4 DEF CallbackLegal
-----------------------------------------------------------------------------
(* The plugins of LiveEffect *)

\* A sample has its place in the buffer of the delay line, which keeps the last
\* ones, but for those from before the last activation.
EpPlace(f) == (f - 1) % BufferSize
Kept(f) == IF f > since THEN f ELSE 0
LineHolds ==
  /\ effect = [kind |-> "delay", buffer |-> effect.buffer, write |-> effect.write]
  /\ DOMAIN effect.buffer = 0..(BufferSize - 1)
  /\ effect.write = given % BufferSize
  /\ \A f \in (given - BufferSize + 1)..given : effect.buffer[EpPlace(f)] = Kept(f)
  /\ DelayIsExact

\* What an instance has cached is for the frequency that its port had last.
SineCached ==
  /\ effect = [kind |-> "sine", cached |-> port, step |-> effect.step, phase |-> effect.phase]
  /\ StepIsCurrent
LowPassCached == effect = [kind |-> "lpf", cached |-> port, regime |-> Regime(port)]

EpInv == /\ given \in Nat /\ since \in Nat /\ since <= given /\ port \in Int
         /\ \/ effect.kind = "delay" /\ LineHolds
            \/ effect.kind = "sine" /\ SineCached
            \/ effect.kind = "lpf" /\ LowPassCached
            \/ effect.kind = "control" /\ effect.of \in HintedPorts
-----------------------------------------------------------------------------
\* Two numbers less than d apart with the same remainder are the same.
LEMMA SameRemainder ==
  ASSUME NEW a \in Int, NEW b \in Int, NEW d \in Nat \ {0},
         a % d = b % d, -d < a - b, a - b < d
  PROVE  a = b
<1> DEFINE p == a \div d
           q == b \div d
           r == a % d
           k == p - q
<1>1. p \in Int /\ r \in Int /\ a = d * p + r BY Division
<1>2. q \in Int /\ b = d * q + r BY Division
<1> HIDE DEF p, q, r
<1>3. k \in Int /\ d * p \in Int /\ d * q \in Int /\ d * k \in Int BY <1>1, <1>2
<1>4. d * k = d * p - d * q BY <1>1, <1>2
<1>5. d * k = a - b BY <1>1, <1>2, <1>3, <1>4
<1> HIDE DEF k
<1>6. d * k = 0 BY <1>3, <1>5, NoMultipleWithin
<1> QED BY <1>5, <1>6
-----------------------------------------------------------------------------
\* A whole number of turns does not move a place.
LEMMA RemainderTurns ==
  ASSUME NEW a \in Int, NEW d \in Nat \ {0}, NEW k \in Int
  PROVE  (a + d * k) % d = a % d
<1> DEFINE p == a \div d
           r == a % d
           q == p + k
           x == a + d * k
<1>1. p \in Int /\ r \in Int /\ a = d * p + r /\ 0 <= r /\ r < d BY Division
<1> HIDE DEF p, r
<1>2. q \in Int /\ x \in Int /\ d * p \in Int /\ d * k \in Int BY <1>1
<1>3. d * q = d * p + d * k BY <1>1
<1>4. x = d * q + r BY <1>1, <1>2, <1>3
<1> HIDE DEF q, x
<1>5. x % d = r BY <1>1, <1>2, <1>4, RemainderIs
<1> QED BY <1>5 DEF x, r

LEMMA RemainderAdds ==
  ASSUME NEW a \in Int, NEW b \in Int, NEW d \in Nat \ {0}
  PROVE  ((a % d) + b) % d = (a + b) % d
<1> DEFINE p == a \div d
           r == a % d
           y == r + b
           k == p
<1>1. p \in Int /\ r \in Int /\ a = d * p + r BY Division
<1> HIDE DEF p, r
<1>2. y \in Int /\ d * p \in Int /\ a + b = y + d * p BY <1>1
<1> HIDE DEF y
<1>3. (y + d * p) % d = y % d BY <1>1, <1>2, RemainderTurns
<1>4. (a + b) % d = y % d BY <1>2, <1>3
<1> QED BY <1>4 DEF y, r

\* The buffer holds the longest delay.
LEMMA BufferHolds ==
  /\ BufferSize \in Nat \ {0}
  /\ EpRate * MaxDelay <= BufferSize
  /\ EpRate \in Nat \ {0}
<1> DEFINE S == {size \in PowersOfTwo : size >= EpRate * MaxDelay}
           r == EpRate * MaxDelay
<1>1. EpRate \in Nat \ {0} /\ EpRate * 5 <= 1048576 BY EpAssumption DEF MaxDelay
<1>2. r \in Nat /\ r <= 1048576 BY <1>1 DEF MaxDelay
<1> HIDE DEF r
<1>3. PICK m \in PowersOfTwo : m >= r /\ \A n \in PowersOfTwo : n >= r => m <= n
  BY <1>2, SMTT(60) DEF PowersOfTwo
<1>4. m \in S /\ \A n \in S : m <= n BY <1>3 DEF r
<1>5. \E x \in S : \A y \in S : x <= y BY <1>4
<1>6. Min(S) \in S BY <1>5 DEF Min
<1>7. BufferSize \in PowersOfTwo /\ BufferSize >= EpRate * MaxDelay BY <1>6 DEF BufferSize
<1>8. \A size \in PowersOfTwo : size \in Nat \ {0} BY DEF PowersOfTwo
<1> QED BY <1>1, <1>7, <1>8

LEMMA DelayWithin ==
  ASSUME NEW v \in Int
  PROVE  Delay(v) \in 0..BufferSize
<1>1. CASE v < 0 BY <1>1, BufferHolds DEF Delay, MaxDelay
<1>2. CASE v > MaxDelay BY <1>2, BufferHolds DEF Delay, MaxDelay
<1>3. CASE v \in 0..MaxDelay
  <2>1. v \in {0, 1, 2, 3, 4, 5} BY <1>3 DEF MaxDelay
  <2> QED BY <2>1, BufferHolds DEF Delay, MaxDelay
<1> QED BY <1>1, <1>2, <1>3 DEF MaxDelay

LEMMA PluginsBegin ==
  ASSUME EpInit
  PROVE  EpInv
<1>1. given \in Nat /\ given = 0 /\ since = 0 /\ port = 0 /\ heard = <<>> BY DEF EpInit
<1>2. CASE effect = Instance.delay
  <2>1. /\ effect.kind = "delay" /\ effect.write = 0
        /\ effect.buffer = [i \in 0..(BufferSize - 1) |-> 0]
        /\ effect = [kind |-> "delay", buffer |-> effect.buffer, write |-> effect.write]
    BY <1>2 DEF Instance
  <2>2. 0 % BufferSize = 0
    BY BufferHolds, RemainderIs
  <2>3. ASSUME NEW f \in (given - BufferSize + 1)..given
        PROVE  effect.buffer[EpPlace(f)] = Kept(f)
    <3>1. f \in Int /\ f <= 0 BY <1>1, <2>3, BufferHolds
    <3>2. EpPlace(f) \in 0..(BufferSize - 1) BY <3>1, BufferHolds, Division DEF EpPlace
    <3> QED BY <1>1, <2>1, <3>1, <3>2 DEF Kept
  <2>4. DelayIsExact BY <1>1 DEF DelayIsExact
  <2>5. LineHolds BY <1>1, <2>1, <2>2, <2>3, <2>4 DEF LineHolds
  <2> QED BY <1>1, <2>1, <2>5 DEF EpInv
<1>3. CASE effect = Instance.sine
  <2>1. SineCached /\ effect.kind = "sine"
    BY <1>1, <1>3, BufferHolds DEF Instance, SineCached, StepIsCurrent
  <2> QED BY <1>1, <2>1 DEF EpInv
<1>4. CASE effect = Instance.lpf
  <2>0. Regime(0) = "reject" BY BufferHolds DEF Regime
  <2>1. LowPassCached /\ effect.kind = "lpf"
    BY <1>1, <1>4, <2>0 DEF Instance, LowPassCached
  <2> QED BY <1>1, <2>1 DEF EpInv
<1>5. CASE \E hinted \in HintedPorts : effect = [kind |-> "control", of |-> hinted]
  BY <1>1, <1>5 DEF EpInv
<1>6. \A kind \in DOMAIN Instance : kind \in {"delay", "sine", "lpf"} BY DEF Instance
<1> QED BY <1>2, <1>3, <1>4, <1>5, <1>6 DEF EpInit
-----------------------------------------------------------------------------
LEMMA ActivateKeeps ==
  ASSUME EpInv, effect.kind # "control", Activate
  PROVE  EpInv'
<1>1. /\ given \in Nat /\ since' = given /\ given' = given /\ port' = port /\ port \in Int
      /\ heard' = <<>>
  BY DEF EpInv, Activate
<1>2. CASE effect.kind = "delay" /\ LineHolds
  <2>1. effect' = [effect EXCEPT !.buffer = [i \in 0..(BufferSize - 1) |-> 0]]
    BY <1>2 DEF Activate, Instance
  <2>2. /\ effect'.kind = "delay" /\ effect'.write = effect.write
        /\ effect'.buffer = [i \in 0..(BufferSize - 1) |-> 0]
        /\ effect' = [kind |-> "delay", buffer |-> effect'.buffer, write |-> effect'.write]
    BY <1>2, <2>1 DEF LineHolds
  <2>3. ASSUME NEW f \in (given - BufferSize + 1)..given
        PROVE  effect'.buffer[EpPlace(f)] = 0
    <3>1. f \in Int BY <1>1, <2>3, BufferHolds
    <3>2. EpPlace(f) \in 0..(BufferSize - 1) BY <3>1, BufferHolds, Division DEF EpPlace
    <3> QED BY <2>2, <3>2
  <2>4. DelayIsExact' BY <1>1 DEF DelayIsExact
  <2>5. ASSUME NEW f \in (given - BufferSize + 1)..given
        PROVE  effect'.buffer[EpPlace(f)] = Kept(f)'
    BY <1>1, <2>3, <2>5, BufferHolds DEF Kept
  <2>6. LineHolds'
    <3>1. DOMAIN effect'.buffer = 0..(BufferSize - 1) BY <2>2
    <3>2. effect'.write = given' % BufferSize BY <1>1, <1>2, <2>2 DEF LineHolds
    <3>3. EpPlace(0)' = EpPlace(0) BY DEF EpPlace, BufferSize
    <3> QED BY <1>1, <2>2, <2>4, <2>5, <3>1, <3>2 DEF LineHolds, EpPlace
  <2> QED BY <1>1, <2>2, <2>6 DEF EpInv
<1>3. CASE effect.kind = "sine" /\ SineCached
  <2>1. effect' = [effect EXCEPT !.phase = 0] BY <1>3 DEF Activate
  <2>2. /\ effect'.kind = "sine" /\ effect'.step = effect.step
        /\ effect' = [kind |-> "sine", cached |-> port, step |-> effect'.step,
                      phase |-> effect'.phase]
    BY <1>3, <2>1 DEF SineCached
  <2>3. SineCached' BY <1>1, <1>3, <2>2 DEF SineCached, StepIsCurrent
  <2> QED BY <1>1, <2>2, <2>3 DEF EpInv
<1>4. CASE effect.kind = "lpf" /\ LowPassCached
  <2>1. effect' = effect BY <1>4 DEF Activate
  <2>2. LowPassCached' BY <1>1, <1>4, <2>1 DEF LowPassCached, Regime
  <2> QED BY <1>1, <1>4, <2>1, <2>2 DEF EpInv
<1> QED BY <1>2, <1>3, <1>4 DEF EpInv

LEMMA SineKeeps ==
  ASSUME EpInv, NEW n \in Nat, NEW value \in Int, RunSine(n, value),
         given' = given + n, port' = value, since' = since
  PROVE  EpInv'
<1>1. /\ given' \in Nat /\ since' \in Nat /\ since' <= given' /\ port' \in Int
      /\ effect.kind = "sine" /\ SineCached
  BY DEF EpInv, RunSine
<1> DEFINE sine == SetPhaseStep(effect, value)
           wanted == IF 0 <= value /\ 2 * value < EpRate THEN value ELSE 0
<1>2. effect' = [sine EXCEPT !.phase = (@ + n * sine.step) % EpRate] BY DEF RunSine
<1>3. /\ sine = [kind |-> "sine", cached |-> value, step |-> sine.step, phase |-> sine.phase]
      /\ sine.step = wanted
  <2>1. CASE value = port
    BY <1>1, <2>1, BufferHolds DEF SineCached, SetPhaseStep, StepIsCurrent
  <2>2. CASE value # port
    <3>1. effect.cached = port BY <1>1 DEF SineCached
    <3>2. sine = [effect EXCEPT !.step = wanted, !.cached = value]
      BY <2>2, <3>1, BufferHolds DEF SetPhaseStep
    <3> HIDE DEF wanted
    <3> QED BY <1>1, <3>2 DEF SineCached
  <2> QED BY <2>1, <2>2
<1> HIDE DEF sine, wanted
<1>4. /\ effect' = [kind |-> "sine", cached |-> value, step |-> effect'.step,
                    phase |-> effect'.phase]
      /\ effect'.step = wanted /\ effect'.kind = "sine"
  BY <1>2, <1>3
<1>5. SineCached' BY <1>4 DEF SineCached, StepIsCurrent, wanted
<1> QED BY <1>1, <1>4, <1>5 DEF EpInv

LEMMA LowPassKeeps ==
  ASSUME EpInv, NEW n \in Nat, NEW value \in Int, RunLowPass(n, value),
         given' = given + n, port' = value, since' = since
  PROVE  EpInv'
<1>1. /\ given' \in Nat /\ since' \in Nat /\ since' <= given' /\ port' \in Int
      /\ effect.kind = "lpf" /\ LowPassCached
  BY DEF EpInv, RunLowPass
<1>2. effect' = [kind |-> "lpf", cached |-> value, regime |-> Regime(value)]
  <2>1. CASE value = port BY <1>1, <2>1 DEF RunLowPass, LowPassCached
  <2>2. CASE value # port
    <3>1. effect' = [effect EXCEPT !.cached = value, !.regime = Regime(value)]
      BY <1>1, <2>2 DEF RunLowPass, LowPassCached
    <3> QED BY <1>1, <3>1 DEF LowPassCached
  <2> QED BY <2>1, <2>2
<1>3. LowPassCached' /\ effect'.kind = "lpf" BY <1>2 DEF LowPassCached, Regime
<1> QED BY <1>1, <1>3 DEF EpInv
-----------------------------------------------------------------------------
\* Of the n samples after the g first ones, those that have the place of sample f:
\* the latest is f itself, where f is not older than the buffer is long.
Ages(g, n, f) == {j \in 1..n : EpPlace(g + j) = EpPlace(f)}

LEMMA LatestAt ==
  ASSUME NEW g \in Nat, NEW n \in Nat, NEW f \in Int, g + n - BufferSize < f, f <= g + n
  PROVE  /\ f > g => Ages(g, n, f) # {} /\ Max(Ages(g, n, f)) = f - g
         /\ f <= g => Ages(g, n, f) = {}
<1> DEFINE B == BufferSize
           S == Ages(g, n, f)
<1>0. B \in Nat \ {0} BY BufferHolds
<1>1. ASSUME NEW j \in S PROVE j \in 1..n /\ g + j <= f
  <2>1. j \in 1..n /\ (g + j - 1) % B = (f - 1) % B BY DEF Ages, EpPlace
  <2> HIDE DEF B
  <2>2. ASSUME g + j > f PROVE FALSE
    <3>1. g + j - 1 \in Int /\ f - 1 \in Int BY <2>1
    <3>2. -B < (g + j - 1) - (f - 1) /\ (g + j - 1) - (f - 1) < B
      BY <1>0, <2>1, <2>2 DEF B
    <3>3. g + j - 1 = f - 1 BY <1>0, <2>1, <3>1, <3>2, SameRemainder
    <3> QED BY <2>1, <2>2, <3>3
  <2> QED BY <2>1, <2>2
<1>2. CASE f > g
  <2> DEFINE m == f - g
  <2>1. m \in 1..n /\ g + m = f BY <1>2
  <2>2. m \in S BY <2>1 DEF Ages
  <2>3. \A j \in S : j \in 1..n /\ m >= j
    <3> TAKE j \in S
    <3>1. j \in 1..n /\ g + j <= f BY <1>1
    <3> QED BY <3>1
  <2> HIDE DEF S, m
  <2>4. Max(S) = m
    <3>1. Max(S) \in S /\ \A j \in S : Max(S) >= j BY <2>2, <2>3 DEF Max
    <3>2. Max(S) >= m /\ m >= Max(S) /\ Max(S) \in 1..n BY <2>2, <2>3, <3>1
    <3> QED BY <2>1, <3>2
  <2>5. S # {} BY <2>2
  <2> QED BY <1>2, <2>4, <2>5 DEF S, m
<1>3. CASE f <= g
  <2>1. S = {}
    <3> SUFFICES ASSUME NEW j \in S PROVE FALSE OBVIOUS
    <3>1. j \in 1..n /\ g + j <= f BY <1>1
    <3> QED BY <1>3, <3>1
  <2> QED BY <1>3, <2>1
<1> QED BY <1>2, <1>3

\* The places that a run of the delay line writes and reads
LEMMA PlaceWritten ==
  ASSUME NEW g \in Nat, NEW j \in Int
  PROVE  ((g % BufferSize) + j - 1) % BufferSize = EpPlace(g + j)
<1> DEFINE B == BufferSize
           r == g % B
           b == j - 1
<1>0. B \in Nat \ {0} BY BufferHolds
<1> HIDE DEF B
<1>1. g \in Int /\ b \in Int /\ r \in Int BY <1>0, Division
<1>2. ((g % B) + b) % B = (g + b) % B BY <1>0, <1>1, RemainderAdds, Zenon
<1>3. (r + b) % B = (g + b) % B BY <1>2
<1> HIDE DEF r
<1>4. r + b = r + j - 1 /\ g + b = g + j - 1 BY <1>1
<1> HIDE DEF b
<1>5. (r + j - 1) % B = (g + j - 1) % B BY <1>3, <1>4
<1> QED BY <1>5 DEF B, r, EpPlace

LEMMA PlaceRead ==
  ASSUME NEW g \in Nat, NEW j \in Int, NEW d \in Int
  PROVE  ((g % BufferSize) + BufferSize - d + j - 1) % BufferSize = EpPlace(g + j - d)
<1> DEFINE B == BufferSize
           r == g % B
           b == B - d + j - 1
           a == g + j - d - 1
<1>0. B \in Nat \ {0} BY BufferHolds
<1> HIDE DEF B
<1>1. g \in Int /\ b \in Int /\ a \in Int /\ r \in Int /\ 1 \in Int BY <1>0, Division
<1>2. ((g % B) + b) % B = (g + b) % B BY <1>0, <1>1, RemainderAdds, Zenon
<1>3. (r + b) % B = (g + b) % B BY <1>2
<1>4. (a + B * 1) % B = a % B
  <2> HIDE DEF a
  <2> QED BY <1>0, <1>1, RemainderTurns, Zenon
<1> HIDE DEF r
<1>5. r + b = r + B - d + j - 1 /\ g + b = a + B * 1 BY <1>0, <1>1
<1> HIDE DEF a, b
<1>6. (r + B - d + j - 1) % B = a % B BY <1>3, <1>4, <1>5
<1> QED BY <1>6 DEF B, r, a, EpPlace

LEMMA DelayKeeps ==
  ASSUME EpInv, NEW n \in Nat, NEW value \in Int, RunDelay(n, value),
         given' = given + n, port' = value, since' = since
  PROVE  EpInv'
<1> DEFINE D == Delay(value)
           B == BufferSize
           line == effect.buffer
           placed(i) == {j \in 1..n : (effect.write + j - 1) % B = i}
           read(k) == {j \in 1..(k - 1) : (effect.write + j - 1) % B
                                            = (effect.write + B - D + k - 1) % B}
<1>0. B \in Nat \ {0} /\ D \in 0..B BY BufferHolds, DelayWithin
<1>1. /\ given \in Nat /\ given' \in Nat /\ since \in Nat /\ since <= given /\ since' <= given'
      /\ effect.kind = "delay" /\ LineHolds /\ effect.write = given % B
      /\ DOMAIN line = 0..(B - 1)
  BY DEF EpInv, RunDelay, LineHolds
<1>2. /\ heard' = [k \in 1..n |-> IF read(k) # {} THEN given + Max(read(k))
                                  ELSE line[(effect.write + B - D + k - 1) % B]]
      /\ effect' = [effect EXCEPT
           !.buffer = [i \in DOMAIN @ |-> IF placed(i) = {} THEN @[i]
                                          ELSE given + Max(placed(i))],
           !.write = (@ + n) % B]
  BY DEF RunDelay
<1>3. /\ effect'.buffer = [i \in 0..(B - 1) |-> IF placed(i) = {} THEN line[i]
                                                ELSE given + Max(placed(i))]
      /\ effect'.write = (effect.write + n) % B
      /\ effect' = [kind |-> "delay", buffer |-> effect'.buffer, write |-> effect'.write]
  <2> HIDE DEF placed
  <2>1. effect = [kind |-> "delay", buffer |-> line, write |-> effect.write]
    BY <1>1 DEF LineHolds
  <2> QED BY <1>1, <1>2, <2>1
<1>4. \A f \in (given - B + 1)..given : line[EpPlace(f)] = Kept(f)
  BY <1>1 DEF LineHolds
<1>5. ASSUME NEW f \in Int PROVE EpPlace(f) \in 0..(B - 1)
  BY <1>0, <1>5, Division DEF EpPlace
<1>6. ASSUME NEW f \in Int PROVE placed(EpPlace(f)) = Ages(given, n, f)
  <2>1. \A j \in 1..n : (effect.write + j - 1) % B = EpPlace(given + j)
    BY <1>1, PlaceWritten
  <2> QED BY <2>1 DEF Ages
<1>7. ASSUME NEW k \in 1..n
      PROVE  /\ read(k) = Ages(given, k - 1, given + k - D)
             /\ (effect.write + B - D + k - 1) % B = EpPlace(given + k - D)
  <2>1. \A j \in 1..(k - 1) : (effect.write + j - 1) % B = EpPlace(given + j)
    BY <1>1, PlaceWritten
  <2>2. (effect.write + B - D + k - 1) % B = EpPlace(given + k - D)
    <3>1. k \in Int /\ D \in Int /\ given \in Nat /\ effect.write = given % BufferSize
      BY <1>0, <1>1
    <3> HIDE DEF D
    <3>2. ((given % BufferSize) + BufferSize - D + k - 1) % BufferSize = EpPlace(given + k - D)
      BY <3>1, PlaceRead, Zenon
    <3> QED BY <3>1, <3>2
  <2> QED BY <2>1, <2>2 DEF Ages
<1> HIDE DEF placed, read, D, B, line
<1>8. ASSUME NEW f \in (given' - B + 1)..given'
      PROVE  effect'.buffer[EpPlace(f)] = Kept(f)
  <2>1. f \in Int /\ given + n - B < f /\ f <= given + n BY <1>0, <1>1, <1>8
  <2>2. effect'.buffer[EpPlace(f)] = IF Ages(given, n, f) = {} THEN line[EpPlace(f)]
                                     ELSE given + Max(Ages(given, n, f))
    BY <1>3, <1>5, <1>6, <2>1
  <2>3. CASE f > given
    <3>1. Ages(given, n, f) # {} /\ Max(Ages(given, n, f)) = f - given
      BY <1>1, <2>1, <2>3, LatestAt DEF B
    <3> QED BY <1>1, <2>1, <2>2, <2>3, <3>1 DEF Kept
  <2>4. CASE f <= given
    <3>1. Ages(given, n, f) = {}
      BY <1>1, <2>1, <2>4, LatestAt DEF B
    <3>2. f \in (given - B + 1)..given BY <1>0, <1>1, <2>1, <2>4
    <3> QED BY <1>4, <2>2, <3>1, <3>2
  <2> QED BY <1>1, <2>1, <2>3, <2>4
<1>9. ASSUME NEW k \in 1..n, D > 0
      PROVE  heard'[k] = Kept(given + k - D)
  <2> DEFINE f == given + k - D
  <2>1. /\ f \in Int /\ k - 1 \in Nat /\ given + (k - 1) - B < f /\ f <= given + (k - 1)
    BY <1>0, <1>1, <1>9
  <2>2. heard'[k] = IF Ages(given, k - 1, f) # {} THEN given + Max(Ages(given, k - 1, f))
                    ELSE line[EpPlace(f)]
    BY <1>2, <1>7
  <2> HIDE DEF f
  <2>3. CASE f > given
    <3>1. Ages(given, k - 1, f) # {} /\ Max(Ages(given, k - 1, f)) = f - given
      BY <1>1, <2>1, <2>3, LatestAt DEF B
    <3>2. heard'[k] = f BY <1>1, <2>1, <2>2, <3>1
    <3> QED BY <1>1, <2>1, <2>3, <3>2 DEF Kept, f
  <2>4. CASE f <= given
    <3>1. Ages(given, k - 1, f) = {}
      BY <1>1, <2>1, <2>4, LatestAt DEF B
    <3>2. f \in (given - B + 1)..given BY <1>0, <1>1, <1>9, <2>1, <2>4
    <3>3. heard'[k] = Kept(f) BY <1>4, <2>2, <3>1, <3>2
    <3> QED BY <3>3 DEF f
  <2> QED BY <1>1, <2>1, <2>3, <2>4
<1>10. DelayIsExact'
  <2>1. DOMAIN heard' = 1..n BY <1>2
  <2>2. Len(heard') = n
    <3>1. heard' \in [1..n -> {heard'[k] : k \in 1..n}] BY <1>2
    <3> QED BY <3>1, FunctionAsList
  <2>3. Delay(port)' = D BY DEF D, Delay, MaxDelay
  <2> SUFFICES ASSUME NEW k \in 1..n, D > 0
               PROVE  LET heardOf == given' - n + k - D
                      IN heard'[k] = IF heardOf > since' THEN heardOf ELSE 0
    BY <2>1, <2>2, <2>3 DEF DelayIsExact
  <2>4. given' - n + k - D = given + k - D BY <1>0, <1>1
  <2> QED BY <1>9, <2>4 DEF Kept
<1>11. effect'.write = given' % B
  BY <1>0, <1>1, <1>3, RemainderAdds
<1>12. LineHolds'
  <2>1. DOMAIN effect'.buffer = 0..(B - 1) BY <1>3
  <2>2. ASSUME NEW f \in (given' - B + 1)..given'
        PROVE  effect'.buffer[EpPlace(f)] = Kept(f)'
    BY <1>8 DEF Kept
  <2> QED BY <1>3, <1>10, <1>11, <2>1, <2>2 DEF LineHolds, B, EpPlace
<1> QED BY <1>1, <1>3, <1>12 DEF EpInv
-----------------------------------------------------------------------------
\* nearbyint keeps the order, and is off by a half at most.
LEMMA RoundedWithin ==
  ASSUME NEW v \in Int
  PROVE  Rounded(v) \in Int /\ Rounded(v) - v \in -50..50
<1> DEFINE low == v \div 100
           part == v % 100
<1>1. low \in Int /\ part \in 0..99 /\ v = 100 * low + part BY Division
<1>2. Rounded(v) = 100 * CASE part < 50 -> low
                           [] part > 50 -> low + 1
                           [] OTHER -> IF low % 2 = 0 THEN low ELSE low + 1
  BY DEF Rounded
<1> HIDE DEF low, part
<1>3. CASE part < 50 BY <1>1, <1>2, <1>3
<1>4. CASE part > 50 BY <1>1, <1>2, <1>4
<1>5. CASE part = 50 BY <1>1, <1>2, <1>5
<1> QED BY <1>1, <1>3, <1>4, <1>5

LEMMA RoundedMonotone ==
  ASSUME NEW v \in Int, NEW w \in Int, v <= w
  PROVE  Rounded(v) <= Rounded(w)
<1> DEFINE up(x) == Rounded(x) \div 100
<1>1. CASE w - v < 100
  <2> DEFINE low == v \div 100
             part == v % 100
             low2 == w \div 100
             part2 == w % 100
  <2>1. low \in Int /\ part \in 0..99 /\ v = 100 * low + part BY Division
  <2>2. low2 \in Int /\ part2 \in 0..99 /\ w = 100 * low2 + part2 BY Division
  <2>3. Rounded(v) = 100 * CASE part < 50 -> low
                             [] part > 50 -> low + 1
                             [] OTHER -> IF low % 2 = 0 THEN low ELSE low + 1
    BY DEF Rounded
  <2>4. Rounded(w) = 100 * CASE part2 < 50 -> low2
                             [] part2 > 50 -> low2 + 1
                             [] OTHER -> IF low2 % 2 = 0 THEN low2 ELSE low2 + 1
    BY DEF Rounded
  <2> HIDE DEF low, part, low2, part2
  <2>5. low2 = low \/ low2 = low + 1 BY <1>1, <2>1, <2>2
  <2>6. low2 = low => part <= part2 BY <2>1, <2>2
  <2>7. CASE low2 = low
    <3>1. part <= part2 BY <2>6, <2>7
    <3>2. CASE part < 50 BY <2>1, <2>2, <2>3, <2>4, <2>7, <3>2
    <3>3. CASE part > 50 BY <2>1, <2>2, <2>3, <2>4, <2>7, <3>1, <3>3
    <3>4. CASE part = 50 BY <2>1, <2>2, <2>3, <2>4, <2>7, <3>1, <3>4
    <3> QED BY <2>1, <3>2, <3>3, <3>4
  <2>8. CASE low2 = low + 1
    <3>1. Rounded(v) <= 100 * (low + 1)
      <4>1. CASE part < 50 BY <2>1, <2>3, <4>1
      <4>2. CASE part > 50 BY <2>1, <2>3, <4>2
      <4>3. CASE part = 50 BY <2>1, <2>3, <4>3
      <4> QED BY <2>1, <4>1, <4>2, <4>3
    <3>2. Rounded(w) >= 100 * low2
      <4>1. CASE part2 < 50 BY <2>2, <2>4, <4>1
      <4>2. CASE part2 > 50 BY <2>2, <2>4, <4>2
      <4>3. CASE part2 = 50 BY <2>2, <2>4, <4>3
      <4> QED BY <2>2, <4>1, <4>2, <4>3
    <3>3. Rounded(v) \in Int /\ Rounded(w) \in Int BY RoundedWithin
    <3> QED BY <2>1, <2>8, <3>1, <3>2, <3>3
  <2> QED BY <2>5, <2>7, <2>8
<1>2. CASE w - v >= 100
  <2>1. Rounded(v) \in Int /\ Rounded(v) - v \in -50..50 BY RoundedWithin
  <2>2. Rounded(w) \in Int /\ Rounded(w) - w \in -50..50 BY RoundedWithin
  <2> QED BY <1>2, <2>1, <2>2
<1> QED BY <1>1, <1>2

\* The control of every port with two bounds, whatever its hints
LEMMA EveryControlFits ==
  ASSUME NEW of \in HintedPorts
  PROVE  ControlFits(of)
<1> DEFINE lo == Lower(of)
           hi == Upper(of)
           wish == Suggested(of)
           checked == Checked(of)
<1> SUFFICES ASSUME {"below", "above"} \subseteq of.flags
             PROVE  /\ ControlMin(of) <= ControlValue(of) /\ ControlValue(of) <= ControlMax(of)
                    /\ (/\ of.default # "none" /\ lo <= wish /\ wish <= hi) =>
                          ControlValue(of) - wish
                            \in (IF "integer" \in of.flags THEN -50..50 ELSE {0})
  BY DEF ControlFits
<1>1. PICK flags \in {flags \in SUBSET {"below", "above", "rate", "toggled", "integer"} :
                        "toggled" \in flags => flags = {"toggled"}},
           lower \in {-50, 0, 50}, width \in {50, 150, 500},
           default \in {"none", "minimum", "low", "middle", "high", "maximum", "0", "1", "100",
                        "440"} :
        of = Port("input", "control", flags, lower, lower + width, default)
  BY DEF HintedPorts
<1>2. /\ of.flags = flags /\ of.lower = lower /\ of.upper = lower + width
      /\ of.default = default
  BY <1>1 DEF Port
<1>3. "below" \in of.flags /\ "above" \in of.flags /\ "toggled" \notin of.flags
  BY <1>1, <1>2
<1>4. Scale(of) \in {1, 48000} BY DEF Scale, ControlRate
<1>5. lo \in Int /\ hi \in Int /\ lo <= hi
  BY <1>1, <1>2, <1>4 DEF Lower, Upper
<1>6. Minimum(of) = lo /\ Maximum(of) = hi BY <1>3 DEF Minimum, Maximum
<1>7. of.default # "none" => wish \in Int
  <2>1. of.default # "none" => of.default \in {"minimum", "low", "middle", "high", "maximum",
                                               "0", "1", "100", "440"}
    BY <1>1, <1>2
  <2> HIDE DEF lo, hi
  <2> QED BY <1>5, <2>1 DEF Suggested, lo, hi
<1> HIDE DEF lo, hi, wish
<1>8. of.default # "none" =>
        /\ checked \in Int /\ lo <= checked /\ checked <= hi
        /\ lo <= wish /\ wish <= hi => checked = wish
  BY <1>5, <1>6, <1>7 DEF Checked, wish
<1> HIDE DEF checked
<1>9. CASE "integer" \in of.flags
  <2>1. ControlMin(of) = Rounded(lo) /\ ControlMax(of) = Rounded(hi)
    BY <1>3, <1>6, <1>9 DEF ControlMin, ControlMax
  <2>2. CASE of.default = "none"
    <3>1. ControlValue(of) = Rounded(lo) BY <2>1, <2>2 DEF ControlValue
    <3>2. Rounded(lo) \in Int /\ Rounded(lo) <= Rounded(hi)
      BY <1>5, RoundedWithin, RoundedMonotone
    <3> QED BY <2>1, <2>2, <3>1, <3>2
  <2>3. CASE of.default # "none"
    <3>1. ControlValue(of) = Rounded(checked)
      BY <1>9, <2>3 DEF ControlValue, checked
    <3>2. /\ Rounded(lo) <= Rounded(checked) /\ Rounded(checked) <= Rounded(hi)
          /\ Rounded(checked) - checked \in -50..50
      BY <1>5, <1>8, <2>3, RoundedWithin, RoundedMonotone
    <3> QED BY <1>8, <1>9, <2>1, <2>3, <3>1, <3>2
  <2> QED BY <2>2, <2>3
<1>10. CASE "integer" \notin of.flags
  <2>1. ControlMin(of) = lo /\ ControlMax(of) = hi
    BY <1>3, <1>6, <1>10 DEF ControlMin, ControlMax
  <2>2. CASE of.default = "none"
    <3>1. ControlValue(of) = lo BY <2>1, <2>2 DEF ControlValue
    <3> QED BY <1>5, <2>1, <2>2, <3>1
  <2>3. CASE of.default # "none"
    <3>1. of.flags \cap {"toggled", "integer"} = {} BY <1>3, <1>10
    <3>2. ControlValue(of) = checked BY <2>3, <3>1 DEF ControlValue, checked
    <3> QED BY <1>7, <1>8, <1>10, <2>1, <2>3, <3>2
  <2> QED BY <2>2, <2>3
<1> QED BY <1>9, <1>10

LEMMA PluginsStep ==
  ASSUME EpInv, [EpNext]_epVars
  PROVE  EpInv'
<1>1. CASE effect.kind # "control" /\ Activate BY <1>1, ActivateKeeps
<1>2. ASSUME NEW n \in 1..EpBlock, NEW value \in {-1, 0, 1, MaxDelay, MaxDelay + 1, EpRate},
             Run(n, value)
      PROVE  EpInv'
  <2>1. n \in Nat /\ value \in Int
    BY <1>2, EpAssumption, BufferHolds DEF MaxDelay
  <2>2. given' = given + n /\ port' = value /\ since' = since BY <1>2 DEF Run
  <2> QED BY <1>2, <2>1, <2>2, DelayKeeps, SineKeeps, LowPassKeeps DEF Run
<1>3. CASE UNCHANGED epVars
  BY <1>3 DEF epVars, EpInv, LineHolds, SineCached, LowPassCached, StepIsCurrent, DelayIsExact,
              Kept, EpPlace, Regime, Delay, MaxDelay, BufferSize
<1> QED BY <1>1, <1>2, <1>3 DEF EpNext

LEMMA PluginsDoFollow ==
  ASSUME EpInv
  PROVE  PluginsFollow
<1>1. effect.kind \in {"delay", "sine", "lpf", "control"} BY DEF EpInv
<1>2. CASE effect.kind = "delay" BY <1>2 DEF EpInv, LineHolds, PluginsFollow
<1>3. CASE effect.kind = "sine" BY <1>3 DEF EpInv, SineCached, PluginsFollow
<1>4. CASE effect.kind = "lpf" BY <1>4 DEF EpInv, LowPassCached, PluginsFollow
<1>5. CASE effect.kind = "control" BY <1>5, EveryControlFits DEF EpInv, PluginsFollow
<1> QED BY <1>1, <1>2, <1>3, <1>4, <1>5
-----------------------------------------------------------------------------
\* Whatever the user presses, the streams that fail to open, the device that goes
\* and the pace of the callback, LiveEffect's screen and engine agree, the
\* callback finds both its streams and gives every port of its plugin what the
\* port takes, and its plugins follow their ports, for every sample rate, block
\* and history.  So it is with libnoise.so, which is loaded, and two others: of
\* delay the host leaves a control alone, of sine it gives an audio port a value.
THEOREM EffectsWork ==
  ASSUME LeLibrary \notin {"delay", "sine"}
  PROVE  LeSpec /\ EpSpec => []EffectWorks
<1>1. LeInit => LeInv BY EffectStarts
<1>2. LeInv /\ [LeNext]_leVars => LeInv' BY EffectStep, EffectStutters
<1>3. LeSpec => []LeInv BY <1>1, <1>2, PTL DEF LeSpec
<1>4. EpInit => EpInv BY PluginsBegin
<1>5. EpInv /\ [EpNext]_epVars => EpInv' BY PluginsStep
<1>6. EpSpec => []EpInv BY <1>4, <1>5, PTL DEF EpSpec
<1>7. LeInv /\ EpInv => EffectWorks BY EffectIsInStep, PluginsDoFollow DEF EffectWorks
<1> QED BY <1>3, <1>6, <1>7, PTL
-----------------------------------------------------------------------------
(* WavReader *)

\* Where the samples begin, and how many units the data has
DataAt == End(file.chunks, 3) + 8
DataSize == file.chunks[4].size
Units == (DataSize \div FrameSize) * (FrameSize \div UnitSize)
Handed == Units - unread
Wanted(i) == DataAt + (i - 1) * file.format.bytes
Readable == WellFormed /\ DataAt < file.length
Padding == IF file.format.bytes = 3 THEN -1 ELSE 0

WrTyped == /\ file \in Files
           /\ wrStep \in {"parse", "position", "read", "zero", "done", "failed"}
           /\ mPos \in 0..file.length
           /\ fmtRead \in BOOLEAN
           /\ dataStart \in -1..file.length
           /\ mChunkSize \in Nat /\ unread \in Nat

\* The parser stands behind chunk k, or at the end of the file.
ParsedTo(k) == /\ mPos = IF End(file.chunks, k) <= file.length THEN End(file.chunks, k)
                         ELSE file.length
               /\ fmtRead = (k >= 3)
               /\ dataStart = IF k >= 4 THEN DataAt ELSE -1
               /\ k >= 4 => mChunkSize = DataSize

\* What was read is whole units, from the first on and in order.
UnitsInOrder == /\ unread <= Units
           /\ DataAt + Handed * UnitSize <= file.length
           /\ buff \in Seq(Int) /\ Len(buff) = Handed * PerUnit
           /\ \A i \in 1..(Handed * PerUnit) : buff[i] = Wanted(i)

Complete == /\ buff \in Seq(Int) /\ Len(buff) = Units * PerUnit
            /\ unread <= Units
            /\ DataAt + Handed * UnitSize <= file.length
            /\ unread > 0 => DataAt + (Handed + 1) * UnitSize > file.length
            /\ \A i \in 1..(Units * PerUnit) :
                 buff[i] = IF i <= Handed * PerUnit THEN Wanted(i) ELSE Padding

WrInv == /\ WrTyped
         /\ Readable =>
              /\ wrStep # "failed"
              /\ wrStep = "parse" => \E k \in 0..5 : ParsedTo(k)
              /\ wrStep = "position" =>
                   fmtRead /\ dataStart = DataAt /\ mChunkSize = DataSize
              /\ wrStep \in {"parse", "position"} => buff = <<>>
              /\ wrStep = "read" => UnitsInOrder /\ mPos = DataAt + Handed * UnitSize
              /\ wrStep = "zero" => /\ UnitsInOrder /\ unread > 0
                                    /\ DataAt + (Handed + 1) * UnitSize > file.length
              /\ wrStep = "done" => Complete
-----------------------------------------------------------------------------
\* The chunks of a file, and the bytes it may lack
LEMMA FileIs ==
  ASSUME file \in Files
  PROVE  /\ file.format.bytes \in 1..4 /\ file.format.channels \in 1..2
         /\ file.length \in Nat
         /\ DOMAIN file.chunks = 1..5
         /\ file.chunks[1] = Chunk("RIFF", 0)
         /\ file.chunks[2].id = "other" /\ file.chunks[2].size \in {0, 1, 2}
         /\ file.chunks[3].id = "fmt" /\ file.chunks[3].size \in {16, 18}
         /\ file.chunks[4].id = "data"
         /\ \E n \in Nat : file.chunks[4].size
                             = n * file.format.bytes * file.format.channels
         /\ file.chunks[5] = file.chunks[2]
         /\ file.length = End(file.chunks, 5) \/ file.length < End(file.chunks, 4)
<1>1. PICK f \in [bytes : 1..4, channels : 1..2], n \in 1..WrFrames, size \in {16, 18},
           other \in {0, 1, 2}, missing \in 0..WrMissing :
        file = FileOf(f, ChunksOf(f, n, size, other), missing)
  BY DEF Files
<1> DEFINE all == ChunksOf(f, n, size, other)
           d == n * f.bytes * f.channels
<1>2. f.bytes \in 1..4 /\ f.channels \in 1..2 /\ n \in Nat /\ missing \in Nat
  BY WrAssumption
<1>3. d \in Nat
  <2>1. n * f.bytes \in Nat BY <1>2
  <2> QED BY <1>2, <2>1
<1> HIDE DEF d
<1>4. /\ all[1] = Chunk("RIFF", 0) /\ all[2] = Chunk("other", other)
      /\ all[3] = Chunk("fmt", size) /\ all[4] = Chunk("data", d) /\ all[5] = Chunk("other", other)
      /\ DOMAIN all = 1..5
  BY DEF d, ChunksOf
<1> HIDE DEF all
<1>5. /\ Bytes(all[1]) = 12 /\ Bytes(all[2]) \in 8..10 /\ Bytes(all[3]) \in 8..26
      /\ Bytes(all[4]) \in Nat /\ Bytes(all[4]) >= 8 /\ Bytes(all[5]) \in 8..10
  BY <1>3, <1>4 DEF Bytes, Chunk
<1>6. /\ End(all, 4) \in Nat /\ End(all, 5) \in Nat /\ End(all, 4) > 0
  BY <1>5 DEF End
<1>7. file.chunks = all /\ file.format = f /\ file.length = LengthOf(all, missing)
  BY <1>1 DEF all, FileOf
<1>8. file.length \in Nat /\ (file.length = End(all, 5) \/ file.length < End(all, 4))
  BY <1>2, <1>6, <1>7 DEF LengthOf
<1>9. \E m \in Nat : file.chunks[4].size = m * file.format.bytes * file.format.channels
  BY <1>2, <1>4, <1>7 DEF Chunk, d
<1> QED BY <1>2, <1>4, <1>7, <1>8, <1>9 DEF Chunk

\* Where the chunks of a well-formed file begin
LEMMA ChunksBegin ==
  ASSUME file \in Files, WellFormed, NEW E, E = [k \in 0..5 |-> End(file.chunks, k)]
  PROVE  /\ DataSize \in Nat
         /\ E[0] = 0 /\ E[1] = 12 /\ E[2] = 20 + file.chunks[2].size /\ E[3] = E[2] + 24
         /\ E[4] = E[3] + 8 + DataSize /\ E[5] = E[4] + 8 + file.chunks[2].size
         /\ file.chunks[2].size \in {0, 2}
<1> DEFINE c == file.chunks
<1>1. /\ c[1] = Chunk("RIFF", 0) /\ c[2].id = "other" /\ c[2].size \in {0, 2}
      /\ c[3].id = "fmt" /\ c[3].size = 16 /\ c[4].id = "data" /\ c[5] = c[2]
      /\ c[4].size % 2 = 0
  BY FileIs DEF WellFormed
<1>2. c[4].size \in Nat
  <2>1. PICK n \in Nat : c[4].size = n * file.format.bytes * file.format.channels BY FileIs
  <2>2. file.format.bytes \in Nat /\ file.format.channels \in Nat BY FileIs
  <2>3. n * file.format.bytes \in Nat BY <2>2
  <2> QED BY <2>1, <2>2, <2>3
<1> HIDE DEF c
<1>3. /\ Bytes(c[1]) = 12 /\ Bytes(c[2]) = 8 + c[2].size /\ Bytes(c[3]) = 24
      /\ Bytes(c[4]) = 8 + c[4].size /\ Bytes(c[5]) = 8 + c[2].size
  BY <1>1, <1>2 DEF Bytes, Chunk
<1>4. /\ End(c, 0) = 0 /\ End(c, 1) = 12 /\ End(c, 2) = 20 + c[2].size
      /\ End(c, 3) = End(c, 2) + 24 /\ End(c, 4) = End(c, 3) + 8 + c[4].size
      /\ End(c, 5) = End(c, 4) + 8 + c[2].size
  BY <1>1, <1>2, <1>3 DEF End
<1> QED BY <1>1, <1>2, <1>4 DEF c, DataSize

\* What is read as a whole, and how often
LEMMA UnitsAre ==
  ASSUME file \in Files
  PROVE  /\ file.format.bytes \in 1..4 /\ PerUnit \in {1, 2}
         /\ UnitSize = PerUnit * file.format.bytes /\ UnitSize \in {1, 2, 3, 4, 8}
         /\ Units \in Nat
         /\ Units * PerUnit = DataSize \div file.format.bytes
<1> DEFINE b == file.format.bytes
           c == file.format.channels
<1>1. PICK n \in Nat : DataSize = n * b * c BY FileIs DEF DataSize
<1>2. b \in 1..4 /\ c \in 1..2 BY FileIs
<1> HIDE DEF b, c
<1>3. FrameSize = b * c BY DEF FrameSize, b, c
<1>4. UnitSize = IF b = 3 THEN 3 ELSE b * c BY DEF FrameSize, UnitSize, b, c
<1>5. PerUnit = UnitSize \div b BY DEF PerUnit, b
<1>6. Units = (DataSize \div FrameSize) * (FrameSize \div UnitSize) BY DEF Units
<1>7. /\ PerUnit \in {1, 2} /\ UnitSize = PerUnit * b /\ UnitSize \in {1, 2, 3, 4, 8}
      /\ Units \in Nat /\ Units * PerUnit = DataSize \div b
  <2>1. CASE c = 1
    <3>1. CASE b = 1 BY <1>1, <1>3, <1>4, <1>5, <1>6, <2>1, <3>1
    <3>2. CASE b = 2 BY <1>1, <1>3, <1>4, <1>5, <1>6, <2>1, <3>2
    <3>3. CASE b = 3 BY <1>1, <1>3, <1>4, <1>5, <1>6, <2>1, <3>3
    <3>4. CASE b = 4 BY <1>1, <1>3, <1>4, <1>5, <1>6, <2>1, <3>4
    <3> QED BY <1>2, <3>1, <3>2, <3>3, <3>4
  <2>2. CASE c = 2
    <3>1. CASE b = 1 BY <1>1, <1>3, <1>4, <1>5, <1>6, <2>2, <3>1
    <3>2. CASE b = 2 BY <1>1, <1>3, <1>4, <1>5, <1>6, <2>2, <3>2
    <3>3. CASE b = 3 BY <1>1, <1>3, <1>4, <1>5, <1>6, <2>2, <3>3
    <3>4. CASE b = 4 BY <1>1, <1>3, <1>4, <1>5, <1>6, <2>2, <3>4
    <3> QED BY <1>2, <3>1, <3>2, <3>3, <3>4
  <2> QED BY <1>2, <2>1, <2>2
<1> QED BY <1>2, <1>7 DEF b
-----------------------------------------------------------------------------
\* Where a read ends, and a seek
LEMMA ReadStays ==
  ASSUME WrTyped, NEW bytes \in Nat
  PROVE  ReadTo(bytes) \in mPos..file.length
<1>1. file.length \in Nat BY FileIs DEF WrTyped
<1> QED BY <1>1 DEF WrTyped, ReadTo, Available

LEMMA SeekStays ==
  ASSUME WrTyped
  PROVE  SetPos(dataStart) \in 0..file.length
<1>1. file.length \in Nat BY FileIs DEF WrTyped
<1> QED BY <1>1 DEF WrTyped, SetPos

\* What the parser takes for a chunk, wherever it stands
LEMMA SeenHasSize ==
  ASSUME file \in Files, NEW chunk \in Seen
  PROVE  chunk.size \in Nat /\ Skipped(chunk) \in Nat
<1>1. chunk.size \in Nat
  <2>1. ASSUME NEW k \in 1..5 PROVE file.chunks[k].size \in Nat
    <3>1. file.chunks[4].size \in Nat
      <4>1. PICK n \in Nat : file.chunks[4].size = n * file.format.bytes * file.format.channels
        BY FileIs
      <4>2. file.format.bytes \in Nat /\ file.format.channels \in Nat BY FileIs
      <4>3. n * file.format.bytes \in Nat BY <4>2
      <4> QED BY <4>1, <4>2, <4>3
    <3> QED BY <2>1, <3>1, FileIs DEF Chunk
  <2>2. DOMAIN file.chunks = 1..5 BY FileIs
  <2> QED BY <2>1, <2>2 DEF Seen, Chunk
<1> QED BY <1>1 DEF Skipped

\* The whole units in what is left of the file
LEMMA BlockIs ==
  ASSUME NEW blocks \in Nat, NEW U \in {1, 2, 3, 4, 8}, NEW left \in Nat,
         NEW q, q = (IF blocks * U < left THEN blocks * U ELSE left) \div U
  PROVE  /\ q \in 0..blocks /\ q * U <= left
         /\ q = blocks => blocks * U <= left
         /\ q < blocks => (q + 1) * U > left
<1> DEFINE m == IF blocks * U < left THEN blocks * U ELSE left
           r == m % U
<1>1. m \in Nat /\ U \in Nat \ {0} OBVIOUS
<1>2. q \in Int /\ r \in Int /\ m = U * q + r /\ 0 <= r /\ r < U BY <1>1, Division
<1> HIDE DEF r
<1>3. CASE U = 1 BY <1>2, <1>3
<1>4. CASE U = 2 BY <1>2, <1>4
<1>5. CASE U = 3 BY <1>2, <1>5
<1>6. CASE U = 4 BY <1>2, <1>6
<1>7. CASE U = 8 BY <1>2, <1>7
<1> QED BY <1>3, <1>4, <1>5, <1>6, <1>7

LEMMA AskedIs ==
  ASSUME WrTyped, unread > 0
  PROVE  /\ Asked \in 1..unread
         /\ Block(Asked) \in 0..Asked /\ Block(Asked) * UnitSize <= file.length - mPos
         /\ Block(Asked) = Asked => ReadTo(Asked * UnitSize) = mPos + Asked * UnitSize
         /\ Block(Asked) < Asked => (Block(Asked) + 1) * UnitSize > file.length - mPos
<1> DEFINE left == file.length - mPos
<1>1. file.length \in Nat /\ left \in Nat /\ mPos \in Nat BY FileIs DEF WrTyped
<1>2. UnitSize \in {1, 2, 3, 4, 8} BY UnitsAre DEF WrTyped
<1>3. Asked \in 1..unread BY WrAssumption DEF Asked, WrTyped
<1>4. Asked * UnitSize \in Nat BY <1>2, <1>3
<1>5. ReadTo(Asked * UnitSize) = mPos + (IF Asked * UnitSize < left THEN Asked * UnitSize ELSE left)
  BY DEF ReadTo, Available
<1>6. Block(Asked) = (IF Asked * UnitSize < left THEN Asked * UnitSize ELSE left) \div UnitSize
  BY <1>1, <1>4, <1>5 DEF Block
<1>7. Asked \in Nat BY <1>3
<1> HIDE DEF left
<1>8. /\ Block(Asked) \in 0..Asked /\ Block(Asked) * UnitSize <= left
      /\ Block(Asked) = Asked => Asked * UnitSize <= left
      /\ Block(Asked) < Asked => (Block(Asked) + 1) * UnitSize > left
  BY ONLY <1>1, <1>2, <1>6, <1>7, BlockIs
<1>9. Block(Asked) = Asked => ReadTo(Asked * UnitSize) = mPos + Asked * UnitSize
  BY <1>1, <1>4, <1>5, <1>8
<1> QED BY <1>3, <1>8, <1>9 DEF left

\* Every step, whatever the file, leaves the reader within it.
LEMMA ReaderTyped ==
  ASSUME WrTyped, WrNext
  PROVE  WrTyped'
<1>1. file.length \in Nat BY FileIs DEF WrTyped
<1>2. CASE Parse
  <2>1. PICK chunk \in Seen :
          /\ mPos' = ReadTo(Skipped(chunk))
          /\ fmtRead' = (fmtRead \/ chunk.id = "fmt")
          /\ dataStart' = IF chunk.id = "data" THEN ReadTo(8) ELSE dataStart
          /\ mChunkSize' = IF chunk.id = "data" THEN chunk.size ELSE mChunkSize
    BY <1>2 DEF Parse
  <2>2. chunk.size \in Nat /\ Skipped(chunk) \in Nat BY SeenHasSize DEF WrTyped
  <2>3. ReadTo(Skipped(chunk)) \in mPos..file.length /\ ReadTo(8) \in mPos..file.length
    BY <2>2, ReadStays
  <2>4. UNCHANGED <<file, wrStep, unread>> BY <1>2 DEF Parse
  <2>5. mPos' \in 0..file.length /\ dataStart' \in -1..file.length /\ mChunkSize' \in Nat
    BY <1>1, <2>1, <2>2, <2>3 DEF WrTyped
  <2>6. fmtRead' \in BOOLEAN BY <2>1, Zenon DEF WrTyped
  <2> QED BY <2>4, <2>5, <2>6 DEF WrTyped
<1>3. CASE ParseEnd
  <2>1. SetPos(dataStart) \in 0..file.length BY SeekStays
  <2> QED BY <1>3, <2>1 DEF ParseEnd, WrTyped
<1>4. CASE Position
  <2>1. SetPos(dataStart) \in 0..file.length BY SeekStays
  <2>2. FrameSize \in Nat \ {0} /\ UnitSize \in Nat \ {0}
    <3>1. file.format.bytes \in 1..4 /\ file.format.channels \in 1..2 BY FileIs DEF WrTyped
    <3>2. file.format.bytes * file.format.channels \in Nat \ {0} BY <3>1
    <3> QED BY <3>1, <3>2 DEF FrameSize, UnitSize
  <2> DEFINE u == (mChunkSize \div FrameSize) * (FrameSize \div UnitSize)
  <2>3. u \in Nat
    <3>1. mChunkSize \div FrameSize \in Nat /\ FrameSize \div UnitSize \in Nat BY <2>2 DEF WrTyped
    <3> QED BY <3>1
  <2>4. unread' = IF fmtRead THEN u ELSE 0 BY <1>4 DEF Position
  <2> HIDE DEF u
  <2>5. unread' \in Nat BY <2>3, <2>4
  <2> QED BY <1>4, <2>1, <2>5 DEF Position, WrTyped
<1>5. CASE ReadBlock
  <2>1. /\ mPos' = ReadTo(Asked * UnitSize) /\ unread' = unread - Block(Asked)
        /\ wrStep' = IF Block(Asked) < Asked THEN "zero" ELSE "read"
        /\ UNCHANGED <<file, fmtRead, dataStart, mChunkSize>> /\ unread > 0
    BY <1>5 DEF ReadBlock
  <2>2. Asked \in 1..unread /\ Block(Asked) \in 0..Asked BY <2>1, AskedIs
  <2>3. UnitSize \in Nat BY UnitsAre DEF WrTyped
  <2>4. Asked * UnitSize \in Nat BY <2>2, <2>3 DEF WrTyped
  <2>5. mPos' \in 0..file.length BY <1>1, <2>1, <2>4, ReadStays DEF WrTyped
  <2>6. unread' \in Nat BY <2>1, <2>2 DEF WrTyped
  <2> QED BY <2>1, <2>5, <2>6 DEF WrTyped
<1>6. CASE ZeroUnread BY <1>6 DEF ZeroUnread, WrTyped
<1> QED BY <1>2, <1>3, <1>4, <1>5, <1>6 DEF WrNext
-----------------------------------------------------------------------------
\* Of a file that is parsed as it is meant to be, only the data is long.
LEMMA ReadableIs ==
  ASSUME WrTyped, Readable, NEW E, E = [k \in 0..5 |-> End(file.chunks, k)]
  PROVE  /\ DataSize \in Nat
         /\ E[0] = 0 /\ E[1] = 12 /\ E[2] = 20 + file.chunks[2].size /\ E[3] = E[2] + 24
         /\ E[4] = E[3] + 8 + DataSize /\ E[5] = E[4] + 8 + file.chunks[2].size
         /\ file.chunks[2].size \in {0, 2}
         /\ file.length \in Nat /\ (file.length = E[5] \/ file.length < E[4])
         /\ DataAt = E[3] + 8 /\ DataAt < file.length /\ DataAt \in Nat
<1>1. file \in Files /\ WellFormed BY DEF WrTyped, Readable
<1>2. /\ DataSize \in Nat
      /\ E[0] = 0 /\ E[1] = 12 /\ E[2] = 20 + file.chunks[2].size /\ E[3] = E[2] + 24
      /\ E[4] = E[3] + 8 + DataSize /\ E[5] = E[4] + 8 + file.chunks[2].size
      /\ file.chunks[2].size \in {0, 2}
  BY <1>1, ChunksBegin
<1>3. file.length \in Nat BY <1>1, FileIs
<1>4. file.length = End(file.chunks, 5) \/ file.length < End(file.chunks, 4)
  BY <1>1, FileIs
<1>5. DataAt = E[3] + 8 BY DEF DataAt
<1>6. E[4] = End(file.chunks, 4) /\ E[5] = End(file.chunks, 5) OBVIOUS
<1>7. DataAt \in Nat BY <1>2, <1>5
<1> QED BY <1>2, <1>3, <1>4, <1>5, <1>6, <1>7 DEF Readable

\* The parser sees the chunk behind the last, and passes it.
LEMMA ChunkParsed ==
  ASSUME WrTyped, Readable, NEW k \in 0..5, ParsedTo(k), Parse
  PROVE  \E j \in 0..5 : ParsedTo(j)'
<1> DEFINE E == [n \in 0..5 |-> End(file.chunks, n)]
           s == file.chunks[2].size
<1>1. /\ DataSize \in Nat /\ s \in {0, 2}
      /\ E[0] = 0 /\ E[1] = 12 /\ E[2] = 20 + s /\ E[3] = E[2] + 24
      /\ E[4] = E[3] + 8 + DataSize /\ E[5] = E[4] + 8 + s
      /\ file.length \in Nat /\ (file.length = E[5] \/ file.length < E[4])
      /\ DataAt = E[3] + 8 /\ DataAt < file.length
  BY ReadableIs
<1>2. \A n \in 0..5 : End(file.chunks, n) = E[n] OBVIOUS
<1>3. DOMAIN file.chunks = 1..5 BY FileIs DEF WrTyped
<1>4. /\ file.chunks[1].id = "RIFF" /\ file.chunks[2].id = "other" /\ file.chunks[3].id = "fmt"
      /\ file.chunks[4].id = "data" /\ file.chunks[5].id = "other"
      /\ file.chunks[4].size = DataSize /\ file.chunks[5].size = s
  BY FileIs DEF WrTyped, Chunk, DataSize
<1>5. mPos \in Nat /\ mPos < file.length
  BY <1>1 DEF Parse, Available, WrTyped
<1> HIDE DEF E, s
<1>6. mPos = E[k] /\ k < 5 BY <1>1, <1>2, <1>5 DEF ParsedTo
<1>7. Seen = {file.chunks[k + 1]}
  <2> DEFINE here == {n \in DOMAIN file.chunks : End(file.chunks, n - 1) = mPos}
  <2>1. ASSUME NEW n \in 1..5 PROVE End(file.chunks, n - 1) = mPos <=> n = k + 1
    <3>1. n - 1 \in 0..5 OBVIOUS
    <3>2. End(file.chunks, n - 1) = E[n - 1] BY <1>2, <3>1
    <3> QED BY <1>1, <1>6, <3>1, <3>2
  <2>2. here = {k + 1} BY <1>3, <1>6, <2>1
  <2> HIDE DEF here
  <2>3. Seen = {file.chunks[n] : n \in here} BY <2>2 DEF Seen, here
  <2> QED BY <2>2, <2>3
<1> DEFINE c == file.chunks[k + 1]
<1>8. /\ mPos' = ReadTo(Skipped(c))
      /\ fmtRead' = (fmtRead \/ c.id = "fmt")
      /\ dataStart' = IF c.id = "data" THEN ReadTo(8) ELSE dataStart
      /\ mChunkSize' = IF c.id = "data" THEN c.size ELSE mChunkSize
      /\ UNCHANGED file
  BY <1>7 DEF Parse
<1>9. Skipped(c) = E[k + 1] - E[k]
  <2>1. file.chunks[2].size = s BY DEF s
  <2>2. CASE k = 0 BY <1>1, <1>4, <2>2 DEF Skipped
  <2>3. CASE k = 1 BY <1>1, <1>4, <2>1, <2>3 DEF Skipped
  <2>4. CASE k = 2 BY <1>1, <1>4, <2>4 DEF Skipped
  <2>5. CASE k = 3 BY <1>1, <1>4, <2>5 DEF Skipped
  <2>6. CASE k = 4 BY <1>1, <1>4, <2>6 DEF Skipped
  <2> QED BY <1>6, <2>2, <2>3, <2>4, <2>5, <2>6
<1>10. mPos' = IF E[k + 1] <= file.length THEN E[k + 1] ELSE file.length
  <2>1. E[k] \in Int /\ E[k + 1] \in Int BY <1>1, <1>6
  <2> QED BY <1>1, <1>5, <1>6, <1>8, <1>9, <2>1 DEF ReadTo, Available
<1>11. DataAt' = DataAt /\ DataSize' = DataSize /\ UNCHANGED file.length
  BY <1>8 DEF DataAt, DataSize
<1>12. End(file.chunks, k + 1)' = E[k + 1]
  BY <1>2, <1>6, <1>8
<1>13. fmtRead' = (k + 1 >= 3)
  <2>1. fmtRead = (k >= 3) BY DEF ParsedTo
  <2>2. c.id = "fmt" <=> k = 2 BY <1>4, <1>6
  <2>3. (k + 1 >= 3) = ((k >= 3) \/ c.id = "fmt") BY <1>6, <2>2
  <2> QED BY <1>8, <2>1, <2>3, Zenon
<1>14. dataStart' = IF k + 1 >= 4 THEN DataAt ELSE -1
  <2>1. dataStart = IF k >= 4 THEN DataAt ELSE -1 BY DEF ParsedTo
  <2>2. CASE k = 3
    <3>1. ReadTo(8) = DataAt BY <1>1, <1>5, <1>6, <2>2 DEF ReadTo, Available
    <3> QED BY <1>4, <1>8, <2>2, <3>1
  <2>3. CASE k < 3
    <3>1. c.id # "data" BY <1>4, <2>3
    <3> QED BY <1>8, <2>1, <2>3, <3>1
  <2>4. CASE k = 4 BY <1>4, <1>8, <2>1, <2>4
  <2> QED BY <1>6, <2>2, <2>3, <2>4
<1>15. k + 1 >= 4 => mChunkSize' = DataSize
  <2>1. k >= 4 => mChunkSize = DataSize BY DEF ParsedTo
  <2>2. CASE k = 3 BY <1>4, <1>8, <2>2
  <2>3. CASE k = 4 BY <1>4, <1>8, <2>1, <2>3
  <2> QED BY <1>6, <2>2, <2>3
<1>16. ParsedTo(k + 1)' BY <1>10, <1>11, <1>12, <1>13, <1>14, <1>15 DEF ParsedTo
<1> QED BY <1>6, <1>16

\* At the end of the file, the format and the data were read.
LEMMA ParsedAll ==
  ASSUME WrTyped, Readable, NEW k \in 0..5, ParsedTo(k), Available = 0
  PROVE  fmtRead /\ dataStart = DataAt /\ mChunkSize = DataSize
<1> DEFINE E == [n \in 0..5 |-> End(file.chunks, n)]
           s == file.chunks[2].size
<1>1. /\ DataSize \in Nat /\ s \in {0, 2}
      /\ E[0] = 0 /\ E[1] = 12 /\ E[2] = 20 + s /\ E[3] = E[2] + 24
      /\ E[4] = E[3] + 8 + DataSize /\ E[5] = E[4] + 8 + s
      /\ file.length \in Nat /\ DataAt = E[3] + 8 /\ DataAt < file.length
  BY ReadableIs
<1>2. End(file.chunks, k) = E[k] OBVIOUS
<1>3. mPos \in Nat /\ mPos = file.length BY <1>1 DEF Available, WrTyped
<1> HIDE DEF E, s
<1>4. mPos = IF E[k] <= file.length THEN E[k] ELSE file.length BY <1>2 DEF ParsedTo
<1>5. k >= 4
  <2> SUFFICES ASSUME k < 4 PROVE FALSE OBVIOUS
  <2>1. E[k] \in Int /\ E[k] <= E[3] BY <1>1
  <2>2. E[3] \in Int BY <1>1
  <2> QED BY <1>1, <1>3, <1>4, <2>1, <2>2
<1>6. fmtRead
  <2>1. fmtRead = (k >= 3) BY DEF ParsedTo
  <2>2. (k >= 3) = TRUE BY <1>5
  <2> QED BY <2>1, <2>2, Zenon
<1> QED BY <1>5, <1>6 DEF ParsedTo
-----------------------------------------------------------------------------
\* The file stays, and what is known of it
LEMMA FileStays ==
  ASSUME WrNext
  PROVE  /\ file' = file /\ Readable' = Readable /\ DataAt' = DataAt /\ DataSize' = DataSize
         /\ Units' = Units /\ UnitSize' = UnitSize /\ PerUnit' = PerUnit
         /\ \A i : Wanted(i)' = Wanted(i)
<1>1. file' = file BY DEF WrNext, Parse, ParseEnd, Position, ReadBlock, ZeroUnread
<1> QED BY <1>1 DEF Readable, WellFormed, DataAt, DataSize, Units, UnitSize, PerUnit, FrameSize,
                    Wanted

\* A block continues where the last ended, and only the last is not whole.
LEMMA BlockInOrder ==
  ASSUME WrTyped, Readable, ReadBlock, UnitsInOrder, mPos = DataAt + Handed * UnitSize
  PROVE  /\ UnitsInOrder'
         /\ wrStep' = "read" => mPos' = DataAt' + Handed' * UnitSize'
         /\ wrStep' = "zero" => /\ unread' > 0
                                /\ DataAt' + (Handed' + 1) * UnitSize' > file'.length
         /\ wrStep' \in {"read", "zero"}
<1> DEFINE b == file.format.bytes
           n == Block(Asked)
           H == Handed
           P == PerUnit
           U == UnitSize
           D == DataAt
           more == Samples(n)
<1>1. /\ b \in 1..4 /\ P \in {1, 2} /\ U = P * b /\ U \in {1, 2, 3, 4, 8} /\ Units \in Nat
  BY UnitsAre DEF WrTyped
<1>2. /\ unread > 0 /\ buff' = buff \o more /\ mPos' = ReadTo(Asked * U)
      /\ unread' = unread - n /\ wrStep' = IF n < Asked THEN "zero" ELSE "read"
      /\ UNCHANGED file
  BY DEF ReadBlock
<1>3. /\ Asked \in 1..unread /\ n \in 0..Asked /\ n * U <= file.length - mPos
      /\ n = Asked => ReadTo(Asked * U) = mPos + Asked * U
      /\ n < Asked => (n + 1) * U > file.length - mPos
  BY <1>2, AskedIs
<1>4. /\ unread \in Nat /\ unread <= Units /\ H \in Nat /\ H = Units - unread
      /\ D + H * U <= file.length /\ mPos = D + H * U
      /\ buff \in Seq(Int) /\ Len(buff) = H * P
      /\ \A i \in 1..(H * P) : buff[i] = Wanted(i)
  BY <1>1 DEF UnitsInOrder, Handed, WrTyped
<1>5. D \in Nat /\ file.length \in Nat /\ mPos \in Nat
  <2>1. file.length \in Nat BY FileIs DEF WrTyped
  <2>2. D \in Nat BY ReadableIs
  <2> QED BY <2>1, <2>2 DEF WrTyped
<1>6. WrNext BY DEF WrNext
<1>7. /\ Units' = Units /\ UnitSize' = U /\ PerUnit' = P /\ DataAt' = D
      /\ \A i : Wanted(i)' = Wanted(i)
  BY <1>6, FileStays
<1>8. Handed' = H + n
  <2>1. Handed' = Units - (unread - n) BY <1>2, <1>7 DEF Handed
  <2> QED BY <1>1, <1>3, <1>4, <2>1
<1>9. more = [i \in 1..(n * P) |-> mPos + (i - 1) * b] BY DEF Samples
<1>10. \A i : Wanted(i) = D + (i - 1) * b BY DEF Wanted
<1> HIDE DEF b, n, H, P, U, D, more
<1>11. n * P \in Nat /\ H * P \in Nat /\ n \in Nat BY <1>1, <1>3, <1>4
<1>12. more \in Seq(Int) /\ Len(more) = n * P /\ \A i \in 1..(n * P) : more[i] = mPos + (i - 1) * b
  <2>1. \A i \in 1..(n * P) : mPos + (i - 1) * b \in Int BY <1>1, <1>5, <1>11
  <2>2. more \in [1..(n * P) -> Int] BY <1>9, <2>1
  <2>3. more \in Seq(Int) BY <1>11, <2>2, SeqDef
  <2>4. DOMAIN more = 1..(n * P) BY <1>9
  <2>5. Len(more) = n * P BY <1>11, <2>3, <2>4, LenProperties
  <2> QED BY <1>9, <2>3, <2>5
<1>13. /\ buff' \in Seq(Int) /\ Len(buff') = H * P + n * P
       /\ \A i \in 1..(H * P + n * P) :
            buff'[i] = IF i <= H * P THEN buff[i] ELSE more[i - H * P]
  <2>1. buff \in Seq(Int) /\ more \in Seq(Int) BY <1>4, <1>12
  <2>2. /\ buff \o more \in Seq(Int) /\ Len(buff \o more) = Len(buff) + Len(more)
        /\ \A i \in 1..(Len(buff) + Len(more)) :
             (buff \o more)[i] = IF i <= Len(buff) THEN buff[i] ELSE more[i - Len(buff)]
    BY ONLY <2>1, ConcatProperties
  <2>3. buff' = buff \o more BY <1>2
  <2> QED BY ONLY <1>4, <1>12, <2>2, <2>3
<1>14. (H + n) * P = H * P + n * P /\ (H + n) * U = H * U + n * U
  BY <1>1, <1>4, <1>11
<1>15. ASSUME NEW i \in 1..(H * P + n * P) PROVE buff'[i] = Wanted(i)
  <2>1. CASE i <= H * P
    <3>1. i \in 1..(H * P) BY <1>11, <1>15, <2>1
    <3>2. buff[i] = Wanted(i) BY <1>4, <3>1
    <3> QED BY <1>13, <1>15, <2>1, <3>2
  <2>2. CASE i > H * P
    <3> DEFINE j == i - H * P
    <3>1. j \in 1..(n * P) BY <1>11, <1>15, <2>2
    <3>2. buff'[i] = mPos + (j - 1) * b BY <1>11, <1>12, <1>13, <1>15, <2>2, <3>1
    <3>3. H * U + (j - 1) * b = (i - 1) * b
      <4>1. j = i - H * P /\ i \in Int /\ j \in Int BY <1>11, <1>15
      <4> HIDE DEF j
      <4>2. CASE P = 1
        <5>1. U = b BY <1>1, <4>2
        <5>2. j - 1 = (i - 1) - H BY <1>4, <4>1, <4>2
        <5> QED BY <1>1, <1>4, <4>1, <5>1, <5>2
      <4>3. CASE P = 2
        <5>1. U = 2 * b BY <1>1, <4>3
        <5>2. j - 1 = (i - 1) - 2 * H BY <1>4, <4>1, <4>3
        <5> QED BY <1>1, <1>4, <4>1, <5>1, <5>2
      <4> QED BY <1>1, <4>2, <4>3
    <3>4. H * U \in Int /\ (j - 1) * b \in Int BY <1>1, <1>4, <3>1
    <3> QED BY <1>4, <1>5, <1>10, <3>2, <3>3, <3>4
  <2> QED BY <1>11, <1>15, <2>1, <2>2
<1>16. UnitsInOrder'
  <2>1. unread' <= Units BY <1>1, <1>2, <1>4, <1>11
  <2>2. H * U \in Nat /\ n * U \in Nat BY <1>1, <1>4, <1>11
  <2>3. D + (H + n) * U <= file.length BY <1>3, <1>4, <1>5, <1>14, <2>2
  <2>4. \A i \in 1..((H + n) * P) : buff'[i] = Wanted(i)' BY <1>7, <1>14, <1>15
  <2> QED BY <1>2, <1>7, <1>8, <1>13, <1>14, <2>1, <2>3, <2>4 DEF UnitsInOrder
<1>17. wrStep' = "read" => mPos' = DataAt' + Handed' * UnitSize'
  <2>1. SUFFICES ASSUME wrStep' = "read" PROVE mPos' = D + (H + n) * U BY <1>7, <1>8
  <2>2. n = Asked BY <1>2, <1>3, <1>4, <2>1
  <2>3. H * U \in Nat /\ n * U \in Nat BY <1>1, <1>4, <1>11
  <2>4. mPos' = mPos + n * U BY <1>2, <1>3, <2>2
  <2> QED BY <1>4, <1>5, <1>14, <2>3, <2>4
<1>18. wrStep' = "zero" => unread' > 0 /\ DataAt' + (Handed' + 1) * UnitSize' > file'.length
  <2>1. SUFFICES ASSUME wrStep' = "zero" PROVE unread' > 0 /\ D + (H + n + 1) * U > file.length
    BY <1>2, <1>7, <1>8
  <2>2. n < Asked BY <1>2, <2>1
  <2>3. H * U \in Nat /\ (n + 1) * U \in Nat BY <1>1, <1>4, <1>11
  <2>4. (H + n + 1) * U = H * U + (n + 1) * U BY <1>1, <1>4, <1>11
  <2>5. unread' > 0 BY <1>2, <1>3, <1>4, <1>11, <2>2
  <2> DEFINE X == H * U
             Y == (n + 1) * U
  <2>6. X \in Nat /\ Y \in Nat /\ mPos = D + X /\ Y > file.length - mPos BY <1>3, <1>4, <2>2, <2>3
  <2>7. (H + n + 1) * U = X + Y BY <2>4
  <2> HIDE DEF X, Y
  <2>8. D + (X + Y) > file.length BY <1>5, <2>6
  <2> QED BY <2>5, <2>7, <2>8
<1> QED BY <1>2, <1>16, <1>17, <1>18

\* What is missing is silent.
LEMMA ZeroCompletes ==
  ASSUME WrTyped, Readable, ZeroUnread, UnitsInOrder,
         wrStep = "zero" => unread > 0 /\ DataAt + (Handed + 1) * UnitSize > file.length
  PROVE  Complete'
<1> DEFINE H == Handed
           P == PerUnit
           u == unread * P
           more == [i \in 1..u |-> Padding]
<1>1. P \in {1, 2} /\ Units \in Nat BY UnitsAre DEF WrTyped
<1>2. /\ buff' = buff \o more /\ UNCHANGED <<file, unread>>
      /\ wrStep = "zero" \/ unread = 0
  BY DEF ZeroUnread, Padding
<1>3. /\ unread \in Nat /\ unread <= Units /\ H \in Nat /\ H = Units - unread
      /\ DataAt + H * UnitSize <= file.length
      /\ buff \in Seq(Int) /\ Len(buff) = H * P
      /\ \A i \in 1..(H * P) : buff[i] = Wanted(i)
  BY <1>1 DEF UnitsInOrder, Handed, WrTyped
<1>4. WrNext BY DEF WrNext
<1>5. /\ Units' = Units /\ UnitSize' = UnitSize /\ PerUnit' = P /\ DataAt' = DataAt
      /\ \A i : Wanted(i)' = Wanted(i)
  BY <1>4, FileStays
<1>6. Handed' = H /\ Padding' = Padding BY <1>2, <1>5 DEF Handed, Padding
<1>7. Padding \in Int BY DEF Padding
<1>8. u \in Nat /\ H * P \in Nat /\ H * P + u = Units * P BY <1>1, <1>3
<1> HIDE DEF H, P, u
<1>9. more \in Seq(Int) /\ Len(more) = u /\ \A i \in 1..u : more[i] = Padding
  <2>1. more \in [1..u -> Int] BY <1>7
  <2>2. more \in Seq(Int) BY <1>8, <2>1, SeqDef
  <2>3. DOMAIN more = 1..u OBVIOUS
  <2> QED BY <1>8, <2>2, <2>3, LenProperties
<1> HIDE DEF more
<1>10. /\ buff' \in Seq(Int) /\ Len(buff') = H * P + u
       /\ \A i \in 1..(H * P + u) : buff'[i] = IF i <= H * P THEN buff[i] ELSE more[i - H * P]
  <2>1. buff \in Seq(Int) /\ more \in Seq(Int) BY <1>3, <1>9
  <2>2. /\ buff \o more \in Seq(Int) /\ Len(buff \o more) = Len(buff) + Len(more)
        /\ \A i \in 1..(Len(buff) + Len(more)) :
             (buff \o more)[i] = IF i <= Len(buff) THEN buff[i] ELSE more[i - Len(buff)]
    BY ONLY <2>1, ConcatProperties
  <2>3. buff' = buff \o more BY <1>2
  <2> QED BY ONLY <1>3, <1>9, <2>2, <2>3
<1>11. ASSUME NEW i \in 1..(Units * P)
       PROVE  buff'[i] = IF i <= H * P THEN Wanted(i) ELSE Padding
  <2>1. i \in 1..(H * P + u) BY <1>8, <1>11
  <2>2. CASE i <= H * P BY <1>3, <1>8, <1>10, <2>1, <2>2
  <2>3. CASE i > H * P
    <3>1. i - H * P \in 1..u BY <1>8, <2>1, <2>3
    <3> QED BY <1>8, <1>9, <1>10, <2>1, <2>3, <3>1
  <2> QED BY <1>8, <2>1, <2>2, <2>3
<1>12. unread > 0 => DataAt + (H + 1) * UnitSize > file.length BY <1>2, <1>3 DEF H
<1> QED BY <1>2, <1>3, <1>5, <1>6, <1>8, <1>10, <1>11, <1>12 DEF Complete
-----------------------------------------------------------------------------
\* The unit that sample i belongs to begins with its first byte.
UnitFits(b, P, U, i, H) ==
  \E q \in Nat : /\ (i - 1) * b - (((i - 1) * b) % U) = q * U
                 /\ q = (i - 1) \div P
                 /\ i <= H * P <=> q + 1 <= H

LEMMA UnitOfSample ==
  ASSUME NEW b \in 1..4, NEW P \in {1, 2}, NEW U \in {1, 2, 3, 4, 8}, U = P * b,
         NEW i \in Nat \ {0}, NEW H \in Nat
  PROVE  UnitFits(b, P, U, i, H)
<1> DEFINE q == (i - 1) \div P
           r == (i - 1) % P
           x == (i - 1) * b
<1>1. q \in Nat /\ r \in Int /\ i - 1 = P * q + r /\ 0 <= r /\ r < P
  <2>1. i - 1 \in Int /\ P \in Nat \ {0} OBVIOUS
  <2>2. q \in Int /\ r \in Int /\ i - 1 = P * q + r /\ 0 <= r /\ r < P BY <2>1, Division
  <2> HIDE DEF q, r
  <2>3. CASE P = 1 BY <2>2, <2>3
  <2>4. CASE P = 2 BY <2>2, <2>4
  <2> QED BY <2>2, <2>3, <2>4
<1> HIDE DEF q, r
<1>2. x = U * q + r * b /\ 0 <= r * b /\ r * b < U /\ (i <= H * P <=> q + 1 <= H)
      /\ r * b \in Int /\ x \in Int
  <2>1. CASE P = 1
    <3>1. r = 0 /\ i - 1 = q /\ U = b BY <1>1, <2>1
    <3> QED BY <1>1, <2>1, <3>1
  <2>2. CASE P = 2
    <3>1. U = 2 * b /\ r \in {0, 1} /\ i - 1 = 2 * q + r BY <1>1, <2>2
    <3>2. x = (2 * q + r) * b BY <3>1
    <3>3. i <= H * P <=> q + 1 <= H BY <1>1, <2>2, <3>1
    <3>4. CASE r = 0 BY <1>1, <3>1, <3>2, <3>3, <3>4
    <3>5. CASE r = 1 BY <1>1, <3>1, <3>2, <3>3, <3>5
    <3> QED BY <3>1, <3>4, <3>5
  <2> QED BY <2>1, <2>2
<1>3. x % U = r * b
  <2> HIDE DEF x
  <2>1. U \in Nat \ {0} OBVIOUS
  <2> QED BY <1>1, <1>2, <2>1, RemainderIs
<1>4. x - (x % U) = q * U BY <1>1, <1>2, <1>3
<1> QED BY <1>1, <1>2, <1>4 DEF q, UnitFits

LEMMA UnitTimes ==
  ASSUME NEW U \in {1, 2, 3, 4, 8}, NEW q \in Nat, NEW H \in Nat
  PROVE  /\ q * U \in Nat /\ H * U \in Nat /\ (H + 1) * U = H * U + U
         /\ q + 1 <= H => q * U + U <= H * U
         /\ q >= H => q * U >= H * U
<1>1. CASE U = 1 BY <1>1
<1>2. CASE U = 2 BY <1>2
<1>3. CASE U = 3 BY <1>3
<1>4. CASE U = 4 BY <1>4
<1>5. CASE U = 8 BY <1>5
<1> QED BY <1>1, <1>2, <1>3, <1>4, <1>5

LEMMA CompleteIsRead ==
  ASSUME WrTyped, Readable, Complete
  PROVE  buff = [i \in 1..(file.chunks[4].size \div file.format.bytes) |->
                   LET pos == End(file.chunks, 3) + 8 + (i - 1) * file.format.bytes
                       unit == pos - ((pos - End(file.chunks, 3) - 8) % UnitSize)
                   IN IF unit + UnitSize <= file.length THEN pos
                      ELSE IF file.format.bytes = 3 THEN -1 ELSE 0]
<1> DEFINE b == file.format.bytes
           U == UnitSize
           P == PerUnit
           H == Handed
           n == DataSize \div b
           pos(i) == DataAt + (i - 1) * b
           unit(i) == pos(i) - (((i - 1) * b) % U)
           byUnit(i) == IF unit(i) + U <= file.length THEN pos(i) ELSE Padding
<1>1. /\ b \in 1..4 /\ P \in {1, 2} /\ U = P * b /\ U \in {1, 2, 3, 4, 8} /\ Units \in Nat
      /\ Units * P = n
  BY UnitsAre DEF WrTyped
<1>2. DataAt \in Nat /\ DataAt = End(file.chunks, 3) + 8
  <2>1. DataAt \in Nat BY ReadableIs
  <2> QED BY <2>1 DEF DataAt
<1>3. file.length \in Nat /\ End(file.chunks, 3) \in Int
  <2>1. file.length \in Nat BY FileIs DEF WrTyped
  <2> DEFINE E == [k \in 0..5 |-> End(file.chunks, k)]
  <2>2. E[2] = 20 + file.chunks[2].size /\ E[3] = E[2] + 24 /\ file.chunks[2].size \in {0, 2}
    BY ReadableIs
  <2>3. E[3] = End(file.chunks, 3) OBVIOUS
  <2> HIDE DEF E
  <2> QED BY <2>1, <2>2, <2>3
<1>4. /\ H \in Nat /\ H <= Units /\ (H < Units <=> unread > 0)
      /\ DataAt + H * U <= file.length
      /\ unread > 0 => DataAt + (H + 1) * U > file.length
      /\ buff \in Seq(Int) /\ Len(buff) = n
      /\ \A i \in 1..n : buff[i] = IF i <= H * P THEN Wanted(i) ELSE Padding
  BY <1>1 DEF Complete, Handed, WrTyped
<1>5. \A i : Wanted(i) = pos(i) BY DEF Wanted
<1>6. n \in Nat BY <1>1
<1> HIDE DEF b, U, P, H, n
<1>7. ASSUME NEW i \in 1..n PROVE buff[i] = byUnit(i)
  <2>1. i \in Nat \ {0} BY <1>6
  <2>2. PICK q \in Nat : /\ (i - 1) * b - (((i - 1) * b) % U) = q * U
                         /\ q = (i - 1) \div P
                         /\ i <= H * P <=> q + 1 <= H
    <3>1. UnitFits(b, P, U, i, H) BY ONLY <1>1, <1>4, <2>1, UnitOfSample
    <3> QED BY ONLY <3>1 DEF UnitFits
  <2>3. q < Units
    <3>1. i <= Units * P <=> q + 1 <= Units
      <4>1. PICK p \in Nat : p = (i - 1) \div P /\ (i <= Units * P <=> p + 1 <= Units)
        <5>1. UnitFits(b, P, U, i, Units) BY ONLY <1>1, <2>1, UnitOfSample
        <5> QED BY ONLY <5>1 DEF UnitFits
      <4> QED BY <2>2, <4>1
    <3> QED BY <1>1, <1>6, <3>1
  <2>4. (i - 1) * b \in Int /\ ((i - 1) * b) % U \in Int
    <3>1. (i - 1) * b \in Int BY <1>1, <2>1
    <3>2. U \in Nat \ {0} BY <1>1
    <3> HIDE DEF pos
    <3> QED BY <3>1, <3>2, Division
  <2>5. unit(i) = DataAt + q * U BY <1>2, <2>2, <2>4
  <2> HIDE DEF unit, pos
  <2>6. unit(i) + U <= file.length <=> q + 1 <= H
    <3>1. /\ q * U \in Nat /\ H * U \in Nat /\ (H + 1) * U = H * U + U
          /\ q + 1 <= H => q * U + U <= H * U
          /\ q >= H => q * U >= H * U
      BY ONLY <1>1, <1>4, <2>2, UnitTimes
    <3>2. /\ U \in Nat /\ unit(i) = DataAt + q * U /\ DataAt + H * U <= file.length
          /\ unread > 0 => DataAt + (H + 1) * U > file.length
      BY <1>1, <1>4, <2>5
    <3> DEFINE X == q * U
               Y == H * U
               L == file.length
               A == unit(i)
    <3>3. /\ X \in Nat /\ Y \in Nat /\ A = DataAt + X /\ DataAt + Y <= L
          /\ unread > 0 => DataAt + (Y + U) > L
          /\ q + 1 <= H => X + U <= Y
          /\ q >= H => X >= Y
      BY <3>1, <3>2
    <3>4. L \in Nat BY <1>3
    <3> HIDE DEF X, Y, L, A
    <3>5. CASE q + 1 <= H
      <4>1. X + U <= Y BY <3>3, <3>5
      <4>2. A + U <= L BY <1>2, <3>2, <3>3, <3>4, <4>1
      <4> QED BY <3>5, <4>2 DEF A, L
    <3>6. CASE q + 1 > H
      <4>1. q >= H /\ unread > 0 BY <1>1, <1>4, <2>3, <3>6
      <4>2. X >= Y BY <3>3, <4>1
      <4>3. A + U > L BY <1>2, <3>2, <3>3, <3>4, <4>1, <4>2
      <4>4. ~(A + U <= L)
        <5>1. A \in Int BY <1>2, <3>3
        <5> QED BY <3>2, <3>4, <4>3, <5>1
      <4>5. ~(q + 1 <= H) BY <1>4, <3>6
      <4> QED BY <4>4, <4>5 DEF A, L
    <3> QED BY <1>4, <3>5, <3>6
  <2> QED BY <1>4, <1>5, <2>2, <2>6
<1>8. buff = [i \in 1..n |-> byUnit(i)]
  <2>1. DOMAIN buff = 1..n BY <1>4, <1>6, LenProperties
  <2>2. buff = [i \in 1..n |-> buff[i]] BY <1>4, <2>1, LenProperties
  <2> HIDE DEF byUnit
  <2> QED BY <1>7, <2>2
<1> DEFINE POS(i) == End(file.chunks, 3) + 8 + (i - 1) * b
           UNIT(i) == POS(i) - ((POS(i) - End(file.chunks, 3) - 8) % U)
           BYUNIT(i) == IF UNIT(i) + U <= file.length THEN POS(i) ELSE IF b = 3 THEN -1 ELSE 0
<1>9. ASSUME NEW i \in 1..n PROVE byUnit(i) = BYUNIT(i)
  <2>1. POS(i) = pos(i) BY <1>2
  <2>2. POS(i) - End(file.chunks, 3) - 8 = (i - 1) * b
    <3>1. (i - 1) * b \in Int BY <1>1, <1>6
    <3> QED BY <1>3, <3>1
  <2>3. UNIT(i) = unit(i) BY <2>1, <2>2
  <2> HIDE DEF UNIT, unit, POS, pos
  <2>4. Padding = IF b = 3 THEN -1 ELSE 0 BY DEF Padding, b
  <2> QED BY <2>1, <2>3, <2>4
<1>10. buff = [i \in 1..n |-> BYUNIT(i)]
  <2> HIDE DEF byUnit, BYUNIT
  <2> QED BY <1>8, <1>9
<1> QED BY <1>10 DEF n, b, U, DataSize

LEMMA WrInvWhole == WrInv => SamplesRead
<1> SUFFICES ASSUME WrInv PROVE SamplesRead OBVIOUS
<1>1. WrTyped BY DEF WrInv
<1>2. mPos <= file.length
  <2>1. file.length \in Nat BY <1>1, FileIs DEF WrTyped
  <2> QED BY <1>1, <2>1 DEF WrTyped
<1>3. SUFFICES ASSUME Readable
               PROVE  /\ wrStep # "failed"
                      /\ wrStep = "done" =>
                           buff = [i \in 1..(file.chunks[4].size \div file.format.bytes) |->
                             LET pos == End(file.chunks, 3) + 8 + (i - 1) * file.format.bytes
                                 unit == pos - ((pos - End(file.chunks, 3) - 8) % UnitSize)
                             IN IF unit + UnitSize <= file.length THEN pos
                                ELSE IF file.format.bytes = 3 THEN -1 ELSE 0]
  BY <1>2 DEF SamplesRead, Readable, DataAt
<1>4. wrStep # "failed" BY <1>3 DEF WrInv
<1>5. wrStep = "done" => Complete BY <1>3 DEF WrInv
<1> QED BY <1>1, <1>3, <1>4, <1>5, CompleteIsRead

LEMMA WrInvInit == WrInit => WrInv
<1> SUFFICES ASSUME WrInit PROVE WrInv OBVIOUS
<1>1. file \in Files /\ wrStep = "parse" /\ mPos = 0 /\ fmtRead = FALSE /\ dataStart = -1
      /\ mChunkSize = 0 /\ unread = 0 /\ buff = <<>>
  BY DEF WrInit
<1>2. file.length \in Nat BY <1>1, FileIs
<1>3. WrTyped
  <2>1. fmtRead \in BOOLEAN BY <1>1, Zenon
  <2>2. mPos \in 0..file.length /\ dataStart \in -1..file.length BY <1>1, <1>2
  <2> QED BY <1>1, <2>1, <2>2 DEF WrTyped
<1>4. Readable => ParsedTo(0)
  <2> SUFFICES ASSUME Readable PROVE ParsedTo(0) OBVIOUS
  <2> DEFINE E == [k \in 0..5 |-> End(file.chunks, k)]
  <2>1. E[0] = 0 BY <1>3, ReadableIs
  <2>2. End(file.chunks, 0) = 0 BY <2>1
  <2>3. fmtRead = (0 >= 3)
    <3>1. (0 >= 3) = FALSE OBVIOUS
    <3> QED BY <1>1, <3>1, Zenon
  <2> QED BY <1>1, <1>2, <2>2, <2>3 DEF ParsedTo
<1> QED BY <1>1, <1>3, <1>4 DEF WrInv

LEMMA WrInvStep == WrInv /\ [WrNext]_wrVars => WrInv'
<1> SUFFICES ASSUME WrInv, [WrNext]_wrVars PROVE WrInv' OBVIOUS
<1>1. WrTyped BY DEF WrInv
<1>2. CASE UNCHANGED wrVars
  <2>1. UNCHANGED <<file, wrStep, mPos, fmtRead, dataStart, mChunkSize, unread, buff>>
    BY <1>2 DEF wrVars
  <2> QED BY <2>1 DEF WrInv, WrTyped, Readable, WellFormed, ParsedTo, UnitsInOrder, Complete,
                      DataAt, DataSize, Units, Handed, Wanted, Padding, FrameSize, UnitSize, PerUnit
<1>3. CASE WrNext
  <2>1. WrTyped' BY <1>1, <1>3, ReaderTyped
  <2>2. /\ file' = file /\ Readable' = Readable /\ DataAt' = DataAt /\ DataSize' = DataSize
        /\ Units' = Units /\ UnitSize' = UnitSize
    BY <1>3, FileStays
  <2>3. SUFFICES ASSUME Readable
                 PROVE  /\ wrStep' # "failed"
                        /\ wrStep' = "parse" => \E k \in 0..5 : ParsedTo(k)'
                        /\ wrStep' = "position" =>
                             fmtRead' /\ dataStart' = DataAt' /\ mChunkSize' = DataSize'
                        /\ wrStep' \in {"parse", "position"} => buff' = <<>>
                        /\ wrStep' = "read" =>
                             UnitsInOrder' /\ mPos' = DataAt' + Handed' * UnitSize'
                        /\ wrStep' = "zero" =>
                             /\ UnitsInOrder' /\ unread' > 0
                             /\ DataAt' + (Handed' + 1) * UnitSize' > file'.length
                        /\ wrStep' = "done" => Complete'
    BY <2>1, <2>2 DEF WrInv
  <2>4. CASE Parse
    <3>1. wrStep = "parse" /\ wrStep' = "parse" /\ buff' = buff BY <2>4 DEF Parse
    <3>2. PICK k \in 0..5 : ParsedTo(k) BY <2>3, <3>1 DEF WrInv
    <3>3. \E k1 \in 0..5 : ParsedTo(k1)' BY <1>1, <2>3, <2>4, <3>2, ChunkParsed
    <3>4. buff = <<>> BY <2>3, <3>1 DEF WrInv
    <3> QED BY <3>1, <3>3, <3>4
  <2>5. CASE ParseEnd
    <3>1. /\ wrStep = "parse" /\ wrStep' = "position" /\ Available = 0
          /\ UNCHANGED <<fmtRead, dataStart, mChunkSize, buff>>
      BY <2>5 DEF ParseEnd
    <3>2. PICK k \in 0..5 : ParsedTo(k) BY <2>3, <3>1 DEF WrInv
    <3>3. fmtRead /\ dataStart = DataAt /\ mChunkSize = DataSize
      BY <1>1, <2>3, <3>1, <3>2, ParsedAll
    <3>4. buff = <<>> BY <2>3, <3>1 DEF WrInv
    <3>5. fmtRead' BY <3>1, <3>3, Zenon
    <3> QED BY <2>2, <3>1, <3>3, <3>4, <3>5
  <2>6. CASE Position
    <3>1. fmtRead /\ dataStart = DataAt /\ mChunkSize = DataSize /\ buff = <<>>
      BY <2>3, <2>6 DEF WrInv, Position
    <3>2. DataAt \in Nat /\ DataAt < file.length BY <1>1, <2>3, ReadableIs
    <3>3. file.length \in Nat BY <1>1, FileIs DEF WrTyped
    <3>4. dataStart # -1 BY <3>1, <3>2
    <3>5. wrStep' = "read" /\ UNCHANGED buff
      <4>1. wrStep' = IF fmtRead /\ dataStart # -1 THEN "read" ELSE "failed" BY <2>6 DEF Position
      <4> QED BY <2>6, <3>1, <3>4, <4>1 DEF Position
    <3>6. unread' = Units
      <4>1. unread' = IF fmtRead THEN (mChunkSize \div FrameSize) * (FrameSize \div UnitSize) ELSE 0
        BY <2>6 DEF Position
      <4> QED BY <3>1, <4>1 DEF Units
    <3>7. mPos' = DataAt
      <4>1. mPos' = SetPos(DataAt) BY <2>6, <3>1, <3>4 DEF Position
      <4>2. DataAt > 0
        <5> DEFINE E == [k \in 0..5 |-> End(file.chunks, k)]
        <5>1. E[2] = 20 + file.chunks[2].size /\ E[3] = E[2] + 24 /\ file.chunks[2].size \in {0, 2}
              /\ DataAt = E[3] + 8
          BY <1>1, <2>3, ReadableIs
        <5> HIDE DEF E
        <5> QED BY <5>1
      <4> QED BY <3>2, <3>3, <4>1, <4>2 DEF SetPos
    <3>8. Units \in Nat BY <1>1, UnitsAre DEF WrTyped
    <3>9. Handed' = 0 BY <2>2, <3>6, <3>8 DEF Handed
    <3>10. PerUnit' \in {1, 2} /\ UnitSize \in Nat
      <4>1. PerUnit \in {1, 2} /\ UnitSize \in {1, 2, 3, 4, 8} BY <1>1, UnitsAre DEF WrTyped
      <4>2. PerUnit' = PerUnit BY <1>3, FileStays
      <4> QED BY <4>1, <4>2
    <3>11. buff' = <<>> BY <3>1, <3>5
    <3>12. buff' \in Seq(Int) /\ Len(buff') = 0 BY <3>11
    <3>13. Handed' * PerUnit' = 0 /\ Handed' * UnitSize' = 0
      <4>1. ASSUME NEW m \in Nat PROVE 0 * m = 0 OBVIOUS
      <4>2. PerUnit' \in Nat /\ UnitSize' \in Nat BY <2>2, <3>10
      <4>3. 0 * PerUnit' = 0 /\ 0 * UnitSize' = 0 BY <4>1, <4>2
      <4> QED BY <3>9, <4>3
    <3>14. UnitsInOrder'
      <4>1. DataAt' + Handed' * UnitSize' <= file'.length BY <2>2, <3>2, <3>3, <3>13
      <4>2. unread' <= Units' BY <2>2, <3>6, <3>8
      <4> QED BY <3>12, <3>13, <4>1, <4>2 DEF UnitsInOrder
    <3> QED BY <2>2, <3>2, <3>5, <3>7, <3>13, <3>14
  <2>7. CASE ReadBlock
    <3>1. wrStep = "read" BY <2>7 DEF ReadBlock
    <3>2. UnitsInOrder /\ mPos = DataAt + Handed * UnitSize BY <2>3, <3>1 DEF WrInv
    <3>3. /\ UnitsInOrder'
          /\ wrStep' = "read" => mPos' = DataAt' + Handed' * UnitSize'
          /\ wrStep' = "zero" => /\ unread' > 0
                                 /\ DataAt' + (Handed' + 1) * UnitSize' > file'.length
          /\ wrStep' \in {"read", "zero"}
      BY <1>1, <2>3, <2>7, <3>2, BlockInOrder
    <3> QED BY <3>3
  <2>8. CASE ZeroUnread
    <3>1. wrStep \in {"read", "zero"} /\ wrStep' = "done" BY <2>8 DEF ZeroUnread
    <3>2. UnitsInOrder BY <2>3, <3>1 DEF WrInv
    <3>3. wrStep = "zero" => unread > 0 /\ DataAt + (Handed + 1) * UnitSize > file.length
      BY <2>3 DEF WrInv
    <3>4. Complete' BY <1>1, <2>3, <2>8, <3>2, <3>3, ZeroCompletes
    <3> QED BY <3>1, <3>4
  <2> QED BY <1>3, <2>4, <2>5, <2>6, <2>7, <2>8 DEF WrNext
<1> QED BY <1>2, <1>3

\* What loadSampleData reads of a file are the samples of its data chunk, in
\* order and whole, for every size of the blocks and number of frames, wherever
\* the file is cut off behind the start of its data.
THEOREM SamplesAreRead == WrSpec => []SamplesRead
<1> QED BY WrInvInit, WrInvStep, WrInvWhole, PTL DEF WrSpec
-----------------------------------------------------------------------------
\* The two ways to a player's samples: an asset that a codec decodes, whose blocks
\* are played in order from the first, to the last or to a read that failed, but
\* AxDelay of them at most that FFmpeg's codec keeps; and a file that parselib
\* reads, of which all samples are played.
THEOREM FilesAreDecoded == AxSpec /\ WrSpec => []FilesDecoded
<1>1. AxSpec => []DecodedWhole BY AssetsAreWhole
<1>2. WrSpec => []SamplesRead BY SamplesAreRead
<1>3. DecodedWhole /\ SamplesRead => FilesDecoded BY DEF FilesDecoded
<1> QED BY <1>1, <1>2, <1>3, PTL
-----------------------------------------------------------------------------
(* SampleEngines *)

SeApis == {"unspecified", "aaudio"}
SeDevice == SeDevices \cup {0}
SeStream == [life : {"open", "running", "closed"}, api : SeApis, device : SeDevice,
             channels : 1..2]

SeTyped ==
  /\ seHello \in BOOLEAN /\ seFailed \in BOOLEAN /\ seOverlap \in BOOLEAN
  /\ seStreams \in Seq(SeStream) /\ seRoute \in 1..2
  /\ seEngine \in [live : BOOLEAN, api : SeApis, device : SeDevice, channels : 0..2,
                   stream : 0..Len(seStreams), source : 0..2, tune : BOOLEAN]
  /\ seShown \in [api : SeApis, device : SeDevice, auto : BOOLEAN]
  /\ seUI \in [at : {"paused", "creating", "resting", "stopping", "starting"},
               setting : {"none", "api", "channels", "device"}]
  /\ seUI.at \in {"paused", "resting"} => seUI.setting = "none"
  /\ seError \in [at : {"none", "closing", "restarting"}, stream : 0..Len(seStreams)]
  /\ seError.at = "none" => seError.stream = 0

\* The error thread is at the engine only while the screen rests, and then with
\* the engine's stream.
Apart ==
  seError.at # "none" => /\ seUI.at = "resting" /\ seEngine.stream # 0
                         /\ seError.stream = seEngine.stream

\* Every stream but the engine's is closed, and this one when a thread is about
\* to open another.
OneOpen ==
  \A n \in 1..Len(seStreams) : seStreams[n].life # "closed" =>
    /\ n = seEngine.stream /\ seUI.at \in {"resting", "stopping"}
    /\ seError.at # "restarting"

Playing ==
  /\ seUI.at = "resting" /\ ~seFailed => seEngine.stream # 0
  /\ seUI.at \in {"paused", "creating", "starting"} => seEngine.stream = 0
  /\ seEngine.stream # 0 \/ seUI.at = "starting" => seEngine.live
  /\ seUI.at \in {"stopping", "starting"} => seHello
  /\ seUI.at = "stopping" => seEngine.stream # 0

\* What the screen shows is what the engine asks for, unless the engine has no
\* stream and is not about to open one.
AsShown ==
  seEngine.stream # 0 \/ seUI.at \in {"creating", "starting"} =>
    /\ seEngine.api = seShown.api /\ seEngine.device = seShown.device
    /\ seEngine.tune = seShown.auto

\* And the stream is what the engine asked for, until a spinner changes that.
AsAsked ==
  seEngine.stream # 0 /\ seUI.at = "resting" =>
    LET s == seStreams[seEngine.stream]
    IN /\ s.api = seEngine.api /\ s.device = seEngine.device
       /\ s.channels = seEngine.source

SeInv == SeTyped /\ (~seOverlap => Apart /\ OneOpen /\ Playing /\ AsShown /\ AsAsked)
-----------------------------------------------------------------------------
LEMMA ClosedIs ==
  ASSUME seStreams \in Seq(SeStream), NEW n \in 0..Len(seStreams)
  PROVE  /\ Closed(seStreams, n) \in Seq(SeStream)
         /\ Len(Closed(seStreams, n)) = Len(seStreams)
         /\ \A m \in 1..Len(seStreams) :
              /\ Closed(seStreams, n)[m].life =
                   IF m = n THEN "closed" ELSE seStreams[m].life
              /\ Closed(seStreams, n)[m].api = seStreams[m].api
              /\ Closed(seStreams, n)[m].device = seStreams[m].device
              /\ Closed(seStreams, n)[m].channels = seStreams[m].channels
<1>1. CASE n = 0 BY <1>1 DEF Closed
<1>2. CASE n # 0
  <2> DEFINE s == [seStreams[n] EXCEPT !.life = "closed"]
  <2>1. n \in 1..Len(seStreams) /\ seStreams[n] \in SeStream BY <1>2
  <2>2. /\ s \in SeStream /\ s.life = "closed" /\ s.api = seStreams[n].api
        /\ s.device = seStreams[n].device /\ s.channels = seStreams[n].channels
    BY <2>1 DEF SeStream
  <2>3. Closed(seStreams, n) = [seStreams EXCEPT ![n] = s] BY <1>2, <2>1 DEF Closed
  <2> HIDE DEF s
  <2> QED BY <2>1, <2>2, <2>3
<1> QED BY <1>1, <1>2

LEMMA RequestedIs ==
  ASSUME SeTyped
  PROVE  /\ Requested.api = seEngine.api /\ Requested.device = seEngine.device
         /\ Requested.channels \in 1..2
         /\ DOMAIN Requested = {"api", "device", "channels"}
BY DEF SeTyped, Requested

LEMMA OpeningIs ==
  ASSUME SeTyped, NEW opens \in BOOLEAN, NEW plays \in BOOLEAN, Opening(opens, plays)
  PROVE  /\ plays => opens
         /\ seFailed' = (seFailed \/ ~plays)
         /\ seStreams' \in Seq(SeStream)
         /\ Len(seStreams') = IF opens THEN Len(seStreams) + 1 ELSE Len(seStreams)
         /\ \A m \in 1..Len(seStreams) : seStreams'[m] = seStreams[m]
         /\ opens => LET s == seStreams'[Len(seStreams) + 1]
                     IN /\ s.api = seEngine.api /\ s.device = seEngine.device
                        /\ s.channels = Requested.channels
                        /\ ~plays /\ seHello => s.life = "closed"
<1>1. PICK life \in {"open", "running", "closed"} :
        /\ ~plays /\ seHello => life = "closed"
        /\ seStreams' = IF opens THEN Append(seStreams, [life |-> life,
                                                api |-> Requested.api,
                                                device |-> Requested.device,
                                                channels |-> Requested.channels])
                                 ELSE seStreams
  BY DEF Opening
<1> DEFINE s == [life |-> life, api |-> Requested.api, device |-> Requested.device,
                 channels |-> Requested.channels]
<1>3. s \in SeStream BY RequestedIs DEF SeTyped, SeStream
<1>4. /\ s.life = life /\ s.api = seEngine.api /\ s.device = seEngine.device
      /\ s.channels = Requested.channels
  BY RequestedIs
<1>5. seStreams' = IF opens THEN Append(seStreams, s) ELSE seStreams BY <1>1
<1> HIDE DEF s
<1>6. seStreams \in Seq(SeStream) BY DEF SeTyped
<1>7. CASE opens BY <1>1, <1>3, <1>4, <1>5, <1>6, <1>7 DEF Opening
<1>8. CASE ~opens BY <1>5, <1>6, <1>8 DEF Opening
<1> QED BY <1>7, <1>8

LEMMA StartedIs ==
  ASSUME SeTyped, NEW opens \in BOOLEAN, NEW plays \in BOOLEAN, plays => opens
  PROVE  LET e == SeStarted(opens, plays)
         IN /\ e.live = seEngine.live /\ e.api = seEngine.api /\ e.device = seEngine.device
            /\ e.tune = seEngine.tune
            /\ e.stream = IF opens /\ (plays \/ ~seHello) THEN Len(seStreams) + 1 ELSE 0
            /\ e.stream # 0 => e.source = Requested.channels
            /\ e \in [live : BOOLEAN, api : SeApis, device : SeDevice, channels : 0..2,
                      stream : 0..(IF opens THEN Len(seStreams) + 1 ELSE Len(seStreams)),
                      source : 0..2, tune : BOOLEAN]
<1> DEFINE E(top) == [live : BOOLEAN, api : SeApis, device : SeDevice, channels : 0..2,
                      stream : 0..top, source : 0..2, tune : BOOLEAN]
           len == Len(seStreams)
           c == Requested.channels
           v == [seEngine EXCEPT !.stream = len + 1]
           w == [v EXCEPT !.source = c]
           h == [w EXCEPT !.channels = c]
<1>1. len \in Nat /\ seEngine \in E(len) /\ seHello \in BOOLEAN BY DEF SeTyped
<1>2. c \in 0..2 BY RequestedIs
<1>3. WithSource(seEngine, Requested) = w BY DEF WithSource
<1> HIDE DEF len, c
<1>4. v \in E(len + 1) /\ v.stream = len + 1 /\ v.live = seEngine.live
      /\ v.api = seEngine.api /\ v.device = seEngine.device /\ v.tune = seEngine.tune
  BY <1>1
<1> HIDE DEF v
<1>5. w \in E(len + 1) /\ w.stream = len + 1 /\ w.source = c /\ w.live = seEngine.live
      /\ w.api = seEngine.api /\ w.device = seEngine.device /\ w.tune = seEngine.tune
  BY <1>2, <1>4
<1> HIDE DEF w
<1>6. CASE ~opens
  <2>1. SeStarted(opens, plays) = [seEngine EXCEPT !.stream = 0]
    BY <1>6 DEF SeStarted, HelloStart, SynthStart
  <2> QED BY <1>1, <1>6, <2>1 DEF len
<1>7. CASE opens /\ ~seHello
  <2>1. SeStarted(opens, plays) = w BY <1>3, <1>7 DEF SeStarted, SynthStart
  <2> QED BY <1>1, <1>5, <1>7, <2>1 DEF len, c
<1>8. CASE opens /\ seHello
  <2>1. SeStarted(opens, plays) = [h EXCEPT !.stream = IF plays THEN @ ELSE 0]
    BY <1>3, <1>8 DEF SeStarted, HelloStart, c
  <2>2. h \in E(len + 1) /\ h.stream = len + 1 /\ h.source = c /\ h.live = seEngine.live
        /\ h.api = seEngine.api /\ h.device = seEngine.device /\ h.tune = seEngine.tune
    BY <1>2, <1>5
  <2> HIDE DEF h
  <2>3. CASE plays
    <3>1. SeStarted(opens, plays) = h BY <2>1, <2>2, <2>3
    <3> QED BY <1>8, <2>2, <2>3, <3>1 DEF len, c
  <2>4. CASE ~plays
    <3>1. SeStarted(opens, plays) = [h EXCEPT !.stream = 0] BY <2>1, <2>4
    <3> DEFINE g == [h EXCEPT !.stream = 0]
    <3>2. /\ g \in E(len + 1) /\ g.stream = 0 /\ g.live = h.live /\ g.api = h.api
          /\ g.device = h.device /\ g.tune = h.tune
      BY <1>1, <2>2
    <3> HIDE DEF g
    <3>3. SeStarted(opens, plays) = g BY <3>1 DEF g
    <3> QED BY <1>8, <2>2, <2>4, <3>2, <3>3 DEF len
  <2> QED BY <2>3, <2>4
<1> QED BY <1>1, <1>6, <1>7, <1>8
-----------------------------------------------------------------------------
LEMMA SeInitially == SeInit => SeInv
<1> SUFFICES ASSUME SeInit PROVE SeInv OBVIOUS
<1>1. /\ seStreams = <<>> /\ seStreams \in Seq(SeStream) /\ Len(seStreams) = 0
      /\ seRoute \in 1..2 /\ seHello \in BOOLEAN /\ seFailed = FALSE /\ seOverlap = FALSE
      /\ seShown \in [api : SeApis, device : SeDevice, auto : BOOLEAN]
      /\ seUI = Paused /\ seError = Quiet
  BY DEF SeInit, Defaults, SeApis, SeDevice
<1>2. seEngine = [live |-> FALSE, api |-> "unspecified", device |-> 0, channels |-> 0,
                  stream |-> 0, source |-> 0, tune |-> TRUE]
  BY DEF SeInit, FirstState
<1>3. seEngine \in [live : BOOLEAN, api : SeApis, device : SeDevice, channels : 0..2,
                    stream : 0..Len(seStreams), source : 0..2, tune : BOOLEAN]
  BY <1>1, <1>2 DEF SeApis, SeDevice
<1>4. seError \in [at : {"none", "closing", "restarting"}, stream : 0..Len(seStreams)]
  BY <1>1 DEF Quiet
<1>5. SeTyped BY <1>1, <1>3, <1>4 DEF SeTyped, Paused, Quiet
<1> QED BY <1>1, <1>2, <1>5
     DEF SeInv, Apart, OneOpen, Playing, AsShown, AsAsked, Paused, Quiet

\* When every stream is closed a thread opens another, or fails to: the engine's
\* one is then the only one that is open, and as it is asked for.
LEMMA OpeningKeeps ==
  ASSUME SeTyped, NEW opens \in BOOLEAN, NEW plays \in BOOLEAN, Opening(opens, plays),
         NEW e, e = SeStarted(opens, plays),
         \A n \in 1..Len(seStreams) : seStreams[n].life = "closed",
         seUI'.at = "resting", seError' = Quiet, seShown' = seShown,
         seEngine'.stream = e.stream, seEngine'.api = e.api, seEngine'.source = e.source,
         seEngine'.tune = e.tune, e.stream # 0 => seEngine'.device = e.device,
         e.stream # 0 => seEngine'.live,
         seEngine.api = seShown.api, seEngine.device = seShown.device,
         seEngine.tune = seShown.auto
  PROVE  Apart' /\ OneOpen' /\ Playing' /\ AsShown' /\ AsAsked'
<1> DEFINE len == Len(seStreams)
           runs == opens /\ (plays \/ ~seHello)
<1>1. /\ plays => opens
      /\ seFailed' = (seFailed \/ ~plays)
      /\ len \in Nat /\ Len(seStreams') = IF opens THEN len + 1 ELSE len
      /\ \A m \in 1..len : seStreams'[m] = seStreams[m]
  BY OpeningIs DEF SeTyped
<1>2. opens => /\ seStreams'[len + 1].api = seEngine.api
               /\ seStreams'[len + 1].device = seEngine.device
               /\ seStreams'[len + 1].channels = Requested.channels
               /\ ~plays /\ seHello => seStreams'[len + 1].life = "closed"
  BY OpeningIs
<1>3. /\ e.api = seEngine.api /\ e.device = seEngine.device /\ e.tune = seEngine.tune
      /\ e.stream = IF runs THEN len + 1 ELSE 0
      /\ e.stream # 0 => e.source = Requested.channels
  BY <1>1, StartedIs
<1> HIDE DEF len
<1>4. Apart' BY DEF Apart, Quiet
<1>5. OneOpen'
  <2> SUFFICES ASSUME NEW n \in 1..Len(seStreams'), seStreams'[n].life # "closed"
               PROVE  n = e.stream
    BY DEF OneOpen, Quiet
  <2>1. ~(n \in 1..len) BY <1>1 DEF len
  <2>2. opens /\ n = len + 1 BY <1>1, <2>1
  <2> QED BY <1>2, <1>3, <2>2
<1>6. Playing'
  <2>1. ~seFailed' => opens /\ plays BY <1>1, Zenon
  <2>2. ~seFailed' => e.stream # 0 BY <1>1, <1>3, <2>1
  <2> QED BY <2>2 DEF Playing
<1>7. AsShown' BY <1>1, <1>3 DEF AsShown
<1>8. AsAsked' BY <1>1, <1>2, <1>3 DEF AsAsked
<1> QED BY <1>4, <1>5, <1>6, <1>7, <1>8

LEMMA OpenedTyped ==
  ASSUME SeTyped, NEW opens \in BOOLEAN, NEW plays \in BOOLEAN, Opening(opens, plays)
  PROVE  /\ seStreams' \in Seq(SeStream) /\ seFailed' \in BOOLEAN
         /\ SeStarted(opens, plays) \in
              [live : BOOLEAN, api : SeApis, device : SeDevice, channels : 0..2,
               stream : 0..Len(seStreams'), source : 0..2, tune : BOOLEAN]
         /\ Len(seStreams') \in Nat /\ Len(seStreams) <= Len(seStreams')
<1>1. /\ plays => opens
      /\ seFailed' = (seFailed \/ ~plays) /\ seFailed \in BOOLEAN
      /\ seStreams' \in Seq(SeStream) /\ Len(seStreams) \in Nat
      /\ Len(seStreams') = IF opens THEN Len(seStreams) + 1 ELSE Len(seStreams)
  BY OpeningIs DEF SeTyped
<1>2. SeStarted(opens, plays) \in
              [live : BOOLEAN, api : SeApis, device : SeDevice, channels : 0..2,
               stream : 0..Len(seStreams'), source : 0..2, tune : BOOLEAN]
  BY <1>1, StartedIs
<1> QED BY <1>1, <1>2

LEMMA StartEngineKeeps ==
  ASSUME SeInv, NEW opens \in BOOLEAN, NEW plays \in BOOLEAN, StartEngine(opens, plays),
         seHello' = seHello
  PROVE  SeInv'
<1> DEFINE e == SeStarted(opens, plays)
<1>1. /\ SeTyped /\ seUI.at = "creating" /\ seUI' = Rests /\ Opening(opens, plays)
      /\ seEngine' = [e EXCEPT !.live = seHello \/ opens]
      /\ seShown' = seShown /\ seRoute' = seRoute /\ seError' = seError
      /\ seOverlap' = seOverlap
  BY DEF StartEngine, SeInv
<1>2. /\ e \in [live : BOOLEAN, api : SeApis, device : SeDevice, channels : 0..2,
                stream : 0..Len(seStreams'), source : 0..2, tune : BOOLEAN]
      /\ seStreams' \in Seq(SeStream) /\ seFailed' \in BOOLEAN
      /\ Len(seStreams') \in Nat /\ Len(seStreams) <= Len(seStreams')
  BY <1>1, OpenedTyped
<1>3. (seHello \/ opens) \in BOOLEAN BY <1>1 DEF SeTyped
<1>s. e.stream # 0 => opens BY <1>1, StartedIs DEF Opening
<1> HIDE DEF e
<1>4. /\ seEngine' \in [live : BOOLEAN, api : SeApis, device : SeDevice, channels : 0..2,
                        stream : 0..Len(seStreams'), source : 0..2, tune : BOOLEAN]
      /\ seEngine'.stream = e.stream /\ seEngine'.api = e.api /\ seEngine'.source = e.source
      /\ seEngine'.tune = e.tune /\ seEngine'.device = e.device
      /\ seEngine'.live = (seHello \/ opens)
  BY <1>1, <1>2, <1>3
<1>5. SeTyped' BY <1>1, <1>2, <1>4 DEF SeTyped, Rests
<1>6. ASSUME ~seOverlap PROVE Apart' /\ OneOpen' /\ Playing' /\ AsShown' /\ AsAsked'
  <2>1. Apart /\ OneOpen /\ Playing /\ AsShown BY <1>6 DEF SeInv
  <2>2. \A n \in 1..Len(seStreams) : seStreams[n].life = "closed" BY <1>1, <2>1 DEF OneOpen
  <2>3. seError' = Quiet BY <1>1, <2>1 DEF Apart, SeTyped, Quiet
  <2>4. /\ seEngine.api = seShown.api /\ seEngine.device = seShown.device
        /\ seEngine.tune = seShown.auto
    BY <1>1, <2>1 DEF AsShown
  <2>5. seUI'.at = "resting" BY <1>1 DEF Rests
  <2>6. e = SeStarted(opens, plays) BY DEF e
  <2> QED BY <1>1, <1>4, <1>s, <2>2, <2>3, <2>4, <2>5, <2>6, OpeningKeeps
<1> QED BY <1>1, <1>5, <1>6 DEF SeInv

LEMMA ReopenStartKeeps ==
  ASSUME SeInv, NEW opens \in BOOLEAN, NEW plays \in BOOLEAN, ReopenStart(opens, plays),
         seHello' = seHello
  PROVE  SeInv'
<1> DEFINE e == SeStarted(opens, plays)
<1>1. /\ SeTyped /\ seUI.at = "starting" /\ seUI' = Rests /\ Opening(opens, plays)
      /\ seShown' = seShown /\ seRoute' = seRoute /\ seError' = seError
      /\ seOverlap' = seOverlap
      /\ \/ seEngine' = e
         \/ seEngine' = [e EXCEPT !.device = 0] /\ ~plays
  BY DEF ReopenStart, SeInv
<1>2. /\ e \in [live : BOOLEAN, api : SeApis, device : SeDevice, channels : 0..2,
                stream : 0..Len(seStreams'), source : 0..2, tune : BOOLEAN]
      /\ seStreams' \in Seq(SeStream) /\ seFailed' \in BOOLEAN
      /\ Len(seStreams') \in Nat /\ Len(seStreams) <= Len(seStreams')
  BY <1>1, OpenedTyped
<1>3. e.live = seEngine.live BY <1>1, StartedIs DEF Opening
<1>s. e = SeStarted(opens, plays) OBVIOUS
<1> HIDE DEF e
<1>4. /\ seEngine' \in [live : BOOLEAN, api : SeApis, device : SeDevice, channels : 0..2,
                        stream : 0..Len(seStreams'), source : 0..2, tune : BOOLEAN]
      /\ seEngine'.stream = e.stream /\ seEngine'.api = e.api /\ seEngine'.source = e.source
      /\ seEngine'.tune = e.tune /\ seEngine'.live = e.live
      /\ seEngine'.device = e.device \/ ~plays
  <2>1. 0 \in SeDevice BY DEF SeDevice
  <2>2. CASE seEngine' = e BY <1>2, <2>2
  <2>3. CASE seEngine' = [e EXCEPT !.device = 0] /\ ~plays BY <1>2, <2>1, <2>3
  <2> QED BY <1>1, <2>2, <2>3
<1>5. SeTyped' BY <1>1, <1>2, <1>4 DEF SeTyped, Rests
<1>6. ASSUME ~seOverlap PROVE Apart' /\ OneOpen' /\ Playing' /\ AsShown' /\ AsAsked'
  <2>1. Apart /\ OneOpen /\ Playing /\ AsShown BY <1>6 DEF SeInv
  <2>2. \A n \in 1..Len(seStreams) : seStreams[n].life = "closed" BY <1>1, <2>1 DEF OneOpen
  <2>3. seError' = Quiet BY <1>1, <2>1 DEF Apart, SeTyped, Quiet
  <2>4. /\ seEngine.api = seShown.api /\ seEngine.device = seShown.device
        /\ seEngine.tune = seShown.auto
    BY <1>1, <2>1 DEF AsShown
  <2>5. seUI'.at = "resting" BY <1>1 DEF Rests
  <2>6. seEngine'.live BY <1>1, <1>3, <1>4, <2>1 DEF Playing
  <2>7. e.stream # 0 => plays BY <1>1, <1>s, <2>1, StartedIs DEF Playing, Opening
  <2> QED BY <1>1, <1>4, <1>s, <2>2, <2>3, <2>4, <2>5, <2>6, <2>7, OpeningKeeps
<1> QED BY <1>1, <1>5, <1>6 DEF SeInv

LEMMA RestartKeeps ==
  ASSUME SeInv, NEW opens \in BOOLEAN, NEW plays \in BOOLEAN, SeRestart(opens, plays),
         seHello' = seHello
  PROVE  SeInv'
<1> DEFINE e == SeStarted(opens, plays)
<1>1. /\ SeTyped /\ seError.at = "restarting" /\ seError' = Quiet /\ Opening(opens, plays)
      /\ seShown' = seShown /\ seRoute' = seRoute /\ seUI' = seUI
      /\ seOverlap' = seOverlap /\ seEngine' = e
  BY DEF SeRestart, SeInv
<1>2. /\ e \in [live : BOOLEAN, api : SeApis, device : SeDevice, channels : 0..2,
                stream : 0..Len(seStreams'), source : 0..2, tune : BOOLEAN]
      /\ seStreams' \in Seq(SeStream) /\ seFailed' \in BOOLEAN
      /\ Len(seStreams') \in Nat /\ Len(seStreams) <= Len(seStreams')
  BY <1>1, OpenedTyped
<1>3. e.live = seEngine.live /\ e.api = seEngine.api BY <1>1, StartedIs DEF Opening
<1>s. e = SeStarted(opens, plays) OBVIOUS
<1> HIDE DEF e
<1>5. SeTyped' BY <1>1, <1>2 DEF SeTyped, Quiet
<1>6. ASSUME ~seOverlap PROVE Apart' /\ OneOpen' /\ Playing' /\ AsShown' /\ AsAsked'
  <2>1. Apart /\ OneOpen /\ Playing /\ AsShown BY <1>6 DEF SeInv
  <2>2. \A n \in 1..Len(seStreams) : seStreams[n].life = "closed" BY <1>1, <2>1 DEF OneOpen
  <2>3. seUI'.at = "resting" /\ seEngine.stream # 0 BY <1>1, <2>1 DEF Apart
  <2>4. /\ seEngine.api = seShown.api /\ seEngine.device = seShown.device
        /\ seEngine.tune = seShown.auto
    BY <2>1, <2>3 DEF AsShown
  <2>5. seEngine'.live BY <1>1, <1>3, <2>1, <2>3 DEF Playing
  <2> QED BY <1>1, <1>s, <2>2, <2>3, <2>4, <2>5, OpeningKeeps
<1> QED BY <1>1, <1>5, <1>6 DEF SeInv
-----------------------------------------------------------------------------
LEMMA ResumeKeeps == ASSUME SeInv, SeOnResume, seHello' = seHello PROVE SeInv'
<1>1. /\ SeTyped /\ seUI = Paused /\ seUI' = [Paused EXCEPT !.at = "creating"]
      /\ seEngine' = FirstState /\ seShown' = Defaults /\ seFailed' = FALSE
      /\ UNCHANGED <<seStreams, seRoute, seError, seOverlap>>
  BY DEF SeOnResume, SeInv
<1>2. seUI.at = "paused" /\ seUI' = [at |-> "creating", setting |-> "none"]
  BY <1>1 DEF Paused
<1>3. /\ seEngine' \in [live : BOOLEAN, api : SeApis, device : SeDevice, channels : 0..2,
                        stream : 0..Len(seStreams), source : 0..2, tune : BOOLEAN]
      /\ seShown' \in [api : SeApis, device : SeDevice, auto : BOOLEAN]
  BY <1>1 DEF FirstState, Defaults, SeApis, SeDevice, SeTyped
<1>4. SeTyped' BY <1>1, <1>2, <1>3 DEF SeTyped
<1>5. ASSUME ~seOverlap PROVE Apart' /\ OneOpen' /\ Playing' /\ AsShown' /\ AsAsked'
  <2>1. Apart /\ OneOpen BY <1>5 DEF SeInv
  <2>2. \A n \in 1..Len(seStreams) : seStreams[n].life = "closed" BY <1>2, <2>1 DEF OneOpen
  <2>3. seError.at = "none" BY <1>1, <1>2, <2>1 DEF Apart, SeTyped
  <2>4. seEngine'.stream = 0 BY <1>1 DEF FirstState
  <2>5. Apart' BY <1>1, <2>3 DEF Apart
  <2>6. OneOpen' BY <1>1, <2>2 DEF OneOpen
  <2>7. Playing' BY <1>2, <2>4 DEF Playing
  <2>8. AsShown' BY <1>1 DEF AsShown, FirstState, Defaults
  <2>9. AsAsked' BY <2>4 DEF AsAsked
  <2> QED BY <2>5, <2>6, <2>7, <2>8, <2>9
<1> QED BY <1>1, <1>4, <1>5 DEF SeInv

\* The engine's stream is closed and forgotten.
LEMMA EngineClosed ==
  ASSUME SeTyped, ~seOverlap => OneOpen,
         seStreams' = Closed(seStreams, seEngine.stream), seEngine' = [seEngine EXCEPT !.stream = 0]
  PROVE  /\ seStreams' \in Seq(SeStream) /\ Len(seStreams') = Len(seStreams)
         /\ seEngine' \in [live : BOOLEAN, api : SeApis, device : SeDevice, channels : 0..2,
                           stream : 0..Len(seStreams), source : 0..2, tune : BOOLEAN]
         /\ seEngine'.stream = 0 /\ seEngine'.live = seEngine.live
         /\ seEngine'.api = seEngine.api /\ seEngine'.device = seEngine.device
         /\ seEngine'.tune = seEngine.tune
         /\ ~seOverlap => \A n \in 1..Len(seStreams) : seStreams'[n].life = "closed"
<1>1. /\ seEngine.stream \in 0..Len(seStreams) /\ seStreams \in Seq(SeStream)
      /\ seEngine \in [live : BOOLEAN, api : SeApis, device : SeDevice, channels : 0..2,
                       stream : 0..Len(seStreams), source : 0..2, tune : BOOLEAN]
  BY DEF SeTyped
<1>2. /\ seStreams' \in Seq(SeStream) /\ Len(seStreams') = Len(seStreams)
      /\ \A m \in 1..Len(seStreams) :
           seStreams'[m].life = IF m = seEngine.stream THEN "closed" ELSE seStreams[m].life
  BY <1>1, ClosedIs
<1>3. ~seOverlap => \A n \in 1..Len(seStreams) : seStreams'[n].life = "closed"
  BY <1>2 DEF OneOpen
<1>4. /\ seEngine' \in [live : BOOLEAN, api : SeApis, device : SeDevice, channels : 0..2,
                        stream : 0..Len(seStreams), source : 0..2, tune : BOOLEAN]
      /\ seEngine'.stream = 0 /\ seEngine'.live = seEngine.live
      /\ seEngine'.api = seEngine.api /\ seEngine'.device = seEngine.device
      /\ seEngine'.tune = seEngine.tune
  BY <1>1
<1> QED BY <1>2, <1>3, <1>4

LEMMA PauseKeeps == ASSUME SeInv, SeOnPause, seHello' = seHello PROVE SeInv'
<1>1. /\ SeTyped /\ seUI = Rests /\ seUI' = Paused /\ seError' = Quiet
      /\ seStreams' = Closed(seStreams, seEngine.stream)
      /\ seEngine' = [seEngine EXCEPT !.live = FALSE, !.stream = 0]
      /\ UNCHANGED <<seShown, seRoute, seFailed>>
      /\ seOverlap' \in BOOLEAN /\ (seOverlap => seOverlap')
  BY DEF SeOnPause, SeInv, Overlaps, SeTyped
<1>2. /\ seEngine.stream \in 0..Len(seStreams) /\ seStreams \in Seq(SeStream)
      /\ seEngine \in [live : BOOLEAN, api : SeApis, device : SeDevice, channels : 0..2,
                       stream : 0..Len(seStreams), source : 0..2, tune : BOOLEAN]
  BY <1>1 DEF SeTyped
<1>3. /\ seStreams' \in Seq(SeStream) /\ Len(seStreams') = Len(seStreams)
      /\ \A m \in 1..Len(seStreams) :
           seStreams'[m].life = IF m = seEngine.stream THEN "closed" ELSE seStreams[m].life
  BY <1>1, <1>2, ClosedIs
<1>4. /\ seEngine' \in [live : BOOLEAN, api : SeApis, device : SeDevice, channels : 0..2,
                        stream : 0..Len(seStreams), source : 0..2, tune : BOOLEAN]
      /\ seEngine'.stream = 0
  <2> DEFINE v == [seEngine EXCEPT !.live = FALSE]
  <2>1. v \in [live : BOOLEAN, api : SeApis, device : SeDevice, channels : 0..2,
               stream : 0..Len(seStreams), source : 0..2, tune : BOOLEAN]
    BY <1>2
  <2>2. seEngine' = [v EXCEPT !.stream = 0] BY <1>1
  <2>3. 0 \in 0..Len(seStreams) BY <1>2
  <2> HIDE DEF v
  <2> QED BY <2>1, <2>2, <2>3
<1>5. SeTyped' BY <1>1, <1>3, <1>4 DEF SeTyped, Paused, Quiet
<1>6. ASSUME ~seOverlap' PROVE Apart' /\ OneOpen' /\ Playing' /\ AsShown' /\ AsAsked'
  <2>1. OneOpen BY <1>1, <1>6 DEF SeInv
  <2>2. OneOpen' BY <1>3, <2>1 DEF OneOpen
  <2> QED BY <1>1, <1>4, <2>2 DEF Apart, Quiet, Playing, AsShown, AsAsked, Paused
<1> QED BY <1>5, <1>6 DEF SeInv

LEMMA ReopenStopKeeps == ASSUME SeInv, ReopenStop, seHello' = seHello PROVE SeInv'
<1>1. /\ SeTyped /\ seUI.at = "stopping" /\ seUI' = [seUI EXCEPT !.at = "starting"]
      /\ seStreams' = Closed(seStreams, seEngine.stream)
      /\ seEngine' = [seEngine EXCEPT !.stream = 0]
      /\ UNCHANGED <<seShown, seRoute, seError, seFailed, seOverlap>>
  BY DEF ReopenStop, SeInv
<1>2. /\ seStreams' \in Seq(SeStream) /\ Len(seStreams') = Len(seStreams)
      /\ seEngine' \in [live : BOOLEAN, api : SeApis, device : SeDevice, channels : 0..2,
                        stream : 0..Len(seStreams), source : 0..2, tune : BOOLEAN]
      /\ seEngine'.stream = 0 /\ seEngine'.live = seEngine.live
      /\ seEngine'.api = seEngine.api /\ seEngine'.device = seEngine.device
      /\ seEngine'.tune = seEngine.tune
      /\ ~seOverlap => \A n \in 1..Len(seStreams) : seStreams'[n].life = "closed"
  BY <1>1, EngineClosed DEF SeInv
<1>3. /\ seUI' \in [at : {"paused", "creating", "resting", "stopping", "starting"},
                    setting : {"none", "api", "channels", "device"}]
      /\ seUI'.at = "starting"
  BY <1>1 DEF SeTyped
<1>4. SeTyped' BY <1>1, <1>2, <1>3 DEF SeTyped
<1>5. ASSUME ~seOverlap PROVE Apart' /\ OneOpen' /\ Playing' /\ AsShown' /\ AsAsked'
  <2>1. Apart /\ Playing /\ AsShown BY <1>5 DEF SeInv
  <2>2. Apart' BY <1>1, <2>1 DEF Apart
  <2>3. OneOpen' BY <1>2, <1>5 DEF OneOpen
  <2>5. Playing' BY <1>1, <1>2, <1>3, <2>1 DEF Playing
  <2>6. AsShown' BY <1>1, <1>2, <1>3, <2>1 DEF AsShown, Playing
  <2>7. AsAsked' BY <1>2 DEF AsAsked
  <2> QED BY <2>2, <2>3, <2>5, <2>6, <2>7
<1> QED BY <1>1, <1>4, <1>5 DEF SeInv
-----------------------------------------------------------------------------
\* A spinner changes what the engine asks for, or its tuner.
LEMMA SelectedKeeps ==
  ASSUME SeInv, seHello' = seHello, NEW e, NEW seen,
         NEW setting \in {"api", "channels", "device"}, Selected(setting, e, seen),
         e \in [live : BOOLEAN, api : SeApis, device : SeDevice, channels : 0..2,
                stream : 0..Len(seStreams), source : 0..2, tune : BOOLEAN],
         seen \in [api : SeApis, device : SeDevice, auto : BOOLEAN],
         e.live = seEngine.live, e.stream = seEngine.stream, e.tune = seEngine.tune,
         seen.auto = seShown.auto,
         seEngine.api = seShown.api => e.api = seen.api,
         seEngine.device = seShown.device => e.device = seen.device
  PROVE  SeInv'
<1>1. /\ SeTyped /\ seHello /\ seUI = Rests /\ seEngine' = e /\ seShown' = seen
      /\ UNCHANGED <<seStreams, seRoute, seError, seFailed>>
      /\ IF e.stream = 0 THEN UNCHANGED <<seUI, seOverlap>>
         ELSE seUI' = [at |-> "stopping", setting |-> setting] /\ Overlaps
  BY DEF Selected, SeInv
<1>2. CASE e.stream = 0
  <2>1. seUI' = seUI /\ seOverlap' = seOverlap /\ seUI.at = "resting"
    BY <1>1, <1>2 DEF Rests
  <2>2. SeTyped' BY <1>1, <2>1 DEF SeTyped
  <2>3. ASSUME ~seOverlap PROVE Apart' /\ OneOpen' /\ Playing' /\ AsShown' /\ AsAsked'
    <3>1. Apart /\ OneOpen /\ Playing BY <2>3 DEF SeInv
    <3>2. Apart' /\ OneOpen' BY <1>1, <1>2, <2>1, <3>1 DEF Apart, OneOpen
    <3>3. Playing' BY <1>1, <1>2, <2>1, <3>1 DEF Playing
    <3> QED BY <1>1, <1>2, <2>1, <3>2, <3>3 DEF AsShown, AsAsked
  <2> QED BY <2>1, <2>2, <2>3 DEF SeInv
<1>3. CASE e.stream # 0
  <2>1. /\ seUI' \in [at : {"paused", "creating", "resting", "stopping", "starting"},
                      setting : {"none", "api", "channels", "device"}]
        /\ seUI'.at = "stopping" /\ seUI.at = "resting"
    BY <1>1, <1>3 DEF Rests
  <2>2. /\ seOverlap' \in BOOLEAN /\ (~seOverlap' => ~seOverlap /\ seError.at = "none")
    BY <1>1, <1>3 DEF Overlaps, SeTyped
  <2>3. SeTyped' BY <1>1, <2>1, <2>2 DEF SeTyped
  <2>4. ASSUME ~seOverlap' PROVE Apart' /\ OneOpen' /\ Playing' /\ AsShown' /\ AsAsked'
    <3>1. OneOpen /\ Playing /\ AsShown BY <2>2, <2>4 DEF SeInv
    <3>2. Apart' BY <1>1, <2>2, <2>4 DEF Apart
    <3>3. OneOpen' BY <1>1, <2>1, <2>2, <2>4, <3>1 DEF OneOpen
    <3>4. Playing' BY <1>1, <1>3, <2>1, <3>1 DEF Playing
    <3>5. AsShown' BY <1>1, <1>3, <3>1 DEF AsShown
    <3>6. AsAsked' BY <2>1 DEF AsAsked
    <3> QED BY <3>2, <3>3, <3>4, <3>5, <3>6
  <2> QED BY <2>3, <2>4 DEF SeInv
<1> QED BY <1>2, <1>3

LEMMA SpinnersKeep ==
  ASSUME SeInv, seHello' = seHello,
         \/ \E api \in {"unspecified", "aaudio"} : SeSetAudioApi(api)
         \/ \E c \in 1..2 : SetChannelCount(c)
         \/ \E d \in SeDevices : SetDeviceId(d)
  PROVE  SeInv'
<1>1. /\ seEngine \in [live : BOOLEAN, api : SeApis, device : SeDevice, channels : 0..2,
                       stream : 0..Len(seStreams), source : 0..2, tune : BOOLEAN]
      /\ seShown \in [api : SeApis, device : SeDevice, auto : BOOLEAN]
  BY DEF SeInv, SeTyped
<1>2. ASSUME NEW api \in {"unspecified", "aaudio"}, SeSetAudioApi(api) PROVE SeInv'
  <2> DEFINE e == [seEngine EXCEPT !.api = api]
             s == [seShown EXCEPT !.api = api]
  <2>1. /\ e \in [live : BOOLEAN, api : SeApis, device : SeDevice, channels : 0..2,
                  stream : 0..Len(seStreams), source : 0..2, tune : BOOLEAN]
        /\ e.live = seEngine.live /\ e.stream = seEngine.stream /\ e.tune = seEngine.tune
        /\ e.api = api /\ e.device = seEngine.device
    BY <1>1 DEF SeApis
  <2>2. /\ s \in [api : SeApis, device : SeDevice, auto : BOOLEAN]
        /\ s.auto = seShown.auto /\ s.api = api /\ s.device = seShown.device
    BY <1>1 DEF SeApis
  <2>3. Selected("api", e, s) BY <1>2 DEF SeSetAudioApi
  <2> HIDE DEF e, s
  <2> QED BY <2>1, <2>2, <2>3, SelectedKeeps
<1>3. ASSUME NEW c \in 1..2, SetChannelCount(c) PROVE SeInv'
  <2> DEFINE e == [seEngine EXCEPT !.channels = c]
  <2>1. /\ e \in [live : BOOLEAN, api : SeApis, device : SeDevice, channels : 0..2,
                  stream : 0..Len(seStreams), source : 0..2, tune : BOOLEAN]
        /\ e.live = seEngine.live /\ e.stream = seEngine.stream /\ e.tune = seEngine.tune
        /\ e.api = seEngine.api /\ e.device = seEngine.device
    BY <1>1
  <2>2. Selected("channels", e, seShown) BY <1>3 DEF SetChannelCount
  <2> HIDE DEF e
  <2> QED BY <1>1, <2>1, <2>2, SelectedKeeps
<1>4. ASSUME NEW d \in SeDevices, SetDeviceId(d) PROVE SeInv'
  <2> DEFINE e == [seEngine EXCEPT !.device = d]
             s == [seShown EXCEPT !.device = d]
  <2>0. d \in SeDevice BY DEF SeDevice
  <2>1. /\ e \in [live : BOOLEAN, api : SeApis, device : SeDevice, channels : 0..2,
                  stream : 0..Len(seStreams), source : 0..2, tune : BOOLEAN]
        /\ e.live = seEngine.live /\ e.stream = seEngine.stream /\ e.tune = seEngine.tune
        /\ e.device = d /\ e.api = seEngine.api
    BY <1>1, <2>0
  <2>2. /\ s \in [api : SeApis, device : SeDevice, auto : BOOLEAN]
        /\ s.auto = seShown.auto /\ s.device = d /\ s.api = seShown.api
    BY <1>1, <2>0
  <2>3. Selected("device", e, s) BY <1>4 DEF SetDeviceId
  <2> HIDE DEF e, s
  <2> QED BY <2>1, <2>2, <2>3, SelectedKeeps
<1> QED BY <1>2, <1>3, <1>4

LEMMA BufferSizeKeeps ==
  ASSUME SeInv, seHello' = seHello, NEW auto \in BOOLEAN, SetBufferSize(auto)
  PROVE  SeInv'
<1>1. /\ SeTyped /\ seShown' = [seShown EXCEPT !.auto = auto]
      /\ seEngine' = IF seEngine.stream = 0 THEN seEngine ELSE [seEngine EXCEPT !.tune = auto]
      /\ UNCHANGED <<seStreams, seRoute, seUI, seError, seFailed, seOverlap>>
      /\ seUI = Rests
  BY DEF SetBufferSize, SeInv
<1>2. /\ seEngine \in [live : BOOLEAN, api : SeApis, device : SeDevice, channels : 0..2,
                       stream : 0..Len(seStreams), source : 0..2, tune : BOOLEAN]
      /\ seShown \in [api : SeApis, device : SeDevice, auto : BOOLEAN]
  BY <1>1 DEF SeTyped
<1>3. /\ seShown' \in [api : SeApis, device : SeDevice, auto : BOOLEAN]
      /\ seShown'.api = seShown.api /\ seShown'.device = seShown.device
      /\ seShown'.auto = auto
  BY <1>1, <1>2
<1>4. /\ seEngine' \in [live : BOOLEAN, api : SeApis, device : SeDevice, channels : 0..2,
                        stream : 0..Len(seStreams), source : 0..2, tune : BOOLEAN]
      /\ seEngine'.stream = seEngine.stream /\ seEngine'.live = seEngine.live
      /\ seEngine'.api = seEngine.api /\ seEngine'.device = seEngine.device
      /\ seEngine'.source = seEngine.source
      /\ seEngine.stream # 0 => seEngine'.tune = auto
  <2>1. CASE seEngine.stream = 0 BY <1>1, <1>2, <2>1
  <2>2. CASE seEngine.stream # 0 BY <1>1, <1>2, <2>2
  <2> QED BY <2>1, <2>2
<1>5. SeTyped' BY <1>1, <1>3, <1>4 DEF SeTyped
<1>6. ASSUME ~seOverlap PROVE Apart' /\ OneOpen' /\ Playing' /\ AsShown' /\ AsAsked'
  <2>1. Apart /\ OneOpen /\ Playing /\ AsShown /\ AsAsked BY <1>6 DEF SeInv
  <2>2. Apart' BY <1>1, <1>4, <2>1 DEF Apart
  <2>3. OneOpen' BY <1>1, <1>4, <2>1 DEF OneOpen
  <2>4. Playing' BY <1>1, <1>4, <2>1 DEF Playing
  <2>5. AsShown' BY <1>1, <1>3, <1>4, <2>1 DEF AsShown, Rests
  <2>6. AsAsked' BY <1>1, <1>4, <2>1 DEF AsAsked
  <2> QED BY <2>2, <2>3, <2>4, <2>5, <2>6
<1> QED BY <1>1, <1>5, <1>6 DEF SeInv

LEMMA SeDisconnectKeeps ==
  ASSUME SeInv, seHello' = seHello, NEW route \in 1..2, SeDisconnect(route)
  PROVE  SeInv'
<1>1. /\ SeTyped /\ seEngine.stream # 0 /\ seRoute' = route
      /\ seError' = [at |-> "closing", stream |-> seEngine.stream]
      /\ seOverlap' = (seOverlap \/ seUI # Rests)
      /\ UNCHANGED <<seEngine, seStreams, seShown, seUI, seFailed>>
  BY DEF SeDisconnect, SeInv
<1>2. /\ seError' \in [at : {"none", "closing", "restarting"}, stream : 0..Len(seStreams)]
      /\ seError'.at = "closing" /\ seError'.stream = seEngine.stream
  BY <1>1 DEF SeTyped
<1>3. seOverlap' \in BOOLEAN BY <1>1 DEF SeTyped
<1>4. SeTyped' BY <1>1, <1>2, <1>3 DEF SeTyped
<1>5. ASSUME ~seOverlap' PROVE Apart' /\ OneOpen' /\ Playing' /\ AsShown' /\ AsAsked'
  <2>0. ~seOverlap /\ seUI = Rests BY <1>1, <1>5, Zenon
  <2>1. ~seOverlap /\ seUI.at = "resting" BY <2>0 DEF Rests
  <2>2. OneOpen /\ Playing /\ AsShown /\ AsAsked BY <2>1 DEF SeInv
  <2>3. Apart' BY <1>1, <1>2, <2>1 DEF Apart
  <2>4. OneOpen' BY <1>1, <1>2, <2>2 DEF OneOpen
  <2> QED BY <1>1, <2>2, <2>3, <2>4 DEF Playing, AsShown, AsAsked
<1> QED BY <1>4, <1>5 DEF SeInv

LEMMA ErrorCloseKeeps == ASSUME SeInv, ErrorClose, seHello' = seHello PROVE SeInv'
<1>1. /\ SeTyped /\ seError.at = "closing" /\ seError' = [seError EXCEPT !.at = "restarting"]
      /\ seStreams' = Closed(seStreams, seError.stream)
      /\ UNCHANGED <<seEngine, seShown, seRoute, seUI, seFailed, seOverlap>>
  BY DEF ErrorClose, SeInv
<1>2. /\ seStreams' \in Seq(SeStream) /\ Len(seStreams') = Len(seStreams)
      /\ \A m \in 1..Len(seStreams) :
           /\ seStreams'[m].life = IF m = seError.stream THEN "closed" ELSE seStreams[m].life
           /\ seStreams'[m].api = seStreams[m].api
           /\ seStreams'[m].device = seStreams[m].device
           /\ seStreams'[m].channels = seStreams[m].channels
  BY <1>1, ClosedIs DEF SeTyped
<1>3. /\ seError' \in [at : {"none", "closing", "restarting"}, stream : 0..Len(seStreams)]
      /\ seError'.at = "restarting" /\ seError'.stream = seError.stream
  BY <1>1 DEF SeTyped
<1>4. SeTyped' BY <1>1, <1>2, <1>3 DEF SeTyped
<1>5. ASSUME ~seOverlap PROVE Apart' /\ OneOpen' /\ Playing' /\ AsShown' /\ AsAsked'
  <2>1. Apart /\ OneOpen /\ Playing /\ AsShown /\ AsAsked BY <1>5 DEF SeInv
  <2>2. Apart' BY <1>1, <1>3, <2>1 DEF Apart
  <2>3. OneOpen' BY <1>1, <1>2, <2>1 DEF OneOpen, Apart
  <2>4. Playing' /\ AsShown' BY <1>1, <2>1 DEF Playing, AsShown
  <2>5. seEngine.stream # 0 => seEngine.stream \in 1..Len(seStreams) BY <1>1 DEF SeTyped
  <2>6. AsAsked' BY <1>1, <1>2, <2>1, <2>5 DEF AsAsked
  <2> QED BY <2>2, <2>3, <2>4, <2>6
<1> QED BY <1>1, <1>4, <1>5 DEF SeInv

LEMMA SeStep == SeInv /\ [SeNext]_seVars => SeInv'
<1> SUFFICES ASSUME SeInv, [SeNext]_seVars PROVE SeInv' OBVIOUS
<1>1. CASE SeNext
  <2>1. seHello' = seHello BY <1>1 DEF SeNext
  <2> QED BY <1>1, <2>1, ResumeKeeps, PauseKeeps, ReopenStopKeeps, ErrorCloseKeeps,
             StartEngineKeeps, ReopenStartKeeps, RestartKeeps, SpinnersKeep, BufferSizeKeeps,
             SeDisconnectKeeps DEF SeNext
<1>2. CASE UNCHANGED seVars
  BY <1>2 DEF seVars, SeInv, SeTyped, Apart, OneOpen, Playing, AsShown, AsAsked
<1> QED BY <1>1, <1>2

\* However often the activity is paused and resumed, spinners are moved, devices go
\* and opens or starts fail, as long as the UI thread and the error thread are not
\* at the engine together: one stream is open at most, it is the engine's and the one
\* that the screen shows, and its source has its channels (HelloOboeEngine.cpp).
THEOREM EnginesPlay == SeSpec => []EnginePlays
<1>1. SeInv => EnginePlays
  <2> SUFFICES ASSUME SeInv, seUI.at \in {"paused", "resting"}, seError = Quiet, ~seOverlap
               PROVE  /\ \A n \in DOMAIN seStreams : seStreams[n].life # "closed" =>
                           seUI = Rests /\ seEngine.live /\ seEngine.stream = n
                      /\ seUI = Rests /\ ~seFailed => seEngine.stream # 0
                      /\ seEngine.stream # 0 =>
                           LET s == seStreams[seEngine.stream]
                           IN /\ s.api = seShown.api /\ s.device = seShown.device
                              /\ s.channels = seEngine.source
                              /\ seEngine.tune = seShown.auto
    BY DEF EnginePlays
  <2>1. SeTyped /\ OneOpen /\ Playing /\ AsShown /\ AsAsked BY DEF SeInv
  <2>2. seUI.at = "resting" <=> seUI = Rests BY <2>1 DEF SeTyped, Rests
  <2>3. DOMAIN seStreams = 1..Len(seStreams) BY <2>1 DEF SeTyped
  <2>4. \A n \in DOMAIN seStreams : seStreams[n].life # "closed" =>
          seUI = Rests /\ seEngine.live /\ seEngine.stream = n
    <3> SUFFICES ASSUME NEW n \in 1..Len(seStreams), seStreams[n].life # "closed"
                 PROVE  seUI = Rests /\ seEngine.live /\ seEngine.stream = n
      BY <2>3
    <3>1. n = seEngine.stream /\ seUI.at = "resting" BY <2>1 DEF OneOpen
    <3>2. n # 0 OBVIOUS
    <3> QED BY <2>1, <2>2, <3>1, <3>2 DEF Playing
  <2>5. seUI = Rests /\ ~seFailed => seEngine.stream # 0 BY <2>1, <2>2 DEF Playing
  <2>6. seEngine.stream # 0 => seUI.at = "resting" BY <2>1 DEF Playing
  <2> QED BY <2>1, <2>4, <2>5, <2>6 DEF AsShown, AsAsked
<1> QED BY <1>1, SeInitially, SeStep, PTL DEF SeSpec
-----------------------------------------------------------------------------
(* SamplePlayer *)

SpSample == [loaded : {TRUE}, isPlaying : BOOLEAN, index : Nat, frames : Nat, room : Nat]
SpStream == [state : {"open", "started", "closed"}, rate : SpRates]

SpTyped ==
  /\ spShown \in BOOLEAN /\ together \in BOOLEAN
  /\ spUI \in {<<>>, <<"unload">>, <<"teardown", "unload">>}
  /\ opened \in Seq(SpStream) /\ mAudioStream \in 0..Len(opened)
  /\ mixing \in Int /\ errorStep \in {"none", "reset", "open", "start"}
  /\ sample = NoSample \/ (sample \in SpSample /\ sample.frames <= sample.room)

\* The sample is there as long as the activity, until it was unloaded.
LoadedWhileShown == sample.loaded <=> spShown \/ spUI # <<>>

\* Only the player's stream plays, and not while it is reopened, nor after it was
\* torn down.
OnePlays ==
  /\ PlayerStarted \subseteq {mAudioStream}
  /\ errorStep # "none" => spShown /\ PlayerStarted = {}
  /\ spShown => spUI = <<>>
  /\ ~spShown /\ spUI # <<"teardown", "unload">> => PlayerStarted = {}

\* A callback is one of a stream that plays, and what it has yet to mix is there.
Mixes ==
  /\ mixing >= -1
  /\ mixing # -1 => PlayerStarted # {} /\ sample.index + mixing <= sample.frames
  /\ sample.loaded => sample.index <= sample.frames

SpInv == SpTyped /\ (~together => LoadedWhileShown /\ OnePlays /\ Mixes)
-----------------------------------------------------------------------------
LEMMA SpBounds ==
  /\ SpRates \subseteq Nat \ {0} /\ SpRate \in Nat \ {0}
  /\ SpFrames \in Nat /\ SpBlock \in Nat /\ SpStreams \in Nat /\ SpTriggers \in Nat
BY SpAssumption

LEMMA LoadedIs ==
  ASSUME ResamplesWithin, NEW rate \in SpRates
  PROVE  /\ Loaded(rate) \in SpSample /\ Loaded(rate).frames <= Loaded(rate).room
         /\ Loaded(rate).loaded /\ Loaded(rate).index = 0
<1> DEFINE f == Loaded(rate).frames
           r == Loaded(rate).room
<1>1. f \in Nat /\ r \in Nat /\ f <= r BY DEF ResamplesWithin
<1>2. Loaded(rate) = [loaded |-> TRUE, isPlaying |-> FALSE, index |-> 0, frames |-> f,
                      room |-> r]
  BY DEF Loaded
<1> HIDE DEF f, r
<1>3. Loaded(rate) \in SpSample /\ Loaded(rate).loaded /\ Loaded(rate).index = 0
  BY <1>1, <1>2 DEF SpSample
<1> QED BY <1>1, <1>3 DEF f, r

LEMMA MixFramesIs ==
  ASSUME sample \in SpSample
  PROVE  /\ MixFrames(SpBlock) \in Int
         /\ sample.index + MixFrames(SpBlock) <= sample.frames
         /\ sample.index <= sample.frames => MixFrames(SpBlock) >= 0
<1> DEFINE rest == sample.frames - sample.index
           n == MixFrames(SpBlock)
<1>1. /\ rest \in Int /\ SpBlock \in Nat
      /\ sample.index \in Nat /\ sample.frames \in Nat
  BY SpBounds DEF SpSample
<1>2. n = CHOOSE x \in {SpBlock, rest} : \A y \in {SpBlock, rest} : x <= y
  BY DEF MixFrames, Min
<1>3. \E x \in {SpBlock, rest} : \A y \in {SpBlock, rest} : x <= y
  <2> HIDE DEF rest
  <2>1. CASE SpBlock <= rest BY <1>1, <2>1
  <2>2. CASE rest <= SpBlock BY <1>1, <2>2
  <2> QED BY <1>1, <2>1, <2>2
<1> HIDE DEF rest, n
<1>4. n \in {SpBlock, rest} /\ n <= rest BY <1>2, <1>3
<1> QED BY <1>1, <1>4 DEF rest, n

LEMMA SpInitially == SpInit => SpInv
<1> SUFFICES ASSUME SpInit PROVE SpInv OBVIOUS
<1>1. opened \in Seq(SpStream) /\ Len(opened) = 0 /\ mAudioStream \in 0..Len(opened)
  BY DEF SpInit
<1>2. SpTyped
  <2>1. spUI = <<>> /\ mixing \in Int BY DEF SpInit
  <2> QED BY <1>1, <2>1, Zenon DEF SpInit, SpTyped
<1>3. PlayerStarted = {} BY DEF SpInit, PlayerStarted
<1> QED BY <1>2, <1>3 DEF SpInit, SpInv, LoadedWhileShown, OnePlays, Mixes, NoSample

LEMMA SpOnStartKeeps == ASSUME SpInv, ResamplesWithin, SpOnStart PROVE SpInv'
<1>1. PICK rate \in SpRates :
        /\ opened' = Append(opened, [state |-> "started", rate |-> rate])
        /\ sample' = Loaded(rate)
  BY DEF SpOnStart
<1>2. /\ SpTyped /\ ~spShown /\ spUI = <<>> /\ spShown' = TRUE
      /\ mAudioStream' = Len(opened')
      /\ UNCHANGED <<spUI, mixing, errorStep, together>>
  BY DEF SpOnStart, SpInv
<1>3. [state |-> "started", rate |-> rate] \in SpStream BY DEF SpStream
<1>4. /\ opened \in Seq(SpStream) /\ opened' \in Seq(SpStream)
      /\ Len(opened') = Len(opened) + 1 /\ Len(opened) \in Nat
      /\ DOMAIN opened = 1..Len(opened) /\ DOMAIN opened' = 1..(Len(opened) + 1)
      /\ \A i \in 1..Len(opened) : opened'[i] = opened[i]
      /\ opened'[Len(opened) + 1].state = "started"
  BY <1>1, <1>2, <1>3 DEF SpTyped
<1>5. sample' \in SpSample /\ sample'.frames <= sample'.room /\ sample'.loaded
      /\ sample'.index = 0
  BY <1>1, LoadedIs
<1>6. SpTyped' BY <1>2, <1>4, <1>5 DEF SpTyped
<1>7. ASSUME ~together PROVE LoadedWhileShown' /\ OnePlays' /\ Mixes'
  <2>1. PlayerStarted = {} /\ errorStep = "none" /\ mixing = -1
    BY <1>2, <1>7 DEF SpInv, OnePlays, Mixes
  <2>2. PlayerStarted' = {Len(opened) + 1} BY <1>4, <2>1 DEF PlayerStarted
  <2>3. OnePlays' BY <1>2, <1>4, <2>1, <2>2 DEF OnePlays
  <2>4. Mixes' BY <1>2, <1>5, <2>1 DEF Mixes, SpSample
  <2> QED BY <1>2, <1>5, <2>3, <2>4 DEF LoadedWhileShown
<1> QED BY <1>2, <1>6, <1>7 DEF SpInv

LEMMA SpOnStopKeeps == ASSUME SpInv, SpOnStop PROVE SpInv'
<1>1. /\ SpTyped /\ spShown /\ spShown' = FALSE /\ spUI' = <<"teardown", "unload">>
      /\ together' = (together \/ errorStep # "none")
      /\ UNCHANGED <<opened, mAudioStream, sample, mixing, errorStep>>
  BY DEF SpOnStop, StopOrder, SpInv
<1>2. together' \in BOOLEAN /\ (~together' => ~together /\ errorStep = "none")
  BY <1>1, Zenon DEF SpTyped
<1>3. SpTyped' BY <1>1, <1>2 DEF SpTyped
<1>4. ASSUME ~together' PROVE LoadedWhileShown' /\ OnePlays' /\ Mixes'
  <2>1. LoadedWhileShown /\ OnePlays /\ Mixes BY <1>2, <1>4 DEF SpInv
  <2>2. PlayerStarted' = PlayerStarted BY <1>1 DEF PlayerStarted
  <2>3. <<"teardown", "unload">> # <<>> OBVIOUS
  <2> QED BY <1>1, <1>2, <1>4, <2>1, <2>2, <2>3 DEF LoadedWhileShown, OnePlays, Mixes
<1> QED BY <1>3, <1>4 DEF SpInv

LEMMA TeardownKeeps == ASSUME SpInv, Teardown PROVE SpInv'
<1>1. /\ SpTyped /\ spUI # <<>> /\ Head(spUI) = "teardown" /\ spUI' = Tail(spUI)
      /\ mAudioStream' = 0 /\ (mAudioStream \in PlayerStarted => mixing = -1)
      /\ opened' = [i \in DOMAIN opened |->
           IF i = mAudioStream THEN [opened[i] EXCEPT !.state = "closed"] ELSE opened[i]]
      /\ UNCHANGED <<spShown, sample, mixing, errorStep, together>>
  BY DEF Teardown, SpInv
<1>2. spUI = <<"teardown", "unload">> /\ spUI' = <<"unload">>
  <2>1. spUI = <<"unload">> => Head(spUI) = "unload" OBVIOUS
  <2>2. spUI = <<"teardown", "unload">> BY <1>1, <2>1 DEF SpTyped
  <2>3. Tail(<<"teardown", "unload">>) = <<"unload">> OBVIOUS
  <2> QED BY <1>1, <2>2, <2>3
<1>3. opened \in Seq(SpStream) /\ DOMAIN opened = 1..Len(opened) BY <1>1 DEF SpTyped
<1>4. \A i \in 1..Len(opened) :
        /\ opened'[i] \in SpStream
        /\ opened'[i].state = IF i = mAudioStream THEN "closed" ELSE opened[i].state
  <2> TAKE i \in 1..Len(opened)
  <2>1. opened[i] \in SpStream BY <1>3
  <2>2. [opened[i] EXCEPT !.state = "closed"] \in SpStream
        /\ [opened[i] EXCEPT !.state = "closed"].state = "closed"
    BY <2>1 DEF SpStream
  <2> QED BY <1>1, <1>3, <2>1, <2>2
<1>5. /\ opened' \in Seq(SpStream) /\ Len(opened') = Len(opened)
      /\ DOMAIN opened' = 1..Len(opened)
  BY <1>1, <1>3, <1>4
<1>6. SpTyped' BY <1>1, <1>2, <1>5 DEF SpTyped
<1>7. ASSUME ~together PROVE LoadedWhileShown' /\ OnePlays' /\ Mixes'
  <2>1. LoadedWhileShown /\ OnePlays /\ Mixes BY <1>7 DEF SpInv
  <2>2. PlayerStarted' = {} BY <1>3, <1>4, <1>5, <2>1 DEF OnePlays, PlayerStarted
  <2>3. mixing = -1 BY <1>1, <2>1 DEF OnePlays, Mixes
  <2>4. <<"unload">> # <<>> /\ <<"teardown", "unload">> # <<>> OBVIOUS
  <2>5. ~spShown BY <1>2, <2>1, <2>4 DEF OnePlays
  <2>6. LoadedWhileShown' BY <1>1, <1>2, <2>1, <2>4 DEF LoadedWhileShown
  <2>7. OnePlays' BY <1>1, <2>1, <2>2, <2>5 DEF OnePlays
  <2> QED BY <1>1, <2>1, <2>3, <2>6, <2>7 DEF Mixes
<1> QED BY <1>1, <1>6, <1>7 DEF SpInv

LEMMA UnloadKeeps == ASSUME SpInv, Unload PROVE SpInv'
<1>1. /\ SpTyped /\ spUI # <<>> /\ Head(spUI) = "unload" /\ spUI' = Tail(spUI)
      /\ sample' = NoSample
      /\ UNCHANGED <<spShown, opened, mAudioStream, mixing, errorStep, together>>
  BY DEF Unload, SpInv
<1>2. spUI = <<"unload">> /\ spUI' = <<>> BY <1>1 DEF SpTyped
<1>3. SpTyped' BY <1>1, <1>2 DEF SpTyped
<1>4. ASSUME ~together PROVE LoadedWhileShown' /\ OnePlays' /\ Mixes'
  <2>1. OnePlays /\ Mixes BY <1>4 DEF SpInv
  <2>2. <<"unload">> # <<>> /\ <<"unload">> # <<"teardown", "unload">> OBVIOUS
  <2>3. ~spShown /\ PlayerStarted = {} BY <1>2, <2>1, <2>2 DEF OnePlays
  <2>4. PlayerStarted' = PlayerStarted BY <1>1 DEF PlayerStarted
  <2>5. mixing = -1 BY <2>1, <2>3 DEF Mixes
  <2>6. LoadedWhileShown' BY <1>1, <1>2, <2>3 DEF LoadedWhileShown, NoSample
  <2>7. OnePlays' BY <1>1, <2>1, <2>3, <2>4 DEF OnePlays
  <2> QED BY <1>1, <2>5, <2>6, <2>7 DEF Mixes, NoSample
<1> QED BY <1>1, <1>3, <1>4 DEF SpInv
-----------------------------------------------------------------------------
\* A pad, the audio thread and the error thread move the sample's index.
LEMMA TriggerKeeps == ASSUME SpInv, TriggerDown PROVE SpInv'
<1>1. /\ SpTyped /\ sample.loaded /\ sample' = [sample EXCEPT !.index = 0, !.isPlaying = TRUE]
      /\ UNCHANGED <<spShown, spUI, opened, mAudioStream, mixing, errorStep, together>>
  BY DEF TriggerDown, SpInv
<1>2. sample \in SpSample /\ sample.frames <= sample.room BY <1>1 DEF SpTyped, NoSample
<1>3. /\ sample' \in SpSample /\ sample'.frames = sample.frames /\ sample'.room = sample.room
      /\ sample'.index = 0 /\ sample'.loaded
  <2> DEFINE s == [sample EXCEPT !.index = 0]
  <2>1. s \in SpSample /\ s.frames = sample.frames /\ s.room = sample.room /\ s.index = 0
    BY <1>2 DEF SpSample
  <2>2. sample' = [s EXCEPT !.isPlaying = TRUE] BY <1>1
  <2> HIDE DEF s
  <2> QED BY <2>1, <2>2 DEF SpSample
<1>4. SpTyped' BY <1>1, <1>2, <1>3 DEF SpTyped
<1>5. ASSUME ~together PROVE LoadedWhileShown' /\ OnePlays' /\ Mixes'
  <2>1. LoadedWhileShown /\ OnePlays /\ Mixes BY <1>5 DEF SpInv
  <2>2. PlayerStarted' = PlayerStarted BY <1>1 DEF PlayerStarted
  <2>3. Mixes' BY <1>1, <1>2, <1>3, <2>1, <2>2 DEF Mixes, SpTyped, SpSample
  <2> QED BY <1>1, <1>3, <2>1, <2>2, <2>3 DEF LoadedWhileShown, OnePlays
<1> QED BY <1>1, <1>4, <1>5 DEF SpInv

LEMMA ResetAllKeeps == ASSUME SpInv, ResetAll PROVE SpInv'
<1>1. /\ SpTyped /\ errorStep = "reset" /\ errorStep' = "open"
      /\ sample' = IF sample.loaded THEN [sample EXCEPT !.isPlaying = FALSE, !.index = 0]
                   ELSE sample
      /\ UNCHANGED <<spShown, spUI, opened, mAudioStream, mixing, together>>
  BY DEF ResetAll, SpInv
<1>2. /\ sample' = NoSample \/ (sample' \in SpSample /\ sample'.frames <= sample'.room)
      /\ sample'.loaded = sample.loaded
      /\ sample.loaded => /\ sample'.frames = sample.frames /\ sample'.index = 0
                          /\ sample \in SpSample
  <2>1. CASE ~sample.loaded BY <1>1, <2>1 DEF SpTyped, SpSample
  <2>2. CASE sample.loaded
    <3> DEFINE s == [sample EXCEPT !.isPlaying = FALSE]
    <3>1. sample \in SpSample /\ sample.frames <= sample.room
      BY <1>1, <2>2 DEF SpTyped, NoSample
    <3>2. s \in SpSample /\ s.frames = sample.frames /\ s.room = sample.room
      BY <3>1 DEF SpSample
    <3>3. sample' = [s EXCEPT !.index = 0] BY <1>1, <2>2
    <3> HIDE DEF s
    <3> QED BY <3>1, <3>2, <3>3 DEF SpSample
  <2> QED BY <2>1, <2>2
<1>3. SpTyped' BY <1>1, <1>2 DEF SpTyped
<1>4. ASSUME ~together PROVE LoadedWhileShown' /\ OnePlays' /\ Mixes'
  <2>1. LoadedWhileShown /\ OnePlays /\ Mixes BY <1>4 DEF SpInv
  <2>2. PlayerStarted' = PlayerStarted BY <1>1 DEF PlayerStarted
  <2>3. PlayerStarted = {} /\ mixing = -1 BY <1>1, <2>1 DEF OnePlays, Mixes
  <2>4. sample'.loaded => sample'.index <= sample'.frames
    <3> SUFFICES ASSUME sample.loaded PROVE sample'.index <= sample'.frames BY <1>2
    <3>1. sample.frames \in Nat BY <1>2 DEF SpSample
    <3> QED BY <1>2, <3>1
  <2>6. Mixes' BY <1>1, <2>3, <2>4 DEF Mixes
  <2>5. OnePlays' BY <1>1, <2>1, <2>2 DEF OnePlays
  <2> QED BY <1>1, <1>2, <2>1, <2>5, <2>6 DEF LoadedWhileShown
<1> QED BY <1>1, <1>3, <1>4 DEF SpInv

LEMMA MixKeeps == ASSUME SpInv, Mix PROVE SpInv'
<1>1. /\ SpTyped /\ PlayerStarted # {} /\ sample.loaded /\ mixing' = MixFrames(SpBlock)
      /\ UNCHANGED <<spShown, spUI, opened, mAudioStream, sample, errorStep, together>>
  BY DEF Mix, SpInv
<1>2. sample \in SpSample BY <1>1 DEF SpTyped, NoSample
<1>3. MixFrames(SpBlock) \in Int BY <1>2, MixFramesIs
<1>4. SpTyped' BY <1>1, <1>3 DEF SpTyped
<1>5. ASSUME ~together PROVE LoadedWhileShown' /\ OnePlays' /\ Mixes'
  <2>1. LoadedWhileShown /\ OnePlays /\ Mixes BY <1>5 DEF SpInv
  <2>2. PlayerStarted' = PlayerStarted BY <1>1 DEF PlayerStarted
  <2>3. /\ mixing' \in Int /\ mixing' >= 0 /\ sample.index + mixing' <= sample.frames
    BY <1>1, <1>2, <2>1, MixFramesIs DEF Mixes
  <2>4. Mixes' BY <1>1, <2>1, <2>2, <2>3 DEF Mixes
  <2> QED BY <1>1, <2>1, <2>2, <2>4 DEF LoadedWhileShown, OnePlays
<1> QED BY <1>1, <1>4, <1>5 DEF SpInv

LEMMA MixFrameKeeps == ASSUME SpInv, MixFrame PROVE SpInv'
<1>1. /\ SpTyped /\ mixing > 0 /\ mixing' = mixing - 1 /\ mixing \in Int
      /\ sample' = IF sample.loaded THEN [sample EXCEPT !.index = @ + 1] ELSE sample
      /\ UNCHANGED <<spShown, spUI, opened, mAudioStream, errorStep, together>>
  BY DEF MixFrame, SpInv, SpTyped
<1>2. /\ sample' = NoSample \/ (sample' \in SpSample /\ sample'.frames <= sample'.room)
      /\ sample'.loaded = sample.loaded
      /\ sample.loaded => /\ sample'.frames = sample.frames
                          /\ sample'.index = sample.index + 1
                          /\ sample \in SpSample
  <2>1. CASE ~sample.loaded BY <1>1, <2>1 DEF SpTyped, SpSample
  <2>2. CASE sample.loaded
    <3>1. sample \in SpSample /\ sample.frames <= sample.room
      BY <1>1, <2>2 DEF SpTyped, NoSample
    <3>2. sample' = [sample EXCEPT !.index = sample.index + 1] BY <1>1, <2>2
    <3>3. sample.index \in Nat /\ sample.index + 1 \in Nat BY <3>1 DEF SpSample
    <3> DEFINE n == sample.index + 1
    <3> HIDE DEF n
    <3>4. sample' = [sample EXCEPT !.index = n] BY <3>2 DEF n
    <3>5. n \in Nat BY <3>3 DEF n
    <3>6. sample' \in SpSample /\ sample'.frames = sample.frames /\ sample'.room = sample.room
          /\ sample'.index = n /\ sample'.loaded = sample.loaded
      BY <3>1, <3>4, <3>5 DEF SpSample
    <3> QED BY <3>1, <3>6 DEF n
  <2> QED BY <2>1, <2>2
<1>3. SpTyped' BY <1>1, <1>2 DEF SpTyped
<1>4. ASSUME ~together PROVE LoadedWhileShown' /\ OnePlays' /\ Mixes'
  <2>1. LoadedWhileShown /\ OnePlays /\ Mixes BY <1>4 DEF SpInv
  <2>2. PlayerStarted' = PlayerStarted BY <1>1 DEF PlayerStarted
  <2>3. sample.loaded /\ PlayerStarted # {} /\ sample.index + mixing <= sample.frames
    BY <1>1, <2>1 DEF Mixes, OnePlays, LoadedWhileShown
  <2>4. Mixes' BY <1>1, <1>2, <2>2, <2>3 DEF Mixes, SpSample
  <2> QED BY <1>1, <1>2, <2>1, <2>2, <2>4 DEF LoadedWhileShown, OnePlays
<1> QED BY <1>1, <1>3, <1>4 DEF SpInv

LEMMA MixEndKeeps == ASSUME SpInv, MixEnd PROVE SpInv'
<1>1. /\ SpTyped /\ mixing = 0 /\ mixing' = -1
      /\ sample' = IF sample.loaded /\ sample.index >= sample.frames
                   THEN [sample EXCEPT !.isPlaying = FALSE] ELSE sample
      /\ UNCHANGED <<spShown, spUI, opened, mAudioStream, errorStep, together>>
  BY DEF MixEnd, SpInv
<1>2. /\ sample' = NoSample \/ (sample' \in SpSample /\ sample'.frames <= sample'.room)
      /\ sample'.loaded = sample.loaded
      /\ sample.loaded => sample'.frames = sample.frames /\ sample'.index = sample.index
  <2>1. CASE sample' = sample BY <1>1, <2>1 DEF SpTyped
  <2>2. CASE sample.loaded /\ sample' = [sample EXCEPT !.isPlaying = FALSE]
    <3>1. sample \in SpSample /\ sample.frames <= sample.room
      BY <1>1, <2>2 DEF SpTyped, NoSample
    <3> QED BY <2>2, <3>1 DEF SpSample
  <2> QED BY <1>1, <2>1, <2>2
<1>3. SpTyped' BY <1>1, <1>2 DEF SpTyped
<1>4. ASSUME ~together PROVE LoadedWhileShown' /\ OnePlays' /\ Mixes'
  <2>1. LoadedWhileShown /\ OnePlays /\ Mixes BY <1>4 DEF SpInv
  <2>2. PlayerStarted' = PlayerStarted BY <1>1 DEF PlayerStarted
  <2>3. Mixes' BY <1>1, <1>2, <2>1 DEF Mixes
  <2> QED BY <1>1, <1>2, <2>1, <2>2, <2>3 DEF LoadedWhileShown, OnePlays
<1> QED BY <1>1, <1>3, <1>4 DEF SpInv
-----------------------------------------------------------------------------
\* The stream goes, and is replaced by another.
LEMMA SpDisconnectKeeps == ASSUME SpInv, SpDisconnect PROVE SpInv'
<1>1. /\ SpTyped /\ mAudioStream \in PlayerStarted /\ mixing = -1
      /\ opened' = [opened EXCEPT ![mAudioStream].state = "closed"] /\ errorStep' = "reset"
      /\ together' = (together \/ spUI # <<>>)
      /\ UNCHANGED <<spShown, spUI, mAudioStream, sample, mixing>>
  BY DEF SpDisconnect, SpInv
<1>2. together' \in BOOLEAN /\ (~together' => ~together /\ spUI = <<>>)
  BY <1>1, Zenon DEF SpTyped
<1>3. /\ opened \in Seq(SpStream) /\ DOMAIN opened = 1..Len(opened)
      /\ mAudioStream \in 1..Len(opened)
  BY <1>1 DEF SpTyped, PlayerStarted
<1>4. /\ opened' \in Seq(SpStream) /\ Len(opened') = Len(opened)
      /\ DOMAIN opened' = 1..Len(opened) /\ opened'[mAudioStream].state = "closed"
      /\ \A i \in 1..Len(opened) : i # mAudioStream => opened'[i] = opened[i]
  <2> DEFINE s == [opened[mAudioStream] EXCEPT !.state = "closed"]
  <2>1. opened[mAudioStream] \in SpStream BY <1>3
  <2>2. s \in SpStream /\ s.state = "closed" BY <2>1 DEF SpStream
  <2>3. opened' = [opened EXCEPT ![mAudioStream] = s] BY <1>1
  <2> HIDE DEF s
  <2> QED BY <1>3, <2>2, <2>3
<1>5. SpTyped' BY <1>1, <1>2, <1>4 DEF SpTyped
<1>6. ASSUME ~together' PROVE LoadedWhileShown' /\ OnePlays' /\ Mixes'
  <2>1. LoadedWhileShown /\ OnePlays /\ Mixes /\ spUI = <<>> BY <1>2, <1>6 DEF SpInv
  <2>2. PlayerStarted' = {} BY <1>3, <1>4, <2>1 DEF OnePlays, PlayerStarted
  <2>3. spShown
    <3>1. <<>> # <<"teardown", "unload">> OBVIOUS
    <3> QED BY <1>1, <2>1, <3>1 DEF OnePlays
  <2>4. OnePlays' BY <1>1, <2>1, <2>2, <2>3 DEF OnePlays
  <2> QED BY <1>1, <2>1, <2>4 DEF LoadedWhileShown, Mixes
<1> QED BY <1>5, <1>6 DEF SpInv

LEMMA ReopenKeeps == ASSUME SpInv, Reopen PROVE SpInv'
<1>1. /\ SpTyped /\ errorStep = "open"
      /\ UNCHANGED <<spShown, spUI, sample, mixing, together>>
  BY DEF Reopen, SpInv
<1>2. CASE errorStep' = "none" /\ UNCHANGED <<opened, mAudioStream>>
  <2>1. SpTyped' BY <1>1, <1>2 DEF SpTyped
  <2>2. PlayerStarted' = PlayerStarted BY <1>2 DEF PlayerStarted
  <2> QED BY <1>1, <1>2, <2>1, <2>2 DEF SpInv, LoadedWhileShown, OnePlays, Mixes
<1>3. ASSUME NEW rate \in SpRates,
             opened' = Append(opened, [state |-> "open", rate |-> rate]),
             mAudioStream' = Len(opened'), errorStep' = "start"
      PROVE  SpInv'
  <2>1. [state |-> "open", rate |-> rate] \in SpStream BY DEF SpStream
  <2>2. /\ opened' \in Seq(SpStream) /\ Len(opened') = Len(opened) + 1 /\ Len(opened) \in Nat
        /\ DOMAIN opened = 1..Len(opened) /\ DOMAIN opened' = 1..(Len(opened) + 1)
        /\ \A i \in 1..Len(opened) : opened'[i] = opened[i]
        /\ opened'[Len(opened) + 1].state = "open"
    BY <1>1, <1>3, <2>1 DEF SpTyped
  <2>3. SpTyped' BY <1>1, <1>3, <2>2 DEF SpTyped
  <2>4. ASSUME ~together PROVE LoadedWhileShown' /\ OnePlays' /\ Mixes'
    <3>1. LoadedWhileShown /\ OnePlays /\ Mixes BY <2>4 DEF SpInv
    <3>2. spShown /\ PlayerStarted = {} BY <1>1, <3>1 DEF OnePlays
    <3>3. PlayerStarted' = {} BY <2>2, <3>2 DEF PlayerStarted
    <3>4. OnePlays' BY <1>1, <3>1, <3>2, <3>3 DEF OnePlays
    <3> QED BY <1>1, <3>1, <3>2, <3>4 DEF LoadedWhileShown, Mixes
  <2> QED BY <1>1, <2>3, <2>4 DEF SpInv
<1> QED BY <1>2, <1>3 DEF Reopen

LEMMA SpRestartKeeps == ASSUME SpInv, Restart PROVE SpInv'
<1>1. /\ SpTyped /\ errorStep = "start" /\ mAudioStream # 0 /\ errorStep' = "none"
      /\ UNCHANGED <<spShown, spUI, mAudioStream, sample, mixing, together>>
      /\ \/ opened' = opened
         \/ opened' = [opened EXCEPT ![mAudioStream].state = IF @ = "open" THEN "started" ELSE @]
  BY DEF Restart, SpInv
<1>2. /\ opened \in Seq(SpStream) /\ DOMAIN opened = 1..Len(opened)
      /\ mAudioStream \in 1..Len(opened)
  BY <1>1 DEF SpTyped
<1>3. /\ opened' \in Seq(SpStream) /\ Len(opened') = Len(opened)
      /\ DOMAIN opened' = 1..Len(opened)
      /\ \A i \in 1..Len(opened) : i # mAudioStream => opened'[i] = opened[i]
  <2>1. CASE opened' = opened BY <1>2, <2>1
  <2>2. CASE opened' = [opened EXCEPT ![mAudioStream].state =
                          IF @ = "open" THEN "started" ELSE @]
    <3> DEFINE t == IF opened[mAudioStream].state = "open" THEN "started"
                    ELSE opened[mAudioStream].state
               s == [opened[mAudioStream] EXCEPT !.state = t]
    <3>1. opened[mAudioStream] \in SpStream BY <1>2
    <3>2. t \in {"open", "started", "closed"} BY <3>1 DEF SpStream
    <3>3. opened' = [opened EXCEPT ![mAudioStream] = s] BY <2>2
    <3> HIDE DEF t
    <3>4. s \in SpStream BY <3>1, <3>2 DEF SpStream
    <3> HIDE DEF s
    <3> QED BY <1>2, <3>3, <3>4
  <2> QED BY <1>1, <2>1, <2>2
<1>4. SpTyped' BY <1>1, <1>3 DEF SpTyped
<1>5. ASSUME ~together PROVE LoadedWhileShown' /\ OnePlays' /\ Mixes'
  <2>1. LoadedWhileShown /\ OnePlays /\ Mixes BY <1>5 DEF SpInv
  <2>2. spShown /\ PlayerStarted = {} BY <1>1, <2>1 DEF OnePlays
  <2>3. PlayerStarted' \subseteq {mAudioStream} BY <1>2, <1>3, <2>2 DEF PlayerStarted
  <2>4. OnePlays' BY <1>1, <2>1, <2>2, <2>3 DEF OnePlays
  <2> QED BY <1>1, <2>1, <2>2, <2>4 DEF LoadedWhileShown, Mixes
<1> QED BY <1>1, <1>4, <1>5 DEF SpInv

LEMMA SpStep == ASSUME SpInv, ResamplesWithin, [SpNext]_spVars PROVE SpInv'
<1>1. CASE UNCHANGED spVars
  BY <1>1 DEF spVars, SpInv, SpTyped, LoadedWhileShown, OnePlays, Mixes, PlayerStarted
<1>2. CASE SpNext
  BY <1>2, SpOnStartKeeps, SpOnStopKeeps, TeardownKeeps, UnloadKeeps, TriggerKeeps, MixKeeps,
     MixFrameKeeps, MixEndKeeps, SpDisconnectKeeps, ResetAllKeeps, ReopenKeeps, SpRestartKeeps
     DEF SpNext
<1> QED BY <1>1, <1>2

\* A frame that the callback mixes is one of the sample, and neither the callback
\* outlives the sample nor a stream the activity, unless the activity stops while
\* the error thread reopens: for any rates, block and lengths, wherever the buffer
\* that resampling allocates is large enough.
THEOREM SamplesStayLive == ASSUME ResamplesWithin PROVE SpSpec => []SamplesLive
<1>1. SpInit => SpInv BY SpInitially
<1>2. SpInv /\ [SpNext]_spVars => SpInv' BY SpStep
<1>3. SpInv => SamplesLive
  <2> SUFFICES ASSUME SpInv, ~together PROVE SamplesLive BY DEF SamplesLive
  <2>1. SpTyped /\ LoadedWhileShown /\ OnePlays /\ Mixes BY DEF SpInv
  <2>2. <<>> # <<"teardown", "unload">> OBVIOUS
  <2>3. ~spShown /\ spUI = <<>> => PlayerStarted = {} BY <2>1, <2>2 DEF OnePlays
  <2>4. ~sample.loaded => mixing = -1 /\ PlayerStarted = {}
    BY <2>1, <2>3 DEF LoadedWhileShown, Mixes
  <2>5. sample.loaded => sample \in SpSample /\ sample.frames <= sample.room
    BY <2>1 DEF SpTyped, NoSample
  <2>6. mixing > 0 => sample.loaded /\ sample.index < sample.frames
    <3> SUFFICES ASSUME mixing > 0 PROVE sample.loaded /\ sample.index < sample.frames
      OBVIOUS
    <3>1. sample.index + mixing <= sample.frames /\ mixing \in Int
      BY <2>1 DEF Mixes, SpTyped
    <3>2. sample.loaded BY <2>4
    <3> QED BY <2>5, <3>1, <3>2 DEF SpSample
  <2> QED BY <2>1, <2>3, <2>4, <2>5, <2>6 DEF SamplesLive, OnePlays
<1> QED BY <1>1, <1>2, <1>3, PTL DEF SpSpec
=============================================================================
