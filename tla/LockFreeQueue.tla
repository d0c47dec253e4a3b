---------------------------- MODULE LockFreeQueue ----------------------------
(***************************************************************************)
(* RhythmGame's LockFreeQueue: a ring for one writer and one reader, whose *)
(* counters are never reduced to the ring and wrap with their type.        *)
(* LfqIndex stands for the size of that type, a power of two.  A queue of  *)
(* the code has a power of two of slots too, and fewer: "Must be less than *)
(* the maximum value permissible in INDEX_TYPE".  With as many slots as    *)
(* the counters have values, a full queue would look like an empty one.    *)
(***************************************************************************)
EXTENDS Integers, FiniteSets

CONSTANTS LfqIndex,     \* INDEX_TYPE_MAX + 1
          LfqCapacity,  \* CAPACITY of the queue that two threads share below
          LfqItems      \* bounds the items that are pushed to it

ASSUME LfqAssumption ==
  /\ {LfqIndex, LfqCapacity} \subseteq Nat \ {0} /\ LfqItems \in Nat
  /\ LfqIndex % LfqCapacity = 0 /\ LfqCapacity < LfqIndex

Queue(capacity) == [buffer |-> [i \in 0..(capacity - 1) |-> 0], read |-> 0, write |-> 0]
Slots(q) == Cardinality(DOMAIN q.buffer)
Mask(q, n) == n % Slots(q)

QueueSizeUnwrapped(q) == q.write - q.read
QueueSize(q) == (q.write - q.read) % LfqIndex

IsEmpty(q) == q.read = q.write
IsFull(q) == QueueSize(q) = Slots(q)

Oldest(q) == q.buffer[Mask(q, q.read)]
Stored(q, item) == [q EXCEPT !.buffer[Mask(q, q.write)] = item]
Counted(q) == [q EXCEPT !.write = (@ + 1) % LfqIndex]
Popped(q) == [q EXCEPT !.read = (@ + 1) % LfqIndex]

\* The calls as a whole, where nothing comes between their steps
Push(q, item) == IF IsFull(q) THEN q ELSE Counted(Stored(q, item))
Contents(q) == [i \in 1..QueueSize(q) |-> q.buffer[Mask(q, q.read + i - 1)]]
-----------------------------------------------------------------------------
(* The two threads.  Items are numbered in the order in which push takes   *)
(* them; a call is at "check", at its slot, or at its counter.             *)

VARIABLES lfq, writer, reader,
          pushed,   \* items that push returned true for
          popped,   \* calls of pop that returned true
          val       \* the item that the last of them returned

lfqVars == <<lfq, writer, reader, pushed, popped, val>>

LfqInit == /\ lfq = Queue(LfqCapacity) /\ writer = "check" /\ reader = "check"
           /\ pushed = 0 /\ popped = 0 /\ val = 0

PushCheck == /\ writer = "check" /\ pushed < LfqItems /\ ~IsFull(lfq)
             /\ writer' = "slot"
             /\ UNCHANGED <<lfq, reader, pushed, popped, val>>
PushStore == /\ writer = "slot"
             /\ lfq' = Stored(lfq, pushed + 1)
             /\ writer' = "counter"
             /\ UNCHANGED <<reader, pushed, popped, val>>
PushCount == /\ writer = "counter"
             /\ lfq' = Counted(lfq) /\ pushed' = pushed + 1
             /\ writer' = "check"
             /\ UNCHANGED <<reader, popped, val>>

PopCheck == /\ reader = "check" /\ ~IsEmpty(lfq)
            /\ reader' = "slot"
            /\ UNCHANGED <<lfq, writer, pushed, popped, val>>
PopLoad == /\ reader = "slot"
           /\ val' = Oldest(lfq)
           /\ reader' = "counter"
           /\ UNCHANGED <<lfq, writer, pushed, popped>>
PopCount == /\ reader = "counter"
            /\ lfq' = Popped(lfq) /\ popped' = popped + 1
            /\ reader' = "check"
            /\ UNCHANGED <<writer, pushed, val>>

LfqNext == PushCheck \/ PushStore \/ PushCount \/ PopCheck \/ PopLoad \/ PopCount

LfqSpec == LfqInit /\ [][LfqNext]_lfqVars
-----------------------------------------------------------------------------
\* "read/writes correct after wraparound (takes too long to run)", which the
\* tests leave out: items are popped once and in the order of their pushes, and
\* the queue holds those in between, however often the counters wrap.
QueueInOrder == /\ reader = "check" => val = popped
                /\ writer = "check" /\ reader = "check" =>
                     Contents(lfq) = [i \in 1..(pushed - popped) |-> popped + i]
=============================================================================
