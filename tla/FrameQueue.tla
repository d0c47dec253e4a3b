----------------------------- MODULE FrameQueue -----------------------------
(***************************************************************************)
(* What the FIFO of src/fifo promises to its two threads, with no storage, *)
(* no indices and no counters: a bounded first-in first-out queue of       *)
(* frames.  The writer adds a batch at the tail, the reader takes a batch  *)
(* from the head.  Frames are numbered in the order they are written, so a *)
(* lost, repeated, torn or reordered frame would be visible.               *)
(***************************************************************************)
EXTENDS Naturals, Sequences

CONSTANT Capacity

VARIABLES queue,      \* frames written and not yet read, oldest first
          nextFrame,  \* number of the next frame to be written
          delivered   \* the batch the last read returned

qvars == <<queue, nextFrame, delivered>>

QInit == queue = << >> /\ nextFrame = 0 /\ delivered = << >>

\* write(): a batch of consecutive frames enters, as many as fit at most.
Enqueue == \E n \in 0..(Capacity - Len(queue)) :
             /\ queue' = queue \o [i \in 1..n |-> nextFrame + i - 1]
             /\ nextFrame' = nextFrame + n
             /\ UNCHANGED delivered

\* read(): the oldest frames leave, in order, and are what the caller gets.
Dequeue == \E n \in 0..Len(queue) :
             /\ delivered' = SubSeq(queue, 1, n)
             /\ queue' = SubSeq(queue, n + 1, Len(queue))
             /\ UNCHANGED nextFrame

\* The caller of the last read reuses its buffer for the next one.
Reuse == delivered' = << >> /\ UNCHANGED <<queue, nextFrame>>

QNext == Enqueue \/ Dequeue \/ Reuse

QSpec == QInit /\ [][QNext]_qvars
=============================================================================
