-------------------------------- MODULE Fifo --------------------------------
(***************************************************************************)
(* FifoBuffer over a FifoController (src/fifo): a ring of TotalFrames      *)
(* frames that one writer thread and one reader thread share with no lock, *)
(* only two atomic counters that never wrap in practice (uint64).  memcpy  *)
(* is not atomic, so a frame is copied per step and the other thread may   *)
(* run between any two of them; a counter moves only after the copy.       *)
(*                                                                         *)
(* A frame's payload is the number of frames written before it.            *)
(* MaxWritten bounds the run, MaxTransfer the numFrames of one call.       *)
(*                                                                         *)
(* In every module a definition named ...Off, or after the defect it has,  *)
(* is a plausible slip in the one below it: no specification uses it, and  *)
(* PROJECT.json says which property catches it.                            *)
(***************************************************************************)
EXTENDS Integers, Sequences, FiniteSets

CONSTANTS TotalFrames, MaxTransfer, MaxWritten

\* FifoControllerBase asserts a sane capacity; % by zero is undefined.
ASSUME TotalAssumption == TotalFrames \in Nat \ {0}
ASSUME BoundsAssumption == MaxTransfer \in Nat /\ MaxWritten \in Nat

VARIABLES writeCounter,  \* mWriteCounter
          readCounter,   \* mReadCounter
          mStorage,      \* mStorage: slot -> frame
          writer,        \* the locals of a write() in progress
          reader         \* the locals of a read() or readNow() in progress

fifoVars == <<writeCounter, readCounter, mStorage, writer, reader>>

Silence == -1            \* what readNow's memset leaves, and fresh storage

Lesser(a, b) == IF a < b THEN a ELSE b

FullFramesOff(w, r) == IF r > w THEN 0 ELSE Lesser(w - r + 1, TotalFrames)
FullFrames(w, r) == IF r > w THEN 0 ELSE Lesser(w - r, TotalFrames)
EmptyFramesOff(w, r) == TotalFrames + 1 - FullFrames(w, r)
EmptyFrames(w, r) == TotalFrames - FullFrames(w, r)
Index(counter) == counter % TotalFrames

\* Slot of the k-th frame of a transfer that starts at index: the second of
\* the two memcpy parts starts again at the beginning of the storage.
Slot(index, k) == IF index + k < TotalFrames THEN index + k
                                          ELSE index + k - TotalFrames

Resting == [busy |-> FALSE, frames |-> 0, index |-> 0, done |-> 0]

FifoInit == /\ writeCounter = 0 /\ readCounter = 0
            /\ mStorage = [s \in 0..(TotalFrames - 1) |-> Silence]
            /\ writer = Resting
            /\ reader = [busy |-> FALSE, frames |-> 0, index |-> 0, out |-> << >>, pad |-> 0]

(* write(): clip the request to the room there is, copy, then publish. *)
WriteBegin(numFrames) ==
  /\ ~writer.busy
  /\ writeCounter + numFrames <= MaxWritten
  /\ writer' = [busy |-> TRUE, index |-> Index(writeCounter), done |-> 0,
                frames |-> Lesser(numFrames,
                                   EmptyFrames(writeCounter, readCounter))]
  /\ UNCHANGED <<writeCounter, readCounter, mStorage, reader>>

WriteCopy ==
  /\ writer.busy /\ writer.done < writer.frames
  /\ mStorage' = [mStorage EXCEPT ![Slot(writer.index, writer.done)] =
                                  writeCounter + writer.done]
  /\ writer' = [writer EXCEPT !.done = @ + 1]
  /\ UNCHANGED <<writeCounter, readCounter, reader>>

WriteCommit ==
  /\ writer.busy /\ writer.done = writer.frames
  /\ writeCounter' = writeCounter + writer.frames
  /\ writer' = [writer EXCEPT !.busy = FALSE]
  /\ UNCHANGED <<readCounter, mStorage, reader>>

(* read() and readNow(): readNow differs in what it does to the tail of the
   caller's buffer that read() could not fill. *)
ReadBegin(numFrames, now) ==
  /\ ~reader.busy
  /\ LET n == Lesser(numFrames, FullFrames(writeCounter, readCounter))
     IN  reader' = [busy |-> TRUE, frames |-> n, index |-> Index(readCounter),
                    out |-> << >>, pad |-> IF now THEN numFrames - n ELSE 0]
  /\ UNCHANGED <<writeCounter, readCounter, mStorage, writer>>

ReadCopy ==
  /\ reader.busy /\ Len(reader.out) < reader.frames
  /\ reader' = [reader EXCEPT !.out =
                  Append(@, mStorage[Slot(reader.index, Len(@))])]
  /\ UNCHANGED <<writeCounter, readCounter, mStorage, writer>>

ReadCommitPadded ==
  /\ reader.busy /\ Len(reader.out) = reader.frames
  /\ readCounter' = readCounter + reader.frames + reader.pad
  /\ reader' = [reader EXCEPT !.busy = FALSE,
                              !.out = @ \o [i \in 1..reader.pad |-> Silence]]
  /\ UNCHANGED <<writeCounter, mStorage, writer>>

ReadCommit ==
  /\ reader.busy /\ Len(reader.out) = reader.frames
  /\ readCounter' = readCounter + reader.frames
  /\ reader' = [reader EXCEPT !.busy = FALSE,
                              !.out = @ \o [i \in 1..reader.pad |-> Silence]]
  /\ UNCHANGED <<writeCounter, mStorage, writer>>

FifoNext == \/ \E n \in 1..MaxTransfer : WriteBegin(n)
            \/ WriteCopy \/ WriteCommit
            \/ \E n \in 1..MaxTransfer, now \in BOOLEAN : ReadBegin(n, now)
            \/ ReadCopy \/ ReadCommit

FifoSpec == FifoInit /\ [][FifoNext]_fifoVars
-----------------------------------------------------------------------------
Writing == [busy : BOOLEAN, frames : 0..TotalFrames, index : 0..(TotalFrames - 1),
            done : 0..TotalFrames]
Reading == [busy : BOOLEAN, frames : 0..TotalFrames, index : 0..(TotalFrames - 1),
            out : Seq(Int), pad : Nat]

\* The values every variable takes: no claim is larger than the ring.
TypeOK == /\ writeCounter \in Nat /\ readCounter \in Nat
          /\ mStorage \in [0..(TotalFrames - 1) -> Int]
          /\ writer \in Writing /\ reader \in Reading

\* Slots that a copy in progress has still to write, or to read.
WriterSlots == IF writer.busy
               THEN {Slot(writer.index, k) : k \in writer.done..(writer.frames - 1)}
               ELSE {}
ReaderSlots == IF reader.busy
               THEN {Slot(reader.index, k) :
                       k \in Len(reader.out)..(reader.frames - 1)}
               ELSE {}

\* The two memcpy calls, which run at the same time with no lock, never touch
\* the same frame of mStorage: this is what the clipping against the other
\* thread's counter in read() and write() is for.
NoTornFrame == WriterSlots \cap ReaderSlots = {}

\* The frames a read hands to its caller, even before it has published its
\* counter, are exactly the next ones in the order they were written, wherever
\* in the ring the two copies of a wrapped transfer put them.
ReadsInOrder ==
  reader.busy => \A i \in 1..Len(reader.out) :
                   reader.out[i] = readCounter + i - 1

\* Neither thread ever runs past the other: at most TotalFrames frames are in the
\* buffer, so getFullFramesAvailable never has to clip.
WithinCapacity == /\ readCounter <= writeCounter
                  /\ writeCounter - readCounter <= TotalFrames

\* The contents, read out of the ring from the read counter on, and the batch
\* of the last read that has returned.
Ring == [i \in 1..(writeCounter - readCounter) |->
           mStorage[Slot(Index(readCounter), i - 1)]]
Delivered == IF reader.busy THEN << >>
                            ELSE SubSeq(reader.out, 1, reader.frames)

Queue == INSTANCE FrameQueue WITH Capacity <- TotalFrames, queue <- Ring,
                                  nextFrame <- writeCounter, delivered <- Delivered

\* Through any interleaving of the copies and the counters, what the two
\* threads see is a bounded queue of frames: src/fifo implements FrameQueue.
ImplementsQueue == Queue!QSpec
=============================================================================
