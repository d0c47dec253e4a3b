------------------------------ MODULE Recording ------------------------------
(***************************************************************************)
(* MultiChannelRecording of OboeTester: a ring of the last RecSize frames, *)
(* written by the callback of the input, then rewound and read, a block at *)
(* a time by PlayRecordingCallback or a frame at a time by saveWaveFile.   *)
(* A frame is known by its number.  RecWritten bounds the frames written.  *)
(***************************************************************************)
EXTENDS Integers, Sequences, SequencesExt, FiniteSetsExt

CONSTANTS RecSize, RecBlock, RecWritten
ASSUME RecAssumption == {RecSize, RecBlock, RecWritten} \subseteq Nat \ {0}

VARIABLES
  ring,         \* mData: the frame in each place
  writeCursor, readCursor,
  reading,      \* who reads: "nobody", "player", "file"
  taken         \* what the last read was handed, by whom and from which frame on

recVars == <<ring, writeCursor, readCursor, reading, taken>>

RecInit == /\ ring = [i \in 0..(RecSize - 1) |-> 0]
           /\ writeCursor = 0 /\ readCursor = 0
           /\ reading = "nobody" /\ taken = [by |-> "nobody", from |-> 1, frames |-> <<>>]

\* getSizeInFrames
Size == Min({writeCursor, RecSize})

\* write, in one or more contiguous parts
RecWrite(n) ==
  /\ reading = "nobody" /\ writeCursor + n <= RecWritten
  /\ ring' = [i \in DOMAIN ring |->
                LET ages == {k \in 1..n : (writeCursor + k - 1) % RecSize = i}
                IN IF ages = {} THEN ring[i] ELSE writeCursor + Max(ages)]
  /\ writeCursor' = writeCursor + n
  /\ UNCHANGED <<readCursor, reading, taken>>

RewindToStart(who) ==
  /\ reading = "nobody" /\ Size > 0
  /\ readCursor' = 0
  /\ reading' = who
  /\ UNCHANGED <<ring, writeCursor, taken>>

\* rewind, which the player does and saveWaveFile
Rewind(who) ==
  /\ reading = "nobody" /\ Size > 0
  /\ readCursor' = writeCursor - Size
  /\ reading' = who
  /\ UNCHANGED <<ring, writeCursor, taken>>

\* read, in at most two contiguous parts.  The second part of a read that goes
\* round the ring is copied over the first: the place in the buffer does not
\* advance, and what is behind them is left as it was.
Copied(n, cursor) ==
  LET index == cursor % RecSize
      first == Min({n, RecSize - index})
  IN [k \in 1..n |-> IF k <= n - first THEN ring[k - 1]
                     ELSE IF k <= first THEN ring[index + k - 1] ELSE 0]

Left(n) == Min({n, RecSize, writeCursor - readCursor})

RecRead(n) ==
  /\ taken' = [by |-> reading, from |-> readCursor + 1,
               frames |-> Copied(Left(n), readCursor)]
  /\ readCursor' = readCursor + Left(n)
  /\ UNCHANGED <<ring, writeCursor>>

\* PlayRecordingCallback stops its stream when there is nothing more to read.
Play == /\ reading = "player"
        /\ RecRead(RecBlock)
        /\ reading' = IF Left(RecBlock) > 0 THEN "player" ELSE "nobody"

\* saveWaveFile
Save == /\ reading = "file"
        /\ RecRead(1)
        /\ reading' = IF readCursor + 1 < writeCursor THEN "file" ELSE "nobody"

RecNext == \/ \E n \in 1..RecBlock : RecWrite(n)
           \/ Rewind("player") \/ Rewind("file") \/ Play \/ Save

RecSpec == RecInit /\ [][RecNext]_recVars
-----------------------------------------------------------------------------
\* "Read numFrames from the recording into the buffer": a read is handed the
\* next frames, in the order in which they were recorded.
ReadIsInOrder ==
  \A k \in 1..Len(taken.frames) : taken.frames[k] = taken.from + k - 1

\* A file holds the most recent frames, all that the recording keeps, in the
\* order in which they were recorded.
FileIsInOrder == taken.by = "file" => ReadIsInOrder
=============================================================================
