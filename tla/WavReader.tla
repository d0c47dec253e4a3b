------------------------------ MODULE WavReader ------------------------------
(***************************************************************************)
(* parselib's WavStreamReader over a MemInputStream: the chunks of a file  *)
(* are parsed, and its samples are read in blocks and converted.  A file   *)
(* is the sequence of its chunks and the bytes that are there of them; a   *)
(* sample is known by the position of its bytes.                           *)
(***************************************************************************)
EXTENDS Integers, SequencesExt

CONSTANTS WrBlock,   \* kConversionBufferFrames
          WrFrames,  \* bounds the frames of a file
          WrMissing  \* bounds the bytes that are missing at its end

ASSUME WrAssumption == {WrBlock, WrFrames, WrMissing} \subseteq Nat /\ WrBlock > 0

VARIABLES
  file,         \* [chunks, length, format]
  wrStep,       \* "parse", "position", "read", "done"
  mPos,         \* of the stream
  fmtRead,      \* mFmtChunk was read
  dataStart,    \* mAudioDataStartPos, or -1
  mChunkSize,   \* of mDataChunk
  unread,         \* what is still to be read, in units
  buff          \* the samples that were converted

wrVars == <<file, wrStep, mPos, fmtRead, dataStart, mChunkSize, unread, buff>>

\* The bytes that a chunk takes in a file: a body is padded to an even size.
Bytes(chunk) == IF chunk.id = "RIFF" THEN 12 ELSE 8 + chunk.size + (chunk.size % 2)
End(chunks, k) == LET upTo(i) == IF i <= k THEN Bytes(chunks[i]) ELSE 0
                  IN upTo(1) + upTo(2) + upTo(3) + upTo(4) + upTo(5)
Chunk(id, size) == [id |-> id, size |-> size]

\* A file has the format chunk of 16 bytes, maybe with two bytes for the size
\* of an extension, and other chunks before and after its data.
ChunksOf(format, frames, size, other) ==
  <<Chunk("RIFF", 0), Chunk("other", other), Chunk("fmt", size),
    Chunk("data", frames * format.bytes * format.channels), Chunk("other", other)>>
LengthOf(chunks, missing) ==
  IF missing = 0 THEN End(chunks, 5)
  ELSE IF missing < End(chunks, 4) THEN End(chunks, 4) - missing ELSE 0
FileOf(format, chunks, missing) ==
  [chunks |-> chunks, format |-> format, length |-> LengthOf(chunks, missing)]
Files == {FileOf(format, ChunksOf(format, frames, size, other), missing) :
            format \in [bytes : 1..4, channels : 1..2], frames \in 1..WrFrames,
            size \in {16, 18}, other \in {0, 1, 2}, missing \in 0..WrMissing}

WrInit == /\ file \in Files /\ wrStep = "parse" /\ mPos = 0 /\ fmtRead = FALSE
          /\ dataStart = -1 /\ mChunkSize = 0 /\ unread = 0 /\ buff = <<>>
-----------------------------------------------------------------------------
(* MemInputStream *)

Available == file.length - mPos
ReadTo(bytes) == mPos + (IF bytes < Available THEN bytes ELSE Available)
SetPos(pos) == IF pos <= 0 THEN mPos ELSE IF pos < file.length THEN pos ELSE file.length - 1

-----------------------------------------------------------------------------
(* parse *)

\* What the reader takes for a chunk where it stands, which is anything where
\* no chunk begins.
Seen == LET here == {k \in DOMAIN file.chunks : End(file.chunks, k - 1) = mPos}
        IN IF here # {} THEN {file.chunks[k] : k \in here} ELSE {Chunk("other", size) : size \in {0, 3}}

\* WavChunkHeader::read, WavRIFFChunkHeader::read, WavFmtChunkHeader::read, and
\* advance past the body of a chunk that is not a format
SkippedHeaders(chunk) == CASE chunk.id = "RIFF" -> 12 [] chunk.id = "fmt" -> 24 [] OTHER -> 8
Skipped(chunk) == CASE chunk.id = "RIFF" -> 12 [] chunk.id = "fmt" -> 24 [] OTHER -> 8 + chunk.size

Parse == /\ wrStep = "parse" /\ Available > 0
         /\ \E chunk \in Seen :
              /\ mPos' = ReadTo(Skipped(chunk))
              /\ fmtRead' = (fmtRead \/ chunk.id = "fmt")
              /\ dataStart' = IF chunk.id = "data" THEN ReadTo(8) ELSE dataStart
              /\ mChunkSize' = IF chunk.id = "data" THEN chunk.size ELSE mChunkSize
         /\ UNCHANGED <<file, wrStep, unread, buff>>

ParseEnd == /\ wrStep = "parse" /\ Available = 0
            /\ wrStep' = "position"
            /\ mPos' = IF dataStart = -1 THEN mPos ELSE SetPos(dataStart)
            /\ UNCHANGED <<file, fmtRead, dataStart, mChunkSize, unread, buff>>
-----------------------------------------------------------------------------
(* loadSampleData and getDataFloat *)

\* What is read as a whole: a frame, but a sample of 24 bits
FrameSize == file.format.bytes * file.format.channels
UnitSize == IF file.format.bytes = 3 THEN 3 ELSE FrameSize
PerUnit == UnitSize \div file.format.bytes

\* getNumSampleFrames, and a new array of floats; without a format or data the
\* reader fails.
Position == /\ wrStep = "position"
            /\ wrStep' = IF fmtRead /\ dataStart # -1 THEN "read" ELSE "failed"
            /\ mPos' = IF dataStart = -1 THEN mPos ELSE SetPos(dataStart)
            /\ unread' = IF fmtRead THEN (mChunkSize \div FrameSize) * (FrameSize \div UnitSize) ELSE 0
            /\ UNCHANGED <<file, fmtRead, dataStart, mChunkSize, buff>>

\* A block, of which whole frames are converted: PCM8, PCM16 and PCM32.  Floats
\* are read at once, and PCM24 sample by sample.
Asked == IF file.format.bytes = 3 THEN 1 ELSE IF unread < WrBlock THEN unread ELSE WrBlock
Samples(n) == [i \in 1..(n * PerUnit) |-> mPos + (i - 1) * file.format.bytes]

BlockUnchecked(asked) == asked
Block(asked) == (ReadTo(asked * UnitSize) - mPos) \div UnitSize

ReadBlock ==
  /\ wrStep = "read" /\ unread > 0
  /\ LET n == Block(Asked)
     IN /\ buff' = buff \o Samples(n)
        /\ mPos' = ReadTo(Asked * UnitSize)
        /\ unread' = unread - n
        /\ wrStep' = IF n < Asked THEN "zero" ELSE "read"
  /\ UNCHANGED <<file, fmtRead, dataStart, mChunkSize>>

\* "Zero out any unread frames", which getDataFloat_PCM24 never reports
ZeroUnread == /\ wrStep = "zero" \/ (wrStep = "read" /\ unread = 0)
              /\ wrStep' = "done"
              /\ buff' = buff \o [i \in 1..(unread * PerUnit) |->
                                    IF file.format.bytes = 3 THEN -1 ELSE 0]
              /\ UNCHANGED <<file, mPos, fmtRead, dataStart, mChunkSize, unread>>

WrNext == Parse \/ ParseEnd \/ Position \/ ReadBlock \/ ZeroUnread

WrSpec == WrInit /\ [][WrNext]_wrVars
-----------------------------------------------------------------------------
\* Where no chunk has an odd size, or an extension of the format, the samples
\* of a file are those of its data chunk, all of them and in order, whatever
\* the chunks around it and the size of the blocks; those that are missing at
\* the end of the file are silent (or, of 24 bits, what was in memory).
WellFormed == /\ file.chunks[3].size = 16
              /\ \A k \in {2, 4} : file.chunks[k].size % 2 = 0
SamplesRead ==
  /\ WellFormed /\ End(file.chunks, 3) + 8 < file.length =>
       /\ wrStep # "failed"
       /\ wrStep = "done" =>
            buff = [i \in 1..(file.chunks[4].size \div file.format.bytes) |->
                      LET pos == End(file.chunks, 3) + 8 + (i - 1) * file.format.bytes
                          unit == pos - ((pos - End(file.chunks, 3) - 8) % UnitSize)
                      IN IF unit + UnitSize <= file.length THEN pos
                         ELSE IF file.format.bytes = 3 THEN -1 ELSE 0]
  /\ mPos <= file.length
=============================================================================
