--------------------------- MODULE AssetExtraction ---------------------------
(***************************************************************************)
(* RhythmGame's load of a compressed asset, by either of its extractors:   *)
(* the loop of NDKExtractor over a codec that works at its own pace, and   *)
(* the loop of FFMpegExtractor over a codec that holds some packets back.  *)
(* The asset is AxBlocks blocks, which are numbered; a block decodes to    *)
(* one block.  A read may fail at any of them.  The decoded blocks go into *)
(* a buffer for axRoom of them, 12 times the size of the asset, without a  *)
(* check: to write past its end is undefined, and the behaviour stops.     *)
(***************************************************************************)
EXTENDS Integers, Sequences

CONSTANTS AxBlocks,
          AxRooms,   \* blocks that the buffer of the decoded data may have room for
          AxInputs,  \* input buffers of the NDK's codec
          AxDelay    \* packets that a codec of FFmpeg may hold back

ASSUME AxAssumption == /\ {AxBlocks, AxInputs, AxDelay} \cup AxRooms \subseteq Nat
                       /\ AxInputs > 0 /\ AxRooms # {}

VARIABLES
  axKind,    \* "ndk" or "ffmpeg", a choice of the build
  axStep,    \* "open", "input", "output" (or "packet"), "converted", "done",
             \* "thrown" or "overrun"
  axRoom, isExtracting, isDecoding,
  fed,       \* blocks the codec was given
  held,      \* what it has yet to return; 0 is the end of the stream
  written,   \* blocks in the buffer of the decoded data
  decoded,   \* what the decoder returned: "error", "nothing" or "blocks"
  cut        \* a read failed

axVars == <<axKind, axStep, axRoom, isExtracting, isDecoding, fed, held, written, decoded, cut>>

AxInit == /\ axKind \in {"ndk", "ffmpeg"} /\ axStep = "open"
          /\ axRoom \in AxRooms /\ isExtracting = TRUE /\ isDecoding = TRUE
          /\ fed = 0 /\ held = <<>> /\ written = <<>> /\ decoded = "nothing"
          /\ cut = FALSE

\* memcpy into the buffer
Writes(block, next) ==
  IF Len(written) < axRoom THEN written' = Append(written, block) /\ axStep' = next
  ELSE axStep' = "overrun" /\ UNCHANGED written

\* decode, up to its loop.  The NDK's returns 0 when the asset has another
\* rate or no type, and only logs another number of channels; FFmpeg's
\* returns -1 for each object it cannot make.
OpenAsset ==
  /\ axStep = "open"
  /\ \/ axStep' = (IF axKind = "ndk" THEN "input" ELSE "packet") /\ UNCHANGED decoded
     \/ /\ axStep' = "converted"
        /\ decoded' = IF axKind = "ndk" THEN "nothing" ELSE "error"
  /\ UNCHANGED <<axKind, axRoom, isExtracting, isDecoding, fed, held, written, cut>>
-----------------------------------------------------------------------------
(* NDKExtractor::decode *)

\* The end of the data is queued as a buffer of its own; a read that fails is
\* taken for it.
EndUnqueued == isExtracting' = FALSE /\ isDecoding' = FALSE /\ UNCHANGED held
EndOfData == isExtracting' = FALSE /\ held' = Append(held, 0) /\ UNCHANGED isDecoding

DequeueInput ==
  /\ axStep = "input" /\ (isExtracting \/ isDecoding)
  /\ axStep' = "output"
  /\ \/ UNCHANGED <<isExtracting, isDecoding, fed, held, cut>>   \* or try again later
     \/ /\ isExtracting /\ Len(held) < AxInputs
        /\ \/ /\ fed < AxBlocks
              /\ fed' = fed + 1 /\ held' = Append(held, fed + 1)
              /\ UNCHANGED <<isExtracting, isDecoding, cut>>
           \/ EndOfData /\ cut' = (fed # AxBlocks) /\ UNCHANGED fed
  /\ UNCHANGED <<axKind, axRoom, written, decoded>>

\* The flag of the end comes with a buffer, which is copied as any other.
DequeueOutput ==
  /\ axStep = "output"
  /\ \/ axStep' = "input" /\ UNCHANGED <<isDecoding, held, written>>   \* try again, or a new format
     \/ /\ isDecoding /\ held # <<>>
        /\ isDecoding' = (Head(held) # 0)
        /\ held' = Tail(held)
        /\ IF Head(held) = 0 THEN axStep' = "input" /\ UNCHANGED written
           ELSE Writes(Head(held), "input")
  /\ UNCHANGED <<axKind, axRoom, isExtracting, fed, decoded, cut>>

EndOfLoop == /\ axStep = "input" /\ ~isExtracting /\ ~isDecoding
             /\ axStep' = "converted" /\ decoded' = "blocks"
             /\ UNCHANGED <<axKind, axRoom, isExtracting, isDecoding, fed, held, written, cut>>
-----------------------------------------------------------------------------
(* FFMpegExtractor::decode *)

\* A packet goes in, and at most one frame comes out; an error of the codec gives up.
DropsHeld(queue) == held' = <<>> /\ Writes(Head(queue), "packet")
TakesHeld(queue) == held' = Tail(queue) /\ Writes(Head(queue), "packet")

ReadFrame ==
  /\ axStep = "packet" /\ fed < AxBlocks
  /\ \/ /\ fed' = fed + 1
        /\ LET queue == Append(held, fed + 1)
           IN \/ /\ Len(queue) <= AxDelay          \* EAGAIN
                 /\ held' = queue /\ UNCHANGED <<axStep, written>>
              \/ TakesHeld(queue)
        /\ UNCHANGED decoded
     \/ axStep' = "converted" /\ decoded' = "error" /\ UNCHANGED <<fed, held, written>>
  /\ UNCHANGED <<axKind, axRoom, isExtracting, isDecoding, cut>>

\* Whatever av_read_frame returns but a packet ends the loop, an error as well.
EndOfFile == /\ axStep = "packet"
             /\ axStep' = "converted" /\ decoded' = "blocks" /\ cut' = (fed # AxBlocks)
             /\ UNCHANGED <<axKind, axRoom, isExtracting, isDecoding, fed, held, written>>
-----------------------------------------------------------------------------
\* newFromCompressedAsset: there is a source, whatever was decoded.  Without
\* samples it is empty; -1 bytes make a size that cannot be allocated.
NewSource == /\ axStep = "converted"
             /\ axStep' = IF decoded = "error" THEN "thrown" ELSE "done"
             /\ UNCHANGED <<axKind, axRoom, isExtracting, isDecoding, fed, held, written, decoded, cut>>

AxNext == OpenAsset \/ DequeueInput \/ DequeueOutput \/ EndOfLoop \/ ReadFrame \/ EndOfFile \/ NewSource

AxSpec == AxInit /\ [][AxNext]_axVars
-----------------------------------------------------------------------------
\* What a source of decoded samples holds is the blocks of the asset in order
\* from the first, up to its end unless a read failed, which neither loop tells
\* from the end.  The NDK's loop leaves none out, though its codec returns them
\* when it likes; FFmpeg's leaves those that the codec still holds at the end,
\* AxDelay at most.  The buffer is overrun only by an asset that is compressed
\* more than its size was reckoned for.
DecodedInOrder ==
  axStep = "done" /\ decoded = "blocks" =>
    /\ cut \/ fed = AxBlocks
    /\ axKind = "ndk" => written = [i \in 1..fed |-> i]
    /\ axKind = "ffmpeg" => Len(held) <= AxDelay /\ written \o held = [i \in 1..fed |-> i]
    /\ Len(written) <= axRoom

DecodedWhole == DecodedInOrder /\ (axStep = "overrun" => axRoom < AxBlocks)
=============================================================================
