--------------------------- MODULE DataConversion ---------------------------
(***************************************************************************)
(* The path of the frames through a FilterAudioStream: from the             *)
(* application to the child stream (output) or back (input), with data      *)
(* callbacks or blocking calls.  A sink pulls frames through an optional    *)
(* resampler from a source, in pieces no longer than a port's buffer; a     *)
(* block adapter is before the graph (FixedBlockReader) or behind it        *)
(* (FixedBlockWriter).  One thread runs all of it; the application and the  *)
(* child stream answer as they like.                                        *)
(*                                                                         *)
(* Frames are numbered as they enter the graph, and numbered again as they  *)
(* leave the resampler, or, where there is none, are copied by the sink.    *)
(* Channels and formats are converted frame by frame and left out.          *)
(***************************************************************************)
EXTENDS Integers, SequencesExt

CONSTANTS
  Paths,       \* of "outputCallback", "outputWrite", "inputCallback", "inputRead"
  Rates,       \* pairs of the rates of source and sink
  Blocks,      \* sizes of the adapter's block
  BufferSize,  \* kDefaultBufferSize, of a port
  ChildBurst,  \* the child's frames per burst, the length of mBlockingBuffer
  MaxCall,     \* longest call
  MaxFrames    \* no call begins that would take the frames beyond this

ASSUME PathAssumption ==
  Paths \subseteq {"outputCallback", "outputWrite", "inputCallback", "inputRead"}
ASSUME RatesAssumption == Rates \subseteq (Nat \ {0}) \X (Nat \ {0})
ASSUME BlockAssumption ==
  /\ Blocks \subseteq Nat \ {0}
  /\ {BufferSize, ChildBurst, MaxCall, MaxFrames} \subseteq Nat \ {0}

VARIABLES
  path, rate, block,  \* the configuration
  ratio,              \* mNumerator and mDenominator of the resampler
  pc,                 \* where the thread is
  asked,              \* frames that FlowGraphSink::read() still lacks
  want, got,          \* of one pull of the sink: frames lacking, frames converted
  need, pulled,       \* of one read of the source: frames lacking, frames read
  data,               \* mData from mFrameIndex on, of a buffered source
  storage,            \* mStorage from mPosition to mValid, of the FixedBlockReader
  entering,           \* the resampler's port from mInputCursor on
  mIntegerPhase,
  entered,            \* last frame to enter the graph
  used,               \* last frame to be written to the resampler, or copied
  made,               \* last frame to leave it
  chunk,              \* frames in the sink's destination
  written,            \* mStorage up to mPosition, of the FixedBlockWriter
  sent,               \* last frame given to the child stream or the application
  mCallbackResult,    \* of the flow graph
  answer,             \* the application's last answer since the stream was started
  stopped,            \* the child's callback has returned Stop
  failed              \* a Stop, an error or a short write: frames may be lost

config == <<path, rate, block, ratio>>
sinkVars == <<asked, want, got>>
upstream == <<data, storage, entering, entered>>
converted == <<mIntegerPhase, used, made>>
downstream == <<chunk, written, sent>>
status == <<mCallbackResult, answer, stopped, failed>>
-----------------------------------------------------------------------------
(* The ratio of two sample rates, as the resampler counts it. *)

kPrimes == <<2, 3, 5, 7, 11, 13, 17, 19, 23, 29, 31, 37, 41, 43, 47, 53, 59, 61, 67,
             71, 73, 79, 83, 89, 97, 101, 103, 107, 109, 113, 127, 131, 137, 139, 149,
             151, 157, 163, 167, 173, 179, 181, 191, 193, 197, 199>>

\* While the prime divides both.
DivideOut[pair \in Nat \X Nat, prime \in Nat] ==
  IF \A i \in 1..2 : pair[i] >= prime /\ pair[i] % prime = 0
  THEN DivideOut[<<pair[1] \div prime, pair[2] \div prime>>, prime]
  ELSE pair

Reduced(pair) == FoldLeft(LAMBDA r, prime : DivideOut[r, prime], pair, kPrimes)

\* A ratio of positive numbers stays one, and the same.
Keeps(pair) == /\ Reduced(pair)[1] \in Nat \ {0} /\ Reduced(pair)[2] \in Nat \ {0}
               /\ Reduced(pair)[1] * pair[2] = Reduced(pair)[2] * pair[1]
KeepsRatio == \A r \in Rates : Keeps(r)
-----------------------------------------------------------------------------
dcVars == <<config, pc, sinkVars, need, pulled, upstream, converted, downstream, status>>

Take(s, n) == SubSeq(s, 1, n)
Drop(s, n) == SubSeq(s, n + 1, Len(s))
Following(n, count) == [i \in 1..count |-> n + i]

Pulls == path \in {"outputCallback", "inputRead"}     \* the source is a SourceCaller
Resampling == rate[1] # rate[2]

DcInit ==
  /\ path \in Paths /\ rate \in Rates /\ block \in Blocks /\ ratio = Reduced(rate)
  \* A burst is longer than a port: a blocking read never reads through.
  /\ path = "inputRead" => block > BufferSize
  /\ pc = "idle" /\ asked = 0 /\ want = 0 /\ got = 0 /\ need = 0 /\ pulled = <<>>
  /\ data = <<>> /\ storage = <<>> /\ entering = <<>> /\ entered = 0
  /\ mIntegerPhase = ratio[2] /\ used = 0 /\ made = 0
  /\ chunk = <<>> /\ written = <<>> /\ sent = 0
  /\ mCallbackResult = "Continue" /\ answer = "Continue"
  /\ stopped = FALSE /\ failed = FALSE
-----------------------------------------------------------------------------
(* The calls *)

\* FilterAudioStream::onAudioReady of an output stream, and read(): pull.
BeginPull(n) ==
  /\ pc = "idle" /\ Pulls /\ ~stopped /\ made + n <= MaxFrames /\ entered <= MaxFrames
  /\ asked' = n /\ pc' = "sink"
  /\ UNCHANGED <<config, want, got, need, pulled, upstream, converted, downstream, status>>

PerRead == IF path = "outputWrite" THEN ChildBurst ELSE BufferSize

\* FilterAudioStream::write and DataConversionFlowGraph::write: set the source,
\* then read the sink.
BeginPush(n) ==
  /\ pc = "idle" /\ ~Pulls /\ ~stopped /\ entered + n <= MaxFrames
  /\ data' = Following(entered, n) /\ entered' = entered + n
  /\ asked' = PerRead /\ pc' = "sink"
  /\ UNCHANGED <<config, want, got, need, pulled, storage, entering, converted, downstream,
                 status>>

\* requestStart() of the child; nothing in the graph is reset.
Restart == /\ stopped /\ stopped' = FALSE /\ answer' = "Continue"
           /\ UNCHANGED <<config, pc, sinkVars, need, pulled, upstream, converted,
                          downstream, mCallbackResult, failed>>
-----------------------------------------------------------------------------
(* The sink and the resampler *)

\* The loop of SinkFloat::read; ports cut the pull to their size.
SinkPull ==
  /\ pc = "sink" /\ asked > 0
  /\ want' = Min({asked, BufferSize}) /\ got' = 0
  /\ IF Resampling THEN pc' = "convert" /\ UNCHANGED <<need, pulled>>
                   ELSE pc' = "source" /\ need' = want' /\ pulled' = <<>>
  /\ UNCHANGED <<config, asked, upstream, converted, downstream, status>>

SinkFull == /\ pc = "sink" /\ asked = 0 /\ pc' = "deliver"
            /\ UNCHANGED <<config, sinkVars, need, pulled, upstream, converted, downstream,
                           status>>

IsWriteNeeded == mIntegerPhase >= ratio[2]

\* Takes one frame of what the port holds and pulls again.
ConvertWriteOff ==
  /\ pc = "convert" /\ want > 0 /\ IsWriteNeeded /\ entering # <<>>
  /\ used' = Head(entering) /\ entering' = <<>>
  /\ mIntegerPhase' = mIntegerPhase - ratio[2]
  /\ UNCHANGED <<config, pc, sinkVars, need, pulled, data, storage, entered, made,
                 downstream, status>>

ConvertWrite ==
  /\ pc = "convert" /\ want > 0 /\ IsWriteNeeded /\ entering # <<>>
  /\ used' = Head(entering) /\ entering' = Tail(entering)
  /\ mIntegerPhase' = mIntegerPhase - ratio[2]
  /\ UNCHANGED <<config, pc, sinkVars, need, pulled, data, storage, entered, made,
                 downstream, status>>

ConvertRead ==
  /\ pc = "convert" /\ want > 0 /\ ~IsWriteNeeded
  /\ made' = made + 1 /\ chunk' = Append(chunk, made + 1)
  /\ mIntegerPhase' = mIntegerPhase + ratio[1]
  /\ want' = want - 1 /\ got' = got + 1
  /\ UNCHANGED <<config, pc, asked, need, pulled, upstream, used, written, sent, status>>

\* isInputAvailable() pulls as much as the port holds.
ConvertPull ==
  /\ pc = "convert" /\ want > 0 /\ IsWriteNeeded /\ entering = <<>>
  /\ need' = BufferSize /\ pulled' = <<>> /\ pc' = "source"
  /\ UNCHANGED <<config, sinkVars, upstream, converted, downstream, status>>

ConvertEnd ==
  /\ pc = "convert" /\ want = 0
  /\ asked' = asked - got /\ pc' = "sink"
  /\ UNCHANGED <<config, want, got, need, pulled, upstream, converted, downstream, status>>
-----------------------------------------------------------------------------
(* The source *)

\* SourceFloat::onProcess
ReadBuffered ==
  /\ pc = "source" /\ ~Pulls
  /\ LET n == Min({need, Len(data)}) IN pulled' = Take(data, n) /\ data' = Drop(data, n)
  /\ pc' = "pulled"
  /\ UNCHANGED <<config, sinkVars, need, storage, entering, entered, converted, downstream,
                 status>>

\* FixedBlockReader::readFromStorage
ReadFromStorage ==
  /\ pc = "source" /\ Pulls /\ need > 0 /\ storage # <<>>
  /\ LET n == Min({need, Len(storage)}) IN
       pulled' = pulled \o Take(storage, n) /\ storage' = Drop(storage, n) /\ need' = need - n
  /\ UNCHANGED <<config, pc, sinkVars, data, entering, entered, converted, downstream, status>>

\* AudioSourceCaller::onProcessFixedBlock: the application fills a block, or the
\* child stream has n frames of it.
Process(n) ==
  /\ n \in IF path = "outputCallback" THEN {block} ELSE 0..block
  /\ entered' = entered + n
  /\ answer' = IF path = "outputCallback" THEN "Continue" ELSE answer

\* It answers Stop, or there is an error.  What read() had copied is forgotten.
ProcessFails ==
  /\ pc = "source" /\ Pulls /\ need > 0 /\ storage = <<>>
  /\ pulled' = <<>> /\ pc' = "pulled" /\ failed' = TRUE
  /\ answer' = IF path = "outputCallback" THEN "Stop" ELSE answer
  /\ UNCHANGED <<config, sinkVars, need, upstream, converted, downstream, mCallbackResult,
                 stopped>>

ReadThrough ==
  /\ pc = "source" /\ Pulls /\ need >= block /\ storage = <<>>
  /\ \E n \in 0..block :
       Process(n) /\ pulled' = pulled \o Following(entered, n) /\ need' = need - n
  /\ UNCHANGED <<config, pc, sinkVars, data, storage, entering, converted, downstream,
                 mCallbackResult, stopped, failed>>

Reload ==
  /\ pc = "source" /\ Pulls /\ need \in 1..(block - 1) /\ storage = <<>>
  /\ \E n \in 0..block :
       /\ Process(n) /\ storage' = Following(entered, n)
       /\ pc' = IF n = 0 THEN "pulled" ELSE pc
  /\ UNCHANGED <<config, sinkVars, need, pulled, data, entering, converted, downstream,
                 mCallbackResult, stopped, failed>>

ReadComplete ==
  /\ pc = "source" /\ Pulls /\ need = 0 /\ pc' = "pulled"
  /\ UNCHANGED <<config, sinkVars, need, pulled, upstream, converted, downstream, status>>

\* The frames arrive in the sink; none end its read.
PulledBySink ==
  /\ pc = "pulled" /\ ~Resampling
  /\ IF pulled = <<>> THEN pc' = "deliver" /\ UNCHANGED <<asked, used, made, chunk>>
     ELSE /\ pc' = "sink" /\ asked' = asked - Len(pulled)
          /\ used' = Last(pulled) /\ made' = made + Len(pulled)
          /\ chunk' = chunk \o Following(made, Len(pulled))
  /\ pulled' = <<>>
  /\ UNCHANGED <<config, want, got, need, upstream, mIntegerPhase, written, sent, status>>

\* They arrive in the resampler's port; with none onProcess() ends, and the sink
\* pulls again if it got any.
PulledByConverter ==
  /\ pc = "pulled" /\ Resampling
  /\ entering' = pulled /\ pulled' = <<>>
  /\ \/ pulled # <<>> /\ pc' = "convert" /\ asked' = asked
     \/ pulled = <<>> /\ got > 0 /\ pc' = "sink" /\ asked' = asked - got
     \/ pulled = <<>> /\ got = 0 /\ pc' = "deliver" /\ asked' = asked
  /\ UNCHANGED <<config, want, got, need, data, storage, entered, converted, downstream,
                 status>>
-----------------------------------------------------------------------------
(* What the sink has read *)

Empty == chunk' = <<>>
LastOf(s) == sent' = IF s = <<>> THEN sent ELSE Last(s)

\* Only what the application answered to the last block counts.
EndPullOff ==
  /\ pc = "deliver" /\ Pulls
  /\ LastOf(chunk) /\ Empty /\ pc' = "idle" /\ asked' = 0
  /\ stopped' = (path = "outputCallback" /\ mCallbackResult = "Stop")
  /\ UNCHANGED <<config, want, got, need, pulled, upstream, converted, written,
                 mCallbackResult, answer, failed>>

\* The child's callback returns, or read() does.
EndPull ==
  /\ pc = "deliver" /\ Pulls
  /\ LastOf(chunk) /\ Empty /\ pc' = "idle" /\ asked' = 0
  /\ stopped' = (path = "outputCallback" /\ (asked > 0 \/ mCallbackResult = "Stop"))
  /\ UNCHANGED <<config, want, got, need, pulled, upstream, converted, written,
                 mCallbackResult, answer, failed>>

\* DataConversionFlowGraph::write, and with it the child's callback, or
\* FilterAudioStream::write return.
EndPush ==
  /\ pc = "deliver" /\ ~Pulls /\ chunk = <<>>
  /\ pc' = "idle" /\ asked' = 0
  /\ stopped' = (path = "inputCallback" /\ mCallbackResult = "Stop")
  /\ UNCHANGED <<config, want, got, need, pulled, upstream, converted, downstream,
                 mCallbackResult, answer, failed>>

NextRead == pc' = "sink" /\ asked' = PerRead

\* FilterAudioStream::write to the child, which may take less before its timeout.
WriteChild ==
  /\ pc = "deliver" /\ path = "outputWrite" /\ chunk # <<>>
  /\ \E n \in 0..Len(chunk) :
       LastOf(Take(chunk, n)) /\ failed' = (failed \/ n < Len(chunk))
  /\ Empty /\ NextRead
  /\ UNCHANGED <<config, want, got, need, pulled, upstream, converted, written,
                 mCallbackResult, answer, stopped>>

\* ... or fail, and write() returns at once.
WriteFails ==
  /\ pc = "deliver" /\ path = "outputWrite" /\ chunk # <<>>
  /\ Empty /\ failed' = TRUE /\ pc' = "idle" /\ asked' = 0
  /\ UNCHANGED <<config, want, got, need, pulled, upstream, converted, written, sent,
                 mCallbackResult, answer, stopped>>

\* DataConversionFlowGraph::onProcessFixedBlock
CallApp(frames) ==
  /\ LastOf(frames)
  /\ mCallbackResult' \in {"Continue", "Stop"} /\ answer' = mCallbackResult'

\* FixedBlockWriter::write: a storage that is not empty is filled up, and flushed
\* when it is full.
AddToStorage ==
  /\ pc = "deliver" /\ path = "inputCallback" /\ chunk # <<>> /\ written # <<>>
  /\ LET n == Min({Len(chunk), block - Len(written)})
         full == written \o Take(chunk, n)
     IN /\ chunk' = Drop(chunk, n)
        /\ IF Len(full) = block THEN CallApp(full) /\ written' = <<>>
           ELSE written' = full /\ UNCHANGED <<sent, mCallbackResult, answer>>
        /\ IF chunk' = <<>> THEN NextRead ELSE pc' = "blocks" /\ UNCHANGED asked
  /\ UNCHANGED <<config, want, got, need, pulled, upstream, converted, stopped, failed>>

AtBlocks == \/ pc = "blocks"
            \/ pc = "deliver" /\ path = "inputCallback" /\ chunk # <<>> /\ written = <<>>

WriteThrough ==
  /\ AtBlocks /\ Len(chunk) > block
  /\ CallApp(Take(chunk, block)) /\ chunk' = Drop(chunk, block) /\ pc' = "blocks"
  /\ UNCHANGED <<config, sinkVars, need, pulled, upstream, converted, written, stopped,
                 failed>>

\* A block that is complete now is flushed by the next write only.
WriteRest ==
  /\ AtBlocks /\ Len(chunk) <= block
  /\ written' = chunk /\ Empty /\ NextRead
  /\ UNCHANGED <<config, want, got, need, pulled, upstream, converted, sent, status>>
-----------------------------------------------------------------------------
Step == \/ SinkPull \/ SinkFull
        \/ ConvertWrite \/ ConvertRead \/ ConvertPull \/ ConvertEnd
        \/ ReadBuffered \/ ReadFromStorage \/ ReadThrough \/ Reload \/ ReadComplete
        \/ ProcessFails \/ PulledBySink \/ PulledByConverter
        \/ EndPull \/ EndPush \/ WriteChild \/ WriteFails
        \/ AddToStorage \/ WriteThrough \/ WriteRest

\* The application makes no more calls.
Done == pc = "idle" /\ UNCHANGED dcVars

DcNext == Step \/ Restart \/ Done \/ \E n \in 1..MaxCall : BeginPull(n) \/ BeginPush(n)

DcSpec == DcInit /\ [][DcNext]_dcVars
-----------------------------------------------------------------------------
(* Frames that have not been converted, and those that have, oldest first *)

Upstream == entering \o pulled \o storage \o data
Downstream == written \o chunk

Increasing(s) == \A i \in 1..(Len(s) - 1) : s[i] < s[i + 1]

\* However calls, blocks, ports and rates divide the frames, and whatever fails, no
\* frame is converted or handed over twice, or after a later one.  Every frame that
\* entered has been converted or waits in one of the buffers, and every converted
\* one has been handed over or waits, unless there was a Stop, an error or a short
\* write of the child; and write(), and the callback of an input stream, leave
\* nothing behind but what the application's next block begins with.
NothingLost ==
  /\ Increasing(<<used>> \o Upstream) /\ Increasing(<<sent>> \o Downstream)
  /\ ~failed => /\ Upstream = Following(used, entered - used)
                /\ Downstream = Following(sent, made - sent)
                /\ pc = "idle" /\ ~Pulls =>
                     /\ used = entered
                     /\ made - sent <= IF path = "inputCallback" THEN block ELSE 0

\* A frame leaves the resampler between the two input frames it interpolates: over
\* any length of time the frames are in the ratio of the rates.
NoDrift ==
  ~failed => IF Resampling THEN /\ rate[2] * (used - 1) <= rate[1] * made
                                /\ rate[1] * (made - 1) < rate[2] * used
             ELSE used = made

\* Frames go through a filter stream's adapters and resampler one by one, none is
\* lost but by a child's short write, and as many come out as the rates say
\* (DataConversionFlowGraph.cpp, IntegerRatio.cpp).
FramesAccounted == NothingLost /\ NoDrift

\* Within one callback of the child the application may be called for several
\* blocks, and its last answer counts: if it is Stop the child is told to stop,
\* and an output stream stops for no other reason.  (An earlier Stop is
\* overwritten by a later Continue: StopIsImmediate.)
StopIsHeard ==
  pc = "idle" => /\ answer = "Stop" => stopped
                 /\ path = "outputCallback" /\ stopped => answer = "Stop"

\* "Indicates to the caller that the callbacks should stop immediately"
\* (DataCallbackResult::Stop, Definitions.h): the application that has answered
\* Stop is given no frames, and asked for none, before the next start.
StopIsImmediate ==
  [][answer = "Stop" => /\ path = "inputCallback" => sent' = sent
                        /\ path = "outputCallback" => entered' = entered]_dcVars
=============================================================================
