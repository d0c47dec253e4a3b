-------------------------- MODULE FullDuplexStream --------------------------
(***************************************************************************)
(* The synchronisation of an input stream, which is polled, with the       *)
(* callback of an output stream: FullDuplexStream of OboeTester, and the   *)
(* copy of it in the LiveEffect sample.  Data is counted in bursts, the    *)
(* number of frames of one callback.                                       *)
(*                                                                         *)
(* The two devices run at one rate but not in step: as the callbacks find  *)
(* it, bursts delivered minus callbacks varies by FdxJitter.  FdxRuns      *)
(* bounds the calls of start().                                            *)
(***************************************************************************)
EXTENDS Integers

CONSTANTS FdxDrain,    \* kNumCallbacksToDrain, 20 in the code
          FdxCushion,  \* mNumInputBurstsCushion
          FdxDiscard,  \* kNumCallbacksToDiscard, 30 in the code
          FdxCapacity, \* of the input, in bursts
          FdxJitter, FdxRuns

\* A cushion takes up the jitter; the first drained callback of a restart may
\* only find what the last run left behind.
ASSUME FdxAssumption ==
  /\ {FdxDrain, FdxCushion, FdxDiscard, FdxCapacity, FdxJitter, FdxRuns} \subseteq Nat
  /\ FdxDrain >= 2 /\ FdxJitter <= FdxCushion /\ FdxCapacity > FdxCushion + FdxJitter

VARIABLES
  fdx,        \* the copy: "tester" or "live", with mMinimumFramesBeforeRead
  count,      \* mCountCallbacksToDrain, mCountInputBurstsCushion,
              \* mCountCallbacksToDiscard
  available,  \* bursts in the buffer of the input stream
  inputOn, outputOn,  \* started
  ahead,      \* bursts delivered minus callbacks, once one is delivered
  delivering,
  lastRead,   \* bursts the last onBothStreamsReady was given, -1 before it
  runs

fdxVars == <<fdx, count, available, inputOn, outputOn, ahead, delivering,
             lastRead, runs>>

Fresh == [drain |-> FdxDrain, cushion |-> FdxCushion, discard |-> FdxDiscard]

FdxInit ==
  /\ fdx \in [copy : {"tester", "live"}, minimum : {0, 1}]
  /\ fdx.copy = "live" => fdx.minimum = 0
  /\ count = Fresh
  /\ available = 0 /\ inputOn = FALSE /\ outputOn = FALSE
  /\ ahead = 0 /\ delivering = FALSE /\ lastRead = -1 /\ runs = 0

\* start().  If the input does not start the output is left alone.
FdxStart == /\ ~outputOn /\ runs < FdxRuns
            /\ runs' = runs + 1
            /\ count' = Fresh
            /\ inputOn' \in BOOLEAN /\ outputOn' = inputOn'
            /\ ahead' \in 0..(FdxJitter + 1)
            /\ delivering' = FALSE /\ lastRead' = -1
            /\ UNCHANGED <<fdx, available>>

\* stop().  What the input has recorded stays in its buffer.
FdxStop == /\ outputOn
           /\ inputOn' = FALSE /\ outputOn' = FALSE
           /\ UNCHANGED <<fdx, count, available, ahead, delivering, lastRead, runs>>

\* The input device delivers a burst; when the buffer is full it overruns.
Deliver == /\ inputOn /\ (delivering => ahead <= FdxJitter)
           /\ available' = IF available < FdxCapacity THEN available + 1 ELSE available
           /\ ahead' = IF delivering THEN ahead + 1 ELSE ahead
           /\ delivering' = TRUE
           /\ UNCHANGED <<fdx, count, inputOn, outputOn, lastRead, runs>>
-----------------------------------------------------------------------------
(* onAudioReady, by phase. *)

Draining == count.drain > 0
Cushioning == ~Draining /\ count.cushion > 0
Discarding == ~Draining /\ ~Cushioning /\ count.discard > 0
Steady == ~Draining /\ ~Cushioning /\ ~Discarding

\* readInput(numFrames) with no timeout, of one burst
Readable == IF available >= fdx.minimum /\ available > 0 THEN 1 ELSE 0

DrainUncounted == /\ Draining
                  /\ available' = 0
                  /\ count' = [count EXCEPT !.drain = @ - 1]
                  /\ UNCHANGED <<inputOn, outputOn, lastRead>>

\* "Only counts if we actually got some data."; an error is ignored, as the
\* input may not have started yet.
Drain == /\ Draining
         /\ available' = 0
         /\ count' = IF available > 0 THEN [count EXCEPT !.drain = @ - 1] ELSE count
         /\ UNCHANGED <<inputOn, outputOn, lastRead>>

Cushion == /\ Cushioning
           /\ count' = [count EXCEPT !.cushion = @ - 1]
           /\ UNCHANGED <<available, inputOn, outputOn, lastRead>>

\* An error of the input in the last two phases stops both streams.
InputFails == inputOn' = FALSE /\ outputOn' = FALSE /\ UNCHANGED <<available, lastRead>>

Discard == /\ Discarding
           /\ count' = [count EXCEPT !.discard = @ - 1]
           /\ \/ available' = available - Readable
                 /\ UNCHANGED <<inputOn, outputOn, lastRead>>
              \/ InputFails

Both == /\ Steady
        /\ \/ /\ available' = available - Readable
              /\ lastRead' = Readable
              /\ UNCHANGED <<inputOn, outputOn>>
           \/ InputFails
        /\ UNCHANGED count

Callback == /\ outputOn /\ (delivering => ahead > 0)
            /\ ahead' = IF delivering THEN ahead - 1 ELSE ahead
            /\ Drain \/ Cushion \/ Discard \/ Both
            /\ UNCHANGED <<fdx, delivering, runs>>

FdxNext == FdxStart \/ FdxStop \/ Deliver \/ Callback

FdxSpec == FdxInit /\ [][FdxNext]_fdxVars
-----------------------------------------------------------------------------
\* Once in step the streams stay in step: each callback is given a full burst
\* of input, and beside the burst that is read next nothing waits in the input
\* that the cushion and the jitter do not explain: the latency stays low.
InStep == Steady /\ outputOn => /\ lastRead # 0
                                /\ available <= FdxCushion + FdxJitter + 1
=============================================================================
