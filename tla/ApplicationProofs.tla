------------------------- MODULE ApplicationProofs --------------------------
(***************************************************************************)
(* Proofs about OboeTester and fxlab, one part after the other.            *)
(*                                                                         *)
(* FullDuplexStream, RoundTripLatency, TesterSession, NativeContext: what  *)
(* the streams, screens and threads of OboeTester rely on, for any number  *)
(* of presses, callbacks and threads.                                      *)
(*                                                                         *)
(* Recording: for every size of the ring and any number of frames, a file  *)
(* holds the latest ones in order.                                         *)
(*                                                                         *)
(* FxLab, FxDelays: the list of effects on the screen and that of each     *)
(* engine, through swipes, drags and replaced engines in any order, and    *)
(* the samples in a delay line.                                            *)
(***************************************************************************)
EXTENDS MCApplications, SequenceTheorems, FiniteSetTheorems, TLAPS
-----------------------------------------------------------------------------
(* FullDuplexStream *)

FdxTyped ==
  /\ fdx.minimum \in {0, 1} /\ available \in Nat /\ ahead \in 0..(FdxJitter + 1)
  /\ count \in [drain : 0..FdxDrain, cushion : 0..FdxCushion, discard : 0..FdxDiscard]
  /\ inputOn \in BOOLEAN /\ outputOn = inputOn /\ delivering \in BOOLEAN

\* The first callback that is counted may drain what the last run has left, the
\* second one drains data of this run.
DrainsItsOwn ==
  /\ count.drain < FdxDrain => delivering \/ (count.drain = FdxDrain - 1 /\ available = 0)
  /\ Draining => count.cushion = FdxCushion

\* Afterwards what waits is what was delivered since the drain, less what was
\* read: the cushion, and what the input is ahead now beyond what it was then.
Cushioned ==
  outputOn /\ ~Draining =>
    ahead + (FdxCushion - count.cushion) - available \in 0..FdxJitter

GivenABurst == lastRead # 0

FdxInv == FdxTyped /\ DrainsItsOwn /\ Cushioned /\ GivenABurst

LEMMA Bursts ==
  /\ FdxDrain \in Nat /\ FdxCushion \in Nat /\ FdxDiscard \in Nat /\ FdxCapacity \in Nat
  /\ FdxJitter \in Nat /\ FdxRuns \in Nat
  /\ FdxDrain >= 2 /\ FdxJitter <= FdxCushion /\ FdxCapacity > FdxCushion + FdxJitter
BY FdxAssumption

\* The counts of a run that starts
LEMMA FreshCount ==
  /\ Fresh \in [drain : 0..FdxDrain, cushion : 0..FdxCushion, discard : 0..FdxDiscard]
  /\ Fresh.drain = FdxDrain /\ FdxDrain > 0 /\ Fresh.cushion = FdxCushion
BY Bursts DEF Fresh

LEMMA FdxInitially == FdxInit => FdxInv
<1> SUFFICES ASSUME FdxInit PROVE FdxInv OBVIOUS
<1>1. FdxTyped
  <2>1. fdx.minimum \in {0, 1} BY DEF FdxInit
  <2>2. ahead \in 0..(FdxJitter + 1) BY Bursts DEF FdxInit
  <2> QED BY <2>1, <2>2, FreshCount DEF FdxInit, FdxTyped
<1>2. DrainsItsOwn /\ Cushioned /\ GivenABurst
  BY Bursts, FreshCount DEF FdxInit, DrainsItsOwn, Draining, Cushioned, GivenABurst
<1> QED BY <1>1, <1>2 DEF FdxInv

LEMMA FdxStartKeeps == FdxInv /\ FdxStart => FdxInv'
<1> SUFFICES ASSUME FdxInv, FdxStart PROVE FdxInv' OBVIOUS
<1>1. /\ count' = Fresh /\ count'.drain = FdxDrain /\ FdxDrain > 0
      /\ count'.cushion = FdxCushion
  BY FreshCount DEF FdxStart
<1>2. FdxTyped' BY <1>1, FreshCount DEF FdxStart, FdxInv, FdxTyped
<1>3. DrainsItsOwn' BY <1>1, Bursts DEF DrainsItsOwn, Draining
<1>4. Cushioned' BY <1>1 DEF Cushioned, Draining
<1>5. GivenABurst' BY DEF FdxStart, GivenABurst
<1> QED BY <1>2, <1>3, <1>4, <1>5 DEF FdxInv

LEMMA FdxStopKeeps == FdxInv /\ FdxStop => FdxInv'
<1> SUFFICES ASSUME FdxInv, FdxStop PROVE FdxInv' OBVIOUS
<1>1. FdxTyped' BY DEF FdxStop, FdxInv, FdxTyped
<1>2. DrainsItsOwn' /\ GivenABurst' BY DEF FdxStop, FdxInv, DrainsItsOwn, Draining, GivenABurst
<1>3. Cushioned' BY DEF FdxStop, Cushioned
<1> QED BY <1>1, <1>2, <1>3 DEF FdxInv

LEMMA DeliverKeeps == FdxInv /\ Deliver => FdxInv'
<1> SUFFICES ASSUME FdxInv, Deliver PROVE FdxInv' OBVIOUS
<1>1. FdxTyped /\ DrainsItsOwn /\ Cushioned /\ GivenABurst BY DEF FdxInv
<1>2. /\ count.drain \in 0..FdxDrain /\ count.cushion \in 0..FdxCushion
      /\ available \in Nat /\ ahead \in 0..(FdxJitter + 1)
  BY <1>1 DEF FdxTyped
<1>3. FdxTyped' BY <1>1, <1>2, Bursts DEF FdxTyped, Deliver
<1>4. DrainsItsOwn' BY <1>1 DEF DrainsItsOwn, Draining, Deliver
<1>5. Cushioned'
  <2> SUFFICES ASSUME outputOn, ~Draining
               PROVE  ahead' + (FdxCushion - count.cushion) - available' \in 0..FdxJitter
    BY DEF Cushioned, Draining, Deliver
  <2>1. delivering /\ ahead' = ahead + 1
    BY <1>1, <1>2, Bursts DEF DrainsItsOwn, Draining, Deliver
  <2>2. available < FdxCapacity /\ available' = available + 1
    BY <1>1, <1>2, <2>1, Bursts DEF Cushioned, Deliver
  <2> QED BY <1>1, <1>2, <2>1, <2>2, Bursts DEF Cushioned
<1>6. GivenABurst' BY <1>1 DEF GivenABurst, Deliver
<1> QED BY <1>3, <1>4, <1>5, <1>6 DEF FdxInv

\* While the streams are started and nothing is drained any more, a callback
\* finds a burst to read.
LEMMA BurstWaits ==
  ASSUME FdxInv, Callback, ~Draining
  PROVE  /\ delivering /\ ahead' = ahead - 1
         /\ ahead + (FdxCushion - count.cushion) - available \in 0..FdxJitter
         /\ count.cushion = 0 => Readable = 1 /\ available >= 1
<1>1. /\ count.drain \in 0..FdxDrain /\ count.cushion \in 0..FdxCushion
      /\ available \in Nat /\ ahead \in 0..(FdxJitter + 1) /\ fdx.minimum \in {0, 1}
  BY DEF FdxInv, FdxTyped
<1>2. delivering BY <1>1, Bursts DEF FdxInv, DrainsItsOwn, Draining
<1>3. outputOn /\ ahead > 0 /\ ahead' = ahead - 1 BY <1>2 DEF Callback
<1>4. ahead + (FdxCushion - count.cushion) - available \in 0..FdxJitter
  BY <1>3 DEF FdxInv, Cushioned
<1>5. count.cushion = 0 => available >= 1 BY <1>1, <1>3, <1>4, Bursts
<1> QED BY <1>1, <1>2, <1>3, <1>4, <1>5 DEF Readable

LEMMA CallbackKeeps == FdxInv /\ Callback => FdxInv'
<1> SUFFICES ASSUME FdxInv, Callback PROVE FdxInv' OBVIOUS
<1>1. FdxTyped /\ DrainsItsOwn /\ Cushioned /\ GivenABurst BY DEF FdxInv
<1>2. /\ count \in [drain : 0..FdxDrain, cushion : 0..FdxCushion, discard : 0..FdxDiscard]
      /\ available \in Nat /\ ahead \in 0..(FdxJitter + 1) /\ fdx.minimum \in {0, 1}
      /\ outputOn /\ inputOn /\ delivering \in BOOLEAN
      /\ delivering' = delivering /\ fdx' = fdx
      /\ ahead' = IF delivering THEN ahead - 1 ELSE ahead
      /\ ahead' \in 0..(FdxJitter + 1) /\ (delivering => ahead' <= FdxJitter)
  BY <1>1, Bursts DEF FdxTyped, Callback
<1>3. CASE Drain
  <2>1. /\ count.drain > 0 /\ available' = 0 /\ lastRead' = lastRead
        /\ inputOn' = inputOn /\ outputOn' = outputOn
    BY <1>3 DEF Drain, Draining
  <2>2. CASE available = 0
    <3>1. count' = count BY <1>2, <1>3, <2>2 DEF Drain
    <3> QED BY <1>1, <1>2, <2>1, <2>2, <3>1
         DEF FdxInv, FdxTyped, DrainsItsOwn, Cushioned, GivenABurst, Draining
  <2>3. CASE available > 0
    <3>1. count' = [count EXCEPT !.drain = @ - 1] BY <1>3, <2>3 DEF Drain
    <3>2. count'.drain = count.drain - 1 /\ count'.cushion = count.cushion
      BY <1>2, <3>1
    <3>3. FdxTyped' BY <1>1, <1>2, <2>1, <3>1, Bursts DEF FdxTyped
    <3>4. count.drain - 1 < FdxDrain - 1 => delivering
      BY <1>1, <1>2, <2>1, <2>3, Bursts DEF DrainsItsOwn, Draining
    <3>5. DrainsItsOwn' BY <1>1, <1>2, <2>1, <3>2, <3>4, Bursts DEF DrainsItsOwn, Draining
    <3>6. Cushioned'
      <4>1. SUFFICES ASSUME ~(count'.drain > 0)
                     PROVE  ahead' + (FdxCushion - count'.cushion) - available' \in 0..FdxJitter
        BY DEF Cushioned, Draining
      <4>2. delivering BY <1>2, <3>2, <3>4, <4>1, Bursts
      <4>3. count'.cushion = FdxCushion BY <1>1, <2>1, <3>2 DEF DrainsItsOwn, Draining
      <4>4. FdxCushion - count'.cushion = 0 BY <4>3, Bursts
      <4> DEFINE a == ahead'
      <4>5. a \in 0..FdxJitter BY <1>2, <4>2, Bursts
      <4> HIDE DEF a
      <4>6. a + 0 - 0 \in 0..FdxJitter BY <4>5, Bursts
      <4> QED BY <2>1, <4>4, <4>6 DEF a
    <3> QED BY <1>1, <2>1, <3>3, <3>5, <3>6 DEF FdxInv, GivenABurst
  <2> QED BY <1>2, <2>2, <2>3
<1>4. CASE Cushion
  <2>1. /\ ~Draining /\ count.cushion > 0 /\ count' = [count EXCEPT !.cushion = @ - 1]
        /\ UNCHANGED <<available, inputOn, outputOn, lastRead>>
    BY <1>4 DEF Cushion, Cushioning
  <2>2. count'.drain = count.drain /\ count'.cushion = count.cushion - 1 BY <1>2, <2>1
  <2>3. FdxTyped' BY <1>1, <1>2, <2>1, Bursts DEF FdxTyped
  <2>4. Cushioned' BY <1>2, <2>1, <2>2, BurstWaits, Bursts DEF Cushioned
  <2> QED BY <1>1, <1>2, <2>1, <2>2, <2>3, <2>4 DEF FdxInv, DrainsItsOwn, Draining, GivenABurst
<1>5. CASE Discard
  <2>1. /\ ~Draining /\ count.cushion = 0 /\ count.discard > 0
        /\ count' = [count EXCEPT !.discard = @ - 1]
    BY <1>2, <1>5 DEF Discard, Discarding, Cushioning, Draining
  <2>2. /\ count'.drain = count.drain /\ count'.cushion = count.cushion
        /\ count' \in [drain : 0..FdxDrain, cushion : 0..FdxCushion, discard : 0..FdxDiscard]
    BY <1>2, <2>1, Bursts
  <2>3. \/ available' = available - 1 /\ UNCHANGED <<inputOn, outputOn, lastRead>>
        \/ inputOn' = FALSE /\ outputOn' = FALSE /\ UNCHANGED <<available, lastRead>>
    BY <1>5, <2>1, BurstWaits DEF Discard, InputFails
  <2>4. FdxTyped'
    <3>1. available >= 1 BY <2>1, BurstWaits
    <3>2. available' \in Nat
      <4>1. available' = available - 1 \/ available' = available BY <2>3
      <4>2. available - 1 \in Nat /\ available \in Nat BY <1>2, <3>1
      <4> QED BY <4>1, <4>2
    <3>3. inputOn' \in BOOLEAN /\ outputOn' = inputOn' BY <1>2, <2>3
    <3> QED BY <1>1, <1>2, <2>2, <3>2, <3>3 DEF FdxTyped
  <2>5. DrainsItsOwn' BY <1>2, <2>1, <2>2, BurstWaits DEF DrainsItsOwn, Draining
  <2>6. Cushioned' BY <1>2, <2>1, <2>2, <2>3, BurstWaits, Bursts DEF Cushioned
  <2> QED BY <1>1, <2>3, <2>4, <2>5, <2>6 DEF FdxInv, GivenABurst
<1>6. CASE Both
  <2>1. ~Draining /\ count.cushion = 0 /\ count' = count
    BY <1>2, <1>6 DEF Both, Steady, Cushioning, Draining
  <2>2. \/ available' = available - 1 /\ UNCHANGED <<inputOn, outputOn>> /\ lastRead' = 1
        \/ inputOn' = FALSE /\ outputOn' = FALSE /\ UNCHANGED <<available, lastRead>>
    BY <1>6, <2>1, BurstWaits DEF Both, InputFails
  <2>3. FdxTyped'
    <3>1. available >= 1 BY <2>1, BurstWaits
    <3>2. available' \in Nat
      <4>1. available' = available - 1 \/ available' = available BY <2>2
      <4>2. available - 1 \in Nat /\ available \in Nat BY <1>2, <3>1
      <4> QED BY <4>1, <4>2
    <3>3. inputOn' \in BOOLEAN /\ outputOn' = inputOn' BY <1>2, <2>2
    <3> QED BY <1>1, <1>2, <2>1, <3>2, <3>3 DEF FdxTyped
  <2>4. DrainsItsOwn' BY <1>2, <2>1, BurstWaits DEF DrainsItsOwn, Draining
  <2>5. Cushioned' BY <1>2, <2>1, <2>2, BurstWaits, Bursts DEF Cushioned
  <2> QED BY <1>1, <2>2, <2>3, <2>4, <2>5 DEF FdxInv, GivenABurst
<1> QED BY <1>3, <1>4, <1>5, <1>6 DEF Callback

\* However long the drain, the cushion and the buffer are, and however the two
\* devices drift within the jitter: once in step, every callback has a burst of
\* input, and no latency builds up (FullDuplexStream of OboeTester and LiveEffect).
THEOREM DuplexStaysInStep == FdxSpec => []InStep
<1>1. FdxInv /\ [FdxNext]_fdxVars => FdxInv'
  <2>1. FdxInv /\ UNCHANGED fdxVars => FdxInv'
    BY DEF fdxVars, FdxInv, FdxTyped, DrainsItsOwn, Cushioned, GivenABurst, Draining
  <2> QED BY <2>1, FdxStartKeeps, FdxStopKeeps, DeliverKeeps, CallbackKeeps DEF FdxNext
<1>2. FdxInv => InStep
  <2> SUFFICES ASSUME FdxInv, Steady, outputOn
               PROVE  lastRead # 0 /\ available <= FdxCushion + FdxJitter + 1
    BY DEF InStep
  <2>1. /\ count.cushion \in 0..FdxCushion /\ available \in Nat
        /\ ahead \in 0..(FdxJitter + 1)
    BY DEF FdxInv, FdxTyped
  <2>2. ~Draining BY DEF Steady
  <2> QED BY <2>1, <2>2, Bursts DEF FdxInv, Cushioned, GivenABurst
<1> QED BY <1>1, <1>2, FdxInitially, PTL DEF FdxSpec
-----------------------------------------------------------------------------
(* RoundTripLatency *)

LatTyped == /\ button \in [measure : BOOLEAN, cancel : BOOLEAN]
            /\ averager.active \in BOOLEAN
            /\ posted \subseteq {"sniff", "measure"} /\ visible \in BOOLEAN

\* What is posted, the next measurement of an average or the sniffer of this
\* one, says what the buttons and the averager are.
OnePosted == /\ ~({"sniff", "measure"} \subseteq posted)
             /\ "measure" \in posted => averager.active /\ ~button.cancel
             /\ "sniff" \in posted /\ ~visible => averager.active

LatInv == LatTyped /\ OnePosted /\ IdleWhenEnabled

LEMMA LatInitially == LatInit => LatInv
BY DEF LatInit, LatInv, LatTyped, OnePosted, IdleWhenEnabled

LEMMA ButtonsAre ==
  ASSUME NEW running \in BOOLEAN, NEW active \in BOOLEAN
  PROVE  /\ Buttons(running, active) \in [measure : BOOLEAN, cancel : BOOLEAN]
         /\ Buttons(running, active).measure <=> ~running /\ ~active
         /\ Buttons(running, active).cancel <=> running
BY DEF Buttons

\* A measurement, of a button or of the handler: it runs, and is what is posted,
\* or nothing is posted and the buttons are as they were.
LEMMA MeasuringKeeps ==
  ASSUME LatTyped, NEW active \in BOOLEAN, MeasureSingleLatency(active)
  PROVE  \/ /\ posted' = (posted \ {"measure"}) \cup {"sniff"}
            /\ button' = Buttons(TRUE, active)
         \/ /\ posted' = posted \ {"measure"} /\ button' = button
BY DEF MeasureSingleLatency

\* A press that measures
LEMMA PressedKeeps ==
  ASSUME LatInv, button.measure, visible, visible' = visible,
         averager'.active \in BOOLEAN, NEW active \in BOOLEAN, MeasureSingleLatency(active)
  PROVE  LatInv'
<1>1. posted = {} BY DEF LatInv, IdleWhenEnabled
<1>2. CASE /\ posted' = (posted \ {"measure"}) \cup {"sniff"}
           /\ button' = Buttons(TRUE, active)
  <2>1. posted' = {"sniff"} BY <1>1, <1>2
  <2> QED BY <1>2, <2>1, ButtonsAre
       DEF LatInv, LatTyped, OnePosted, IdleWhenEnabled
<1>3. CASE posted' = posted \ {"measure"} /\ button' = button
  <2>1. posted' = {} BY <1>1, <1>3
  <2> QED BY <1>3, <2>1 DEF LatInv, LatTyped, OnePosted, IdleWhenEnabled
<1> QED BY <1>2, <1>3, MeasuringKeeps DEF LatInv

LEMMA AveragedIs ==
  ASSUME LatTyped
  PROVE  Averaged.active \in BOOLEAN /\ (Averaged.active => averager.active)
<1>1. CASE ~averager.active BY <1>1 DEF LatTyped, Averaged
<1>2. CASE averager.active /\ echo.result # "OK"
  BY <1>2 DEF LatTyped, Averaged
<1>3. CASE averager.active /\ echo.result = "OK"
  BY <1>3 DEF LatTyped, Averaged
<1> QED BY <1>1, <1>2, <1>3

LEMMA LatStep == LatInv /\ [LatNext]_latVars => LatInv'
<1> SUFFICES ASSUME LatInv, [LatNext]_latVars PROVE LatInv' OBVIOUS
<1>1. LatTyped /\ OnePosted /\ IdleWhenEnabled BY DEF LatInv
<1> USE DEF LatInv, LatTyped, OnePosted, IdleWhenEnabled
<1>2. CASE OnMeasure \/ OnAverage
  <2>1. averager'.active \in BOOLEAN /\ visible' = visible /\ visible /\ button.measure
    <3>1. CASE OnMeasure BY <1>1, <3>1 DEF OnMeasure
    <3>2. CASE OnAverage BY <1>1, <3>2 DEF OnAverage
    <3> QED BY <1>2, <3>1, <3>2
  <2>2. \E active \in BOOLEAN : MeasureSingleLatency(active)
    BY <1>2 DEF OnMeasure, OnAverage
  <2> QED BY <2>1, <2>2, PressedKeeps
<1>3. CASE OnCancel
  <2>1. /\ button.cancel /\ posted' = posted \ {"sniff"} /\ visible' = visible
        /\ averager'.active = FALSE /\ button' = Buttons(FALSE, FALSE)
    BY <1>1, <1>3 DEF OnCancel, StopAudioTest
  <2>2. posted' = {} BY <1>1, <2>1
  <2> QED BY <1>1, <2>1, <2>2, ButtonsAre
<1>4. CASE LatOnStop
  <2>1. /\ posted' = posted \ {"sniff"} /\ visible' = FALSE /\ button' = button
        /\ averager' = averager
    BY <1>4 DEF LatOnStop
  <2> QED BY <1>1, <2>1
<1>5. CASE LatOnStart
  <2>1. /\ visible' = TRUE /\ ~visible /\ posted' = posted /\ averager' = averager
        /\ button' = Buttons(FALSE, averager.active)
    BY <1>5 DEF LatOnStart
  <2>2. ~averager.active => posted = {} BY <1>1, <2>1
  <2> QED BY <1>1, <2>1, <2>2, ButtonsAre
<1>6. CASE DelayedMeasure
  <2>1. /\ "measure" \in posted /\ averager' = averager /\ visible' = visible
        /\ averager.active = TRUE /\ ~button.measure
        /\ MeasureSingleLatency(averager.active)
    BY <1>1, <1>6 DEF DelayedMeasure
  <2>2. CASE /\ posted' = (posted \ {"measure"}) \cup {"sniff"}
             /\ button' = Buttons(TRUE, averager.active)
    BY <1>1, <2>1, <2>2, ButtonsAre
  <2>3. CASE posted' = posted \ {"measure"} /\ button' = button
    BY <1>1, <2>1, <2>3
  <2> QED BY <1>1, <2>1, <2>2, <2>3, MeasuringKeeps
<1>7. CASE Sniff
  <2>1. CASE echo.state # "done" BY <1>1, <1>7, <2>1 DEF Sniff, app
  <2>2. CASE echo.state = "done"
    <3>1. /\ "sniff" \in posted /\ averager' = Averaged /\ visible' = visible
          /\ posted' = (posted \ {"sniff"}) \cup
                       (IF Averaged.active THEN {"measure"} ELSE {})
          /\ button' = Buttons(FALSE, Averaged.active)
      BY <1>7, <2>2 DEF Sniff
    <3>2. posted' = IF Averaged.active THEN {"measure"} ELSE {} BY <1>1, <3>1
    <3> QED BY <1>1, <3>1, <3>2, AveragedIs, ButtonsAre
  <2> QED BY <2>1, <2>2
<1>8. CASE StreamClosed
  <2>1. /\ posted' = posted \ {"sniff"} /\ averager' = averager /\ visible' = visible
        /\ visible /\ button' = Buttons(FALSE, averager.active)
    BY <1>8 DEF StreamClosed, StopAudioTest
  <2>2. ~averager.active => posted' = {} BY <1>1, <2>1
  <2> QED BY <1>1, <2>1, <2>2, ButtonsAre
<1>9. CASE LatDisconnect \/ LatNative \/ UNCHANGED latVars
  <2>1. UNCHANGED app
    BY <1>9 DEF LatDisconnect, LatNative, FrameBegin, FrameEnd, Frame, Analyze, Measure,
       SetDone, SetResult, latVars
  <2> QED BY <1>1, <2>1 DEF app
<1> QED BY <1>2, <1>3, <1>4, <1>5, <1>6, <1>7, <1>8, <1>9 DEF LatNext, LatUI

\* However often the user presses, leaves and comes back, devices go and averages
\* repeat bad runs: no second measurement can be started beside one that is under
\* way or waits (RoundTripLatencyActivity.java).
THEOREM OneMeasurement == LatSpec => []IdleWhenEnabled
<1>1. LatInv => IdleWhenEnabled BY DEF LatInv
<1> QED BY <1>1, LatInitially, LatStep, PTL DEF LatSpec
-----------------------------------------------------------------------------
(* TesterSession *)

TsTyped == /\ tsKind \in {"glitch", "disconnect"} /\ left \in BOOLEAN
           /\ left => tsKind = "glitch"

\* A thread is in closeAudio when it is in a call of it, and the UI thread in
\* one of a test with two streams.
InClose == /\ monitor \in {"none", "ui", "runner"}
           /\ monitor = "runner" => runner \in DOMAIN AfterClose
           /\ monitor = "ui" => ui = "close"
           /\ ui = "close" => tsKind = "glitch"

\* Until the screen is left under a runner, one thread at a time has the
\* streams, and opens them when they are closed.
Exclusive ==
  ~left => /\ ui = "close" => runner = "none"
           /\ audio \in {"closing", "closed"} \/ monitor # "none" => stream = {}
           /\ runner = "openOut" => stream = {}
           /\ runner = "openIn" => stream \subseteq {"out"}

NoneToClose == tsKind = "disconnect" /\ runner \in {"none", "post"} => stream = {}

TsInv == TsTyped /\ InClose /\ Exclusive /\ NoneToClose /\ NothingLeft

LEMMA TsInitially == TsInit => TsInv
BY DEF TsInit, TsInv, TsTyped, InClose, Exclusive, NoneToClose, NothingLeft

LEMMA TsStep == TsInv /\ [TsNext]_tsVars => TsInv'
<1> SUFFICES ASSUME TsInv, [TsNext]_tsVars PROVE TsInv' OBVIOUS
<1> USE DEF TsInv, TsTyped, InClose, Exclusive, NoneToClose, NothingLeft, AfterClose, screen,
        streams, RunnerOnly
<1>1. CASE BeginConfiguration BY <1>1 DEF BeginConfiguration, Sleep
<1>2. CASE RunnerClose BY <1>2 DEF RunnerClose, CloseAudio
<1>3. CASE RunnerCloseEnd BY <1>3 DEF RunnerCloseEnd, CloseAudioEnd
<1>4. CASE OpenOut BY <1>4 DEF OpenOut, OpenStream
<1>5. CASE OpenIn BY <1>5 DEF OpenIn, OpenStream
<1>6. CASE Start BY <1>6 DEF Start
<1>7. CASE PollInterrupted \/ PollOver \/ Gap BY <1>7 DEF PollInterrupted, PollOver, Gap, Sleep
<1>8. CASE RunnerStop \/ FinallyStop BY <1>8 DEF RunnerStop, FinallyStop, StopAudio
<1>9. CASE TestFinished BY <1>9 DEF TestFinished
<1>10. CASE PressStart BY <1>10 DEF PressStart
<1>11. CASE PressStop BY <1>11 DEF PressStop, StopAutoThread
<1>12. CASE LeaveScreen BY <1>12 DEF LeaveScreen, StopAudio
<1>13. CASE LeaveClose BY <1>13 DEF LeaveClose, CloseAudio
<1>14. CASE LeaveCloseEnd BY <1>14 DEF LeaveCloseEnd, CloseAudioEnd
<1>15. CASE LeaveStopThread \/ Return BY <1>15 DEF LeaveStopThread, StopAutoThread, Return
<1>16. CASE UNCHANGED tsVars BY <1>16 DEF tsVars
<1> QED BY <1>1, <1>2, <1>3, <1>4, <1>5, <1>6, <1>7, <1>8, <1>9, <1>10, <1>11, <1>12, <1>13,
           <1>14, <1>15, <1>16 DEF TsNext, RunnerStep, Leave

\* For any number of configurations and presses: whatever fails to open, and
\* wherever a stop finds the runner, no stream is left that nothing can close; and
\* when Start can be pressed the last runner is gone (AutomatedTestRunner.java).
THEOREM SessionsClean == TsSpec => []NothingLeft
<1>1. TsInv => NothingLeft BY DEF TsInv
<1> QED BY <1>1, TsInitially, TsStep, PTL DEF TsSpec
-----------------------------------------------------------------------------
(* NativeContext *)

NcTyped ==
  /\ ncTest \in [activity : {"output", "input", "recorder"}, api : {"aaudio", "opensl"},
                 useCallback : BOOLEAN]
  /\ io \in [1..NcThreads -> {"none", "check", "work", "ended"}]
  /\ dataThread \in 0..NcThreads
  /\ recording \in 0..NcThreads
  /\ recorder \in [state : {"stopped", "recording", "playing"}, got : BOOLEAN]

\* A call was begun by a button that is there, and an input cannot be paused.
Pressed == /\ call = "none" \/ call \in Buttons_of
           /\ Records => device # "paused"

\* The recorder's stream runs only while it records, it plays only what it has
\* recorded, and a call that ends either has stopped the player first.
PlaysAlone ==
  /\ ncTest.activity = "recorder" /\ recorder.state # "recording"
       => device \in {"none", "open"}
  /\ playFrom # 0 => /\ ncTest.activity = "recorder" /\ recorder.state = "playing"
                     /\ playFrom = recording
  /\ call \in {"stopRecordPlay", "leave"} => playFrom = 0

WritesToTheNewest == ~StartsTwice => (Writing => recordTo = recording)

NcInv == NcTyped /\ Pressed /\ NoLostThread /\ PlaysAlone /\ WritesToTheNewest

LEMMA NcInitially == NcInit => NcInv
<1> SUFFICES ASSUME NcInit PROVE NcInv OBVIOUS
<1>1. NcTyped BY NcAssumption DEF NcInit, NcTyped, Stopped
<1>2. \A i \in 1..NcThreads : ~Alive(i) BY DEF NcInit, Alive
<1>3. NoLostThread BY <1>2 DEF NoLostThread
<1>4. ~Writing BY <1>2 DEF NcInit, Writing
<1> QED BY <1>1, <1>3, <1>4
     DEF NcInit, NcInv, Pressed, PlaysAlone, WritesToTheNewest

\* When the data thread is joined no data thread is left.
LEMMA JoinedAll ==
  ASSUME NcInv, ~StartsTwice, Joinable
  PROVE  \A i \in 1..NcThreads : ~Alive(i)
<1> SUFFICES ASSUME NEW i \in 1..NcThreads, Alive(i) PROVE FALSE OBVIOUS
<1>1. i = dataThread BY DEF NcInv, NoLostThread
<1> QED BY <1>1, NcAssumption DEF Joinable, Alive

\* Nobody feeds a stream that was joined and is not started by a callback.
LEMMA JoinKeeps ==
  ASSUME NcInv, Joinable, io' = io, ncTest' = ncTest
  PROVE  /\ NoLostThread'
         /\ ~StartsTwice /\ Writing' => Records /\ ncTest.useCallback
                                        /\ device' \in {"started", "stopping"}
<1>1. ~StartsTwice => \A i \in 1..NcThreads : ~Alive(i)' BY JoinedAll DEF Alive
<1>2. NoLostThread' BY <1>1 DEF NoLostThread, StartsTwice
<1>3. ~StartsTwice /\ Writing' => Records /\ ncTest.useCallback
                                  /\ device' \in {"started", "stopping"}
  BY <1>1 DEF Writing, Records
<1> QED BY <1>2, <1>3

LEMMA Unpaused == NcInv /\ Records => device # "paused"
BY DEF NcInv, Pressed

\* A call that ends
LEMMA DoneKeeps == Done /\ (Records => device' # "paused") => Pressed'
BY DEF Done, Pressed, Records

\* What of the buttons the calls rely on
LEMMA CallsAre ==
  ASSUME NcInv
  PROVE  /\ call \in {"open", "start", "pause", "stop", "close"}
              => ncTest.activity # "recorder" /\ playFrom = 0
         /\ call \in {"record", "play", "stopRecordPlay"} => ncTest.activity = "recorder"
         /\ call \in {"record", "play"} => recorder.state = "stopped" /\ playFrom = 0
         /\ call = "stopRecordPlay" => recorder.state # "stopped"
BY DEF NcInv, NcTyped, Pressed, PlaysAlone, Buttons_of

\* A call that joins the data thread and stops or closes the stream
LEMMA StoppedKeeps ==
  ASSUME NcInv, Joinable, io' = io, ncTest' = ncTest, recording' = recording,
         recordTo' = recordTo,
         \/ device' = device
         \/ device' = "none"
         \/ device' = "stopping" /\ device \in {"started", "paused"}
         \/ device' = "paused" /\ ~Records
  PROVE  NoLostThread' /\ WritesToTheNewest'
<1>1. NoLostThread' BY JoinKeeps
<1>2. ASSUME ~StartsTwice, Writing' PROVE recordTo' = recording'
  <2>1. Records /\ ncTest.useCallback /\ device' \in {"started", "stopping"}
    BY <1>2, JoinKeeps
  <2>2. device \in {"started", "stopping"} BY <2>1, Unpaused
  <2>3. Writing BY <2>1, <2>2 DEF Writing
  <2> QED BY <1>2, <2>3 DEF NcInv, WritesToTheNewest
<1>3. StartsTwice' <=> StartsTwice BY DEF StartsTwice
<1> QED BY <1>1, <1>2, <1>3 DEF WritesToTheNewest

LEMMA OpenKeeps == NcInv /\ Open => NcInv'
<1> SUFFICES ASSUME NcInv, Open PROVE NcInv' OBVIOUS
<1>1. /\ call = "open" /\ Joinable /\ dataThread' = 0 /\ io' = io /\ ncTest' = ncTest
      /\ device' \in {"open", "none"} /\ Done
      /\ recordTo' = recordTo /\ playFrom' = playFrom /\ recorder' = recorder
      /\ recording' = recording \/ (recording < NcThreads /\ recording' = recording + 1)
  BY DEF Open, Join, Opened, Done
<1>2. NcTyped' BY <1>1, NcAssumption DEF NcInv, NcTyped
<1>3. Pressed' BY <1>1, DoneKeeps
<1>4. NoLostThread' /\ (~StartsTwice => ~Writing') BY <1>1, JoinKeeps
<1>5. PlaysAlone' BY <1>1, CallsAre DEF PlaysAlone, Done
<1>6. WritesToTheNewest' BY <1>1, <1>4 DEF WritesToTheNewest, StartsTwice
<1> QED BY <1>2, <1>3, <1>4, <1>5, <1>6 DEF NcInv

\* A new data thread, when the one before is gone
LEMMA NewThreadKeeps ==
  ASSUME NcInv, ~StartsTwice => \A j \in 1..NcThreads : ~Alive(j),
         NEW i \in 1..NcThreads, NewThread(i), ncTest' = ncTest, device' = "started"
  PROVE  /\ dataThread' \in 0..NcThreads
         /\ io' \in [1..NcThreads -> {"none", "check", "work", "ended"}]
         /\ NoLostThread'
<1>1. /\ io \in [1..NcThreads -> {"none", "check", "work", "ended"}]
      /\ io' = [io EXCEPT ![i] = "check"] /\ dataThread' = i
  BY DEF NewThread, NcInv, NcTyped
<1>2. io' \in [1..NcThreads -> {"none", "check", "work", "ended"}] BY <1>1
<1>3. ~StartsTwice => \A j \in 1..NcThreads : Alive(j)' => j = i
  BY <1>1 DEF Alive
<1>4. dataThread' \in 0..NcThreads BY <1>1, NcAssumption
<1> QED BY <1>1, <1>2, <1>3, <1>4 DEF NoLostThread, StartsTwice

LEMMA StartKeeps == NcInv /\ NcStart => NcInv'
<1> SUFFICES ASSUME NcInv, NcStart PROVE NcInv' OBVIOUS
<1>1. /\ call = "start" /\ Done /\ ncTest' = ncTest
      /\ recording' = recording /\ playFrom' = playFrom /\ recorder' = recorder
      /\ recordTo' = IF device # "none" /\ Records THEN recording ELSE recordTo
  BY DEF NcStart, Done
<1>2. ncTest.activity # "recorder" /\ playFrom = 0 BY <1>1, CallsAre
<1>3. CASE UNCHANGED <<device, ioVars>>
  <2>1. device' = device /\ io' = io /\ dataThread' = dataThread BY <1>3 DEF ioVars
  <2>2. NcTyped' BY <1>1, <2>1 DEF NcInv, NcTyped
  <2>3. Pressed' BY <1>1, <2>1, DoneKeeps, Unpaused
  <2>4. NoLostThread' BY <1>1, <2>1 DEF NcInv, NoLostThread, StartsTwice, Alive
  <2>5. PlaysAlone' BY <1>1, <1>2 DEF PlaysAlone, Done
  <2>6. WritesToTheNewest'
    BY <1>1, <2>1 DEF NcInv, WritesToTheNewest, StartsTwice, Writing, Records, Alive
  <2> QED BY <2>2, <2>3, <2>4, <2>5, <2>6 DEF NcInv
<1>4. CASE Started
  <2>1. Starts /\ device' = "started" BY <1>4 DEF Started
  <2>2. NoLostThread' /\ NcTyped'
    <3>1. CASE ncTest.useCallback
      <4>1. io' = io /\ dataThread' = dataThread BY <1>4, <3>1 DEF Started, ioVars
      <4>2. NoLostThread' BY <1>1, <2>1, <4>1 DEF NcInv, NoLostThread, StartsTwice, Alive
      <4>3. NcTyped' BY <1>1, <4>1 DEF NcInv, NcTyped
      <4> QED BY <4>2, <4>3
    <3>2. CASE ~ncTest.useCallback
      <4>1. PICK i \in 1..NcThreads : NewThread(i) BY <1>4, <3>2 DEF Started
      <4>2. ASSUME ~StartsTwice PROVE \A j \in 1..NcThreads : ~Alive(j)
        <5>1. device # "started" BY <1>2, <2>1, <3>2, <4>2 DEF StartsTwice, Starts
        <5> QED BY <4>2, <5>1 DEF NcInv, NoLostThread
      <4>3. NcTyped' BY <1>1, <2>1, <4>1, <4>2, NewThreadKeeps DEF NcInv, NcTyped
      <4> QED BY <1>1, <2>1, <4>1, <4>2, <4>3, NewThreadKeeps
    <3> QED BY <3>1, <3>2
  <2>3. Pressed' BY <1>1, <2>1, DoneKeeps
  <2>4. PlaysAlone' BY <1>1, <1>2 DEF PlaysAlone, Done
  <2>5. WritesToTheNewest'
    BY <1>1, <2>1 DEF Starts, WritesToTheNewest, Writing, Records
  <2> QED BY <2>2, <2>3, <2>4, <2>5 DEF NcInv
<1> QED BY <1>3, <1>4 DEF NcStart

LEMMA PauseStopCloseKeeps ==
  ASSUME NcInv, NcPause \/ NcStop \/ NcClose
  PROVE  NcInv'
<1>1. /\ call \in {"pause", "stop", "close"} /\ Done /\ Joinable /\ dataThread' = 0
      /\ io' = io /\ ncTest' = ncTest /\ UNCHANGED media /\ recorder' = recorder
  BY DEF NcPause, NcStop, NcClose, Join, Done
<1>2. \/ device' = device
      \/ device' = "none"
      \/ device' = "stopping" /\ device \in {"started", "paused"}
      \/ device' = "paused" /\ ~Records
  BY DEF NcPause, NcStop, NcClose, RequestStop, Close
<1>3. recording' = recording /\ recordTo' = recordTo /\ playFrom' = playFrom
  BY <1>1 DEF media
<1>4. NcTyped' BY <1>1, <1>3, NcAssumption DEF NcInv, NcTyped
<1>5. Pressed' BY <1>1, <1>2, DoneKeeps, Unpaused
<1>6. PlaysAlone' BY <1>1, <1>3, CallsAre DEF PlaysAlone, Done
<1> QED BY <1>1, <1>2, <1>3, <1>4, <1>5, <1>6, StoppedKeeps DEF NcInv

LEMMA LeaveKeeps == NcInv /\ LeaveTest => NcInv'
<1> SUFFICES ASSUME NcInv, LeaveTest PROVE NcInv' OBVIOUS
<1>1. /\ call = "leave" /\ Done /\ Joinable /\ dataThread' = 0
      /\ io' = io /\ ncTest' = ncTest /\ UNCHANGED media /\ device' = "none"
      /\ recorder' \in {recorder, Stopped}
  BY DEF LeaveTest, Join, Close, Done
<1>2. recording' = recording /\ recordTo' = recordTo /\ playFrom' = playFrom
  BY <1>1 DEF media
<1>3. recorder' \in [state : {"stopped", "recording", "playing"}, got : BOOLEAN]
  <2>1. Stopped \in [state : {"stopped", "recording", "playing"}, got : BOOLEAN]
    BY Zenon DEF Stopped
  <2> QED BY <1>1, <2>1, Zenon DEF NcInv, NcTyped
<1>4. NcTyped' BY <1>1, <1>2, <1>3, NcAssumption DEF NcInv, NcTyped
<1>5. Pressed' BY <1>1, DoneKeeps
<1>6. playFrom = 0 BY <1>1 DEF NcInv, PlaysAlone
<1>7. PlaysAlone' BY <1>1, <1>2, <1>6 DEF PlaysAlone, Done
<1> QED BY <1>1, <1>2, <1>4, <1>5, <1>7, StoppedKeeps DEF NcInv

LEMMA RecordKeeps == NcInv /\ OnStartRecording => NcInv'
<1> SUFFICES ASSUME NcInv, OnStartRecording PROVE NcInv' OBVIOUS
<1>1. /\ call = "record" /\ Done /\ Joinable /\ ncTest' = ncTest /\ playFrom' = playFrom
  BY DEF OnStartRecording, Done
<1>2. /\ ncTest.activity = "recorder" /\ playFrom = 0 /\ ~StartsTwice
      /\ recorder.state = "stopped"
  BY <1>1, CallsAre DEF StartsTwice
<1>3. \A j \in 1..NcThreads : ~Alive(j) BY <1>1, <1>2, JoinedAll
<1>4. CASE /\ recording < NcThreads /\ recording' = recording + 1 /\ recordTo' = recording'
           /\ device' = "started" /\ recorder' = [state |-> "recording", got |-> TRUE]
           /\ IF ncTest.useCallback THEN Join ELSE \E i \in 1..NcThreads : NewThread(i)
  <2>1. NoLostThread' /\ NcTyped'
    <3>1. CASE ncTest.useCallback
      <4>1. io' = io /\ dataThread' = 0 BY <1>4, <3>1 DEF Join
      <4>2. NoLostThread' BY <1>1, <4>1, JoinKeeps
      <4>3. NcTyped' BY <1>1, <1>4, <4>1, NcAssumption DEF NcInv, NcTyped
      <4> QED BY <4>2, <4>3
    <3>2. CASE ~ncTest.useCallback
      <4>1. PICK i \in 1..NcThreads : NewThread(i) BY <1>4, <3>2
      <4>2. /\ dataThread' \in 0..NcThreads /\ NoLostThread'
            /\ io' \in [1..NcThreads -> {"none", "check", "work", "ended"}]
        BY <1>1, <1>3, <1>4, <4>1, NewThreadKeeps
      <4>3. NcTyped' BY <1>1, <1>4, <4>2, NcAssumption DEF NcInv, NcTyped
      <4> QED BY <4>2, <4>3
    <3> QED BY <3>1, <3>2
  <2>2. Pressed' BY <1>1, <1>4, DoneKeeps
  <2>3. PlaysAlone' BY <1>1, <1>2, <1>4 DEF PlaysAlone, Done
  <2>4. WritesToTheNewest' BY <1>4 DEF WritesToTheNewest
  <2> QED BY <2>1, <2>2, <2>3, <2>4 DEF NcInv
<1>5. CASE /\ device' \in {"open", "none"} /\ Join /\ recorder' = recorder
           /\ recording' \in 0..NcThreads
  <2>1. io' = io /\ dataThread' = 0 BY <1>5 DEF Join
  <2>2. NcTyped' BY <1>1, <1>5, <2>1, NcAssumption DEF NcInv, NcTyped
  <2>3. Pressed' BY <1>1, <1>5, DoneKeeps
  <2>4. NoLostThread' /\ ~Writing' BY <1>1, <1>2, <1>5, <2>1, JoinKeeps
  <2>5. PlaysAlone' BY <1>1, <1>2, <1>5 DEF PlaysAlone, Done
  <2>6. WritesToTheNewest' BY <2>4 DEF WritesToTheNewest
  <2> QED BY <2>2, <2>3, <2>4, <2>5, <2>6 DEF NcInv
<1>6. recording \in 0..NcThreads BY DEF NcInv, NcTyped
<1>7. recording < NcThreads => recording + 1 \in 0..NcThreads BY <1>6, NcAssumption
<1> QED BY <1>4, <1>5, <1>6, <1>7 DEF OnStartRecording

LEMMA StopRecordPlayKeeps == NcInv /\ OnStopRecordPlay => NcInv'
<1> SUFFICES ASSUME NcInv, OnStopRecordPlay PROVE NcInv' OBVIOUS
<1>1. /\ call = "stopRecordPlay" /\ Done /\ Joinable /\ dataThread' = 0
      /\ io' = io /\ ncTest' = ncTest /\ UNCHANGED media /\ device' = "none"
      /\ recorder' = [recorder EXCEPT !.state = "stopped"]
  BY DEF OnStopRecordPlay, Join, Close, Done
<1>2. recording' = recording /\ recordTo' = recordTo /\ playFrom' = playFrom
  BY <1>1 DEF media
<1>3. NcTyped' BY <1>1, <1>2, NcAssumption DEF NcInv, NcTyped
<1>4. Pressed' BY <1>1, DoneKeeps
<1>5. playFrom = 0 BY <1>1 DEF NcInv, PlaysAlone
<1>6. PlaysAlone' BY <1>1, <1>2, <1>5 DEF PlaysAlone, Done
<1> QED BY <1>1, <1>2, <1>3, <1>4, <1>6, StoppedKeeps DEF NcInv

LEMMA PlayKeeps == NcInv /\ OnStartPlayback => NcInv'
<1> SUFFICES ASSUME NcInv, OnStartPlayback PROVE NcInv' OBVIOUS
<1>1. /\ call = "play" /\ Done /\ Joinable /\ dataThread' = 0 /\ RequestStop
      /\ io' = io /\ ncTest' = ncTest /\ recording' = recording /\ recordTo' = recordTo
      /\ playFrom' \in {0, recording}
      /\ recorder' = [recorder EXCEPT !.state = "playing"]
  BY DEF OnStartPlayback, Join, Done
<1>2. ncTest.activity = "recorder" /\ recorder.state = "stopped" BY <1>1, CallsAre
<1>3. device \in {"none", "open"} BY <1>2 DEF NcInv, PlaysAlone
<1>4. device' = device BY <1>1, <1>3 DEF RequestStop
<1>5. recorder \in [state : {"stopped", "recording", "playing"}, got : BOOLEAN]
  BY DEF NcInv, NcTyped
<1>6. recorder' \in [state : {"stopped", "recording", "playing"}, got : BOOLEAN]
      /\ recorder'.state = "playing"
  BY <1>1, <1>5
<1>7. NcTyped' BY <1>1, <1>6, NcAssumption DEF NcInv, NcTyped
<1>8. Pressed' BY <1>1, <1>3, <1>4, DoneKeeps
<1>9. PlaysAlone' BY <1>1, <1>2, <1>3, <1>4, <1>6 DEF PlaysAlone, Done
<1> QED BY <1>1, <1>4, <1>7, <1>8, <1>9, StoppedKeeps DEF NcInv

\* The buttons
LEMMA PressKeeps == NcInv /\ NcPress => NcInv'
<1> SUFFICES ASSUME NcInv, NcPress PROVE NcInv' OBVIOUS
<1>1. PICK c \in Buttons_of :
        /\ call' = c /\ playFrom' = IF StopsPlayback(c) THEN 0 ELSE playFrom
  BY DEF NcPress
<1>2. UNCHANGED <<ncTest, device, dataThread, io, recording, recordTo, recorder>>
  BY DEF NcPress
<1>3. NcTyped' BY <1>2 DEF NcInv, NcTyped
<1>4. Pressed' BY <1>1, <1>2 DEF NcInv, Pressed, Buttons_of, Records
<1>5. NoLostThread' BY <1>2 DEF NcInv, NoLostThread, StartsTwice, Alive
<1>6. PlaysAlone' BY <1>1, <1>2 DEF NcInv, PlaysAlone, StopsPlayback, Buttons_of
<1>7. WritesToTheNewest'
  BY <1>2 DEF NcInv, WritesToTheNewest, StartsTwice, Writing, Records, Alive
<1> QED BY <1>3, <1>4, <1>5, <1>6, <1>7 DEF NcInv

\* The data threads and the device
LEMMA DeviceKeeps == NcInv /\ (DeviceStops \/ NcIo \/ UNCHANGED ncVars) => NcInv'
<1> SUFFICES ASSUME NcInv, DeviceStops \/ NcIo \/ UNCHANGED ncVars PROVE NcInv' OBVIOUS
<1>1. UNCHANGED <<ncTest, call, dataThread, recording, recordTo, playFrom, recorder>>
  BY DEF DeviceStops, NcIo, IoStep, ncVars, ioVars, media
<1>2. \/ device' = device
      \/ device = "stopping" /\ device' = "stopped"
  BY DEF DeviceStops, NcIo, IoStep, ncVars
<1>3. /\ io' \in [1..NcThreads -> {"none", "check", "work", "ended"}]
      /\ \A i \in 1..NcThreads : Alive(i)' => Alive(i)
  <2>1. io \in [1..NcThreads -> {"none", "check", "work", "ended"}] BY DEF NcInv, NcTyped
  <2>2. CASE io' = io BY <2>1, <2>2 DEF Alive
  <2>3. CASE NcIo
    <3>1. PICK i \in 1..NcThreads : IoCheck(i) \/ IoTransfer(i) BY <2>3 DEF NcIo, IoStep
    <3>2. PICK pc \in {"check", "work", "ended"} :
            io[i] \in {"check", "work"} /\ io' = [io EXCEPT ![i] = pc]
      BY <3>1 DEF IoCheck, IoTransfer
    <3> QED BY <2>1, <3>2 DEF Alive
  <2> QED BY <2>2, <2>3 DEF DeviceStops, ncVars, ioVars
<1>4. NcTyped' BY <1>1, <1>3 DEF NcInv, NcTyped
<1>5. Pressed' BY <1>1, <1>2 DEF NcInv, Pressed, Buttons_of, Records
<1>6. NoLostThread' BY <1>1, <1>2, <1>3 DEF NcInv, NoLostThread, StartsTwice
<1>7. PlaysAlone' BY <1>1, <1>2 DEF NcInv, PlaysAlone
<1>8. WritesToTheNewest'
  <2>1. Writing' => Writing BY <1>1, <1>2, <1>3 DEF Writing, Records
  <2> QED BY <1>1, <2>1 DEF NcInv, WritesToTheNewest, StartsTwice
<1> QED BY <1>4, <1>5, <1>6, <1>7, <1>8 DEF NcInv

LEMMA NcStep == NcInv /\ [NcNext]_ncVars => NcInv'
BY PressKeeps, OpenKeeps, StartKeeps, PauseStopCloseKeeps, LeaveKeeps, RecordKeeps,
   StopRecordPlayKeeps, PlayKeeps, DeviceKeeps DEF NcNext, NcCall

LEMMA OneHand == NcInv => RecordingInOneHand
<1> SUFFICES ASSUME NcInv, ~StartsTwice
             PROVE  /\ playFrom # 0 => playFrom = recording /\ ~Writing
                    /\ Writing => recordTo = recording
  BY DEF RecordingInOneHand
<1>1. Writing => recordTo = recording BY DEF NcInv, WritesToTheNewest
<1>2. ASSUME playFrom # 0 PROVE playFrom = recording /\ ~Writing
  <2>1. playFrom = recording /\ device \in {"none", "open"}
    BY <1>2 DEF NcInv, PlaysAlone
  <2>2. \A i \in 1..NcThreads : ~Alive(i) BY <2>1 DEF NcInv, NoLostThread
  <2> QED BY <2>1, <2>2 DEF Writing
<1> QED BY <1>1, <1>2

\* For any number of threads and presses, except when an OpenSL ES stream is
\* started twice: no data thread feeds a stream that was paused, stopped or closed,
\* or is lost (stopBlockingIOThread()); and while a recording is played nothing
\* writes it, and what is written is the recording that exists
\* (MultiChannelRecording.h: "Do not read and write from separate threads.").
THEOREM ThreadsAreJoined == NcSpec => []DataThreadsInHand
<1>1. NcInv => DataThreadsInHand BY OneHand DEF NcInv, DataThreadsInHand
<1> QED BY <1>1, NcInitially, NcStep, PTL DEF NcSpec
-----------------------------------------------------------------------------
(* Numbers and lists, for the parts below *)

LEMMA Division ==
  ASSUME NEW a \in Int, NEW d \in Nat \ {0}
  PROVE  /\ a \div d \in Int /\ a % d \in Int
         /\ a = d * (a \div d) + (a % d)
         /\ 0 <= a % d /\ a % d < d
OBVIOUS

LEMMA NoMultipleWithin ==
  ASSUME NEW k \in Int, NEW m \in Nat \ {0}, -m < m * k, m * k < m
  PROVE  m * k = 0
<1>1. k < 1
  <2> SUFFICES ASSUME k >= 1 PROVE FALSE OBVIOUS
  <2>1. m * k >= m OBVIOUS
  <2> QED BY <2>1
<1>2. k > -1
  <2> SUFFICES ASSUME k <= -1 PROVE FALSE OBVIOUS
  <2>1. m * k <= -m OBVIOUS
  <2> QED BY <2>1
<1>3. k = 0 BY <1>1, <1>2
<1> QED BY <1>3

LEMMA FunctionAsList ==
  ASSUME NEW S, NEW n \in Nat, NEW f \in [1..n -> S]
  PROVE  f \in Seq(S) /\ Len(f) = n
<1>1. f \in Seq(S) BY SeqDef
<1>2. Len(f) \in Nat /\ DOMAIN f = 1..Len(f) /\ DOMAIN f = 1..n BY <1>1, LenProperties
<1> QED BY <1>1, <1>2
-----------------------------------------------------------------------------
(* Recording *)

\* The frames that the ring keeps are each in its place, and who reads is among
\* them.
RecTyped == /\ DOMAIN ring = 0..(RecSize - 1)
            /\ writeCursor \in Nat /\ readCursor \in Nat
            /\ reading \in {"nobody", "player", "file"}
PlaceOf(f) == (f - 1) % RecSize
RingHoldsLatest == \A f \in 1..writeCursor : f > writeCursor - RecSize
                                               => ring[PlaceOf(f)] = f
ReaderIsWithin == reading # "nobody" => /\ writeCursor - RecSize <= readCursor
                                        /\ readCursor <= writeCursor
RecInv == RecTyped /\ RingHoldsLatest /\ ReaderIsWithin /\ FileIsInOrder
-----------------------------------------------------------------------------
LEMMA LeastOfThree ==
  ASSUME NEW a \in Int, NEW b \in Int, NEW c \in Int
  PROVE  /\ Min({a, b, c}) \in {a, b, c}
         /\ Min({a, b, c}) <= a /\ Min({a, b, c}) <= b /\ Min({a, b, c}) <= c
<1>1. PICK m \in {a, b, c} : m <= a /\ m <= b /\ m <= c OBVIOUS
<1>2. \A y \in {a, b, c} : m <= y BY <1>1
<1> QED BY <1>1, <1>2 DEF Min

LEMMA LeastOfTwo ==
  ASSUME NEW a \in Int, NEW b \in Int
  PROVE  Min({a, b}) = IF a <= b THEN a ELSE b
BY DEF Min

\* Two numbers less than d apart with the same remainder are the same.
LEMMA SameRemainder ==
  ASSUME NEW a \in Int, NEW b \in Int, NEW d \in Nat \ {0},
         a % d = b % d, -d < a - b, a - b < d
  PROVE  a = b
<1> DEFINE p == a \div d
           q == b \div d
           r == a % d
           k == p - q
<1>1. p \in Int /\ r \in Int /\ a = d * p + r BY Division
<1>2. q \in Int /\ b = d * q + r BY Division
<1> HIDE DEF p, q, r
<1>3. k \in Int /\ d * p \in Int /\ d * q \in Int /\ d * k \in Int BY <1>1, <1>2
<1>4. d * k = d * p - d * q BY <1>1, <1>2
<1>5. d * k = a - b BY <1>1, <1>2, <1>3, <1>4
<1> HIDE DEF k
<1>6. d * k = 0 BY <1>3, <1>5, NoMultipleWithin
<1> QED BY <1>5, <1>6

LEMMA RecSizes == RecSize \in Nat \ {0} /\ RecBlock \in Nat \ {0} BY RecAssumption

LEMMA RecInitInv == RecInit => RecInv
<1> SUFFICES ASSUME RecInit PROVE RecInv OBVIOUS
<1>1. writeCursor = 0 /\ readCursor = 0 /\ reading = "nobody" /\ taken.by = "nobody"
      /\ DOMAIN ring = 0..(RecSize - 1)
  BY DEF RecInit
<1> QED BY <1>1 DEF RecInv, RecTyped, RingHoldsLatest, ReaderIsWithin, FileIsInOrder

LEMMA RecWriteStep ==
  ASSUME RecInv, NEW n \in 1..RecBlock, RecWrite(n)
  PROVE  RecInv'
<1> USE RecSizes
<1> DEFINE ages(i) == {k \in 1..n : (writeCursor + k - 1) % RecSize = i}
<1>1. /\ reading = "nobody" /\ writeCursor' = writeCursor + n
      /\ ring' = [i \in DOMAIN ring |->
                    IF ages(i) = {} THEN ring[i] ELSE writeCursor + Max(ages(i))]
      /\ readCursor' = readCursor /\ reading' = reading /\ taken' = taken
  BY DEF RecWrite
<1>2. /\ DOMAIN ring = 0..(RecSize - 1) /\ writeCursor \in Nat /\ readCursor \in Nat
      /\ n \in Nat
  BY DEF RecInv, RecTyped
<1>3. RecTyped' BY <1>1, <1>2 DEF RecTyped
<1>4. RingHoldsLatest'
  <2> SUFFICES ASSUME NEW f \in 1..writeCursor', f > writeCursor' - RecSize
               PROVE  ring'[PlaceOf(f)] = f
    BY DEF RingHoldsLatest
  <2>0. f \in 1..(writeCursor + n) /\ f > writeCursor + n - RecSize BY <1>1, <1>2
  <2> DEFINE i == PlaceOf(f)
  <2>1. f \in Nat /\ i \in 0..(RecSize - 1)
    <3>1. f \in Nat /\ f - 1 \in Int BY <2>0, <1>2
    <3>2. i \in Int /\ 0 <= i /\ i < RecSize BY <3>1, Division DEF PlaceOf
    <3> QED BY <3>1, <3>2 DEF PlaceOf
  <2>2. ring'[i] = IF ages(i) = {} THEN ring[i] ELSE writeCursor + Max(ages(i))
    BY <1>1, <1>2, <2>1
  <2>3. ASSUME NEW k \in ages(i), f < writeCursor + k
        PROVE  FALSE
    <3>1. k \in 1..n /\ (writeCursor + k - 1) % RecSize = (f - 1) % RecSize BY <2>3 DEF PlaceOf
    <3>2. writeCursor + k - 1 \in Int /\ f - 1 \in Int BY <3>1, <2>1, <1>2
    <3>3. -RecSize < (writeCursor + k - 1) - (f - 1)
          /\ (writeCursor + k - 1) - (f - 1) < RecSize
      BY <3>1, <2>0, <2>1, <1>2, <2>3
    <3>4. writeCursor + k - 1 = f - 1 BY <3>1, <3>2, <3>3, SameRemainder
    <3> QED BY <3>1, <3>4, <2>1, <2>3, <1>2
  <2>4. CASE f > writeCursor
    <3> DEFINE m == f - writeCursor
    <3>1. m \in 1..n /\ writeCursor + m - 1 = f - 1 /\ writeCursor + m = f BY <2>4, <2>0, <2>1, <1>2
    <3>2. m \in ages(i) BY <3>1 DEF PlaceOf
    <3>3. \A k \in ages(i) : k \in 1..n /\ m >= k
      <4> TAKE k \in ages(i)
      <4>1. k \in 1..n OBVIOUS
      <4>2. ~(f < writeCursor + k) BY <2>3
      <4> QED BY <4>1, <4>2, <3>1, <2>1, <1>2
    <3> HIDE DEF ages, m
    <3>4. Max(ages(i)) = m
      <4>1. Max(ages(i)) \in ages(i) /\ \A k \in ages(i) : Max(ages(i)) >= k
        BY <3>2, <3>3 DEF Max
      <4>2. Max(ages(i)) >= m /\ m >= Max(ages(i)) /\ Max(ages(i)) \in 1..n
        BY <4>1, <3>2, <3>3
      <4> QED BY <4>2, <3>1, <1>2
    <3>5. ages(i) # {} BY <3>2
    <3> QED BY <2>2, <3>1, <3>4, <3>5
  <2>5. CASE f <= writeCursor
    <3>1. ages(i) = {}
      <4> SUFFICES ASSUME NEW k \in ages(i) PROVE FALSE OBVIOUS
      <4>1. k \in 1..n OBVIOUS
      <4>2. f < writeCursor + k BY <4>1, <2>5, <2>1, <1>2
      <4> QED BY <4>2, <2>3
    <3>2. f \in 1..writeCursor /\ f > writeCursor - RecSize BY <2>5, <2>0, <2>1, <1>2
    <3>3. ring[i] = f BY <3>2 DEF RecInv, RingHoldsLatest
    <3> QED BY <2>2, <3>1, <3>3
  <2> QED BY <2>4, <2>5, <2>1, <1>2
<1>5. ReaderIsWithin' BY <1>1 DEF ReaderIsWithin
<1>6. FileIsInOrder' BY <1>1 DEF RecInv, FileIsInOrder, ReadIsInOrder
<1> QED BY <1>3, <1>4, <1>5, <1>6 DEF RecInv

LEMMA RewindStep ==
  ASSUME RecInv, NEW who \in {"player", "file"}, Rewind(who)
  PROVE  RecInv'
<1> USE RecSizes
<1>1. /\ readCursor' = writeCursor - Size /\ reading' = who
      /\ UNCHANGED <<ring, writeCursor, taken>>
  BY DEF Rewind
<1>2. writeCursor \in Nat /\ DOMAIN ring = 0..(RecSize - 1) BY DEF RecInv, RecTyped
<1>3. Size = IF writeCursor <= RecSize THEN writeCursor ELSE RecSize
  BY <1>2, LeastOfTwo DEF Size
<1>4. /\ readCursor' \in Nat /\ writeCursor - RecSize <= readCursor'
      /\ readCursor' <= writeCursor
  BY <1>1, <1>2, <1>3
<1>5. RecTyped' BY <1>1, <1>2, <1>4 DEF RecTyped
<1>6. RingHoldsLatest' BY <1>1 DEF RecInv, RingHoldsLatest
<1>7. ReaderIsWithin' BY <1>1, <1>4 DEF ReaderIsWithin
<1>8. FileIsInOrder' BY <1>1 DEF RecInv, FileIsInOrder, ReadIsInOrder
<1> QED BY <1>5, <1>6, <1>7, <1>8 DEF RecInv

\* What is left to read
LEMMA LeftIs ==
  ASSUME RecInv, reading # "nobody", NEW n \in Nat
  PROVE  Left(n) \in Nat /\ Left(n) <= n /\ Left(n) <= writeCursor - readCursor
<1>1. writeCursor \in Nat /\ readCursor \in Nat /\ readCursor <= writeCursor
  BY DEF RecInv, RecTyped, ReaderIsWithin
<1>2. writeCursor - readCursor \in Nat BY <1>1
<1> DEFINE behind == writeCursor - readCursor
<1>3. behind \in Int /\ RecSize \in Int /\ n \in Int /\ behind \in Nat /\ RecSize \in Nat
  BY <1>2, RecSizes
<1> HIDE DEF behind
<1>4. /\ Min({n, RecSize, behind}) \in {n, RecSize, behind}
      /\ Min({n, RecSize, behind}) <= n /\ Min({n, RecSize, behind}) <= behind
  BY <1>3, LeastOfThree
<1>5. Left(n) = Min({n, RecSize, behind}) BY DEF Left, behind
<1> QED BY <1>3, <1>4, <1>5 DEF behind

\* After a read, all but what it was handed
LEMMA ReadStep ==
  ASSUME RecInv, reading # "nobody", NEW n \in Nat, RecRead(n),
         reading' \in {"nobody", reading}
  PROVE  RecTyped' /\ RingHoldsLatest' /\ ReaderIsWithin'
<1>1. readCursor' = readCursor + Left(n) /\ ring' = ring /\ writeCursor' = writeCursor
  BY DEF RecRead
<1>2. Left(n) \in Nat /\ Left(n) <= writeCursor - readCursor BY LeftIs
<1>3. /\ writeCursor \in Nat /\ readCursor \in Nat /\ reading \in {"nobody", "player", "file"}
      /\ DOMAIN ring = 0..(RecSize - 1)
      /\ writeCursor - RecSize <= readCursor /\ readCursor <= writeCursor
  BY DEF RecInv, RecTyped, ReaderIsWithin
<1>4. /\ readCursor' \in Nat /\ writeCursor - RecSize <= readCursor'
      /\ readCursor' <= writeCursor
  BY <1>1, <1>2, <1>3, RecSizes
<1>5. RecTyped' BY <1>1, <1>3, <1>4 DEF RecTyped
<1>6. RingHoldsLatest' BY <1>1 DEF RecInv, RingHoldsLatest
<1> QED BY <1>1, <1>4, <1>5, <1>6 DEF ReaderIsWithin

LEMMA PlayStep == ASSUME RecInv, Play PROVE RecInv'
<1>1. reading = "player" /\ RecRead(RecBlock) /\ reading' \in {"player", "nobody"} BY DEF Play
<1>2. RecTyped' /\ RingHoldsLatest' /\ ReaderIsWithin' BY <1>1, ReadStep, RecSizes
<1>3. taken'.by = "player" BY <1>1 DEF RecRead
<1> QED BY <1>2, <1>3 DEF RecInv, FileIsInOrder

LEMMA SaveStep == ASSUME RecInv, Save PROVE RecInv'
<1> USE RecSizes
<1>1. reading = "file" /\ RecRead(1) /\ reading' \in {"file", "nobody"} BY DEF Save
<1>2. RecTyped' /\ RingHoldsLatest' /\ ReaderIsWithin' BY <1>1, ReadStep
<1> DEFINE n == Left(1)
           first == readCursor % RecSize
           frames == Copied(n, readCursor)
<1>3. taken'.from = readCursor + 1 /\ taken'.frames = frames BY <1>1 DEF RecRead
<1>4. n \in Nat /\ n <= 1 /\ n <= writeCursor - readCursor BY <1>1, LeftIs
<1>5. /\ writeCursor \in Nat /\ readCursor \in Nat
      /\ writeCursor - RecSize <= readCursor /\ readCursor <= writeCursor
  BY <1>1 DEF RecInv, RecTyped, ReaderIsWithin
<1>6. first \in Int /\ 0 <= first /\ first < RecSize BY <1>5, Division
<1> HIDE DEF n, first
<1>7. Min({n, RecSize - first}) = n BY <1>4, <1>6, LeastOfTwo
<1>8. frames = [k \in 1..n |-> IF k <= n - n THEN ring[k - 1]
                               ELSE IF k <= n THEN ring[first + k - 1] ELSE 0]
  BY <1>7 DEF Copied, first
<1>9. \A k \in 1..n : frames[k] = readCursor + 1 + k - 1
  <2> SUFFICES ASSUME NEW k \in 1..n PROVE frames[k] = readCursor + 1 + k - 1 OBVIOUS
  <2>1. k = 1 /\ n = 1 BY <1>4
  <2>2. frames[k] = ring[first] BY <1>6, <1>8, <2>1
  <2>3. readCursor + 1 \in 1..writeCursor /\ readCursor + 1 > writeCursor - RecSize
    BY <1>4, <1>5, <2>1
  <2>4. ring[first] = readCursor + 1
    <3>1. ring[PlaceOf(readCursor + 1)] = readCursor + 1
      <4>1. RingHoldsLatest BY DEF RecInv
      <4> QED BY <2>3, <4>1 DEF RingHoldsLatest
    <3>2. readCursor + 1 - 1 = readCursor BY <1>5
    <3>3. PlaceOf(readCursor + 1) = first BY <1>5 DEF first, PlaceOf
    <3> QED BY <3>1, <3>3
  <2> QED BY <2>1, <2>2, <2>4, <1>5
<1>10. Len(frames) = n
  <2> HIDE DEF frames
  <2>1. frames \in [1..n -> {frames[k] : k \in 1..n}] BY <1>8
  <2> QED BY <2>1, <1>4, FunctionAsList
<1> HIDE DEF frames
<1>11. ReadIsInOrder' BY <1>3, <1>9, <1>10 DEF ReadIsInOrder
<1> QED BY <1>2, <1>11 DEF RecInv, FileIsInOrder

\* Whatever is recorded, and for as long, a file holds the latest frames, all
\* that the ring keeps, in the order in which they were recorded: saveWaveFile()
\* reads a frame at a time, and the second part of a read is the one that goes
\* wrong.
THEOREM FilesAreInOrder == RecSpec => []FileIsInOrder
<1>1. RecInit => RecInv BY RecInitInv
<1>2. RecInv /\ [RecNext]_recVars => RecInv'
  <2> SUFFICES ASSUME RecInv, [RecNext]_recVars PROVE RecInv' OBVIOUS
  <2>1. ASSUME NEW n \in 1..RecBlock, RecWrite(n) PROVE RecInv' BY <2>1, RecWriteStep
  <2>2. CASE Rewind("player") \/ Rewind("file") BY <2>2, RewindStep
  <2>3. CASE Play BY <2>3, PlayStep
  <2>4. CASE Save BY <2>4, SaveStep
  <2>5. CASE UNCHANGED recVars
    BY <2>5 DEF recVars, RecInv, RecTyped, RingHoldsLatest, ReaderIsWithin, FileIsInOrder,
                ReadIsInOrder
  <2> QED BY <2>1, <2>2, <2>3, <2>4, <2>5 DEF RecNext
<1>3. RecInv => FileIsInOrder BY DEF RecInv
<1> QED BY <1>1, <1>2, <1>3, PTL DEF RecSpec
-----------------------------------------------------------------------------
(* FxLab *)

FxEffect == [kind : FxKinds, enable : BOOLEAN, value : Int]
FxEngine == [members : SUBSET Members, functionList : Seq(FxEffect), muted : BOOLEAN,
             spinUp : Nat, plays : BOOLEAN, calling : BOOLEAN, lacking : BOOLEAN,
             restarted : BOOLEAN]

FxTyped == /\ fxActivity \in {"resumed", "paused", "asking", "crashed"}
           /\ isAudioEnabled \in BOOLEAN /\ effectList \in Seq(FxKinds)
           /\ enable \in [FxKinds -> BOOLEAN] /\ paramValue \in [FxKinds -> Int]
           /\ index \in [FxKinds -> Nat] /\ timer \in [FxKinds -> Int]
           /\ drag \in [from : Nat, to : Nat] /\ engines \in Seq(FxEngine)
           /\ enginePtr \in 0..Len(engines) /\ deleting \in 0..4

Distinct(list) == \A i, j \in DOMAIN list : list[i] = list[j] => i = j

\* Where the effect was that is at j, before one was dragged from one place to another.
Origin(j, from, to) == IF j = to THEN from
                       ELSE IF from <= j /\ j < to THEN j + 1
                       ELSE IF to < j /\ j <= from THEN j - 1 ELSE j

\* While an effect is dragged, its holder and those it passed know where they were.
HoldersKnow == \A j \in DOMAIN effectList :
                 index[effectList[j]] = Origin(j, drag.from, drag.to)

AsShown(k) == [kind |-> k, enable |-> enable[k], value |-> paramValue[k]]

\* The engine has the effects of the screen where their holders know them, unless it
\* was made after them, which is why alone a place may be used that it does not have.
Follows(list) == /\ Len(list) = Len(effectList)
                 /\ \A k \in Range(effectList) : list[index[k]] = AsShown(k)

Told == enginePtr # 0 /\ ~engines[enginePtr].lacking
EngineFollows ==
  /\ fxActivity = "resumed" /\ Told => Follows(engines[enginePtr].functionList)
  /\ fxActivity = "resumed" /\ enginePtr # 0 /\ ~engines[enginePtr].restarted
       => engines[enginePtr].muted = ~isAudioEnabled
  /\ fxActivity = "crashed" => enginePtr # 0 /\ ~Told

HandIsFree == drag = NoDrag \/ (/\ fxActivity = "resumed"
                                /\ {drag.from, drag.to} \subseteq DOMAIN effectList
                                /\ \A k \in FxKinds : timer[k] = NoTimer)
TimersHold == \A k \in FxKinds : timer[k] # NoTimer
                => fxActivity \in {"resumed", "crashed"} /\ k \in Range(effectList)

MembersHold == \A e \in DOMAIN engines :
                 engines[e].calling \/ "outStream" \in engines[e].members
                   => engines[e].members = Members
DeletingHolds == /\ fxActivity \in {"resumed", "crashed"} => deleting = 0
                 /\ deleting > 0 => enginePtr # 0
                 /\ deleting > 1 => "outStream" \notin engines[enginePtr].members
NotGranted == /\ fxPermission # "granted" => enginePtr = 0
              /\ fxActivity = "asking" => fxPermission # "granted"

ScreenInv == /\ Distinct(effectList) /\ HoldersKnow /\ HandIsFree /\ TimersHold
EnginesInv == MembersHold /\ DeletingHolds /\ NotGranted /\ ~loud

FxInv == FxTyped /\ ScreenInv /\ EngineFollows /\ EnginesInv
-----------------------------------------------------------------------------
(* A list in which one element is moved. *)

LEMMA RemovedElements ==
  ASSUME NEW S, NEW s \in Seq(S), NEW p \in 1..Len(s)
  PROVE  /\ RemoveAt(s, p) \in Seq(S) /\ Len(RemoveAt(s, p)) = Len(s) - 1
         /\ \A j \in 1..(Len(s) - 1) : RemoveAt(s, p)[j] = s[IF j < p THEN j ELSE j + 1]
<1> DEFINE n == Len(s)
           a == SubSeq(s, 1, p - 1)
           b == SubSeq(s, p + 1, n)
<1>1. n \in Nat /\ \A i \in 1..n : s[i] \in S BY LenProperties, ElementOfSeq
<1>2. /\ a \in Seq(S) /\ Len(a) = p - 1
      /\ \A i \in 1..(p - 1) : a[i] = s[i]
  <2>1. /\ a \in Seq(S) /\ Len(a) = IF 1 <= p - 1 THEN p - 1 - 1 + 1 ELSE 0
        /\ \A i \in 1..(p - 1 - 1 + 1) : a[i] = s[1 + i - 1]
    BY <1>1, SubSeqProperties
  <2>2. \A i \in 1..(p - 1) : 1 + i - 1 = i /\ i \in 1..(p - 1 - 1 + 1) BY <1>1
  <2> QED BY <1>1, <2>1, <2>2
<1>3. /\ b \in Seq(S) /\ Len(b) = n - p
      /\ \A i \in 1..(n - p) : b[i] = s[p + i]
  <2>1. /\ b \in Seq(S) /\ Len(b) = IF p + 1 <= n THEN n - (p + 1) + 1 ELSE 0
        /\ \A i \in 1..(n - (p + 1) + 1) : b[i] = s[p + 1 + i - 1]
    BY <1>1, SubSeqProperties
  <2>2. \A i \in 1..(n - p) : p + 1 + i - 1 = p + i /\ i \in 1..(n - (p + 1) + 1) BY <1>1
  <2> QED BY <1>1, <2>1, <2>2
<1> HIDE DEF a, b
<1>4. /\ a \o b \in Seq(S) /\ Len(a \o b) = Len(a) + Len(b)
      /\ \A i \in 1..(Len(a) + Len(b)) :
           (a \o b)[i] = IF i <= Len(a) THEN a[i] ELSE b[i - Len(a)]
  BY <1>2, <1>3, ConcatProperties
<1>5. ASSUME NEW j \in 1..(n - 1)
      PROVE  (a \o b)[j] = s[IF j < p THEN j ELSE j + 1]
  <2>1. (a \o b)[j] = IF j <= p - 1 THEN a[j] ELSE b[j - (p - 1)] BY <1>1, <1>2, <1>3, <1>4
  <2>2. CASE j < p BY <1>1, <1>2, <2>1, <2>2
  <2>3. CASE ~(j < p)
    <3>1. j - (p - 1) \in 1..(n - p) /\ p + (j - (p - 1)) = j + 1 BY <1>1, <2>3
    <3> QED BY <1>1, <1>3, <2>1, <2>3, <3>1
  <2> QED BY <2>2, <2>3
<1>6. RemoveAt(s, p) = a \o b BY DEF RemoveAt, a, b
<1>7. Len(a) + Len(b) = n - 1 BY <1>1, <1>2, <1>3
<1>8. a \o b \in Seq(S) /\ Len(a \o b) = n - 1 BY <1>4, <1>7
<1> QED BY <1>5, <1>6, <1>8

LEMMA InsertedElements ==
  ASSUME NEW S, NEW s \in Seq(S), NEW p \in 1..(Len(s) + 1), NEW x \in S
  PROVE  /\ InsertAt(s, p, x) \in Seq(S) /\ Len(InsertAt(s, p, x)) = Len(s) + 1
         /\ \A j \in 1..(Len(s) + 1) :
              InsertAt(s, p, x)[j] = IF j < p THEN s[j] ELSE IF j = p THEN x ELSE s[j - 1]
<1> DEFINE n == Len(s)
           a == SubSeq(s, 1, p - 1)
           b == SubSeq(s, p, n)
           c == a \o <<x>>
<1>1. n \in Nat /\ \A i \in 1..n : s[i] \in S BY LenProperties, ElementOfSeq
<1>2. /\ a \in Seq(S) /\ Len(a) = p - 1
      /\ \A i \in 1..(p - 1) : a[i] = s[i]
  <2>1. \A i \in 1..(p - 1) : s[i] \in S BY <1>1
  <2>2. /\ a \in Seq(S) /\ Len(a) = IF 1 <= p - 1 THEN p - 1 - 1 + 1 ELSE 0
        /\ \A i \in 1..(p - 1 - 1 + 1) : a[i] = s[1 + i - 1]
    BY <1>1, <2>1, SubSeqProperties
  <2>3. \A i \in 1..(p - 1) : 1 + i - 1 = i /\ i \in 1..(p - 1 - 1 + 1) BY <1>1
  <2> QED BY <1>1, <2>2, <2>3
<1>3. /\ b \in Seq(S) /\ Len(b) = n - p + 1
      /\ \A i \in 1..(n - p + 1) : b[i] = s[p + i - 1]
  <2>1. \A i \in p..n : s[i] \in S BY <1>1
  <2>2. /\ b \in Seq(S) /\ Len(b) = IF p <= n THEN n - p + 1 ELSE 0
        /\ \A i \in 1..(n - p + 1) : b[i] = s[p + i - 1]
    BY <1>1, <2>1, SubSeqProperties
  <2> QED BY <1>1, <2>2
<1>4. <<x>> \in Seq(S) /\ Len(<<x>>) = 1 /\ <<x>>[1] = x OBVIOUS
<1> HIDE DEF a, b
<1>5. /\ c \in Seq(S) /\ Len(c) = p
      /\ \A i \in 1..p : c[i] = IF i <= p - 1 THEN a[i] ELSE x
  <2>1. /\ c \in Seq(S) /\ Len(c) = Len(a) + Len(<<x>>)
        /\ \A i \in 1..(Len(a) + Len(<<x>>)) :
             c[i] = IF i <= Len(a) THEN a[i] ELSE <<x>>[i - Len(a)]
    BY <1>2, <1>4, ConcatProperties
  <2>2. Len(a) + Len(<<x>>) = p BY <1>1, <1>2, <1>4
  <2>3. ASSUME NEW i \in 1..p PROVE c[i] = IF i <= p - 1 THEN a[i] ELSE x
    <3>1. ~(i <= p - 1) => i - Len(a) = 1 BY <1>1, <1>2
    <3> QED BY <1>2, <1>4, <2>1, <2>2, <3>1
  <2> QED BY <2>1, <2>2, <2>3
<1> HIDE DEF c
<1>6. /\ c \o b \in Seq(S) /\ Len(c \o b) = Len(c) + Len(b)
      /\ \A i \in 1..(Len(c) + Len(b)) :
           (c \o b)[i] = IF i <= Len(c) THEN c[i] ELSE b[i - Len(c)]
  BY <1>3, <1>5, ConcatProperties
<1>7. Len(c) + Len(b) = n + 1 BY <1>1, <1>3, <1>5
<1>8. ASSUME NEW j \in 1..(n + 1)
      PROVE  (c \o b)[j] = IF j < p THEN s[j] ELSE IF j = p THEN x ELSE s[j - 1]
  <2>1. (c \o b)[j] = IF j <= p THEN c[j] ELSE b[j - p] BY <1>5, <1>6, <1>7
  <2>2. CASE j < p
    <3>1. j \in 1..p /\ j <= p - 1 /\ j <= p /\ j \in 1..(p - 1) BY <1>1, <2>2
    <3> QED BY <1>2, <1>5, <2>1, <2>2, <3>1
  <2>3. CASE j = p
    <3>1. j \in 1..p /\ ~(j <= p - 1) /\ j <= p /\ ~(j < p) BY <1>1, <2>3
    <3> QED BY <1>5, <2>1, <2>3, <3>1
  <2>4. CASE j > p
    <3>1. ~(j < p) /\ ~(j <= p) /\ j # p BY <1>1, <2>4
    <3>2. j - p \in 1..(n - p + 1) /\ p + (j - p) - 1 = j - 1 BY <1>1, <2>4
    <3> QED BY <1>3, <2>1, <3>1, <3>2
  <2>5. j < p \/ j = p \/ j > p BY <1>1
  <2> QED BY <2>2, <2>3, <2>4, <2>5
<1>9. InsertAt(s, p, x) = c \o b BY DEF InsertAt, a, b, c
<1> QED BY <1>6, <1>7, <1>8, <1>9

\* A list that is rotated has the same elements elsewhere.
LEMMA RotatedElements ==
  ASSUME NEW S, NEW s \in Seq(S), NEW from \in 1..Len(s), NEW to \in 1..Len(s)
  PROVE  LET r == RotateEffectAt(s, from, to) IN
           /\ r \in Seq(S) /\ Len(r) = Len(s)
           /\ \A j \in 1..Len(s) : r[j] = s[Origin(j, from, to)]
<1> DEFINE n == Len(s)
           r == RotateEffectAt(s, from, to)
<1>1. /\ n \in Nat /\ DOMAIN s = 1..n /\ \A i \in 1..n : s[i] \in S
  BY LenProperties, ElementOfSeq
<1>2. CASE from <= to
  <2>1. r = RotateLeft(s, from, to) BY <1>1, <1>2 DEF RotateEffectAt
  <2>2. r = [i \in 1..n |-> IF i = to THEN s[from]
                            ELSE IF i \in from..(to - 1) THEN s[i + 1] ELSE s[i]]
    BY <1>1, <2>1 DEF RotateLeft
  <2>3. ASSUME NEW j \in 1..n PROVE r[j] = s[Origin(j, from, to)] /\ r[j] \in S
    BY <1>1, <1>2, <2>2 DEF Origin
  <2>4. r \in [1..n -> S] BY <2>2, <2>3
  <2> QED BY <1>1, <2>3, <2>4, FunctionAsList
<1>3. CASE ~(from <= to)
  <2> DEFINE v == Reverse(s)
             f == n + 1 - from
             t == n + 1 - to
             w == RotateLeft(v, f, t)
  <2>1. /\ v = [i \in 1..n |-> s[(n - i) + 1]] /\ v \in [1..n -> S] BY <1>1 DEF Reverse
  <2>2. f \in 1..n /\ t \in 1..n /\ f < t BY <1>1, <1>3
  <2>3. w = [i \in 1..n |-> IF i = t THEN v[f]
                            ELSE IF i \in f..(t - 1) THEN v[i + 1] ELSE v[i]]
    BY <2>1 DEF RotateLeft
  <2>4. w \in [1..n -> S]
    <3>1. \A i \in 1..n : v[i] \in S BY <2>1
    <3>2. ASSUME NEW i \in 1..n PROVE w[i] \in S
      <4>1. i \in f..(t - 1) => i + 1 \in 1..n BY <1>1, <2>2
      <4> QED BY <2>2, <2>3, <3>1, <4>1
    <3> QED BY <2>3, <3>2
  <2>5. Len(w) = n BY <1>1, <2>4, FunctionAsList
  <2>6. r = [i \in 1..n |-> w[(n - i) + 1]]
    <3>1. r = Reverse(w) BY <1>1, <1>3 DEF RotateEffectAt
    <3> QED BY <2>5, <3>1 DEF Reverse
  <2>7. ASSUME NEW j \in 1..n PROVE r[j] = s[Origin(j, from, to)] /\ r[j] \in S
    <3> DEFINE k == (n - j) + 1
    <3>1. k \in 1..n /\ (n - k) + 1 = j BY <1>1
    <3>2. r[j] = IF k = t THEN v[f] ELSE IF k \in f..(t - 1) THEN v[k + 1] ELSE v[k]
      BY <2>3, <2>6, <3>1
    <3>3. CASE j = to
      <4>1. k = t /\ (n - f) + 1 = from BY <1>1, <3>3
      <4>2. v[f] = s[from] BY <2>1, <2>2, <4>1
      <4> QED BY <1>1, <3>2, <3>3, <4>1, <4>2 DEF Origin
    <3>4. CASE to < j /\ j <= from
      <4>1. k # t /\ k \in f..(t - 1) /\ k + 1 \in 1..n /\ (n - (k + 1)) + 1 = j - 1
        BY <1>1, <1>3, <3>4
      <4>2. v[k + 1] = s[j - 1] BY <2>1, <4>1
      <4>3. Origin(j, from, to) = j - 1 /\ j - 1 \in 1..n BY <1>1, <1>3, <3>4 DEF Origin
      <4> QED BY <1>1, <3>2, <4>1, <4>2, <4>3
    <3>5. CASE j < to \/ j > from
      <4>1. k # t /\ ~(k \in f..(t - 1)) BY <1>1, <1>3, <3>5
      <4>2. v[k] = s[j] BY <2>1, <3>1
      <4>3. Origin(j, from, to) = j BY <1>1, <1>3, <3>5 DEF Origin
      <4> QED BY <1>1, <3>2, <4>1, <4>2, <4>3
    <3> QED BY <1>1, <1>3, <3>3, <3>4, <3>5
  <2>8. r \in [1..n -> S] BY <2>6, <2>7
  <2> QED BY <1>1, <2>7, <2>8, FunctionAsList
<1> QED BY <1>2, <1>3

\* The same for the list of the screen, on which the effect is taken out and put in.
TakenTo(s, p, to, x) == InsertAt(RemoveAt(s, p), to, x)

\* A list m that is s with x, which was at p, at place to
IsMoved(m, s, p, to, x) ==
  /\ m \in Seq(FxKinds) /\ Len(m) = Len(s)
  /\ \A j \in 1..Len(s) : m[j] = IF j = to THEN x ELSE s[Origin(j, p, to)]

LEMMA MovedElements ==
  ASSUME NEW s \in Seq(FxKinds), NEW p \in 1..Len(s), NEW to \in 1..Len(s),
         NEW x \in FxKinds
  PROVE  IsMoved(TakenTo(s, p, to, x), s, p, to, x)
<1> DEFINE n == Len(s)
           r == RemoveAt(s, p)
           m == InsertAt(r, to, x)
<1>1. n \in Nat /\ \A i \in 1..n : s[i] \in FxKinds BY LenProperties, ElementOfSeq
<1>2. /\ r \in Seq(FxKinds) /\ Len(r) = n - 1
      /\ \A j \in 1..(n - 1) : r[j] = s[IF j < p THEN j ELSE j + 1]
  BY RemovedElements
<1> HIDE DEF r
<1>3. to \in 1..(Len(r) + 1) /\ Len(r) + 1 = n /\ x \in FxKinds BY <1>1, <1>2
<1>4. /\ m \in Seq(FxKinds) /\ Len(m) = n
      /\ \A j \in 1..n : m[j] = IF j < to THEN r[j] ELSE IF j = to THEN x ELSE r[j - 1]
  <2>1. /\ m \in Seq(FxKinds) /\ Len(m) = Len(r) + 1
        /\ \A j \in 1..(Len(r) + 1) :
             m[j] = IF j < to THEN r[j] ELSE IF j = to THEN x ELSE r[j - 1]
    BY <1>2, <1>3, InsertedElements
  <2> QED BY <1>3, <2>1
<1>5. ASSUME NEW j \in 1..n PROVE m[j] = IF j = to THEN x ELSE s[Origin(j, p, to)]
  <2>1. CASE j = to BY <1>1, <1>4, <2>1 DEF Origin
  <2>2. CASE j < to
    <3>1. j \in 1..(n - 1) BY <1>1, <2>2
    <3>2. m[j] = s[IF j < p THEN j ELSE j + 1] BY <1>2, <1>4, <2>2, <3>1
    <3> QED BY <1>1, <2>2, <3>2 DEF Origin
  <2>3. CASE j > to
    <3>1. j - 1 \in 1..(n - 1) BY <1>1, <2>3
    <3>2. m[j] = r[j - 1] BY <1>1, <1>4, <2>3
    <3>3. r[j - 1] = s[IF j - 1 < p THEN j - 1 ELSE j - 1 + 1] BY <1>2, <3>1
    <3>4. (IF j - 1 < p THEN j - 1 ELSE j - 1 + 1) = Origin(j, p, to)
      BY <1>1, <2>3 DEF Origin
    <3> QED BY <1>1, <2>3, <3>2, <3>3, <3>4
  <2> QED BY <1>1, <2>1, <2>2, <2>3
<1>6. TakenTo(s, p, to, x) = m BY DEF TakenTo, r
<1> QED BY <1>4, <1>5, <1>6 DEF IsMoved

LEMMA OriginWithin ==
  ASSUME NEW n \in Nat, NEW from \in 1..n, NEW to \in 1..n, NEW j \in 1..n
  PROVE  Origin(j, from, to) \in 1..n
BY DEF Origin

LEMMA OriginDiffers ==
  ASSUME NEW n \in Nat, NEW from \in 1..n, NEW to \in 1..n, NEW i \in 1..n, NEW j \in 1..n,
         Origin(i, from, to) = Origin(j, from, to)
  PROVE  i = j
BY DEF Origin

LEMMA OriginOfBoth ==
  ASSUME NEW n \in Nat, NEW from \in 1..n, NEW p \in 1..n, NEW to \in 1..n, NEW j \in 1..n
  PROVE  Origin(Origin(j, p, to), from, p) = Origin(j, from, to)
BY DEF Origin

LEMMA OriginWhenFree ==
  ASSUME NEW n \in Nat, NEW j \in 1..n
  PROVE  /\ Origin(j, 0, 0) = j
         /\ \A from \in 1..n : Origin(j, from, from) = j
         /\ \A from \in 1..n, to \in 1..n :
              j \notin (from..to) \cup (to..from) => Origin(j, from, to) = j
BY DEF Origin
-----------------------------------------------------------------------------
(* The screen's list, its holders and the engine's list. *)

LEMMA EffectListIs ==
  ASSUME FxTyped
  PROVE  /\ Len(effectList) \in Nat /\ DOMAIN effectList = 1..Len(effectList)
         /\ \A j \in 1..Len(effectList) :
              effectList[j] \in FxKinds /\ effectList[j] \in Range(effectList)
         /\ \A k \in Range(effectList) :
              k \in FxKinds /\ \E j \in 1..Len(effectList) : effectList[j] = k
BY LenProperties, ElementOfSeq DEF FxTyped, Range

LEMMA PlaceIs ==
  ASSUME FxTyped, Distinct(effectList), NEW j \in 1..Len(effectList)
  PROVE  Place(effectList[j]) = j
BY EffectListIs DEF Place, Distinct

\* Where nothing is dragged, every holder knows its place.
LEMMA HolderKnows ==
  ASSUME FxTyped, HoldersKnow, drag = NoDrag, NEW j \in 1..Len(effectList)
  PROVE  index[effectList[j]] = j
<1>1. index[effectList[j]] = Origin(j, 0, 0) BY EffectListIs DEF HoldersKnow, NoDrag
<1> QED BY <1>1, EffectListIs, OriginWhenFree

LEMMA IndexIs ==
  ASSUME FxTyped, HoldersKnow, drag = NoDrag, NEW k \in Range(effectList)
  PROVE  index[k] \in 1..Len(effectList) /\ effectList[index[k]] = k /\ k \in FxKinds
<1>1. PICK j \in 1..Len(effectList) : effectList[j] = k BY EffectListIs
<1> QED BY <1>1, EffectListIs, HolderKnows

LEMMA EngineShows ==
  ASSUME FxTyped, HoldersKnow, drag = NoDrag, NEW list, Follows(list)
  PROVE  /\ Len(list) = Len(effectList)
         /\ \A j \in 1..Len(effectList) : list[j] = AsShown(effectList[j])
BY HolderKnows, EffectListIs DEF Follows

LEMMA EngineWillFollow ==
  ASSUME effectList' \in Seq(FxKinds), HoldersKnow', drag' = NoDrag,
         NEW list, Len(list) = Len(effectList'),
         \A j \in 1..Len(effectList') : list[j] = AsShown(effectList[j])'
  PROVE  Follows(list)'
<1>1. Len(effectList') \in Nat /\ DOMAIN effectList' = 1..Len(effectList') BY LenProperties
<1>2. ASSUME NEW j \in 1..Len(effectList') PROVE index'[effectList'[j]] = j
  <2>1. index'[effectList'[j]] = Origin(j, 0, 0) BY <1>1 DEF HoldersKnow, NoDrag
  <2> QED BY <1>1, <2>1, OriginWhenFree
<1>3. ASSUME NEW k \in Range(effectList)' PROVE list[index'[k]] = AsShown(k)'
  <2>1. PICK j \in 1..Len(effectList') : effectList'[j] = k BY <1>1 DEF Range
  <2>2. list[j] = AsShown(k)' BY <2>1 DEF AsShown
  <2> QED BY <1>2, <2>1, <2>2
<1> QED BY <1>3 DEF Follows

LEMMA AsShownIs ==
  ASSUME FxTyped, NEW k \in FxKinds
  PROVE  AsShown(k) \in FxEffect
BY DEF FxTyped, AsShown, FxEffect

LEMMA NativeListIs ==
  ASSUME FxTyped
  PROVE  NativeList \in Seq(FxEffect) /\ Len(NativeList) \in Nat
         /\ DOMAIN NativeList = 1..Len(NativeList)
<1>1. enginePtr # 0 => engines[enginePtr] \in FxEngine
  BY LenProperties, ElementOfSeq DEF FxTyped
<1>2. NativeList \in Seq(FxEffect)
  <2>1. CASE enginePtr = 0 BY <2>1, EmptySeq DEF NativeList
  <2>2. CASE enginePtr # 0 BY <1>1, <2>2 DEF NativeList, FxEngine
  <2> QED BY <2>1, <2>2
<1> QED BY <1>2, LenProperties

\* An engine's fields, one of which is changed
LEMMA EngineChanged ==
  ASSUME FxTyped, NEW e \in DOMAIN engines, NEW new, new \in FxEngine,
         engines' = [engines EXCEPT ![e] = new]
  PROVE  /\ engines' \in Seq(FxEngine) /\ Len(engines') = Len(engines)
         /\ DOMAIN engines' = DOMAIN engines /\ engines'[e] = new
         /\ \A d \in DOMAIN engines : d # e => engines'[d] = engines[d]
<1>1. engines \in Seq(FxEngine) /\ Len(engines) \in Nat /\ DOMAIN engines = 1..Len(engines)
  BY LenProperties DEF FxTyped
<1>2. engines' \in Seq(FxEngine) /\ Len(engines') = Len(engines) BY <1>1, ExceptSeq
<1> QED BY <1>1, <1>2, LenProperties

LEMMA EngineFields ==
  ASSUME FxTyped, NEW e \in DOMAIN engines
  PROVE  /\ engines[e] \in FxEngine /\ e \in 1..Len(engines)
         /\ engines[e].members \subseteq Members /\ engines[e].functionList \in Seq(FxEffect)
         /\ engines[e].muted \in BOOLEAN /\ engines[e].spinUp \in Nat
         /\ engines[e].plays \in BOOLEAN /\ engines[e].calling \in BOOLEAN
         /\ engines[e].lacking \in BOOLEAN /\ engines[e].restarted \in BOOLEAN
<1>1. engines[e] \in FxEngine /\ e \in 1..Len(engines)
  BY LenProperties, ElementOfSeq DEF FxTyped
<1> QED BY <1>1 DEF FxEngine

LEMMA PtrWithin ==
  ASSUME FxTyped, enginePtr # 0
  PROVE  enginePtr \in DOMAIN engines
BY LenProperties DEF FxTyped

LEMMA SetNativeStep ==
  ASSUME FxTyped, NEW list, enginePtr # 0 => list \in Seq(FxEffect), SetNative(list)
  PROVE  /\ engines' \in Seq(FxEngine) /\ Len(engines') = Len(engines)
         /\ DOMAIN engines' = DOMAIN engines
         /\ \A e \in DOMAIN engines : /\ engines'[e].members = engines[e].members
                                      /\ engines'[e].calling = engines[e].calling
                                      /\ engines'[e].muted = engines[e].muted
                                      /\ engines'[e].lacking = engines[e].lacking
                                      /\ engines'[e].restarted = engines[e].restarted
         /\ enginePtr # 0 => engines'[enginePtr].functionList = list
<1>1. CASE enginePtr = 0 BY <1>1 DEF FxTyped, SetNative
<1>2. CASE enginePtr # 0
  <2> DEFINE E == engines[enginePtr]
             N == [E EXCEPT !.functionList = list]
  <2>1. enginePtr \in DOMAIN engines /\ E \in FxEngine BY <1>2, PtrWithin, EngineFields
  <2>2. /\ N \in FxEngine /\ N.members = E.members /\ N.calling = E.calling
        /\ N.muted = E.muted /\ N.functionList = list
        /\ N.lacking = E.lacking /\ N.restarted = E.restarted
    BY <1>2, <2>1 DEF FxEngine
  <2>3. engines' = [engines EXCEPT ![enginePtr] = N] BY <1>2 DEF SetNative
  <2> HIDE DEF N
  <2>4. /\ engines' \in Seq(FxEngine) /\ Len(engines') = Len(engines)
        /\ DOMAIN engines' = DOMAIN engines /\ engines'[enginePtr] = N
        /\ \A d \in DOMAIN engines : d # enginePtr => engines'[d] = engines[d]
    BY <2>1, <2>2, <2>3, EngineChanged
  <2> QED BY <2>2, <2>4
<1> QED BY <1>1, <1>2

\* What concerns the engines' lives, where a step leaves it as it was
LEMMA EnginesAsBefore ==
  ASSUME EnginesInv, DOMAIN engines' = DOMAIN engines, FxTyped,
         \A e \in DOMAIN engines : /\ engines'[e].members = engines[e].members
                                   /\ engines'[e].calling = engines[e].calling,
         UNCHANGED <<fxActivity, fxPermission, enginePtr, deleting, loud>>
  PROVE  EnginesInv'
<1>1. enginePtr # 0 => enginePtr \in DOMAIN engines BY PtrWithin
<1>2. MembersHold' BY DEF EnginesInv, MembersHold
<1>3. deleting \in 0..4 BY DEF FxTyped
<1>5. DeletingHolds' BY <1>1, <1>3 DEF EnginesInv, DeletingHolds
<1>4. NotGranted' /\ ~loud' BY DEF EnginesInv, NotGranted
<1> QED BY <1>2, <1>4, <1>5 DEF EnginesInv
-----------------------------------------------------------------------------
(* What the user does to the list. *)

LEMMA ScreenBecomes ==
  ASSUME effectList' \in Seq(FxKinds), drag' = NoDrag, TimersHold',
         \A j \in 1..Len(effectList') : index'[effectList'[j]] = j
  PROVE  ScreenInv'
<1>1. Len(effectList') \in Nat /\ DOMAIN effectList' = 1..Len(effectList') BY LenProperties
<1>2. Distinct(effectList)' BY <1>1 DEF Distinct
<1>3. HoldersKnow'
  <2> SUFFICES ASSUME NEW j \in 1..Len(effectList')
               PROVE  index'[effectList'[j]] = Origin(j, 0, 0)
    BY <1>1 DEF HoldersKnow, NoDrag
  <2> QED BY <1>1, OriginWhenFree
<1> QED BY <1>2, <1>3 DEF ScreenInv, HandIsFree

\* The engine's list becomes this one, and what it has still is what is shown.
LEMMA ListsBecome ==
  ASSUME FxInv, FxTyped', ScreenInv', drag' = NoDrag,
         NEW list, enginePtr # 0 => list \in Seq(FxEffect), SetNative(list),
         fxActivity = "resumed" /\ Told
           => /\ Len(list) = Len(effectList')
              /\ \A j \in 1..Len(effectList') : list[j] = AsShown(effectList[j])',
         UNCHANGED <<fxActivity, fxPermission, isAudioEnabled, enginePtr, deleting, loud>>
  PROVE  FxInv'
<1>1. FxTyped /\ EnginesInv BY DEF FxInv
<1>2. /\ DOMAIN engines' = DOMAIN engines
      /\ \A e \in DOMAIN engines : /\ engines'[e].members = engines[e].members
                                   /\ engines'[e].calling = engines[e].calling
                                   /\ engines'[e].muted = engines[e].muted
                                   /\ engines'[e].lacking = engines[e].lacking
                                   /\ engines'[e].restarted = engines[e].restarted
      /\ enginePtr # 0 => engines'[enginePtr].functionList = list
  BY <1>1, SetNativeStep
<1>3. EnginesInv' BY <1>1, <1>2, EnginesAsBefore
<1>4. EngineFollows'
  <2>1. effectList' \in Seq(FxKinds) /\ HoldersKnow' BY DEF FxTyped, ScreenInv
  <2>2. enginePtr # 0 => /\ engines'[enginePtr].muted = engines[enginePtr].muted
                         /\ engines'[enginePtr].lacking = engines[enginePtr].lacking
                         /\ engines'[enginePtr].restarted = engines[enginePtr].restarted
    BY <1>1, <1>2, PtrWithin
  <2>3. enginePtr' = enginePtr /\ fxActivity' = fxActivity /\ isAudioEnabled' = isAudioEnabled
    OBVIOUS
  <2>4. Told' = Told BY <2>2, <2>3 DEF Told
  <2>5. ASSUME fxActivity = "resumed", Told
        PROVE  Follows(engines[enginePtr].functionList)'
    <3>1. Follows(list)' BY <2>1, <2>5, EngineWillFollow
    <3>2. enginePtr # 0 BY <2>5 DEF Told
    <3> QED BY <1>2, <2>3, <3>1, <3>2 DEF Follows
  <2> QED BY <2>2, <2>3, <2>4, <2>5 DEF FxInv, EngineFollows
<1> QED BY <1>3, <1>4 DEF FxInv

\* What the engine has before a step
LEMMA ListsAre ==
  ASSUME FxInv, drag = NoDrag, fxActivity = "resumed", Told
  PROVE  /\ Len(NativeList) = Len(effectList)
         /\ \A j \in 1..Len(effectList) : NativeList[j] = AsShown(effectList[j])
<1>1. Follows(NativeList) BY DEF FxInv, EngineFollows, NativeList, Told
<1> QED BY <1>1, EngineShows DEF FxInv, ScreenInv

LEMMA AddToListStep ==
  ASSUME FxInv, NEW k \in FxKinds, AddToList(k)
  PROVE  FxInv'
<1> DEFINE n == Len(effectList)
           fx == [kind |-> k, enable |-> TRUE, value |-> DefaultValue]
           M == Append(NativeList, fx)
<1>0. FxTyped /\ ScreenInv BY DEF FxInv
<1>1. /\ effectList' = Append(effectList, k) /\ k \notin Range(effectList)
      /\ enable' = [enable EXCEPT ![k] = TRUE]
      /\ paramValue' = [paramValue EXCEPT ![k] = DefaultValue]
      /\ index' = [index EXCEPT ![k] = n + 1]
      /\ timer' = timer /\ drag' = drag /\ drag = NoDrag
      /\ fxActivity' = fxActivity /\ fxActivity = "resumed"
  BY DEF AddToList, Touched, Touch, Free
<1>2. /\ n \in Nat /\ DOMAIN effectList = 1..n
      /\ \A j \in 1..n : effectList[j] \in FxKinds /\ effectList[j] \in Range(effectList)
  BY <1>0, EffectListIs
<1>3. /\ effectList' \in Seq(FxKinds) /\ Len(effectList') = n + 1
      /\ effectList'[n + 1] = k /\ \A j \in 1..n : effectList'[j] = effectList[j]
  BY <1>0, <1>1, AppendProperties DEF FxTyped
<1>4. /\ enable' \in [FxKinds -> BOOLEAN] /\ paramValue' \in [FxKinds -> Int]
      /\ index' \in [FxKinds -> Nat]
  BY <1>0, <1>1, <1>2 DEF FxTyped, DefaultValue
<1>5. NativeList \in Seq(FxEffect) BY <1>0, NativeListIs
<1>6. fx \in FxEffect BY DEF FxEffect, DefaultValue
<1> HIDE DEF fx
<1>7. /\ M \in Seq(FxEffect) /\ Len(M) = Len(NativeList) + 1
      /\ M[Len(NativeList) + 1] = fx
      /\ \A j \in 1..Len(NativeList) : M[j] = NativeList[j]
  BY <1>5, <1>6, AppendProperties
<1>8. SetNative(M) BY DEF AddToList, AddEffect, fx
<1> HIDE DEF M
<1>9. engines' \in Seq(FxEngine) /\ Len(engines') = Len(engines)
  BY <1>0, <1>7, <1>8, SetNativeStep
<1>10. FxTyped'
  BY <1>0, <1>1, <1>3, <1>4, <1>9 DEF FxTyped, AddToList
<1>11. \A j \in 1..(n + 1) : index'[effectList'[j]] = j
  <2> SUFFICES ASSUME NEW j \in 1..(n + 1) PROVE index'[effectList'[j]] = j OBVIOUS
  <2>1. CASE j = n + 1 BY <1>0, <1>1, <1>3, <2>1 DEF FxTyped
  <2>2. CASE j # n + 1
    <3>1. j \in 1..n BY <1>2, <2>2
    <3>2. effectList'[j] # k BY <1>1, <1>2, <1>3, <3>1
    <3>3. index[effectList[j]] = j BY <1>0, <1>1, <3>1, HolderKnows DEF ScreenInv
    <3>4. effectList[j] \in FxKinds /\ effectList[j] # k BY <1>2, <1>3, <3>1, <3>2
    <3> QED BY <1>0, <1>1, <1>3, <3>1, <3>3, <3>4 DEF FxTyped
  <2> QED BY <2>1, <2>2
<1>12. ScreenInv'
  <2>1. \A j \in 1..n : effectList[j] \in Range(effectList)'
    BY <1>2, <1>3, LenProperties DEF Range
  <2>2. \A c \in Range(effectList) : c \in Range(effectList)' BY <1>0, <2>1, EffectListIs
  <2>3. TimersHold' BY <1>0, <1>1, <2>2 DEF ScreenInv, TimersHold
  <2> QED BY <1>1, <1>3, <1>11, <2>3, ScreenBecomes
<1>13. ASSUME Told, NEW j \in 1..(n + 1)
       PROVE  M[j] = AsShown(effectList[j])'
  <2>1. /\ Len(NativeList) = n
        /\ \A i \in 1..n : NativeList[i] = AsShown(effectList[i])
    BY <1>1, <1>13, ListsAre
  <2>2. CASE j = n + 1
    <3>1. M[j] = fx BY <1>7, <2>1, <2>2
    <3>2. enable'[k] = TRUE /\ paramValue'[k] = DefaultValue BY <1>0, <1>1 DEF FxTyped
    <3> QED BY <1>3, <2>2, <3>1, <3>2 DEF AsShown, fx
  <2>3. CASE j # n + 1
    <3>1. j \in 1..n BY <1>2, <2>3
    <3>2. M[j] = AsShown(effectList[j]) BY <1>7, <2>1, <3>1
    <3>3. effectList[j] \in FxKinds /\ effectList[j] # k BY <1>1, <1>2, <3>1
    <3>4. enable'[effectList[j]] = enable[effectList[j]]
          /\ paramValue'[effectList[j]] = paramValue[effectList[j]]
      BY <1>0, <1>1, <3>3 DEF FxTyped
    <3> QED BY <1>3, <3>1, <3>2, <3>4 DEF AsShown
  <2> QED BY <2>2, <2>3
<1>14. Told => Len(M) = Len(effectList') BY <1>1, <1>3, <1>7, ListsAre
<1> QED
  <2>1. UNCHANGED <<fxActivity, fxPermission, isAudioEnabled, enginePtr, deleting, loud>>
    BY DEF AddToList
  <2>2. fxActivity = "resumed" /\ Told
          => /\ Len(M) = Len(effectList')
             /\ \A j \in 1..Len(effectList') : M[j] = AsShown(effectList[j])'
    BY <1>3, <1>13, <1>14
  <2> QED BY <1>1, <1>7, <1>8, <1>10, <1>12, <2>1, <2>2, ListsBecome
-----------------------------------------------------------------------------
LEMMA EffectIs ==
  ASSUME NEW list \in Seq(FxEffect), NEW i \in 1..Len(list), NEW new \in FxEffect
  PROVE  LET r == [list EXCEPT ![i] = new] IN
           /\ r \in Seq(FxEffect) /\ Len(r) = Len(list) /\ r[i] = new
           /\ \A j \in 1..Len(list) : j # i => r[j] = list[j]
BY ExceptSeq

LEMMA EffectEnabled ==
  ASSUME NEW list \in Seq(FxEffect), NEW i \in 1..Len(list), NEW on \in BOOLEAN
  PROVE  LET r == EnableEffectAt(list, i, on) IN
           /\ r \in Seq(FxEffect) /\ Len(r) = Len(list)
           /\ r[i] = [kind |-> list[i].kind, enable |-> on, value |-> list[i].value]
           /\ \A j \in 1..Len(list) : j # i => r[j] = list[j]
<1> DEFINE new == [list[i] EXCEPT !.enable = on]
<1>1. list[i] \in FxEffect BY ElementOfSeq
<1>2. new \in FxEffect
      /\ new = [kind |-> list[i].kind, enable |-> on, value |-> list[i].value]
  BY <1>1 DEF FxEffect
<1>3. EnableEffectAt(list, i, on) = [list EXCEPT ![i] = new] BY DEF EnableEffectAt
<1> HIDE DEF new
<1> QED BY <1>2, <1>3, EffectIs

LEMMA EffectModified ==
  ASSUME NEW list \in Seq(FxEffect), NEW i \in 1..Len(list), NEW k \in FxKinds, NEW v \in Int
  PROVE  LET r == ModifyEffectAt(list, i, k, v) IN
           /\ r \in Seq(FxEffect) /\ Len(r) = Len(list)
           /\ r[i] = [kind |-> k, enable |-> list[i].enable, value |-> v]
           /\ \A j \in 1..Len(list) : j # i => r[j] = list[j]
<1> DEFINE new == [list[i] EXCEPT !.kind = k, !.value = v]
<1>1. list[i] \in FxEffect BY ElementOfSeq
<1>2. new \in FxEffect
      /\ new = [kind |-> k, enable |-> list[i].enable, value |-> v]
  <2> DEFINE x == list[i]
             y == [x EXCEPT !.kind = k]
  <2>1. x = [kind |-> x.kind, enable |-> x.enable, value |-> x.value] /\ x.enable \in BOOLEAN
    BY <1>1 DEF FxEffect
  <2> HIDE DEF x
  <2>2. y = [kind |-> k, enable |-> x.enable, value |-> x.value] BY <2>1
  <2> HIDE DEF y
  <2>3. new = [y EXCEPT !.value = v] BY <2>1 DEF x, y
  <2>4. [y EXCEPT !.value = v] = [kind |-> k, enable |-> x.enable, value |-> v] BY <2>2
  <2> QED BY <2>1, <2>3, <2>4 DEF FxEffect, x
<1>3. ModifyEffectAt(list, i, k, v) = [list EXCEPT ![i] = new] BY DEF ModifyEffectAt
<1> HIDE DEF new
<1> QED BY <1>2, <1>3, EffectIs

\* A place is used that the engine's list, which was made later, does not have.
LEMMA CrashStep ==
  ASSUME FxInv, FxTyped', ScreenInv', fxActivity = "resumed", fxActivity' = "crashed",
         enginePtr # 0, ~Told,
         UNCHANGED <<fxPermission, isAudioEnabled, engines, enginePtr, deleting, loud>>
  PROVE  FxInv'
<1>1. EngineFollows' BY DEF EngineFollows, Told
<1>2. EnginesInv' BY DEF FxInv, EnginesInv, MembersHold, DeletingHolds, NotGranted
<1> QED BY <1>1, <1>2 DEF FxInv

LEMMA CheckStep ==
  ASSUME FxInv, NEW k \in FxKinds, Check(k)
  PROVE  FxInv'
<1> DEFINE n == Len(effectList)
           at == index[k]
           on == ~enable[k]
           M == IF enginePtr = 0 THEN <<>> ELSE EnableEffectAt(NativeList, at, on)
<1>0. FxTyped /\ ScreenInv BY DEF FxInv
<1>1. /\ k \in Range(effectList) /\ drag' = drag /\ drag = NoDrag
      /\ enable' = [enable EXCEPT ![effectList[at]] = on]
      /\ UNCHANGED <<effectList, index, paramValue, timer, fxPermission, isAudioEnabled,
                     enginePtr, deleting, loud>>
      /\ fxActivity = "resumed"
  BY DEF Check, Touched, Touch
<1>2. /\ n \in Nat /\ DOMAIN effectList = 1..n
      /\ \A j \in 1..n : effectList[j] \in FxKinds /\ effectList[j] \in Range(effectList)
  BY <1>0, EffectListIs
<1>3. at \in 1..n /\ effectList[at] = k BY <1>0, <1>1, IndexIs DEF ScreenInv
<1>4. /\ NativeList \in Seq(FxEffect) /\ DOMAIN NativeList = 1..Len(NativeList)
  BY <1>0, NativeListIs
<1>5. ASSUME Told
      PROVE  /\ Len(NativeList) = n
             /\ \A i \in 1..n : NativeList[i] = AsShown(effectList[i])
  BY <1>1, <1>5, ListsAre
<1>7. on \in BOOLEAN BY <1>0 DEF FxTyped
<1>8. enable' = [enable EXCEPT ![k] = on] /\ enable' \in [FxKinds -> BOOLEAN]
  BY <1>0, <1>1, <1>3, <1>7 DEF FxTyped
<1> DEFINE found == enginePtr = 0 \/ at \in DOMAIN NativeList
<1>6. found => SetNative(M) /\ fxActivity' = fxActivity
  BY DEF Check
<1>14. ~found => fxActivity' = "crashed" /\ UNCHANGED engines BY DEF Check
<1> HIDE DEF on
<1>9. ASSUME enginePtr # 0, found
      PROVE  /\ M \in Seq(FxEffect) /\ Len(M) = Len(NativeList)
             /\ M[at] = [kind |-> NativeList[at].kind, enable |-> on,
                         value |-> NativeList[at].value]
             /\ \A j \in 1..Len(NativeList) : j # at => M[j] = NativeList[j]
  <2>1. at \in 1..Len(NativeList) BY <1>4, <1>9
  <2>2. M = EnableEffectAt(NativeList, at, on) BY <1>9
  <2> HIDE DEF M, at
  <2> QED BY <1>4, <1>5, <1>7, <1>9, <2>1, <2>2, EffectEnabled
<1> HIDE DEF M
<1> HIDE DEF found
<1>10. engines' \in Seq(FxEngine) /\ Len(engines') = Len(engines)
  <2>1. CASE found BY <1>0, <1>6, <1>9, <2>1, SetNativeStep
  <2>2. CASE ~found BY <1>0, <1>14, <2>2 DEF FxTyped
  <2> QED BY <2>1, <2>2
<1>15. fxActivity' \in {"resumed", "crashed"} BY <1>1, <1>6, <1>14
<1>11. FxTyped' BY <1>0, <1>1, <1>15, <1>8, <1>10 DEF FxTyped
<1>12. ScreenInv'
  <2>1. \A j \in 1..n : index[effectList[j]] = j BY <1>0, <1>1, HolderKnows DEF ScreenInv
  <2>2. TimersHold' BY <1>0, <1>1, <1>15 DEF ScreenInv, TimersHold, Range
  <2> QED BY <1>0, <1>1, <2>1, <2>2, ScreenBecomes DEF FxTyped
<1>16. Told => enginePtr # 0 /\ found BY <1>3, <1>4, <1>5 DEF Told, found
<1>13. ASSUME Told, NEW j \in 1..n PROVE M[j] = AsShown(effectList[j])'
  <2>1. CASE j = at
    <3>1. NativeList[j] = AsShown(k) BY <1>3, <1>5, <1>13, <2>1
    <3>2. NativeList[j].kind = k /\ NativeList[j].value = paramValue[k] BY <3>1 DEF AsShown
    <3>3. enable'[k] = on BY <1>0, <1>8 DEF FxTyped
    <3> QED BY <1>1, <1>3, <1>9, <1>13, <1>16, <2>1, <3>2, <3>3 DEF AsShown
  <2>2. CASE j # at
    <3>1. effectList[j] # k
      <4>1. index[effectList[j]] = j BY <1>0, <1>1, HolderKnows DEF ScreenInv
      <4> QED BY <2>2, <4>1
    <3>2. enable'[effectList[j]] = enable[effectList[j]] BY <1>0, <1>2, <1>8, <3>1 DEF FxTyped
    <3>3. M[j] = AsShown(effectList[j]) BY <1>5, <1>9, <1>13, <1>16, <2>2
    <3> QED BY <1>1, <3>2, <3>3 DEF AsShown
  <2> QED BY <2>1, <2>2
<1>17. CASE found
  <2>1. enginePtr # 0 => M \in Seq(FxEffect) BY <1>9, <1>17
  <2>2. Told => Len(M) = n BY <1>5, <1>9, <1>16
  <2>3. fxActivity = "resumed" /\ Told
          => /\ Len(M) = Len(effectList')
             /\ \A j \in 1..Len(effectList') : M[j] = AsShown(effectList[j])'
    BY <1>1, <1>13, <2>2
  <2>4. SetNative(M) /\ fxActivity' = fxActivity BY <1>6, <1>17
  <2> QED BY <1>1, <1>11, <1>12, <2>1, <2>3, <2>4, ListsBecome
<1>18. CASE ~found
  <2>1. enginePtr # 0 /\ ~Told BY <1>16, <1>18 DEF found
  <2> QED BY <1>1, <1>11, <1>12, <1>14, <1>18, <2>1, CrashStep
<1> QED BY <1>17, <1>18

LEMMA UpdateEffectParamStep ==
  ASSUME FxInv, NEW k \in FxKinds, UpdateEffectParam(k)
  PROVE  FxInv'
<1> DEFINE n == Len(effectList)
           at == index[k]
           v == timer[k]
           M == IF enginePtr = 0 THEN <<>> ELSE ModifyEffectAt(NativeList, at, k, v)
<1>0. FxTyped /\ ScreenInv BY DEF FxInv
<1>1. /\ timer' = [timer EXCEPT ![k] = NoTimer] /\ timer[k] # NoTimer
      /\ UNCHANGED <<effectList, index, enable, drag, fxPermission, isAudioEnabled,
                     enginePtr, deleting, loud>>
  BY DEF UpdateEffectParam
<1>14. fxActivity = "resumed" /\ k \in Range(effectList) /\ drag = NoDrag
  <2>1. fxActivity # "crashed" BY DEF UpdateEffectParam
  <2> QED BY <1>0, <1>1, <2>1 DEF ScreenInv, TimersHold, HandIsFree
<1>2. /\ n \in Nat /\ DOMAIN effectList = 1..n
      /\ \A j \in 1..n : effectList[j] \in FxKinds /\ effectList[j] \in Range(effectList)
  BY <1>0, EffectListIs
<1>3. at \in 1..n /\ effectList[at] = k BY <1>0, <1>1, <1>14, IndexIs DEF ScreenInv
<1>4. /\ NativeList \in Seq(FxEffect) /\ DOMAIN NativeList = 1..Len(NativeList)
  BY <1>0, NativeListIs
<1>5. ASSUME Told
      PROVE  /\ Len(NativeList) = n
             /\ \A i \in 1..n : NativeList[i] = AsShown(effectList[i])
  BY <1>14, <1>5, ListsAre
<1>7. v \in Int BY <1>0 DEF FxTyped
<1> DEFINE found == enginePtr = 0 \/ at \in DOMAIN NativeList
<1>15. ~found => fxActivity' = "crashed" /\ UNCHANGED <<paramValue, engines>>
  <2>1. ASSUME ~found PROVE enginePtr # 0 /\ at \notin DOMAIN NativeList BY <2>1
  <2> QED BY <2>1 DEF UpdateEffectParam
<1>6. ASSUME found
      PROVE  SetNative(M) /\ fxActivity' = fxActivity /\ paramValue' = [paramValue EXCEPT ![k] = v]
  <2>1. ~(at \notin DOMAIN effectList \/ (enginePtr # 0 /\ at \notin DOMAIN NativeList))
    BY <1>2, <1>3, <1>6
  <2> DEFINE values == [paramValue EXCEPT ![effectList[at]] = timer[k]]
  <2>2. values = [paramValue EXCEPT ![k] = v] /\ values[k] = v
    BY <1>0, <1>3 DEF FxTyped
  <2>3. /\ paramValue' = values
        /\ SetNative(IF enginePtr = 0 THEN <<>>
                     ELSE ModifyEffectAt(NativeList, at, k, values[k]))
        /\ UNCHANGED fxActivity
    BY <2>1 DEF UpdateEffectParam
  <2> QED BY <2>2, <2>3
<1> HIDE DEF found
<1>8. paramValue' \in [FxKinds -> Int] /\ timer' \in [FxKinds -> Int]
  <2>1. paramValue' = paramValue \/ paramValue' = [paramValue EXCEPT ![k] = v]
    BY <1>6, <1>15
  <2> QED BY <1>0, <1>1, <1>7, <2>1 DEF FxTyped, NoTimer
<1> HIDE DEF v
<1>9. ASSUME enginePtr # 0, found
      PROVE  /\ M \in Seq(FxEffect) /\ Len(M) = Len(NativeList)
             /\ M[at] = [kind |-> k, enable |-> NativeList[at].enable, value |-> v]
             /\ \A j \in 1..Len(NativeList) : j # at => M[j] = NativeList[j]
  <2>1. at \in 1..Len(NativeList) BY <1>4, <1>9 DEF found
  <2>2. M = ModifyEffectAt(NativeList, at, k, v) BY <1>9
  <2> HIDE DEF M, at
  <2> QED BY <1>4, <1>5, <1>7, <1>9, <2>1, <2>2, EffectModified
<1> HIDE DEF M
<1>10. engines' \in Seq(FxEngine) /\ Len(engines') = Len(engines)
  <2>1. CASE found BY <1>0, <1>6, <1>9, <2>1, SetNativeStep
  <2>2. CASE ~found BY <1>0, <1>15, <2>2 DEF FxTyped
  <2> QED BY <2>1, <2>2
<1>16. fxActivity' \in {"resumed", "crashed"} BY <1>14, <1>6, <1>15
<1>11. FxTyped' BY <1>0, <1>1, <1>16, <1>8, <1>10 DEF FxTyped
<1>12. ScreenInv'
  <2>1. \A j \in 1..n : index[effectList[j]] = j BY <1>0, <1>14, HolderKnows DEF ScreenInv
  <2>2. TimersHold' BY <1>0, <1>1, <1>16 DEF ScreenInv, TimersHold, Range, FxTyped
  <2> QED BY <1>0, <1>1, <1>14, <2>1, <2>2, ScreenBecomes DEF FxTyped
<1>17. Told => enginePtr # 0 /\ found BY <1>3, <1>4, <1>5 DEF Told, found
<1>13. ASSUME Told, NEW j \in 1..n PROVE M[j] = AsShown(effectList[j])'
  <2>1. CASE j = at
    <3>1. NativeList[j] = AsShown(k) BY <1>3, <1>5, <1>13, <2>1
    <3>2. NativeList[j].enable = enable[k] BY <3>1 DEF AsShown
    <3>3. paramValue'[k] = v BY <1>0, <1>6, <1>13, <1>17 DEF FxTyped
    <3> QED BY <1>1, <1>3, <1>9, <1>13, <1>17, <2>1, <3>2, <3>3 DEF AsShown
  <2>2. CASE j # at
    <3>1. effectList[j] # k
      <4>1. index[effectList[j]] = j BY <1>0, <1>14, HolderKnows DEF ScreenInv
      <4> QED BY <2>2, <4>1
    <3>2. paramValue'[effectList[j]] = paramValue[effectList[j]]
      BY <1>0, <1>2, <1>6, <1>13, <1>17, <3>1 DEF FxTyped
    <3>3. M[j] = AsShown(effectList[j]) BY <1>5, <1>9, <1>13, <1>17, <2>2
    <3> QED BY <1>1, <3>2, <3>3 DEF AsShown
  <2> QED BY <2>1, <2>2
<1>18. CASE found
  <2>1. enginePtr # 0 => M \in Seq(FxEffect) BY <1>9, <1>18
  <2>2. Told => Len(M) = n BY <1>5, <1>9, <1>17
  <2>3. fxActivity = "resumed" /\ Told
          => /\ Len(M) = Len(effectList')
             /\ \A j \in 1..Len(effectList') : M[j] = AsShown(effectList[j])'
    BY <1>1, <1>13, <2>2
  <2>4. SetNative(M) /\ fxActivity' = fxActivity BY <1>6, <1>18
  <2> QED BY <1>1, <1>14, <1>11, <1>12, <2>1, <2>3, <2>4, ListsBecome
<1>19. CASE ~found
  <2>1. enginePtr # 0 /\ ~Told BY <1>17, <1>19 DEF found
  <2> QED BY <1>1, <1>14, <1>11, <1>12, <1>15, <1>19, <2>1, CrashStep
<1> QED BY <1>18, <1>19

\* What is shown and applied, where a step leaves it as it was
LEMMA ListsAsBefore ==
  ASSUME FxInv, FxTyped', UNCHANGED <<fxActivity, isAudioEnabled, effectList, enable,
                                      paramValue, index, timer, drag, enginePtr>>,
         enginePtr # 0 => /\ engines'[enginePtr].functionList
                               = engines[enginePtr].functionList
                          /\ engines'[enginePtr].muted = engines[enginePtr].muted
                          /\ engines'[enginePtr].lacking = engines[enginePtr].lacking
                          /\ engines'[enginePtr].restarted = engines[enginePtr].restarted
  PROVE  ScreenInv' /\ EngineFollows'
<1>1. ScreenInv'
  BY DEF FxInv, ScreenInv, Distinct, HoldersKnow, HandIsFree, TimersHold
<1>2. EngineFollows'
  BY DEF FxInv, EngineFollows, Follows, AsShown, Told
<1> QED BY <1>1, <1>2

LEMMA SlideStep ==
  ASSUME FxInv, NEW k \in FxKinds, NEW v \in Values, Slide(k, v)
  PROVE  FxInv'
<1>0. FxTyped /\ ScreenInv /\ EngineFollows /\ EnginesInv BY DEF FxInv
<1>1. /\ k \in Range(effectList) /\ drag = NoDrag /\ fxActivity = "resumed"
      /\ timer' = [timer EXCEPT ![k] = v]
      /\ UNCHANGED <<fxActivity, fxPermission, isAudioEnabled, effectList, enable,
                     paramValue, index, drag, engines, enginePtr, deleting, loud>>
  BY DEF Slide, Touched, Touch, engineVars
<1>2. FxTyped' BY <1>0, <1>1 DEF FxTyped, Values
<1>3. ScreenInv'
  <2>1. TimersHold' BY <1>0, <1>1 DEF ScreenInv, TimersHold, FxTyped
  <2> QED BY <1>0, <1>1, <2>1 DEF ScreenInv, Distinct, HoldersKnow, HandIsFree
<1>4. EngineFollows' BY <1>0, <1>1 DEF EngineFollows, Follows, AsShown, Told
<1>5. EnginesInv' BY <1>0, <1>1 DEF EnginesInv, MembersHold, DeletingHolds, NotGranted
<1> QED BY <1>2, <1>3, <1>4, <1>5 DEF FxInv
-----------------------------------------------------------------------------
\* A holder that is bound again knows its place, another what it knew.
LEMMA ReboundIs ==
  ASSUME NEW list, Distinct(list), NEW places, NEW j \in DOMAIN list, list[j] \in FxKinds
  PROVE  Rebound(list, places)[list[j]] = IF j \in places THEN j ELSE index[list[j]]
<1> DEFINE k == list[j]
<1>1. Rebound(list, places)[k] =
        IF \E i \in places \cap DOMAIN list : list[i] = k
        THEN CHOOSE i \in DOMAIN list : list[i] = k ELSE index[k]
  BY DEF Rebound
<1>2. \A i \in DOMAIN list : list[i] = k => i = j BY DEF Distinct
<1>3. (CHOOSE i \in DOMAIN list : list[i] = k) = j BY <1>2
<1>4. (\E i \in places \cap DOMAIN list : list[i] = k) <=> j \in places BY <1>2
<1> HIDE DEF k
<1> QED BY <1>1, <1>3, <1>4 DEF k

LEMMA ReboundTyped ==
  ASSUME FxTyped, NEW list, NEW n \in Nat, DOMAIN list = 1..n, Distinct(list), NEW places
  PROVE  Rebound(list, places) \in [FxKinds -> Nat]
<1>1. ASSUME NEW k \in FxKinds PROVE Rebound(list, places)[k] \in Nat
  <2>1. CASE \E i \in places \cap DOMAIN list : list[i] = k
    <3>1. PICK i \in DOMAIN list : i \in places /\ list[i] = k BY <2>1
    <3>2. Rebound(list, places)[k] = i BY <3>1, ReboundIs
    <3> QED BY <3>1, <3>2
  <2>2. CASE ~(\E i \in places \cap DOMAIN list : list[i] = k)
    <3>1. Rebound(list, places)[k] = index[k] BY <2>2 DEF Rebound
    <3> QED BY <3>1 DEF FxTyped
  <2> QED BY <2>1, <2>2
<1>2. Rebound(list, places) = [k \in FxKinds |-> Rebound(list, places)[k]] BY DEF Rebound
<1> QED BY <1>1, <1>2

LEMMA OnSwipedStep ==
  ASSUME FxInv, ~FxLate, NEW k \in FxKinds, OnSwiped(k)
  PROVE  FxInv'
<1> DEFINE n == Len(effectList)
           p == Place(k)
           up(j) == IF j < p THEN j ELSE j + 1
           list == effectList'
           M == RemoveEffectAt(NativeList, p)
           places == p..n
           back == Rebound(list, places)
<1>0. FxTyped /\ ScreenInv BY DEF FxInv
<1>1. /\ k \in Range(effectList) /\ drag' = drag /\ drag = NoDrag
      /\ effectList' = RemoveAt(effectList, p)
      /\ enable' = [enable EXCEPT ![k] = TRUE]
      /\ paramValue' = [paramValue EXCEPT ![k] = DefaultValue]
      /\ SetNative(M)
      /\ UNCHANGED <<fxActivity, timer, fxPermission, isAudioEnabled, enginePtr, deleting, loud>>
      /\ fxActivity = "resumed" /\ \A c \in FxKinds : timer[c] = NoTimer
  BY DEF OnSwiped, Touched, Touch, NoneLate
<1>2. /\ n \in Nat /\ DOMAIN effectList = 1..n
      /\ \A j \in 1..n : effectList[j] \in FxKinds /\ effectList[j] \in Range(effectList)
  BY <1>0, EffectListIs
<1>3. p \in 1..n /\ effectList[p] = k
  <2>1. PICK j \in 1..n : effectList[j] = k BY <1>0, <1>1, EffectListIs
  <2> QED BY <1>0, <2>1, PlaceIs DEF ScreenInv
<1>4. index' = [back EXCEPT ![k] = 0]
  <2>1. index' = [back EXCEPT ![k] = IF timer[k] = NoTimer THEN 0 ELSE back[k]]
    BY DEF OnSwiped
  <2> QED BY <1>1, <2>1
<1> HIDE DEF p
<1>5. /\ list \in Seq(FxKinds) /\ Len(list) = n - 1
      /\ \A j \in 1..(n - 1) : list[j] = effectList[up(j)] /\ up(j) \in 1..n /\ up(j) # p
  <2>1. /\ list \in Seq(FxKinds) /\ Len(list) = n - 1
        /\ \A j \in 1..(n - 1) : list[j] = effectList[IF j < p THEN j ELSE j + 1]
    BY <1>0, <1>1, <1>3, RemovedElements DEF FxTyped
  <2>2. \A j \in 1..(n - 1) : up(j) \in 1..n /\ up(j) # p BY <1>2, <1>3
  <2> QED BY <2>1, <2>2
<1>6. n - 1 \in Nat /\ DOMAIN list = 1..(n - 1) BY <1>2, <1>3, <1>5, LenProperties
<1>7. ASSUME NEW i \in 1..(n - 1), NEW j \in 1..(n - 1), list[i] = list[j]
      PROVE  i = j
  <2>1. up(i) = up(j) BY <1>0, <1>2, <1>5, <1>7 DEF ScreenInv, Distinct
  <2> QED BY <1>2, <1>3, <2>1
<1>8. Distinct(list) BY <1>6, <1>7 DEF Distinct
<1>19. ASSUME NEW j \in 1..(n - 1), list[j] \in FxKinds
       PROVE  back[list[j]] = IF j \in places THEN j ELSE index[list[j]]
  <2>1. j \in DOMAIN list BY <1>6
  <2> HIDE DEF places
  <2> QED BY <1>8, <1>19, <2>1, ReboundIs
<1>20. back \in [FxKinds -> Nat] BY <1>0, <1>6, <1>8, ReboundTyped
<1> HIDE DEF back
<1>9. ASSUME NEW j \in 1..(n - 1)
      PROVE  /\ list[j] \in FxKinds /\ list[j] # k /\ list[j] \in Range(effectList)
             /\ index'[list[j]] = j
  <2>1. list[j] = effectList[up(j)] /\ up(j) \in 1..n /\ up(j) # p BY <1>5
  <2>2. list[j] \in FxKinds /\ list[j] # k /\ list[j] \in Range(effectList)
    BY <1>0, <1>2, <1>3, <2>1 DEF ScreenInv, Distinct
  <2>4. index'[list[j]] = back[list[j]] BY <1>4, <1>20, <2>2
  <2>5. back[list[j]] = IF j \in p..n THEN j ELSE index[list[j]] BY <1>19, <2>2
  <2>6. CASE j \in p..n BY <2>2, <2>4, <2>5, <2>6
  <2>7. CASE j \notin p..n
    <3>1. up(j) = j /\ j \in 1..n BY <1>2, <1>3, <2>7
    <3>2. index[effectList[j]] = j BY <1>0, <1>1, <3>1, HolderKnows DEF ScreenInv
    <3> QED BY <2>1, <2>2, <2>4, <2>5, <2>7, <3>1, <3>2
  <2> QED BY <2>6, <2>7
<1>10. index' \in [FxKinds -> Nat] BY <1>4, <1>20
<1>11. /\ enable' \in [FxKinds -> BOOLEAN] /\ paramValue' \in [FxKinds -> Int]
  BY <1>0, <1>1 DEF FxTyped, DefaultValue
<1>12. /\ NativeList \in Seq(FxEffect) /\ DOMAIN NativeList = 1..Len(NativeList)
       /\ Len(NativeList) \in Nat
  BY <1>0, NativeListIs
<1>13. M \in Seq(FxEffect)
  BY <1>12, RemovedElements DEF RemoveEffectAt
<1>14. ASSUME Told
       PROVE  /\ Len(M) = n - 1
              /\ \A j \in 1..(n - 1) : M[j] = AsShown(list[j])
  <2>1. /\ Len(NativeList) = n
        /\ \A i \in 1..n : NativeList[i] = AsShown(effectList[i])
    BY <1>1, <1>14, ListsAre
  <2>2. M = RemoveAt(NativeList, p) BY <1>3, <1>12, <2>1 DEF RemoveEffectAt
  <2>3. /\ Len(M) = n - 1
        /\ \A j \in 1..(n - 1) : M[j] = NativeList[IF j < p THEN j ELSE j + 1]
    <3> DEFINE s == NativeList
    <3>1. s \in Seq(FxEffect) /\ p \in 1..Len(s) BY <1>3, <1>12, <2>1
    <3> HIDE DEF s
    <3>2. /\ Len(RemoveAt(s, p)) = Len(s) - 1
          /\ \A j \in 1..(Len(s) - 1) :
               RemoveAt(s, p)[j] = s[IF j < p THEN j ELSE j + 1]
      BY <3>1, RemovedElements
    <3> QED BY <2>1, <2>2, <3>2 DEF s
  <2> QED BY <1>5, <2>1, <2>3
<1> HIDE DEF M
<1>15. engines' \in Seq(FxEngine) /\ Len(engines') = Len(engines)
  BY <1>0, <1>1, <1>13, SetNativeStep
<1>16. FxTyped' BY <1>0, <1>1, <1>5, <1>10, <1>11, <1>15 DEF FxTyped
<1>17. ScreenInv'
  <2>1. TimersHold' BY <1>1 DEF TimersHold
  <2> QED BY <1>1, <1>5, <1>9, <2>1, ScreenBecomes
<1>18. ASSUME Told, NEW j \in 1..(n - 1) PROVE M[j] = AsShown(effectList[j])'
  <2>1. M[j] = AsShown(list[j]) BY <1>14, <1>18
  <2>2. /\ enable'[list[j]] = enable[list[j]]
        /\ paramValue'[list[j]] = paramValue[list[j]]
    BY <1>0, <1>1, <1>9 DEF FxTyped
  <2> QED BY <2>1, <2>2 DEF AsShown
<1> QED BY <1>1, <1>5, <1>13, <1>14, <1>16, <1>17, <1>18, ListsBecome

LEMMA OnMoveStep ==
  ASSUME FxInv, ~FxLate, NEW k \in FxKinds, NEW to \in 1..Len(effectList), OnMove(k, to)
  PROVE  FxInv'
<1> DEFINE n == Len(effectList)
           p == Place(k)
           from == IF drag = NoDrag THEN p ELSE drag.from
           list == effectList'
<1>0. FxTyped /\ ScreenInv /\ EngineFollows /\ EnginesInv BY DEF FxInv
<1>1. /\ k \in Range(effectList) /\ (drag = NoDrag \/ p = drag.to)
      /\ drag' = [from |-> from, to |-> to]
      /\ effectList' = InsertAt(RemoveAt(effectList, p), to, k)
      /\ UNCHANGED <<fxActivity, fxPermission, isAudioEnabled, enable, paramValue, index, timer,
                     engines, enginePtr, deleting, loud>>
      /\ fxActivity = "resumed" /\ \A c \in FxKinds : timer[c] = NoTimer
  BY DEF OnMove, Touch, NoneLate, engineVars
<1>2. /\ n \in Nat /\ DOMAIN effectList = 1..n /\ to \in 1..n
      /\ \A j \in 1..n : effectList[j] \in FxKinds /\ effectList[j] \in Range(effectList)
  BY <1>0, EffectListIs
<1>3. p \in 1..n /\ effectList[p] = k
  <2>1. PICK j \in 1..n : effectList[j] = k BY <1>0, <1>1, EffectListIs
  <2> QED BY <1>0, <2>1, PlaceIs DEF ScreenInv
<1>4. from \in 1..n
  BY <1>0, <1>2, <1>3 DEF ScreenInv, HandIsFree
<1> HIDE DEF p, from
<1>5. /\ list \in Seq(FxKinds) /\ Len(list) = n
      /\ \A j \in 1..n : list[j] = effectList[Origin(j, p, to)]
  <2>1. effectList \in Seq(FxKinds) /\ p \in 1..n BY <1>0, <1>3 DEF FxTyped
  <2>2. /\ list \in Seq(FxKinds) /\ Len(list) = n
        /\ \A j \in 1..n : list[j] = IF j = to THEN k ELSE effectList[Origin(j, p, to)]
    <3>1. list = TakenTo(effectList, p, to, k) BY <1>1 DEF TakenTo
    <3> DEFINE s == effectList
    <3>2. /\ s \in Seq(FxKinds) /\ p \in 1..Len(s) /\ to \in 1..Len(s)
          /\ k \in FxKinds
      BY <1>2, <2>1
    <3>3. list = TakenTo(s, p, to, k) BY <3>1
    <3> HIDE DEF s
    <3>4. IsMoved(TakenTo(s, p, to, k), s, p, to, k)
      BY ONLY <3>2, MovedElements
    <3> QED BY <3>3, <3>4 DEF s, IsMoved
  <2>3. Origin(to, p, to) = p BY DEF Origin
  <2> QED BY <1>3, <2>2, <2>3
<1>6. DOMAIN list = 1..n BY <1>5, LenProperties
<1>7. drag'.from = from /\ drag'.to = to /\ drag' \in [from : Nat, to : Nat]
  BY <1>1, <1>2, <1>4
<1>8. FxTyped' BY <1>0, <1>1, <1>5, <1>7 DEF FxTyped
<1>9. Distinct(effectList)'
  <2> SUFFICES ASSUME NEW i \in 1..n, NEW j \in 1..n, list[i] = list[j] PROVE i = j
    BY <1>6 DEF Distinct
  <2>1. Origin(i, p, to) \in 1..n /\ Origin(j, p, to) \in 1..n
    BY <1>2, <1>3, OriginWithin
  <2>2. Origin(i, p, to) = Origin(j, p, to)
    BY <1>0, <1>2, <1>5, <2>1 DEF ScreenInv, Distinct
  <2> QED BY <1>2, <1>3, <2>2, OriginDiffers
<1>10. HoldersKnow'
  <2> SUFFICES ASSUME NEW j \in 1..n PROVE index[list[j]] = Origin(j, from, to)
    BY <1>1, <1>6, <1>7 DEF HoldersKnow
  <2> DEFINE o == Origin(j, p, to)
  <2>1. o \in 1..n BY <1>2, <1>3, OriginWithin
  <2>2. index[effectList[o]] = Origin(o, drag.from, drag.to)
    BY <1>0, <1>2, <2>1 DEF ScreenInv, HoldersKnow
  <2>3. CASE drag = NoDrag
    <3>1. from = p BY <2>3 DEF from
    <3>2. Origin(o, drag.from, drag.to) = o BY <1>2, <2>1, <2>3, OriginWhenFree DEF NoDrag
    <3> QED BY <1>5, <2>2, <3>1, <3>2
  <2>4. CASE drag # NoDrag
    <3>1. from = drag.from /\ p = drag.to BY <1>1, <2>4 DEF from
    <3>2. Origin(o, from, p) = Origin(j, from, to) BY <1>2, <1>3, <1>4, OriginOfBoth
    <3> QED BY <1>5, <2>2, <3>1, <3>2
  <2> QED BY <2>3, <2>4
<1>11. HandIsFree' /\ TimersHold'
  BY <1>1, <1>2, <1>4, <1>6, <1>7 DEF HandIsFree, TimersHold
<1>12. EngineFollows'
  <2>1. \A c \in Range(effectList)' : c \in Range(effectList)
    <3> SUFFICES ASSUME NEW j \in 1..n PROVE list[j] \in Range(effectList)
      BY <1>6 DEF Range
    <3> QED BY <1>2, <1>3, <1>5, OriginWithin
  <2> QED BY <1>0, <1>1, <1>5, <2>1 DEF EngineFollows, Follows, AsShown, Told
<1>13. EnginesInv' BY <1>0, <1>1 DEF EnginesInv, MembersHold, DeletingHolds, NotGranted
<1> QED BY <1>8, <1>9, <1>10, <1>11, <1>12, <1>13 DEF FxInv, ScreenInv

LEMMA DropStep ==
  ASSUME FxInv, Drop
  PROVE  FxInv'
<1> DEFINE n == Len(effectList)
           from == drag.from
           to == drag.to
           places == (from..to) \cup (to..from)
           M == RotateEffectAt(NativeList, from, to)
<1>0. FxTyped /\ ScreenInv /\ EngineFollows /\ EnginesInv BY DEF FxInv
<1>1. /\ drag # NoDrag /\ drag' = NoDrag /\ fxActivity = "resumed"
      /\ UNCHANGED <<fxActivity, fxPermission, isAudioEnabled, effectList, enable, paramValue,
                     timer, enginePtr, deleting, loud>>
      /\ IF from = to THEN UNCHANGED <<index, engines>>
         ELSE index' = Rebound(effectList, places) /\ SetNative(M)
  BY DEF Drop
<1>2. /\ n \in Nat /\ DOMAIN effectList = 1..n /\ from \in 1..n /\ to \in 1..n
      /\ \A j \in 1..n : effectList[j] \in FxKinds /\ effectList[j] \in Range(effectList)
  BY <1>0, <1>1, EffectListIs DEF ScreenInv, HandIsFree
<1>3. \A j \in 1..n : index[effectList[j]] = Origin(j, from, to)
  BY <1>0, <1>2 DEF ScreenInv, HoldersKnow
<1>4. \A j \in 1..n : index'[effectList[j]] = j
  <2> SUFFICES ASSUME NEW j \in 1..n PROVE index'[effectList[j]] = j OBVIOUS
  <2>1. CASE from = to
    <3>1. Origin(j, from, to) = j BY <1>2, <2>1, OriginWhenFree
    <3> QED BY <1>1, <1>3, <2>1, <3>1
  <2>2. CASE from # to
    <3>1. index'[effectList[j]] = IF j \in places THEN j ELSE index[effectList[j]]
      BY <1>0, <1>1, <1>2, <2>2, ReboundIs DEF ScreenInv
    <3>2. j \notin places => Origin(j, from, to) = j BY <1>2, OriginWhenFree
    <3> QED BY <1>3, <3>1, <3>2
  <2> QED BY <2>1, <2>2
<1>5. index' \in [FxKinds -> Nat]
  <2>1. Rebound(effectList, places) \in [FxKinds -> Nat]
    BY <1>0, <1>2, ReboundTyped DEF ScreenInv
  <2> HIDE DEF places
  <2> QED BY <1>0, <1>1, <2>1 DEF FxTyped
<1>6. TimersHold' BY <1>0, <1>1 DEF ScreenInv, TimersHold, Range
<1>7. drag' \in [from : Nat, to : Nat] BY <1>1 DEF NoDrag
<1>8. ScreenInv' BY <1>0, <1>1, <1>4, <1>6, ScreenBecomes DEF FxTyped
<1>9. ASSUME Told
      PROVE  /\ Len(NativeList) = n
             /\ \A i \in 1..n : NativeList[Origin(i, from, to)] = AsShown(effectList[i])
  <2>1. Follows(NativeList) BY <1>0, <1>1, <1>9 DEF EngineFollows, NativeList, Told
  <2> QED BY <1>2, <1>3, <2>1 DEF Follows
<1>10. CASE from = to
  <2>1. FxTyped' BY <1>0, <1>1, <1>5, <1>7, <1>10 DEF FxTyped
  <2>2. EngineFollows'
    <3>1. \A k : AsShown(k)' = AsShown(k) BY <1>1 DEF AsShown
    <3> QED BY <1>0, <1>1, <1>10, <3>1 DEF EngineFollows, Follows, Range, Told
  <2>3. EnginesInv'
    BY <1>0, <1>1, <1>10 DEF EnginesInv, MembersHold, DeletingHolds, NotGranted
  <2> QED BY <1>8, <2>1, <2>2, <2>3 DEF FxInv
<1>11. CASE from # to
  <2>1. NativeList \in Seq(FxEffect) /\ SetNative(M) BY <1>0, <1>1, <1>11, NativeListIs
  <2>6. M \in Seq(FxEffect)
    <3> DEFINE list == NativeList
    <3>1. CASE {from, to} \subseteq DOMAIN list
      <4>1. from \in 1..Len(list) /\ to \in 1..Len(list) /\ list \in Seq(FxEffect)
        BY <1>0, <3>1, NativeListIs
      <4> HIDE DEF list, from, to
      <4> QED BY <4>1, RotatedElements DEF list
    <3>2. CASE ~({from, to} \subseteq DOMAIN list)
      BY <2>1, <3>2 DEF RotateEffectAt
    <3> QED BY <3>1, <3>2
  <2>2. ASSUME Told
        PROVE  /\ M \in Seq(FxEffect) /\ Len(M) = n
               /\ \A j \in 1..n : M[j] = AsShown(effectList[j])
    <3>1. from \in 1..Len(NativeList) /\ to \in 1..Len(NativeList) BY <1>2, <1>9, <2>2
    <3> HIDE DEF from, to
    <3>2. /\ M \in Seq(FxEffect) /\ Len(M) = Len(NativeList)
          /\ \A j \in 1..Len(NativeList) : M[j] = NativeList[Origin(j, from, to)]
      BY <2>1, <3>1, RotatedElements
    <3> HIDE DEF M
    <3> QED BY <1>9, <2>2, <3>2
  <2> HIDE DEF M
  <2>3. engines' \in Seq(FxEngine) /\ Len(engines') = Len(engines)
    BY <1>0, <2>1, <2>6, SetNativeStep
  <2>4. FxTyped' BY <1>0, <1>1, <1>5, <1>7, <2>3 DEF FxTyped
  <2>5. \A j \in 1..n : AsShown(effectList[j])' = AsShown(effectList[j]) BY <1>1 DEF AsShown
  <2> QED BY <1>1, <1>8, <2>1, <2>2, <2>4, <2>5, <2>6, ListsBecome
<1> QED BY <1>10, <1>11
-----------------------------------------------------------------------------
(* The activity's life, and its engines. *)

LEMMA ToggleMuteStep ==
  ASSUME FxInv, ToggleMute
  PROVE  FxInv'
<1> DEFINE E == engines[enginePtr]
           N == [E EXCEPT !.muted = isAudioEnabled, !.restarted = FALSE]
<1>0. FxTyped /\ ScreenInv /\ EngineFollows /\ EnginesInv BY DEF FxInv
<1>1. /\ isAudioEnabled' = ~isAudioEnabled /\ isAudioEnabled \in BOOLEAN
      /\ UNCHANGED <<fxActivity, fxPermission, effectList, enable, paramValue, index, timer,
                     drag, enginePtr, deleting, loud>>
  BY <1>0 DEF ToggleMute, FxTyped
<1>2. ScreenInv'
  BY <1>0, <1>1 DEF ScreenInv, Distinct, HoldersKnow, HandIsFree, TimersHold
<1>5. fxActivity = "resumed" BY DEF ToggleMute, Touched, Touch
<1>3. CASE enginePtr = 0
  <2>1. engines' = engines BY <1>3 DEF ToggleMute
  <2>2. FxTyped' BY <1>0, <1>1, <2>1 DEF FxTyped
  <2>3. EngineFollows' BY <1>1, <1>3, <1>5 DEF EngineFollows, Told
  <2>4. EnginesInv' BY <1>0, <1>1, <2>1 DEF EnginesInv, MembersHold, DeletingHolds, NotGranted
  <2> QED BY <1>2, <2>2, <2>3, <2>4 DEF FxInv
<1>4. CASE enginePtr # 0
  <2>1. enginePtr \in DOMAIN engines /\ E \in FxEngine BY <1>0, <1>4, PtrWithin, EngineFields
  <2>2. /\ N \in FxEngine /\ N.members = E.members /\ N.calling = E.calling
        /\ N.functionList = E.functionList /\ N.muted = isAudioEnabled
        /\ N.lacking = E.lacking
    BY <1>1, <2>1 DEF FxEngine
  <2>3. engines' = [engines EXCEPT ![enginePtr] = N] BY <1>4 DEF ToggleMute
  <2> HIDE DEF N
  <2>4. /\ engines' \in Seq(FxEngine) /\ Len(engines') = Len(engines)
        /\ DOMAIN engines' = DOMAIN engines /\ engines'[enginePtr] = N
        /\ \A d \in DOMAIN engines : d # enginePtr => engines'[d] = engines[d]
    BY <1>0, <2>1, <2>2, <2>3, EngineChanged
  <2>5. isAudioEnabled' \in BOOLEAN BY <1>1
  <2>6. FxTyped' BY <1>0, <1>1, <2>4, <2>5 DEF FxTyped
  <2>7. EnginesInv' BY <1>0, <1>1, <2>2, <2>4, EnginesAsBefore
  <2>8. EngineFollows'
    <3>1. \A list : Follows(list)' <=> Follows(list)
      BY <1>1 DEF Follows, AsShown
    <3>2. engines'[enginePtr].functionList = engines[enginePtr].functionList
      BY <2>2, <2>4
    <3>5. Told' = Told BY <1>1, <2>2, <2>4 DEF Told
    <3>3. Told => Follows(engines[enginePtr].functionList)'
      BY <1>0, <1>1, <1>5, <3>2 DEF EngineFollows, Follows, AsShown
    <3>4. engines'[enginePtr].muted = ~isAudioEnabled' BY <1>1, <2>2, <2>4
    <3> QED BY <1>1, <1>5, <3>3, <3>4, <3>5 DEF EngineFollows
  <2> QED BY <1>2, <2>6, <2>7, <2>8 DEF FxInv
<1> QED BY <1>3, <1>4

\* A new engine, that has no effects
LEMMA NewEngineIs ==
  ASSUME FxTyped, NEW muted \in BOOLEAN, NEW restarted \in BOOLEAN
  PROVE  LET e == [NewFxEngine EXCEPT !.muted = muted]
             f == [NewFxEngine EXCEPT !.restarted = TRUE] IN
           /\ e \in FxEngine /\ e.functionList = <<>> /\ e.muted = muted
           /\ e.members = Members /\ ~e.calling /\ (~e.lacking => effectList = <<>>)
           /\ f \in FxEngine /\ f.functionList = <<>> /\ f.restarted
           /\ f.members = Members /\ ~f.calling /\ (~f.lacking => effectList = <<>>)
<1>1. FxSpinUp \in Nat BY FxLabAssumption
<1>2. <<>> \in Seq(FxEffect) BY EmptySeq
<1>3. (effectList # <<>>) \in BOOLEAN OBVIOUS
<1> DEFINE l == effectList # <<>>
<1> HIDE DEF l
<1>4. NewFxEngine = [members |-> Members, functionList |-> <<>>, muted |-> FALSE,
                     spinUp |-> FxSpinUp, plays |-> TRUE, calling |-> FALSE,
                     lacking |-> l, restarted |-> FALSE]
  BY DEF NewFxEngine, l
<1>5. l \in BOOLEAN /\ (~l => effectList = <<>>) BY <1>3 DEF l
<1> QED BY <1>1, <1>2, <1>4, <1>5 DEF FxEngine

LEMMA CreateAudioEngineStep ==
  ASSUME FxTyped, NEW muted \in BOOLEAN, CreateAudioEngine(muted)
  PROVE  /\ engines' \in Seq(FxEngine) /\ Len(engines') = Len(engines) + 1
         /\ enginePtr' = Len(engines') /\ enginePtr' # 0 /\ enginePtr' \in DOMAIN engines'
         /\ DOMAIN engines' = DOMAIN engines \cup {enginePtr'}
         /\ \A e \in DOMAIN engines : engines'[e] = engines[e]
         /\ engines'[enginePtr'].functionList = <<>> /\ engines'[enginePtr'].muted = muted
         /\ engines'[enginePtr'].members = Members /\ ~engines'[enginePtr'].calling
         /\ (~engines'[enginePtr'].lacking => effectList = <<>>)
<1>1. /\ engines' = Append(engines, [NewFxEngine EXCEPT !.muted = muted])
      /\ enginePtr' = Len(engines) + 1
  BY DEF CreateAudioEngine
<1> DEFINE e == [NewFxEngine EXCEPT !.muted = muted]
<1>2. /\ e \in FxEngine /\ e.functionList = <<>> /\ e.muted = muted
      /\ e.members = Members /\ ~e.calling /\ (~e.lacking => effectList = <<>>)
  BY NewEngineIs
<1>3. engines' = Append(engines, e) BY <1>1
<1> HIDE DEF e
<1>4. engines \in Seq(FxEngine) /\ Len(engines) \in Nat /\ DOMAIN engines = 1..Len(engines)
  BY LenProperties DEF FxTyped
<1>5. /\ engines' \in Seq(FxEngine) /\ Len(engines') = Len(engines) + 1
      /\ engines'[Len(engines) + 1] = e
      /\ \A i \in 1..Len(engines) : engines'[i] = engines[i]
  BY <1>2, <1>3, <1>4, AppendProperties
<1>6. DOMAIN engines' = 1..(Len(engines) + 1) BY <1>5, LenProperties
<1>7. DOMAIN engines' = DOMAIN engines \cup {enginePtr'} BY <1>1, <1>4, <1>6
<1>8. enginePtr' = Len(engines') /\ enginePtr' # 0 BY <1>1, <1>4, <1>5
<1>9. \A d \in DOMAIN engines : engines'[d] = engines[d] BY <1>4, <1>5
<1>10. engines'[enginePtr'] = e BY <1>1, <1>5
<1> QED BY <1>2, <1>5, <1>7, <1>8, <1>9, <1>10

LEMMA NewEngineFollows ==
  ASSUME effectList' = <<>>, engines'[enginePtr'].functionList = <<>>
  PROVE  Follows(engines[enginePtr].functionList)'
BY DEF Follows, Range

LEMMA FxOnResumeStep ==
  ASSUME FxInv, FxOnResume
  PROVE  FxInv'
<1>0. FxTyped /\ ScreenInv /\ EngineFollows /\ EnginesInv BY DEF FxInv
<1>1. /\ fxActivity = "paused" /\ fxActivity' = "resumed" /\ deleting = 0
      /\ UNCHANGED <<fxPermission, isAudioEnabled, effectList, enable, paramValue, index, timer,
                     drag, deleting, loud>>
  BY DEF FxOnResume, screenVars
<1>2. drag = NoDrag /\ \A k \in FxKinds : timer[k] = NoTimer
  BY <1>0, <1>1 DEF ScreenInv, HandIsFree, TimersHold
<1>3. ScreenInv'
  BY <1>0, <1>1, <1>2 DEF ScreenInv, Distinct, HoldersKnow, HandIsFree, TimersHold
<1>4. CASE fxPermission = "granted"
  <2>1. CreateAudioEngine(~isAudioEnabled) BY <1>4 DEF FxOnResume
  <2>2. (~isAudioEnabled) \in BOOLEAN BY <1>0 DEF FxTyped
  <2>3. /\ engines' \in Seq(FxEngine) /\ Len(engines') = Len(engines) + 1
        /\ enginePtr' = Len(engines') /\ enginePtr' # 0 /\ enginePtr' \in DOMAIN engines'
        /\ DOMAIN engines' = DOMAIN engines \cup {enginePtr'}
        /\ \A e \in DOMAIN engines : engines'[e] = engines[e]
        /\ engines'[enginePtr'].functionList = <<>>
        /\ engines'[enginePtr'].muted = ~isAudioEnabled
        /\ engines'[enginePtr'].members = Members /\ ~engines'[enginePtr'].calling
        /\ (~engines'[enginePtr'].lacking => effectList = <<>>)
    BY <1>0, <2>1, <2>2, CreateAudioEngineStep
  <2>4. enginePtr' \in 0..Len(engines') BY <2>3, LenProperties
  <2>5. FxTyped' BY <1>0, <1>1, <2>3, <2>4 DEF FxTyped
  <2>6. Told' => Follows(engines[enginePtr].functionList)'
    BY <1>1, <2>3, NewEngineFollows DEF Told
  <2>7. EngineFollows' BY <1>1, <2>3, <2>6 DEF EngineFollows
  <2>8. EnginesInv'
    BY <1>0, <1>1, <1>4, <2>3 DEF EnginesInv, MembersHold, DeletingHolds, NotGranted
  <2> QED BY <1>3, <2>5, <2>7, <2>8 DEF FxInv
<1>5. CASE fxPermission # "granted"
  <2>1. engines' = engines /\ enginePtr' = enginePtr /\ enginePtr = 0
    BY <1>0, <1>5 DEF FxOnResume, EnginesInv, NotGranted
  <2>2. FxTyped' BY <1>0, <1>1, <2>1 DEF FxTyped
  <2>3. EngineFollows' BY <1>1, <2>1 DEF EngineFollows, Told
  <2>4. EnginesInv' BY <1>0, <1>1, <2>1 DEF EnginesInv, MembersHold, DeletingHolds, NotGranted
  <2> QED BY <1>3, <2>2, <2>3, <2>4 DEF FxInv
<1> QED BY <1>4, <1>5

LEMMA FxOnPauseStep ==
  ASSUME FxInv, ~FxLate, FxOnPause
  PROVE  FxInv'
<1>0. FxTyped /\ ScreenInv /\ EngineFollows /\ EnginesInv BY DEF FxInv
<1>1. /\ fxActivity = "resumed" /\ drag = NoDrag /\ fxActivity' \in {"asking", "paused"}
      /\ (fxActivity' = "asking" => fxPermission # "granted")
      /\ \A k \in FxKinds : timer[k] = NoTimer
      /\ deleting' = IF enginePtr = 0 THEN 0 ELSE 1
      /\ UNCHANGED <<fxPermission, isAudioEnabled, effectList, enable, paramValue, index, timer,
                     drag, engines, enginePtr, loud>>
  BY DEF FxOnPause, NoneLate, screenVars
<1>2. FxTyped' BY <1>0, <1>1 DEF FxTyped
<1>3. ScreenInv'
  BY <1>0, <1>1 DEF ScreenInv, Distinct, HoldersKnow, HandIsFree, TimersHold
<1>4. EngineFollows' BY <1>1 DEF EngineFollows
<1>5. EnginesInv' BY <1>0, <1>1 DEF EnginesInv, MembersHold, DeletingHolds, NotGranted
<1> QED BY <1>2, <1>3, <1>4, <1>5 DEF FxInv

LEMMA DestroyMemberStep ==
  ASSUME FxInv, DestroyMember
  PROVE  FxInv'
<1> DEFINE E == engines[enginePtr]
           member == DestroyOrder[deleting]
           N == [E EXCEPT !.members = E.members \ {member}]
<1>0. FxTyped /\ ScreenInv /\ EngineFollows /\ EnginesInv BY DEF FxInv
<1>1. /\ deleting > 0 /\ (member = "outStream" => ~E.calling)
      /\ engines' = [engines EXCEPT ![enginePtr] = N]
      /\ UNCHANGED <<fxActivity, fxPermission, isAudioEnabled, effectList, enable, paramValue,
                     index, timer, drag, loud>>
  BY DEF DestroyMember, screenVars
<1>2. deleting \in 1..4 BY <1>0, <1>1 DEF FxTyped
<1>3. enginePtr # 0 /\ fxActivity \notin {"resumed", "crashed"} /\ (deleting > 1 => "outStream" \notin E.members)
  BY <1>0, <1>2 DEF EnginesInv, DeletingHolds
<1>4. \/ deleting = 4 /\ deleting' = 0 /\ enginePtr' = 0
      \/ deleting < 4 /\ deleting' = deleting + 1 /\ enginePtr' = enginePtr
  <2>1. Len(DestroyOrder) = 4 BY DEF DestroyOrder
  <2> QED BY <1>2, <2>1 DEF DestroyMember
<1>5. deleting = 1 => member = "outStream" BY DEF DestroyOrder
<1> HIDE DEF member
<1>6. enginePtr \in DOMAIN engines /\ E \in FxEngine BY <1>0, <1>3, PtrWithin, EngineFields
<1>7. /\ N \in FxEngine /\ N.members = E.members \ {member} /\ N.calling = E.calling
  BY <1>6 DEF FxEngine
<1>8. "outStream" \notin N.members /\ ~N.calling
  <2>1. CASE deleting = 1 BY <1>1, <1>5, <1>7, <2>1
  <2>2. CASE deleting # 1
    <3>1. "outStream" \notin E.members BY <1>2, <1>3, <2>2
    <3>2. ~E.calling BY <1>0, <1>6, <3>1 DEF EnginesInv, MembersHold, Members
    <3> QED BY <1>7, <3>1, <3>2
  <2> QED BY <2>1, <2>2
<1> HIDE DEF N
<1>9. /\ engines' \in Seq(FxEngine) /\ Len(engines') = Len(engines)
      /\ DOMAIN engines' = DOMAIN engines /\ engines'[enginePtr] = N
      /\ \A d \in DOMAIN engines : d # enginePtr => engines'[d] = engines[d]
  BY <1>0, <1>1, <1>6, <1>7, EngineChanged
<1>10. deleting' \in 0..4 /\ enginePtr' \in 0..Len(engines')
  BY <1>0, <1>2, <1>4, <1>9, LenProperties DEF FxTyped
<1>11. FxTyped' BY <1>0, <1>1, <1>9, <1>10 DEF FxTyped
<1>12. ScreenInv' BY <1>0, <1>1 DEF ScreenInv, Distinct, HoldersKnow, HandIsFree, TimersHold
<1>13. EngineFollows' BY <1>1, <1>3 DEF EngineFollows
<1>14. MembersHold'
  <2> SUFFICES ASSUME NEW e \in DOMAIN engines,
                      engines'[e].calling \/ "outStream" \in engines'[e].members
               PROVE  engines'[e].members = Members
    BY <1>9 DEF MembersHold
  <2>1. e # enginePtr BY <1>8, <1>9
  <2> QED BY <1>0, <1>9, <2>1 DEF EnginesInv, MembersHold
<1>15. DeletingHolds'
  <2>1. deleting' > 0 => enginePtr' = enginePtr BY <1>2, <1>4
  <2>2. deleting' > 1 => deleting' > 0 BY <1>10
  <2> QED BY <1>1, <1>3, <1>8, <1>9, <2>1, <2>2 DEF DeletingHolds
<1>16. NotGranted' /\ ~loud' BY <1>0, <1>1, <1>3 DEF EnginesInv, NotGranted
<1> QED BY <1>11, <1>12, <1>13, <1>14, <1>15, <1>16 DEF FxInv, EnginesInv
-----------------------------------------------------------------------------
LEMMA FxOnRequestPermissionsResultStep ==
  ASSUME FxInv, FxOnRequestPermissionsResult
  PROVE  FxInv'
<1>0. FxTyped /\ ScreenInv /\ EngineFollows /\ EnginesInv BY DEF FxInv
<1>1. /\ fxActivity = "asking" /\ fxActivity' = "paused" /\ deleting = 0
      /\ UNCHANGED <<isAudioEnabled, effectList, enable, paramValue, index, timer, drag,
                     deleting, loud>>
  BY DEF FxOnRequestPermissionsResult, screenVars
<1>2. ScreenInv'
  BY <1>0, <1>1 DEF ScreenInv, Distinct, HoldersKnow, HandIsFree, TimersHold
<1>3. EngineFollows' BY <1>1 DEF EngineFollows
<1>4. CASE fxPermission' = "granted" /\ CreateAudioEngine(FALSE)
  <2>1. /\ engines' \in Seq(FxEngine) /\ Len(engines') = Len(engines) + 1
        /\ enginePtr' = Len(engines') /\ enginePtr' # 0 /\ enginePtr' \in DOMAIN engines'
        /\ DOMAIN engines' = DOMAIN engines \cup {enginePtr'}
        /\ \A e \in DOMAIN engines : engines'[e] = engines[e]
        /\ engines'[enginePtr'].members = Members /\ ~engines'[enginePtr'].calling
    BY <1>0, <1>4, CreateAudioEngineStep
  <2>2. enginePtr' \in 0..Len(engines') BY <2>1, LenProperties
  <2>3. FxTyped' BY <1>0, <1>1, <2>1, <2>2 DEF FxTyped
  <2>4. EnginesInv'
    BY <1>0, <1>1, <1>4, <2>1 DEF EnginesInv, MembersHold, DeletingHolds, NotGranted
  <2> QED BY <1>2, <1>3, <2>3, <2>4 DEF FxInv
<1>5. CASE fxPermission' = "denied" /\ UNCHANGED <<engines, enginePtr>>
  <2>1. FxTyped' BY <1>0, <1>1, <1>5 DEF FxTyped
  <2>2. enginePtr = 0 BY <1>0, <1>1 DEF EnginesInv, NotGranted
  <2>3. EnginesInv'
    BY <1>0, <1>1, <1>5, <2>2 DEF EnginesInv, MembersHold, DeletingHolds, NotGranted
  <2> QED BY <1>2, <1>3, <2>1, <2>3 DEF FxInv
<1> QED BY <1>4, <1>5 DEF FxOnRequestPermissionsResult

LEMMA OnDestroyStep ==
  ASSUME FxInv, OnDestroy
  PROVE  FxInv'
<1>0. FxTyped /\ ScreenInv /\ EngineFollows /\ EnginesInv BY DEF FxInv
<1>1. /\ fxActivity = "paused" /\ fxActivity' = "paused" /\ deleting = 0
      /\ effectList' = <<>> /\ isAudioEnabled' = FALSE
      /\ enable' = [k \in FxKinds |-> TRUE] /\ paramValue' = [k \in FxKinds |-> DefaultValue]
      /\ index' = [k \in FxKinds |-> IF timer[k] = NoTimer THEN 0 ELSE index[k]]
      /\ fxPermission' = IF fxPermission = "denied" THEN "none" ELSE fxPermission
      /\ UNCHANGED <<timer, drag, engines, enginePtr, deleting, loud>>
  BY DEF OnDestroy, engineVars
<1>2. drag = NoDrag /\ \A k \in FxKinds : timer[k] = NoTimer
  BY <1>0, <1>1 DEF ScreenInv, HandIsFree, TimersHold
<1>3. /\ effectList' \in Seq(FxKinds) /\ index' \in [FxKinds -> Nat]
      /\ enable' \in [FxKinds -> BOOLEAN] /\ paramValue' \in [FxKinds -> Int]
  BY <1>0, <1>1, EmptySeq DEF FxTyped, DefaultValue
<1>4. FxTyped' BY <1>0, <1>1, <1>3 DEF FxTyped
<1>5. ScreenInv'
  BY <1>1, <1>2 DEF ScreenInv, Distinct, HoldersKnow, HandIsFree, TimersHold
<1>6. EngineFollows' BY <1>1 DEF EngineFollows
<1>7. EnginesInv' BY <1>0, <1>1 DEF EnginesInv, MembersHold, DeletingHolds, NotGranted
<1> QED BY <1>4, <1>5, <1>6, <1>7 DEF FxInv

\* An engine whose callback begins or ends: its list, its members and its switch stay.
LEMMA CallbackChanges ==
  ASSUME FxInv, NEW e \in DOMAIN engines, NEW new, new \in FxEngine,
         engines' = [engines EXCEPT ![e] = new],
         new.members = engines[e].members, new.functionList = engines[e].functionList,
         new.muted = engines[e].muted, new.lacking = engines[e].lacking,
         new.restarted = engines[e].restarted, new.calling => engines[e].members = Members,
         UNCHANGED <<fxActivity, fxPermission, isAudioEnabled, effectList, enable, paramValue,
                     index, timer, drag, enginePtr, deleting>>,
         ~loud'
  PROVE  FxInv'
<1>0. FxTyped /\ ScreenInv /\ EngineFollows /\ EnginesInv BY DEF FxInv
<1>1. /\ engines' \in Seq(FxEngine) /\ Len(engines') = Len(engines)
      /\ DOMAIN engines' = DOMAIN engines /\ engines'[e] = new
      /\ \A d \in DOMAIN engines : d # e => engines'[d] = engines[d]
  BY <1>0, EngineChanged
<1>2. FxTyped' BY <1>0, <1>1 DEF FxTyped
<1>3. enginePtr # 0 => /\ engines'[enginePtr].functionList = engines[enginePtr].functionList
                       /\ engines'[enginePtr].muted = engines[enginePtr].muted
                       /\ engines'[enginePtr].members = engines[enginePtr].members
                       /\ engines'[enginePtr].lacking = engines[enginePtr].lacking
                       /\ engines'[enginePtr].restarted = engines[enginePtr].restarted
  BY <1>0, <1>1, PtrWithin
<1>4. ScreenInv' /\ EngineFollows' BY <1>2, <1>3, ListsAsBefore
<1>5. MembersHold'
  <2> SUFFICES ASSUME NEW d \in DOMAIN engines,
                      engines'[d].calling \/ "outStream" \in engines'[d].members
               PROVE  engines'[d].members = Members
    BY <1>1 DEF MembersHold
  <2>1. CASE d = e BY <1>0, <1>1, <2>1 DEF EnginesInv, MembersHold
  <2>2. CASE d # e BY <1>0, <1>1, <2>2 DEF EnginesInv, MembersHold
  <2> QED BY <2>1, <2>2
<1>6. DeletingHolds'
  <2>1. deleting \in 0..4 BY <1>0 DEF FxTyped
  <2> QED BY <1>0, <1>3, <2>1 DEF EnginesInv, DeletingHolds
<1>7. NotGranted' BY <1>0 DEF EnginesInv, NotGranted
<1> QED BY <1>2, <1>4, <1>5, <1>6, <1>7 DEF FxInv, EnginesInv

LEMMA CallbackBeginStep ==
  ASSUME FxInv, NEW e \in DOMAIN engines, CallbackBegin(e)
  PROVE  FxInv'
<1> DEFINE N == [engines[e] EXCEPT !.calling = TRUE]
<1>0. FxTyped /\ EnginesInv BY DEF FxInv
<1>1. /\ "outStream" \in engines[e].members /\ engines' = [engines EXCEPT ![e] = N]
      /\ UNCHANGED <<fxActivity, fxPermission, isAudioEnabled, effectList, enable, paramValue,
                     index, timer, drag, enginePtr, deleting, loud>>
  BY DEF CallbackBegin, screenVars
<1>2. engines[e] \in FxEngine BY <1>0, EngineFields
<1>3. /\ N \in FxEngine /\ N.members = engines[e].members
      /\ N.functionList = engines[e].functionList /\ N.muted = engines[e].muted
      /\ N.lacking = engines[e].lacking /\ N.restarted = engines[e].restarted
  BY <1>2 DEF FxEngine
<1>4. engines[e].members = Members BY <1>0, <1>1 DEF EnginesInv, MembersHold
<1>5. ~loud' BY <1>0, <1>1 DEF EnginesInv
<1> HIDE DEF N
<1> QED BY <1>1, <1>3, <1>4, <1>5, CallbackChanges

LEMMA CallbackEndStep ==
  ASSUME FxInv, NEW e \in DOMAIN engines, CallbackEnd(e)
  PROVE  FxInv'
<1> DEFINE E == engines[e]
           spin == IF E.spinUp > 0 THEN E.spinUp - 1 ELSE 0
           Lost == [E EXCEPT !.calling = FALSE, !.plays = FALSE]
           Heard == [E EXCEPT !.calling = FALSE, !.spinUp = spin]
<1>0. FxTyped /\ EngineFollows /\ EnginesInv BY DEF FxInv
<1>1. UNCHANGED <<fxActivity, fxPermission, isAudioEnabled, effectList, enable, paramValue,
                  index, timer, drag, enginePtr, deleting>>
  BY DEF CallbackEnd, screenVars
<1>2. /\ E \in FxEngine
      /\ E = [members |-> E.members, functionList |-> E.functionList, muted |-> E.muted,
              spinUp |-> E.spinUp, plays |-> E.plays, calling |-> E.calling,
              lacking |-> E.lacking, restarted |-> E.restarted]
  BY <1>0, EngineFields DEF FxEngine
<1>3. E.spinUp \in Nat /\ spin \in Nat BY <1>0, EngineFields
<1>4. CASE engines' = [engines EXCEPT ![e] = Lost] /\ UNCHANGED loud
  <2>1. /\ Lost \in FxEngine /\ Lost.members = E.members
        /\ Lost.functionList = E.functionList /\ Lost.muted = E.muted /\ ~Lost.calling
        /\ Lost.lacking = E.lacking /\ Lost.restarted = E.restarted
    BY <1>2 DEF FxEngine
  <2>2. ~loud' BY <1>0, <1>4 DEF EnginesInv
  <2> HIDE DEF Lost
  <2> QED BY <1>1, <1>4, <2>1, <2>2, CallbackChanges
<1>5. CASE /\ engines' = [engines EXCEPT ![e] = Heard]
           /\ loud' = (loud \/ (/\ fxActivity = "resumed" /\ ~isAudioEnabled
                                /\ e = enginePtr /\ ~E.restarted
                                /\ E.spinUp = 0 /\ ~E.muted))
  <2> HIDE DEF spin
  <2>1. /\ Heard \in FxEngine /\ Heard.members = E.members
        /\ Heard.functionList = E.functionList /\ Heard.muted = E.muted /\ ~Heard.calling
        /\ Heard.lacking = E.lacking /\ Heard.restarted = E.restarted
    BY <1>2, <1>3 DEF FxEngine
  <2>2. fxActivity = "resumed" /\ e = enginePtr /\ ~E.restarted => E.muted = ~isAudioEnabled
    <3>1. e # 0 BY <1>0, EngineFields, LenProperties DEF FxTyped
    <3> QED BY <1>0, <3>1 DEF EngineFollows
  <2>3. ~loud' BY <1>0, <1>5, <2>2 DEF EnginesInv
  <2> HIDE DEF Heard
  <2> QED BY <1>1, <1>5, <2>1, <2>3, CallbackChanges
<1> QED BY <1>4, <1>5 DEF CallbackEnd

LEMMA FxRestartStep ==
  ASSUME FxInv, NEW e \in DOMAIN engines, FxRestart(e)
  PROVE  FxInv'
<1>0. FxTyped /\ ScreenInv /\ EngineFollows /\ EnginesInv BY DEF FxInv
<1>1. /\ fxActivity # "crashed" /\ deleting = 0
      /\ UNCHANGED <<fxActivity, fxPermission, isAudioEnabled, effectList, enable, paramValue,
                     index, timer, drag, enginePtr, deleting, loud>>
  BY DEF FxRestart, screenVars
<1> DEFINE N == [NewFxEngine EXCEPT !.restarted = TRUE]
<1>3. /\ N \in FxEngine /\ N.functionList = <<>> /\ N.members = Members /\ ~N.calling
      /\ N.restarted /\ (~N.lacking => effectList = <<>>)
  BY <1>0, NewEngineIs
<1>4. engines' = [engines EXCEPT ![e] = N] BY DEF FxRestart
<1> HIDE DEF N
<1>5. /\ engines' \in Seq(FxEngine) /\ Len(engines') = Len(engines)
      /\ DOMAIN engines' = DOMAIN engines /\ engines'[e] = N
      /\ \A d \in DOMAIN engines : d # e => engines'[d] = engines[d]
  BY <1>0, <1>3, <1>4, EngineChanged
<1>6. FxTyped' BY <1>0, <1>1, <1>5 DEF FxTyped
<1>7. ScreenInv' BY <1>0, <1>1 DEF ScreenInv, Distinct, HoldersKnow, HandIsFree, TimersHold
<1>8. EngineFollows'
  <2>1. CASE enginePtr = e
    <3>1. Told' => Follows(engines[enginePtr].functionList)'
      BY <1>1, <1>3, <1>5, <2>1, NewEngineFollows DEF Told
    <3> QED BY <1>1, <1>3, <1>5, <2>1, <3>1 DEF EngineFollows
  <2>2. CASE enginePtr # e
    <3>1. enginePtr # 0 => engines'[enginePtr] = engines[enginePtr]
      BY <1>0, <1>5, <2>2, PtrWithin
    <3> QED BY <1>0, <1>1, <3>1 DEF EngineFollows, Follows, AsShown, Told
  <2> QED BY <2>1, <2>2
<1>9. EnginesInv'
  <2>1. MembersHold' BY <1>0, <1>3, <1>5 DEF EnginesInv, MembersHold
  <2> QED BY <1>0, <1>1, <2>1 DEF EnginesInv, DeletingHolds, NotGranted
<1> QED BY <1>6, <1>7, <1>8, <1>9 DEF FxInv

\* A slider shows its default, or the parameter that it brought or will bring.
SlidersShow ==
  /\ slider \in [FxKinds -> Int]
  /\ fxActivity # "crashed" => \A k \in FxKinds :
       slider[k] \in {DefaultValue, IF timer[k] = NoTimer THEN paramValue[k] ELSE timer[k]}

LEMMA SlidersKeep ==
  ASSUME FxInv, SlidersShow, ~FxLate, [FxNext]_fxVars
  PROVE  SlidersShow'
<1>0. FxTyped /\ ScreenInv BY DEF FxInv
<1>1. DefaultValue \in Int /\ NoTimer \in Int /\ NoTimer \notin Values /\ Values \subseteq Int
  BY DEF DefaultValue, NoTimer, Values
<1>2. CASE UNCHANGED <<slider, paramValue, timer>> /\ (fxActivity = "crashed" => fxActivity' = "crashed")
  BY <1>2 DEF SlidersShow
<1>3. ASSUME NEW k \in FxKinds, AddToList(k) PROVE SlidersShow'
  <2>1. /\ paramValue' = [paramValue EXCEPT ![k] = DefaultValue] /\ timer' = timer
        /\ slider' = [slider EXCEPT ![k] = DefaultValue] /\ fxActivity = "resumed"
    BY <1>3 DEF AddToList, Touched, Touch
  <2> QED BY <1>0, <1>1, <2>1 DEF SlidersShow, FxTyped
<1>4. ASSUME NEW k \in FxKinds, NEW v \in Values, Slide(k, v) PROVE SlidersShow'
  <2>1. /\ paramValue' = paramValue /\ timer' = [timer EXCEPT ![k] = v]
        /\ slider' = [slider EXCEPT ![k] = v] /\ fxActivity = "resumed"
    BY <1>4 DEF Slide, Touched, Touch
  <2> QED BY <1>0, <1>1, <2>1 DEF SlidersShow, FxTyped
<1>5. ASSUME NEW k \in FxKinds, UpdateEffectParam(k) PROVE SlidersShow'
  <2>1. /\ slider' = slider /\ timer' = [timer EXCEPT ![k] = NoTimer] /\ timer[k] # NoTimer
        /\ fxActivity # "crashed"
    BY <1>5 DEF UpdateEffectParam
  <2>2. index[k] \in 1..Len(effectList) /\ effectList[index[k]] = k
    <3>1. k \in Range(effectList) /\ drag = NoDrag
      BY <1>0, <2>1 DEF ScreenInv, TimersHold, HandIsFree
    <3> QED BY <1>0, <3>1, IndexIs DEF ScreenInv
  <2>3. fxActivity' = "crashed" \/ paramValue' = [paramValue EXCEPT ![k] = timer[k]]
    BY <1>5, <2>2 DEF UpdateEffectParam
  <2> QED BY <1>0, <1>1, <2>1, <2>3 DEF SlidersShow, FxTyped
<1>6. ASSUME NEW k \in FxKinds, OnSwiped(k) PROVE SlidersShow'
  <2>1. /\ paramValue' = [paramValue EXCEPT ![k] = DefaultValue] /\ timer' = timer
        /\ slider' = [Reinflated(effectList', Place(k)..Len(effectList)) EXCEPT ![k] = DefaultValue]
        /\ fxActivity = "resumed"
    BY <1>6 DEF OnSwiped, Touched, Touch
  <2> QED BY <1>0, <1>1, <2>1 DEF SlidersShow, FxTyped, Reinflated
<1>7. ASSUME Drop PROVE SlidersShow'
  <2>1. /\ paramValue' = paramValue /\ timer' = timer /\ fxActivity = "resumed"
        /\ \/ slider' = slider
           \/ slider' = Reinflated(effectList, (drag.from..drag.to) \cup (drag.to..drag.from))
    BY <1>7 DEF Drop
  <2> QED BY <1>0, <1>1, <2>1 DEF SlidersShow, FxTyped, Reinflated
<1>8. ASSUME OnDestroy PROVE SlidersShow'
  <2>1. /\ paramValue' = [k \in FxKinds |-> DefaultValue] /\ slider' = paramValue'
    BY <1>8 DEF OnDestroy
  <2> QED BY <1>1, <2>1 DEF SlidersShow
<1>9. ASSUME NEW k \in FxKinds, \/ Check(k) \/ \E to \in DOMAIN effectList : OnMove(k, to)
      PROVE  SlidersShow'
  BY <1>2, <1>9 DEF Check, OnMove, Touched, Touch
<1>10. ASSUME ToggleMute \/ FxOnResume \/ FxOnPause \/ DestroyMember
              \/ FxOnRequestPermissionsResult \/ UNCHANGED fxVars
       PROVE  SlidersShow'
  BY <1>2, <1>10 DEF ToggleMute, Touched, Touch, FxOnResume, FxOnPause, DestroyMember, screenVars,
                     FxOnRequestPermissionsResult, fxVars
<1>11. ASSUME NEW e \in DOMAIN engines, CallbackBegin(e) \/ CallbackEnd(e) \/ FxRestart(e)
       PROVE  SlidersShow'
  BY <1>2, <1>11 DEF CallbackBegin, CallbackEnd, FxRestart, screenVars
<1> QED BY <1>3, <1>4, <1>5, <1>6, <1>7, <1>8, <1>9, <1>10, <1>11 DEF FxNext

LEMMA FxListHolds ==
  ASSUME ~FxLate
  PROVE  FxSpec => [](EffectsShown /\ CallbackHasAll /\ MutedAsShown)
<1>1. FxInit => FxInv
  <2> SUFFICES ASSUME FxInit PROVE FxInv OBVIOUS
  <2>1. /\ <<>> \in Seq(FxKinds) /\ <<>> \in Seq(FxEngine) /\ Len(<<>>) = 0 BY EmptySeq
  <2>2. FxTyped
    <3>1. enginePtr \in 0..Len(engines) BY <2>1 DEF FxInit
    <3>2. /\ enable \in [FxKinds -> BOOLEAN] /\ paramValue \in [FxKinds -> Int]
          /\ index \in [FxKinds -> Nat] /\ timer \in [FxKinds -> Int]
      BY DEF FxInit, DefaultValue, NoTimer
    <3>3. drag \in [from : Nat, to : Nat] BY DEF FxInit, NoDrag
    <3>4. fxActivity = "paused" /\ deleting = 0 BY DEF FxInit
    <3>7. isAudioEnabled \in BOOLEAN BY DEF FxInit
    <3>5. effectList \in Seq(FxKinds)
      <4>1. effectList = <<>> BY DEF FxInit
      <4> QED BY <2>1, <4>1
    <3>6. engines \in Seq(FxEngine)
      <4>1. engines = <<>> BY DEF FxInit
      <4> QED BY <2>1, <4>1
    <3> QED BY <3>1, <3>2, <3>3, <3>4, <3>5, <3>6, <3>7 DEF FxTyped
  <2>3. ScreenInv BY DEF FxInit, ScreenInv, Distinct, HoldersKnow, HandIsFree, TimersHold
  <2>4. EngineFollows BY DEF FxInit, EngineFollows
  <2>5. EnginesInv BY DEF FxInit, EnginesInv, MembersHold, DeletingHolds, NotGranted
  <2> QED BY <2>2, <2>3, <2>4, <2>5 DEF FxInv
<1>2. FxInv /\ [FxNext]_fxVars => FxInv'
  <2> SUFFICES ASSUME FxInv, [FxNext]_fxVars PROVE FxInv' OBVIOUS
  <2>0. FxTyped BY DEF FxInv
  <2>1. CASE \E k \in FxKinds : AddToList(k) BY <2>1, AddToListStep
  <2>2. CASE \E k \in FxKinds : Check(k) BY <2>2, CheckStep
  <2>3. CASE \E k \in FxKinds : OnSwiped(k) BY <2>3, OnSwipedStep
  <2>4. CASE \E k \in FxKinds : UpdateEffectParam(k) BY <2>4, UpdateEffectParamStep
  <2>5. CASE \E k \in FxKinds : \E v \in Values : Slide(k, v) BY <2>5, SlideStep
  <2>6. CASE \E k \in FxKinds : \E to \in DOMAIN effectList : OnMove(k, to)
    <3>1. DOMAIN effectList = 1..Len(effectList) BY <2>0, EffectListIs
    <3>2. PICK k \in FxKinds, to \in 1..Len(effectList) : OnMove(k, to) BY <2>6, <3>1
    <3> QED BY <3>2, OnMoveStep
  <2>7. CASE Drop BY <2>7, DropStep
  <2>8. CASE ToggleMute BY <2>8, ToggleMuteStep
  <2>9. CASE FxOnResume BY <2>9, FxOnResumeStep
  <2>10. CASE FxOnPause BY <2>10, FxOnPauseStep
  <2>11. CASE DestroyMember BY <2>11, DestroyMemberStep
  <2>12. CASE FxOnRequestPermissionsResult BY <2>12, FxOnRequestPermissionsResultStep
  <2>13. CASE OnDestroy BY <2>13, OnDestroyStep
  <2>14. CASE \E e \in DOMAIN engines : CallbackBegin(e) BY <2>14, CallbackBeginStep
  <2>15. CASE \E e \in DOMAIN engines : CallbackEnd(e) BY <2>15, CallbackEndStep
  <2>16. CASE \E e \in DOMAIN engines : FxRestart(e) BY <2>16, FxRestartStep
  <2>17. CASE UNCHANGED fxVars
    <3>1. FxTyped' BY <2>17 DEF FxInv, FxTyped, fxVars, screenVars, engineVars
    <3>2. ScreenInv' /\ EngineFollows'
      BY <2>17, <3>1, ListsAsBefore DEF fxVars, screenVars, engineVars
    <3>3. EnginesInv'
      BY <2>17 DEF FxInv, EnginesInv, MembersHold, DeletingHolds, NotGranted, fxVars, screenVars,
                   engineVars
    <3> QED BY <3>1, <3>2, <3>3 DEF FxInv
  <2> QED BY <2>1, <2>2, <2>3, <2>4, <2>5, <2>6, <2>7, <2>8, <2>9, <2>10, <2>11, <2>12,
             <2>13, <2>14, <2>15, <2>16, <2>17 DEF FxNext
<1>4. FxInit => SlidersShow
  <2> SUFFICES ASSUME FxInit PROVE SlidersShow OBVIOUS
  <2>1. slider = [k \in FxKinds |-> DefaultValue] BY DEF FxInit
  <2> QED BY <2>1 DEF SlidersShow, DefaultValue
<1>5. FxInv /\ SlidersShow /\ [FxNext]_fxVars => SlidersShow' BY SlidersKeep
<1>3. FxInv /\ SlidersShow => EffectsShown /\ CallbackHasAll /\ MutedAsShown
  <2> SUFFICES ASSUME FxInv, SlidersShow PROVE EffectsShown /\ CallbackHasAll /\ MutedAsShown OBVIOUS
  <2>1. CallbackHasAll /\ MutedAsShown
    BY DEF FxInv, EnginesInv, MembersHold, CallbackHasAll, MutedAsShown
  <2>2. fxActivity = "crashed" => enginePtr # 0 /\ ~Told BY DEF FxInv, EngineFollows
  <2>3. ASSUME fxActivity = "resumed", Told, drag = NoDrag
        PROVE  NativeList = [i \in DOMAIN effectList |->
                               [kind |-> effectList[i], enable |-> enable[effectList[i]],
                                value |-> paramValue[effectList[i]]]]
    <3> DEFINE n == Len(effectList)
    <3>1. /\ Len(NativeList) = n
          /\ \A j \in 1..n : NativeList[j] = AsShown(effectList[j])
      BY <2>3, ListsAre
    <3>2. NativeList \in Seq(FxEffect) /\ DOMAIN NativeList = 1..Len(NativeList)
      BY NativeListIs DEF FxInv
    <3>3. DOMAIN effectList = 1..n BY EffectListIs DEF FxInv
    <3>4. NativeList = [j \in 1..n |-> NativeList[j]] BY <3>1, <3>2, LenProperties
    <3> QED BY <3>1, <3>3, <3>4 DEF AsShown
  <2>4. AtRest => \A k \in FxKinds : slider[k] \in {DefaultValue, paramValue[k]}
    BY DEF AtRest, SlidersShow
  <2>5. (enginePtr # 0 => ~engines[enginePtr].lacking) /\ enginePtr # 0 => Told BY DEF Told
  <2> QED BY <2>1, <2>2, <2>3, <2>4, <2>5 DEF EffectsShown, AtRest
<1> QED BY <1>1, <1>2, <1>3, <1>4, <1>5, PTL DEF FxSpec
-----------------------------------------------------------------------------
(* FxDelays *)

\* The line gives the last samples that were pushed, silence before the first, at
\* every tap that it has room for.
Due(n) == IF n > 0 THEN n ELSE 0

LineHolds == \A i \in 1..dlEffect.size : TapAt(i) = Due(dlPushed + 1 - i)

DlInv == /\ dlEffect \in Effects /\ dlPushed \in Nat
         /\ DOMAIN mArr = 0..(dlEffect.size - 1) /\ mfront \in 0..(dlEffect.size - 1)
         /\ LineHolds /\ TapsInOrder
-----------------------------------------------------------------------------
\* An effect takes no tap further than its line is long, nor one at 0, which the next
\* sample takes over: but for the flanger, whose delay is 0.
LEMMA TapsWithin ==
  ASSUME ~DlFlanger, dlEffect \in Effects
  PROVE  /\ dlEffect.size \in Nat \ {0}
         /\ \A tapped \in Taps : tapped \subseteq 1..dlEffect.size
<1>1. \/ \E t \in DlTimes : dlEffect = DelayLineEffect(t, 0)
      \/ \E t \in DlTimes, d \in DlTimes : dlEffect = DelayLineEffect(t, d)
      \/ \E d \in DlTimes \cup {0} : dlEffect = DelayLineEffect(1, d)
      \/ \E t \in DlTimes : dlEffect = CombFilter(t)
  BY DEF Effects, Echo, Slapback, Doubling, WhiteChorus, Vibrato, FIR, IIR, AllPass
<1>2. DlTimes \subseteq Nat \ {0} BY DelaysAssumption
<1>3. ASSUME NEW t \in Nat \ {0}, NEW d \in Nat,
             dlEffect.size = t + 2 * d + 1, dlEffect.tap = t + d, dlEffect.depth = d
      PROVE  /\ dlEffect.size \in Nat \ {0}
             /\ \A tapped \in Taps : tapped \subseteq 1..dlEffect.size
  <2>1. dlEffect.tap - dlEffect.depth = t /\ dlEffect.tap + dlEffect.depth = t + 2 * d
        /\ dlEffect.size \in Nat \ {0} /\ dlEffect.tap \in 1..dlEffect.size
    BY <1>3
  <2>2. ASSUME NEW first \in t..(t + 2 * d)
        PROVE  first \in 1..dlEffect.size /\ first + 1 \in 1..dlEffect.size
    BY <1>3, <2>2
  <2> QED BY <2>1, <2>2 DEF Taps
<1>4. ASSUME NEW t \in Nat \ {0}, NEW d \in Nat, dlEffect = DelayLineEffect(t, d)
      PROVE  dlEffect.size = t + 2 * d + 1 /\ dlEffect.tap = t + d /\ dlEffect.depth = d
  BY <1>4 DEF DelayLineEffect
<1>5. ASSUME NEW t \in Nat \ {0}, dlEffect = CombFilter(t)
      PROVE  dlEffect.size = t + 2 * 0 + 1 /\ dlEffect.tap = t + 0 /\ dlEffect.depth = 0
  BY <1>5 DEF CombFilter
<1>6. 0 \in Nat /\ 1 \in Nat \ {0} OBVIOUS
<1> DEFINE Fine == /\ dlEffect.size \in Nat \ {0}
                   /\ \A tapped \in Taps : tapped \subseteq 1..dlEffect.size
<1>7. ASSUME NEW t \in Nat \ {0}, NEW d \in Nat, dlEffect = DelayLineEffect(t, d)
      PROVE  Fine
  <2>1. dlEffect.size = t + 2 * d + 1 /\ dlEffect.tap = t + d /\ dlEffect.depth = d
    BY <1>4, <1>7
  <2> QED BY <2>1, <1>3
<1>8. ASSUME NEW t \in Nat \ {0}, dlEffect = CombFilter(t) PROVE Fine
  <2>1. dlEffect.size = t + 2 * 0 + 1 /\ dlEffect.tap = t + 0 /\ dlEffect.depth = 0
    BY <1>5, <1>8
  <2> QED BY <2>1, <1>3, <1>6
<1> HIDE DEF Fine
<1>9. \A t \in DlTimes : t \in Nat \ {0} /\ t \in Nat BY <1>2
<1>10. Fine
  <2>1. CASE \E t \in DlTimes : dlEffect = DelayLineEffect(t, 0) BY <2>1, <1>6, <1>7, <1>9
  <2>2. CASE \E t \in DlTimes, d \in DlTimes : dlEffect = DelayLineEffect(t, d)
    BY <2>2, <1>7, <1>9
  <2>3. CASE \E d \in DlTimes \cup {0} : dlEffect = DelayLineEffect(1, d)
    BY <2>3, <1>6, <1>7, <1>9
  <2>4. CASE \E t \in DlTimes : dlEffect = CombFilter(t) BY <2>4, <1>8, <1>9
  <2> QED BY <1>1, <2>1, <2>2, <2>3, <2>4
<1> QED BY <1>10 DEF Fine

LEMMA ProcessSampleStep ==
  ASSUME ~DlFlanger, DlInv, ProcessSample
  PROVE  DlInv'
<1> DEFINE S == dlEffect.size
           p == dlPushed
<1>1. /\ p' = p + 1 /\ mArr' = [mArr EXCEPT ![mfront] = p + 1] /\ dlEffect' = dlEffect
      /\ mfront' = IF mfront + 1 = S THEN 0 ELSE mfront + 1
      /\ p \in Nat /\ dlEffect \in Effects
  BY DEF ProcessSample, PushSample, DlInv
<1>2. S \in Nat \ {0} /\ mfront \in 0..(S - 1) /\ DOMAIN mArr = 0..(S - 1)
  BY <1>1, TapsWithin DEF DlInv
<1>3. DOMAIN mArr' = 0..(S - 1) /\ mfront' \in 0..(S - 1) BY <1>1, <1>2
<1>4. TapsInOrder'
  <2>1. PICK tapped \in Taps : reads' = {[tap |-> i, value |-> TapAt(i)] : i \in tapped}
    BY DEF ProcessSample
  <2>2. tapped \subseteq 1..S BY <1>1, TapsWithin
  <2> SUFFICES ASSUME NEW i \in tapped
               PROVE  TapAt(i) = IF p' - i > 0 THEN p' - i ELSE 0
    BY <2>1 DEF TapsInOrder
  <2>3. TapAt(i) = Due(p + 1 - i) BY <2>2 DEF DlInv, LineHolds
  <2> QED BY <1>1, <2>2, <2>3 DEF Due
<1>5. LineHolds'
  <2> SUFFICES ASSUME NEW i \in 1..S PROVE TapAt(i)' = Due(p + 2 - i)
    BY <1>1 DEF LineHolds, Due
  <2> DEFINE at == mfront' - i
             k == IF at < 0 THEN at + S ELSE at
  <2>1. TapAt(i)' = mArr'[k] BY <1>1 DEF TapAt
  <2>2. CASE i = 1
    <3>1. k = mfront BY <1>1, <1>2, <2>2
    <3>2. mArr'[mfront] = p + 1 BY <1>1, <1>2
    <3> QED BY <1>1, <2>1, <2>2, <3>1, <3>2 DEF Due
  <2>3. CASE i # 1
    <3> DEFINE j == i - 1
               bt == mfront - j
               l == IF bt < 0 THEN bt + S ELSE bt
    <3>1. j \in 1..S BY <1>2, <2>3
    <3>2. TapAt(j) = mArr[l] BY DEF TapAt
    <3>3. TapAt(j) = Due(p + 1 - j) BY <3>1 DEF DlInv, LineHolds
    <3>4. l = k /\ l # mfront /\ l \in 0..(S - 1) BY <1>1, <1>2, <2>3
    <3>5. p + 1 - j = p + 2 - i BY <1>1
    <3> HIDE DEF l, k, j
    <3>6. mArr'[l] = mArr[l] BY <1>1, <1>2, <3>4
    <3> QED BY <2>1, <3>2, <3>3, <3>4, <3>5, <3>6
  <2> QED BY <2>2, <2>3
<1> QED BY <1>1, <1>3, <1>4, <1>5 DEF DlInv

\* However long an effect of fxlab runs, and whatever it is modulated by: the tap at
\* i of its delay line gives the i-th last sample. The flanger is left out.
THEOREM DelaysAreInOrder ==
  ASSUME ~DlFlanger
  PROVE  DlSpec => []TapsInOrder
<1>1. DlInit => DlInv
  <2> SUFFICES ASSUME DlInit PROVE DlInv OBVIOUS
  <2> DEFINE S == dlEffect.size
  <2>1. /\ dlEffect \in Effects /\ mArr = [i \in 0..(S - 1) |-> 0]
        /\ mfront = 0 /\ dlPushed = 0 /\ reads = {}
    BY DEF DlInit
  <2>2. S \in Nat \ {0} BY <2>1, TapsWithin
  <2>3. LineHolds
    <3> SUFFICES ASSUME NEW i \in 1..S PROVE TapAt(i) = Due(1 - i) BY <2>1 DEF LineHolds
    <3>1. i \in Int /\ 1 <= i /\ i <= S BY <2>2
    <3>2. 0 - i + S \in 0..(S - 1) BY <2>2, <3>1
    <3>3. TapAt(i) = mArr[0 - i + S] BY <2>1, <3>1 DEF TapAt
    <3> QED BY <2>1, <3>1, <3>2, <3>3 DEF Due
  <2> QED BY <2>1, <2>2, <2>3 DEF DlInv, TapsInOrder
<1>2. DlInv /\ [ProcessSample]_dlVars => DlInv'
  <2>1. DlInv /\ UNCHANGED dlVars => DlInv'
    BY DEF DlInv, dlVars, LineHolds, TapAt, TapsInOrder
  <2> QED BY <2>1, ProcessSampleStep
<1>3. DlInv => TapsInOrder BY DEF DlInv
<1> QED BY <1>1, <1>2, <1>3, PTL DEF DlSpec
-----------------------------------------------------------------------------
(* What is checked of fxlab as a whole *)

\* However the app is left and its streams are lost, while no effect is swiped or
\* dragged, nor the screen left, with the timer of a slider pending, and without the
\* flanger: what an engine that was told of every effect applies is what the screen
\* shows, the callback has all that it uses and is silent while the button shows that
\* it is, and a delayed sample is the right one.  (That the screen's effects are
\* applied by every engine is not so: see EffectsListed.)
THEOREM FxLabApplies ==
  ASSUME ~FxLate, ~DlFlanger
  PROVE  FxSpec /\ DlSpec => []EffectsApplied
<1>1. EffectsShown /\ CallbackHasAll /\ MutedAsShown /\ TapsInOrder => EffectsApplied
  BY DEF EffectsApplied
<1>2. FxSpec => [](EffectsShown /\ CallbackHasAll /\ MutedAsShown) BY FxListHolds
<1>3. DlSpec => []TapsInOrder BY DelaysAreInOrder
<1> QED BY <1>1, <1>2, <1>3, PTL
=============================================================================
