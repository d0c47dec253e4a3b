-------------------------- MODULE RoundTripLatency --------------------------
(***************************************************************************)
(* The round-trip latency test of OboeTester: RoundTripLatencyActivity     *)
(* with its LatencyAverager and LatencySniffer on the UI thread,           *)
(* PulseLatencyAnalyzer fed a frame at a time by the audio callback, and   *)
(* the detached thread that ActivityRoundTripLatency starts to analyse a   *)
(* recording.  A handler of the UI thread is one step.                     *)
(*                                                                         *)
(* latQuiet: no frame is in progress while another thread writes mState,   *)
(* and while averages are taken the stream opens and the user stays.       *)
(* LatPresses bounds the user's actions, LatAnalyses the threads alive.    *)
(***************************************************************************)
EXTENDS Integers

CONSTANTS LatGoodRuns,   \* GOOD_RUNS_REQUIRED
          LatBadRuns,    \* MAX_BAD_RUNS_ALLOWED
          LatFrames,     \* frames recorded after the pulse
          LatPresses, LatAnalyses

ASSUME LatAssumption ==
  {LatGoodRuns, LatBadRuns, LatFrames, LatPresses, LatAnalyses} \subseteq Nat \ {0}

VARIABLES
  button,       \* enabled: mMeasureButton with mAverageButton, mCancelButton
  averager,     \* LatencyAverager: mActive, mGoodCount, mBadCount
  posted,       \* messages of mHandler: "sniff", and the delayed "measure"
  visible,      \* the activity is between onStart and onStop
  duplex,       \* the two streams: "closed", "running", "disconnected"
  launched,     \* mAnalyzerLaunched
  echo,         \* PulseLatencyAnalyzer: mState, mAudioRecording, mResult,
                \* and the confidence of mLatencyReport
  frame,        \* nextState of the frame in progress, or "idle"
  analysis,     \* per detached thread: where it is in analyze(), newResult
  shown,        \* what the last report said of the latency
  presses,
  latQuiet      \* fixed

app == <<button, averager, posted, visible, presses, latQuiet>>
latVars == <<app, duplex, launched, echo, frame, analysis, shown>>

Cleared == [state |-> "background", recorded |-> 0, result |-> "OK",
            confidence |-> "none"]
Finished == [pc |-> "none", newResult |-> "OK"]

LatInit ==
  /\ button = [measure |-> TRUE, cancel |-> FALSE]
  /\ averager = [active |-> FALSE, good |-> 0, bad |-> 0]
  /\ posted = {} /\ visible = TRUE /\ presses = 0
  /\ duplex = "closed" /\ launched = FALSE
  /\ echo = Cleared /\ frame = "idle"
  /\ analysis = [a \in 1..LatAnalyses |-> Finished]
  /\ shown = "nothing" /\ latQuiet \in BOOLEAN

\* updateButtons(running)
Buttons(running, active) == [measure |-> ~(running \/ active), cancel |-> running]
-----------------------------------------------------------------------------
(* The UI thread. *)

\* Closing the streams waits for the callback to return.
JoinCallback == frame = "idle" /\ UNCHANGED frame
CloseStreams == JoinCallback /\ duplex' = "closed"

\* measureSingleLatency, with openAudio and startAudio: prepareToTest resets
\* the analyzer.  When the streams do not open nothing else happens.
MeasureSingleLatency(active) ==
  \/ /\ JoinCallback /\ duplex' = "running" /\ launched' = FALSE /\ echo' = Cleared
     /\ posted' = (posted \ {"measure"}) \cup {"sniff"}
     /\ button' = Buttons(TRUE, active)
  \/ /\ ~(latQuiet /\ active)
     /\ CloseStreams /\ posted' = posted \ {"measure"}
     /\ UNCHANGED <<button, launched, echo>>

Press == presses < LatPresses /\ presses' = presses + 1 /\ UNCHANGED latQuiet

OnMeasure == /\ button.measure /\ visible /\ Press
             /\ averager' = [averager EXCEPT !.active = FALSE]
             /\ MeasureSingleLatency(FALSE)
             /\ UNCHANGED <<visible, analysis, shown>>

OnAverage == /\ button.measure /\ visible /\ Press
             /\ averager' = [active |-> TRUE, good |-> 0, bad |-> 0]
             /\ MeasureSingleLatency(TRUE)
             /\ UNCHANGED <<visible, analysis, shown>>

\* stopAudioTest
StopAudioTest(active) ==
  /\ posted' = posted \ {"sniff"}
  /\ CloseStreams
  /\ button' = Buttons(FALSE, active)

StopAudioTestOnly(active) ==
  /\ CloseStreams
  /\ button' = Buttons(FALSE, active)
  /\ UNCHANGED posted

OnCancelOff == /\ button.cancel /\ visible /\ Press
               /\ averager' = [averager EXCEPT !.active = FALSE]
               /\ StopAudioTestOnly(FALSE)
               /\ UNCHANGED <<visible, launched, echo, analysis, shown>>

OnCancel == /\ button.cancel /\ visible /\ Press
            /\ averager' = [averager EXCEPT !.active = FALSE]
            /\ StopAudioTest(FALSE)
            /\ UNCHANGED <<visible, launched, echo, analysis, shown>>

\* onStop with TestAudioActivity.onStop: the buttons stay as they were, and a
\* delayed measurement stays posted.
LatOnStop == /\ visible /\ Press /\ (latQuiet => ~averager.active)
             /\ visible' = FALSE
             /\ posted' = posted \ {"sniff"}
             /\ CloseStreams
             /\ UNCHANGED <<button, averager, launched, echo, analysis, shown>>

LatOnStart == /\ ~visible
              /\ visible' = TRUE
              /\ button' = Buttons(FALSE, averager.active)
              /\ UNCHANGED <<averager, posted, presses, latQuiet, duplex, launched, echo,
                             frame, analysis, shown>>

\* The Runnable that onAnalyserDone posted with a delay of one second.
DelayedMeasure == /\ "measure" \in posted
                  /\ MeasureSingleLatency(averager.active)
                  /\ UNCHANGED <<averager, visible, presses, latQuiet, analysis, shown>>

AveragedAlways ==
  IF ~averager.active THEN averager
  ELSE IF echo.result # "OK" THEN [averager EXCEPT !.bad = 1]
  ELSE [averager EXCEPT !.good = @ + 1, !.active = averager.good + 1 < LatGoodRuns]

\* LatencyAverager.onAnalyserDone; a bad run is repeated, up to a limit.
Averaged ==
  IF ~averager.active THEN averager
  ELSE IF echo.result # "OK"
  THEN [averager EXCEPT !.bad = @ + 1, !.active = averager.bad < LatBadRuns]
  ELSE [averager EXCEPT !.good = @ + 1, !.active = averager.good + 1 < LatGoodRuns]

\* getResultString
Report == IF echo.result # "OK" THEN "error"
          ELSE IF echo.confidence = "high" THEN "valid" ELSE "invalid"

FreeAnalyses == {a \in 1..LatAnalyses : analysis[a].pc = "none"}

\* isAnalyzerDone, launchAnalysisIfReady.  The thread is detached.
Launch == IF ~launched /\ echo.recorded = LatFrames
          THEN /\ launched' = TRUE
               /\ \E a \in FreeAnalyses :
                     analysis' = [analysis EXCEPT ![a].pc = "measure"]
          ELSE UNCHANGED <<launched, analysis>>

\* LatencySniffer: poll again, or report, average and stop the streams.
Sniff ==
  /\ "sniff" \in posted
  /\ Launch
  /\ IF echo.state # "done"
     THEN UNCHANGED <<app, duplex, frame, shown>>
     ELSE /\ averager' = Averaged
          /\ shown' = Report
          /\ CloseStreams
          /\ posted' = (posted \ {"sniff"}) \cup
                       (IF Averaged.active THEN {"measure"} ELSE {})
          /\ button' = Buttons(FALSE, Averaged.active)
          /\ UNCHANGED <<visible, presses, latQuiet>>
  /\ UNCHANGED echo

\* MyStreamSniffer finds a stream disconnected: onStreamClosed.
StreamClosed == /\ duplex = "disconnected" /\ visible
                /\ StopAudioTest(averager.active)
                /\ UNCHANGED <<averager, visible, presses, latQuiet, launched,
                               echo, analysis, shown>>
-----------------------------------------------------------------------------
(* The audio callback: processInputFrame reads mState, and writes it back. *)

Next_State(recorded) ==
  CASE echo.state = "background" -> "pulse"
    [] echo.state = "pulse" /\ recorded = LatFrames -> "gotData"
    [] OTHER -> echo.state

\* write stops when the recording is full
Recorded == IF echo.state = "pulse" /\ echo.recorded < LatFrames
            THEN echo.recorded + 1 ELSE echo.recorded

FrameBegin == /\ duplex = "running" /\ frame = "idle" /\ ~latQuiet
              /\ echo' = [echo EXCEPT !.recorded = Recorded]
              /\ frame' = Next_State(Recorded)
              /\ UNCHANGED <<app, duplex, launched, analysis, shown>>

FrameEnd == /\ frame # "idle"
            /\ echo' = [echo EXCEPT !.state = frame]
            /\ frame' = "idle"
            /\ UNCHANGED <<app, duplex, launched, analysis, shown>>

\* A whole frame.  The background may go on for some more.
Frame == /\ duplex = "running" /\ latQuiet
         /\ echo' = [echo EXCEPT !.recorded = Recorded, !.state = Next_State(Recorded)]
         /\ UNCHANGED <<app, duplex, launched, frame, analysis, shown>>

LatDisconnect == /\ duplex = "running" /\ (latQuiet => ~averager.active)
                 /\ duplex' = "disconnected"
                 /\ UNCHANGED <<app, launched, echo, frame, analysis, shown>>
-----------------------------------------------------------------------------
(* analyze(), on the detached thread. *)

Measure(a) ==
  /\ analysis[a].pc = "measure"
  /\ IF echo.state # "gotData"   \* "Bad state. Check volume on device."
     THEN /\ analysis' = [analysis EXCEPT ![a].pc = "done"]
          /\ UNCHANGED echo
     ELSE \E c \in {"low", "high"} :
            /\ echo' = [echo EXCEPT !.confidence = c]
            /\ analysis' = [analysis EXCEPT ![a] =
                 [pc |-> "done", newResult |-> IF c = "low" THEN "CONFIDENCE" ELSE "OK"]]
  /\ UNCHANGED <<app, duplex, launched, frame, shown>>

SetDone(a) == /\ analysis[a].pc = "done"
              /\ echo' = [echo EXCEPT !.state = "done"]
              /\ analysis' = [analysis EXCEPT ![a].pc = "result"]
              /\ UNCHANGED <<app, duplex, launched, frame, shown>>

SetResult(a) == /\ analysis[a].pc = "result"
                /\ echo' = [echo EXCEPT !.result =
                              IF @ = "OK" THEN analysis[a].newResult ELSE @]
                /\ analysis' = [analysis EXCEPT ![a] = Finished]
                /\ UNCHANGED <<app, duplex, launched, frame, shown>>

Analyze(a) == Measure(a) \/ SetDone(a) \/ SetResult(a)

LatUI == DelayedMeasure \/ Sniff \/ StreamClosed
LatNative == FrameBegin \/ FrameEnd \/ Frame \/ \E a \in 1..LatAnalyses : Analyze(a)

LatNext == \/ OnMeasure \/ OnAverage \/ OnCancel \/ LatOnStop \/ LatOnStart \/ LatDisconnect
           \/ LatUI \/ LatNative

LatSpec == LatInit /\ [][LatNext]_latVars
-----------------------------------------------------------------------------
\* When the Measure button can be pressed no measurement is under way: the
\* sniffer is not posted, and no average waits to go on by itself.  Otherwise
\* two sniffers would poll, and stop, one measurement.
IdleWhenEnabled == button.measure => posted = {}

\* A test that is under way ends, and gives the buttons back to the user who
\* stays, whatever the analysis finds and however often a bad run is repeated.
\* Without latQuiet it need not: see the README.
MeasurementEnds == (latQuiet /\ visible /\ ~button.measure)
                     ~> (button.measure \/ ~visible)

\* "Only report valid latencies.": the report gives a latency only if one was
\* measured with enough confidence.
OnlyValidLatencies == shown # "invalid"
=============================================================================
