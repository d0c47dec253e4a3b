---------------------------- MODULE TesterSession ----------------------------
(***************************************************************************)
(* An automated test of OboeTester: AutomatedTestRunner, whose thread runs *)
(* one configuration after the other, against the UI thread, over the      *)
(* streams that TestAudioActivity opens and closes for both of them.       *)
(*                                                                         *)
(* tsKind: "glitch" is BaseAutoGlitchActivity, with an output and an input *)
(* stream, where the UI thread closes the streams when the screen is left; *)
(* "disconnect" is TestDisconnectActivity, with one stream that only the   *)
(* runner touches.  An activity is not destroyed while its runner lives,   *)
(* and stopping streams succeeds.                                          *)
(***************************************************************************)
EXTENDS Integers

CONSTANTS TsStarts,   \* bounds how often Start is pressed and the screen left
          TsConfigs   \* configurations of a test

ASSUME TsAssumption == {TsStarts, TsConfigs} \subseteq Nat \ {0}

VARIABLES
  tsKind,
  audio,       \* mAudioState
  stream,      \* the streams with an index in Java: "out", "in"
  orphan,      \* a native stream is open that no index leads to
  monitor,     \* who is in closeAudio, which is synchronized, or "none"
  ui, runner,  \* where the two threads are
  interrupted, \* the runner's interrupt status
  enabled,     \* mThreadEnabled
  autoThread,  \* mAutoThread is not null
  startButton, onScreen, config, starts,
  left         \* the screen of a glitch test was left while its runner lived

tsVars == <<tsKind, audio, stream, orphan, monitor, ui, runner, interrupted, enabled,
            autoThread, startButton, onScreen, config, starts, left>>
streams == <<audio, stream, orphan>>
screen == <<enabled, autoThread, startButton, onScreen, starts, tsKind, left>>

TsInit ==
  /\ tsKind \in {"glitch", "disconnect"}
  /\ audio = "closed" /\ stream = {} /\ orphan = FALSE /\ monitor = "none"
  /\ ui = "idle" /\ runner = "none" /\ interrupted = FALSE
  /\ enabled = FALSE /\ autoThread = FALSE /\ startButton = TRUE
  /\ onScreen = TRUE /\ config = 0 /\ starts = 0 /\ left = FALSE
-----------------------------------------------------------------------------
(* What both threads call. *)

\* closeAudio returns at once when another close is under way or done.
CloseAudio(t) ==
  \/ /\ monitor = "none" /\ audio \in {"closing", "closed"}
     /\ UNCHANGED <<streams, monitor>>
  \/ /\ monitor = "none" /\ audio \notin {"closing", "closed"}
     /\ audio' = "closing" /\ stream' = {} /\ monitor' = t
     /\ UNCHANGED orphan

CloseAudioEnd(t) == /\ monitor = t
                    /\ audio' = "closed" /\ monitor' = "none"
                    /\ UNCHANGED <<stream, orphan>>

\* stopAudio, when nothing is open too
StopAudio == audio' = "stopped"

OpenStreamOff(s) == /\ stream' = stream \cup {s} /\ orphan' = (orphan \/ s \in stream)
                    /\ audio' = IF s = "in" \/ tsKind = "disconnect" THEN "open" ELSE audio

\* openStreamContext.  The index of a stream that is still open is lost.
OpenStream(s) == /\ stream' = stream \cup {s} /\ orphan' = (orphan \/ s \in stream)
                 /\ audio' = "open"
-----------------------------------------------------------------------------
(* The thread of the runner. *)

RunnerOnly == UNCHANGED <<screen, ui, monitor>>

\* Thread.sleep
Sleep(next) == /\ runner' = IF interrupted THEN "finallyStop" ELSE next
               /\ interrupted' = FALSE

\* testConfiguration lets the last stream settle; testConfigurations does not.
BeginConfiguration ==
  /\ runner = "begin"
  /\ IF config = TsConfigs THEN runner' = "finallyStop" /\ UNCHANGED <<config, interrupted>>
     ELSE /\ config' = config + 1
          /\ IF tsKind = "glitch" THEN runner' = "openClose" /\ UNCHANGED interrupted
             ELSE Sleep(IF enabled THEN "openClose" ELSE "begin")
  /\ UNCHANGED streams /\ RunnerOnly

AfterClose == [openClose |-> "openOut", close |-> "gap", finallyClose |-> "post"]

RunnerClose ==
  /\ runner \in DOMAIN AfterClose
  /\ CloseAudio("runner")
  /\ runner' = IF monitor' = "runner" THEN runner ELSE AfterClose[runner]
  /\ UNCHANGED <<screen, ui, interrupted, config>>

RunnerCloseEnd ==
  /\ CloseAudioEnd("runner")
  /\ runner' = AfterClose[runner]
  /\ UNCHANGED <<screen, ui, interrupted, config>>

\* openAudio.  After a failure testConfigurations leaves what is open.
OpenOut == /\ runner = "openOut"
           /\ \/ /\ OpenStream("out")
                 /\ runner' = IF tsKind = "glitch" THEN "openIn" ELSE "start"
              \/ runner' = "gap" /\ UNCHANGED streams
           /\ UNCHANGED <<interrupted, config>> /\ RunnerOnly

OpenIn == /\ runner = "openIn"
          /\ \/ OpenStream("in") /\ runner' = "start"
             \/ runner' = "gap" /\ UNCHANGED streams
          /\ UNCHANGED <<interrupted, config>> /\ RunnerOnly

\* startAudioTest, unless the configuration is skipped
Start == /\ runner = "start"
         /\ \/ runner' = "poll" /\ audio' = "started"
            \/ runner' = "stop" /\ UNCHANGED audio
         /\ UNCHANGED <<stream, orphan, interrupted, config>> /\ RunnerOnly

\* The waits of a test: a stop request ends them.
PollInterruptedOff ==
  /\ runner = "poll" /\ (interrupted \/ ~enabled)
  /\ interrupted' = FALSE
  /\ UNCHANGED <<runner, streams, config>> /\ RunnerOnly

PollInterrupted ==
  /\ runner = "poll" /\ (interrupted \/ ~enabled)
  /\ \/ Sleep("stop")
     \/ tsKind = "disconnect" /\ ~enabled /\ runner' = "stop" /\ UNCHANGED interrupted
  /\ UNCHANGED <<streams, config>> /\ RunnerOnly

\* The end of the time, or of the wait for a headset to be plugged.
PollOver == /\ runner = "poll"
            /\ runner' = "stop"
            /\ UNCHANGED <<streams, interrupted, config>> /\ RunnerOnly

\* stopAudioTest
RunnerStop == /\ runner = "stop"
              /\ StopAudio /\ runner' = "close"
              /\ UNCHANGED <<stream, orphan, interrupted, config>> /\ RunnerOnly

Gap == /\ runner = "gap"
       /\ Sleep("begin")
       /\ UNCHANGED <<streams, config>> /\ RunnerOnly

\* stopTest of the finally block: GlitchActivity only stops the streams.
FinallyStop == /\ runner = "finallyStop"
               /\ StopAudio
               /\ runner' = IF tsKind = "glitch" THEN "post" ELSE "finallyClose"
               /\ UNCHANGED <<stream, orphan, interrupted, config>> /\ RunnerOnly

\* onTestFinished, which runOnUiThread posts when the thread ends
TestFinished == /\ runner = "post" /\ ui = "idle"
                /\ runner' = "none" /\ interrupted' = FALSE
                /\ startButton' = TRUE
                /\ UNCHANGED <<tsKind, streams, monitor, ui, enabled, autoThread,
                               onScreen, config, starts, left>>

RunnerStep == \/ BeginConfiguration \/ RunnerClose \/ RunnerCloseEnd \/ OpenOut \/ OpenIn
              \/ Start \/ PollInterrupted \/ RunnerStop \/ Gap \/ FinallyStop \/ TestFinished
-----------------------------------------------------------------------------
(* The UI thread. *)

PressStart == /\ ui = "idle" /\ onScreen /\ startButton /\ starts < TsStarts
              /\ starts' = starts + 1
              /\ startButton' = FALSE
              /\ enabled' = TRUE /\ autoThread' = TRUE
              /\ runner' = "begin" /\ config' = 0
              /\ UNCHANGED <<tsKind, streams, monitor, ui, interrupted, onScreen, left>>

\* stopAutoThread: it waits for the thread only a tenth of a second.
StopAutoThread ==
  IF autoThread
  THEN /\ enabled' = FALSE /\ autoThread' = FALSE
       /\ interrupted' = (runner # "none")
  ELSE UNCHANGED <<enabled, autoThread, interrupted>>

PressStop == /\ ui = "idle" /\ onScreen /\ ~startButton
             /\ StopAutoThread
             /\ UNCHANGED <<tsKind, streams, monitor, ui, runner, startButton, onScreen,
                            config, starts, left>>

\* onStop.  GlitchActivity stops the streams and closes them first.
LeaveScreen ==
  /\ ui = "idle" /\ onScreen /\ starts < TsStarts /\ starts' = starts + 1
  /\ onScreen' = FALSE
  /\ left' = (left \/ (tsKind = "glitch" /\ runner # "none"))
  /\ IF tsKind = "glitch" THEN StopAudio /\ ui' = "close"
     ELSE ui' = "stopThread" /\ UNCHANGED audio
  /\ UNCHANGED <<tsKind, stream, orphan, monitor, runner, interrupted, enabled, autoThread,
                 startButton, config>>

LeaveClose == /\ ui = "close" /\ CloseAudio("ui")
              /\ ui' = IF monitor' = "ui" THEN ui ELSE "stopThread"
              /\ UNCHANGED <<screen, runner, interrupted, config>>

LeaveCloseEnd == /\ CloseAudioEnd("ui")
                 /\ ui' = "stopThread"
                 /\ UNCHANGED <<screen, runner, interrupted, config>>

LeaveStopThread == /\ ui = "stopThread"
                   /\ ui' = "idle" /\ StopAutoThread
                   /\ UNCHANGED <<tsKind, streams, monitor, runner, startButton,
                                  onScreen, config, starts, left>>

Return == /\ ui = "idle" /\ ~onScreen
          /\ onScreen' = TRUE
          /\ UNCHANGED <<tsKind, streams, monitor, ui, runner, interrupted, enabled,
                         autoThread, startButton, config, starts, left>>

Leave == LeaveClose \/ LeaveCloseEnd \/ LeaveStopThread

TsNext == RunnerStep \/ PollOver \/ PressStart \/ PressStop \/ LeaveScreen \/ Leave \/ Return

TsSpec == TsInit /\ [][TsNext]_tsVars
-----------------------------------------------------------------------------
\* No stream loses its index, whichever of them fail to open or to start, so
\* the next openAudio can close what a stopped test has left; and when Start can
\* be pressed the last runner is gone, and of a disconnect test nothing is left.
NothingLeft == /\ orphan => left
               /\ startButton => /\ runner = "none"
                                 /\ tsKind = "disconnect" => stream = {}

\* A test that is told to stop ends and gives the Start button back, wherever
\* its thread is.
StopEnds == (~enabled /\ runner # "none") ~> startButton
=============================================================================
