----------------------------- MODULE MCOboeTester -----------------------------
(***************************************************************************)
(* The parts of OboeTester, one per behaviour: an activity at a time is    *)
(* shown, and each part below has variables of its own.  part says which   *)
(* one runs; the others stay in their initial states.                      *)
(***************************************************************************)
EXTENDS FullDuplexStream, GlitchTest, RoundTripLatency, TesterSession,
        NativeContext, Recording

VARIABLE part

vars == <<part, fdxVars, glVars, latVars, tsVars, ncVars, recVars>>

\* The parts that do not run are in one initial state each.
Resting(p) ==
  /\ p # "duplex" => fdx = [copy |-> "live", minimum |-> 0]
  /\ p # "glitch" => signal.loud
  /\ p # "latency" => latQuiet
  /\ p # "session" => tsKind = "glitch"
  /\ p # "context" => ncTest = [activity |-> "output", api |-> "aaudio", useCallback |-> TRUE]

Init == /\ part \in {"duplex", "glitch", "latency", "session", "context", "recording"}
        /\ FdxInit /\ GlInit /\ LatInit /\ TsInit /\ NcInit /\ RecInit
        /\ Resting(part)

Runs(p) ==
  /\ part = p /\ UNCHANGED part
  /\ p # "duplex" => UNCHANGED fdxVars
  /\ p # "glitch" => UNCHANGED glVars
  /\ p # "latency" => UNCHANGED latVars
  /\ p # "session" => UNCHANGED tsVars
  /\ p # "context" => UNCHANGED ncVars
  /\ p # "recording" => UNCHANGED recVars

Next == \/ Runs("duplex") /\ FdxNext
        \/ Runs("glitch") /\ GlNext
        \/ Runs("latency") /\ LatNext
        \/ Runs("session") /\ TsNext
        \/ Runs("context") /\ NcNext
        \/ Runs("recording") /\ RecNext

-----------------------------------------------------------------------------
(* Fairness.  Only one part runs, so one condition serves several of them. *)

\* The UI thread goes on with what it has begun, or was posted to its handler.
UIThread == \/ Runs("session") /\ Leave
            \/ Runs("latency") /\ LatUI
            \/ Runs("context") /\ NcCall

\* The runner of a session, the threads that analyse a recording, the data
\* threads
Thread(i) == \/ Runs("session") /\ i = 1 /\ RunnerStep
             \/ Runs("latency") /\ i \in 1..LatAnalyses /\ Analyze(i)
             \/ Runs("context") /\ IoStep(i)

\* The audio device keeps calling, and the volume is turned up again.
Frames == \/ Runs("glitch") /\ GlFrame
          \/ Runs("latency") /\ Frame
Volume == Runs("glitch") /\ Unmute

Spec == /\ Init /\ [][Next]_vars
        /\ WF_vars(UIThread) /\ \A i \in 1..NcThreads : WF_vars(Thread(i))
        /\ WF_vars(Frames) /\ WF_vars(Volume)

-----------------------------------------------------------------------------
(* Properties of several parts.  Each part rests while another runs.        *)

\* A glitch ends; and when the audio path has settled, the analyzer of
\* glitches locks on to the signal again.
GlitchesEnd == GlitchEnds /\ (part = "glitch" => Relocks)

\* A stopped test has stopped, a call of the application into a native
\* context returns, and a measurement of the latency has an end.
TestsEnd == StopEnds /\ CallEnds /\ MeasurementEnds
=============================================================================
