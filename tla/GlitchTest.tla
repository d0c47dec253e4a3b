----------------------------- MODULE GlitchTest -----------------------------
(***************************************************************************)
(* GlitchAnalyzer of OboeTester, fed one frame at a time: it locks onto    *)
(* the sine wave that comes back, predicts it, and counts a glitch when    *)
(* the prediction fails.                                                   *)
(*                                                                         *)
(* Of the signal it is kept whether it is loud, and whether the predicted  *)
(* sine fits it: when it does not, at least one sample of every period is  *)
(* beyond the tolerance, as phase and magnitude errors are periodic.       *)
(***************************************************************************)
EXTENDS Integers

CONSTANTS GlPeriod,     \* mSinePeriod, 48 at 48000 Hz
          GlLock,       \* PERIODS_NEEDED_FOR_LOCK
          GlWait,       \* IDLE_FRAME_COUNT and IMMUNE_FRAME_COUNT
          GlUpsets      \* bounds what disturbs the test

ASSUME GlAssumption == {GlPeriod, GlLock, GlWait, GlUpsets} \subseteq Nat \ {0}

VARIABLES
  sine,     \* mState, mDownCounter, mFramesAccumulated, mNonGlitchCount, mGlitchLength
  signal,   \* loud; fits; steady since resetAccumulator; goods: good samples in a row
  upsets

glVars == <<sine, signal, upsets>>

\* prepareToTest and reset
Reset == [state |-> "IDLE", down |-> GlWait, acc |-> 0, nonGlitch |-> 0, length |-> 0]

GlInit == /\ sine = Reset /\ upsets = 0
          /\ signal \in [loud : BOOLEAN, fits : {FALSE}, steady : {TRUE}, goods : {0}]

Upset == upsets < GlUpsets /\ upsets' = upsets + 1
-----------------------------------------------------------------------------
(* The signal: frames lost or repeated, the volume, the start of a test. *)

Shift == /\ Upset
         /\ signal' = [signal EXCEPT !.fits = FALSE, !.steady = FALSE]
         /\ UNCHANGED sine

Mute == /\ Upset /\ signal.loud
        /\ signal' = [signal EXCEPT !.loud = FALSE, !.fits = FALSE, !.steady = FALSE]
        /\ UNCHANGED sine

Unmute == /\ ~signal.loud
          /\ signal' = [signal EXCEPT !.loud = TRUE, !.fits = FALSE, !.steady = FALSE]
          /\ UNCHANGED <<sine, upsets>>

PrepareToTest == Upset /\ sine' = Reset /\ UNCHANGED signal
-----------------------------------------------------------------------------
(* processInputFrame, by state. *)

Countdown(next) ==
  /\ sine' = IF sine.down > 1 THEN [sine EXCEPT !.down = @ - 1]
             ELSE [sine EXCEPT !.state = next, !.down = GlWait, !.acc = 0]
  /\ UNCHANGED <<signal, upsets>>

Idle == sine.state = "IDLE" /\ Countdown("IMMUNE")

Immune == sine.state = "IMMUNE" /\ Countdown("WAITING_FOR_SIGNAL")

\* peak > mThreshold; the peak decays slowly, and noise has peaks too
WaitForSignal ==
  /\ sine.state = "WAITING_FOR_SIGNAL"
  /\ \E peak \in {signal.loud, TRUE} :
       /\ sine' = IF peak THEN [sine EXCEPT !.state = "WAITING_FOR_LOCK", !.acc = 0] ELSE sine
       /\ signal' = [signal EXCEPT !.steady = @ \/ peak]
  /\ UNCHANGED upsets

\* The phase is adopted only when it is locked.
WaitForLockOff ==
  /\ sine.state = "WAITING_FOR_LOCK"
  /\ IF sine.acc + 1 < GlPeriod * GlLock
     THEN sine' = [sine EXCEPT !.acc = @ + 1] /\ UNCHANGED signal
     ELSE \E enough \in {signal.loud /\ signal.steady, TRUE},
             small \in {signal.fits /\ signal.steady, TRUE}, f \in {signal.steady, TRUE} :
            /\ sine' = [sine EXCEPT !.acc = 0,
                          !.state = IF enough /\ small THEN "LOCKED" ELSE @]
            /\ signal' = [signal EXCEPT !.fits = IF enough /\ small THEN f ELSE @,
                                        !.steady = TRUE]
  /\ UNCHANGED upsets

\* After a whole number of periods magnitude and phase are measured; when the
\* magnitude is large enough the phase is adopted, and locked if it was small.
WaitForLock ==
  /\ sine.state = "WAITING_FOR_LOCK"
  /\ IF sine.acc + 1 < GlPeriod * GlLock
     THEN sine' = [sine EXCEPT !.acc = @ + 1] /\ UNCHANGED signal
     ELSE \E enough \in {signal.loud /\ signal.steady, TRUE},
             small \in {signal.fits /\ signal.steady, TRUE}, f \in {signal.steady, TRUE} :
            /\ sine' = [sine EXCEPT !.acc = 0,
                          !.state = IF enough /\ small THEN "LOCKED" ELSE @]
            /\ signal' = [signal EXCEPT !.fits = IF enough THEN f ELSE @,
                                        !.steady = TRUE]
  /\ UNCHANGED upsets

\* A sample is within mScaledTolerance of the prediction or not; where the
\* prediction fits only a click spoils one.
Sample(good, steady) ==
  /\ good => signal.fits \/ signal.goods < GlPeriod - 1
  /\ IF ~good /\ signal.fits THEN Upset ELSE UNCHANGED upsets
  /\ signal' = [signal EXCEPT !.steady = steady,
                  !.goods = IF ~good THEN 0 ELSE IF @ > GlPeriod THEN @ ELSE @ + 1]

\* onGlitchStart; the accumulator is left alone
Glitching(s) == [s EXCEPT !.state = "GLITCHING", !.length = 1, !.nonGlitch = 0]

\* Once in a period transformSample says so, and phase and magnitude are checked.
Locked ==
  /\ sine.state = "LOCKED"
  /\ LET counted == [sine EXCEPT !.acc = @ + 1]
         measured == [sine EXCEPT !.acc = 0] IN
     \/ Sample(FALSE, signal.steady) /\ sine' = Glitching(sine)
     \/ counted.acc < GlPeriod /\ Sample(TRUE, signal.steady) /\ sine' = counted
     \/ /\ counted.acc = GlPeriod /\ Sample(TRUE, TRUE)
        /\ \/ sine' = measured
           \/ /\ ~(signal.fits /\ signal.steady /\ signal.loud)
              /\ sine' = Glitching(measured)

\* The count starts again only with a new glitch.
GlitchGoesOnLoose ==
  /\ sine.state = "GLITCHING"
  /\ LET grown == [sine EXCEPT !.length = @ + 1] IN
     \/ /\ Sample(TRUE, signal.steady) /\ sine.nonGlitch <= GlPeriod
        /\ sine' = [grown EXCEPT !.nonGlitch = @ + 1]
     \/ /\ Sample(TRUE, TRUE) /\ sine.nonGlitch > GlPeriod
        /\ sine' = [grown EXCEPT !.state = "LOCKED", !.acc = 0]
     \/ /\ Sample(FALSE, signal.steady) /\ grown.length <= 4 * GlPeriod
        /\ sine' = grown
     \/ /\ Sample(FALSE, TRUE) /\ grown.length > 4 * GlPeriod
        /\ sine' = [grown EXCEPT !.state = "WAITING_FOR_LOCK", !.acc = 0]

\* A good sample ends the glitch when more than a period of them came before
\* it; a bad one, after four periods, gives up the lock: relock.
GlitchGoesOn ==
  /\ sine.state = "GLITCHING"
  /\ LET grown == [sine EXCEPT !.length = @ + 1] IN
     \/ /\ Sample(TRUE, signal.steady) /\ sine.nonGlitch <= GlPeriod
        /\ sine' = [grown EXCEPT !.nonGlitch = @ + 1]
     \/ /\ Sample(TRUE, TRUE) /\ sine.nonGlitch > GlPeriod
        /\ sine' = [grown EXCEPT !.state = "LOCKED", !.acc = 0, !.nonGlitch = @ + 1]
     \/ /\ Sample(FALSE, signal.steady) /\ grown.length <= 4 * GlPeriod
        /\ sine' = [grown EXCEPT !.nonGlitch = 0]
     \/ /\ Sample(FALSE, TRUE) /\ grown.length > 4 * GlPeriod
        /\ sine' = [grown EXCEPT !.state = "WAITING_FOR_LOCK", !.acc = 0, !.nonGlitch = 0]

\* processInputFrame
GlFrame == Idle \/ Immune \/ WaitForSignal \/ WaitForLock \/ Locked \/ GlitchGoesOn

GlNext == Shift \/ Mute \/ Unmute \/ PrepareToTest \/ GlFrame
-----------------------------------------------------------------------------
\* A glitch is over only after a full period of good samples in a row, and it
\* lasts no longer than its two ways out leave together: it cannot hide the
\* glitches that follow.
GlitchEnds ==
  [][/\ sine.state = "GLITCHING" /\ sine'.state = "LOCKED" => signal.goods > GlPeriod
     /\ sine'.state = "GLITCHING" => sine'.length <= 5 * GlPeriod + 1]_glVars

\* When the disturbances end the analyzer locks and reports no more glitches,
\* although a measured phase is adopted before it is known to be right.
Relocks == <>[](sine.state = "LOCKED")
=============================================================================
