--------------------------- MODULE BufferedStream ---------------------------
(***************************************************************************)
(* AudioStreamBuffered: blocking read() and write() of a stream without a  *)
(* data callback, over a FIFO that the OpenSL ES callback drains or fills. *)
(* The FIFO is its level here (Fifo models the copying); what matters is   *)
(* when the blocked caller sleeps, and how long.                           *)
(*                                                                         *)
(* Time is in ticks and relative to the present.  OpenSL ES asks for a     *)
(* burst every BurstTime, the caller runs as soon as its sleep is over.    *)
(* Calls that are refused (closed stream, wrong direction, bad arguments)  *)
(* change nothing and are left out.                                        *)
(***************************************************************************)
EXTENDS Integers

CONSTANTS Capacity,      \* of the FIFO, in frames
          Burst,         \* getFramesPerBurst(), also the size of a callback
          BurstTime,     \* nanosPerBuffer
          Margin,        \* of predictNextCallbackTime()
          MinSleep,      \* minSleepTime of transfer()
          MaxRequest, Timeouts

ASSUME SizeAssumption == {Capacity, Burst, BurstTime, Margin, MinSleep} \subseteq Nat \ {0}
ASSUME CapacityAssumption == Burst <= Capacity
\* Bursts are longer than the margin and the shortest sleep.
ASSUME TimeAssumption == Margin < BurstTime /\ MinSleep < BurstTime
ASSUME RequestAssumption == MaxRequest \in Nat /\ Timeouts \subseteq Nat

VARIABLES
  input,      \* the direction of the stream
  run,        \* "stopped", "started", or "running": it has called back since
  level,      \* full frames in the FIFO
  size,       \* mBufferSizeInFrames
  phase,      \* ticks to the next callback
  ranAgo,     \* ticks since mBackgroundRanAtNanoseconds
  glitched,   \* mXRunCount is more than the latency tuner knows of
  app         \* the caller: where it is in transfer() and its locals

streamVars == <<input, run, level, size, phase, ranAgo, glitched, app>>

Never == -1          \* mBackgroundRanAtNanoseconds == 0

Smaller(a, b) == IF a < b THEN a ELSE b
Larger(a, b) == IF a > b THEN a ELSE b

Idle == [pc |-> "idle", left |-> 0, blocking |-> FALSE, quit |-> 0, room |-> 0,
         sleep |-> 0, predicted |-> FALSE, passed |-> 0]

StreamInit == /\ input \in BOOLEAN /\ run = "stopped" /\ level = 0
              /\ size = Capacity /\ phase = 0 /\ ranAgo = Never
              /\ glitched = FALSE /\ app = Idle

\* setBufferSizeInFrames: a negative size, compared as unsigned, is the largest.
Clipped(requested) == IF requested \notin 0..Capacity THEN Capacity
                      ELSE Larger(requested, Burst)
-----------------------------------------------------------------------------
(* transfer() *)

Call(numFrames, timeout) ==
  /\ app.pc = "idle"
  /\ app' = [Idle EXCEPT !.pc = "measure", !.left = numFrames,
                         !.blocking = (timeout > 0), !.quit = timeout]
  /\ UNCHANGED <<input, run, level, size, phase, ranAgo, glitched>>

Measure == /\ app.pc = "measure"
           /\ app' = [app EXCEPT !.pc = "move", !.room = Larger(0, size - level)]
           /\ UNCHANGED <<input, run, level, size, phase, ranAgo, glitched>>

SleepTimePastQuit(quit) == IF ranAgo = Never THEN BurstTime
                           ELSE Larger(MinSleep, BurstTime + Margin - ranAgo)

\* Just past the next callback, but not past the timeout.
SleepTime(quit) ==
  IF ranAgo = Never THEN BurstTime
  ELSE Larger(MinSleep, Smaller(BurstTime + Margin - ranAgo, quit))

Transferable == IF input THEN Smaller(app.left, level)
                ELSE Smaller(Smaller(app.left, app.room), Capacity - level)

\* Sleeps again after the time is up.
MoveForever ==
  LET n == Transferable
  IN  /\ app.pc = "move"
      /\ level' = IF input THEN level - n ELSE level + n
      /\ app' = IF app.left = n \/ ~app.blocking THEN Idle
                ELSE [app EXCEPT !.pc = "sleep", !.left = @ - n, !.room = 0,
                                 !.sleep = SleepTime(Larger(MinSleep, app.quit)),
                                 !.quit = Larger(@, 0),
                                 !.predicted = (run = "running"), !.passed = 0]
      /\ UNCHANGED <<input, run, size, phase, ranAgo, glitched>>

\* Read or write what is possible; if that is not all, sleep until the timeout.
Move ==
  LET n == Transferable
  IN  /\ app.pc = "move"
      /\ level' = IF input THEN level - n ELSE level + n
      /\ app' = IF app.left = n \/ ~app.blocking \/ app.quit <= 0 THEN Idle
                ELSE [app EXCEPT !.pc = "sleep", !.left = @ - n, !.room = 0,
                                 !.sleep = SleepTime(app.quit),
                                 !.predicted = (run = "running"), !.passed = 0]
      /\ UNCHANGED <<input, run, size, phase, ranAgo, glitched>>

Wake == /\ app.pc = "sleep" /\ app.sleep = 0
        /\ app' = [app EXCEPT !.pc = "measure"]
        /\ UNCHANGED <<input, run, level, size, phase, ranAgo, glitched>>
-----------------------------------------------------------------------------
(* The other side, and time. *)

\* onDefaultCallback: readNow() of an output stream, write() of an input one,
\* then markCallbackTime().
Callback ==
  /\ run # "stopped" /\ phase = 0
  /\ LET possible == IF input THEN Capacity - level ELSE level
         n == Smaller(Burst, possible)
     IN  /\ level' = IF input THEN level + n ELSE level - n
         /\ glitched' = (glitched \/ n < Burst)
  /\ run' = "running" /\ phase' = BurstTime /\ ranAgo' = 0
  /\ app' = [app EXCEPT !.passed = IF app.pc = "sleep" THEN Smaller(@ + 1, 2) ELSE @]
  /\ UNCHANGED <<input, size>>

\* The thread that reads and writes also starts and stops.
Start == /\ app.pc = "idle" /\ run = "stopped"
         /\ run' = "started" /\ phase' = 0
         /\ UNCHANGED <<input, level, size, ranAgo, glitched, app>>

Stop == /\ app.pc = "idle" /\ run # "stopped"
        /\ run' = "stopped"
        /\ UNCHANGED <<input, level, size, phase, ranAgo, glitched, app>>

\* After BurstTime + Margin a prediction is in the past, and stays there.
Tick ==
  /\ run # "stopped" => phase > 0
  /\ app.pc = "idle" \/ app.sleep > 0
  /\ phase' = IF run # "stopped" THEN phase - 1 ELSE phase
  /\ ranAgo' = IF ranAgo = Never THEN Never ELSE Smaller(ranAgo + 1, BurstTime + Margin)
  /\ app' = IF app.pc = "idle" THEN app
            ELSE [app EXCEPT !.quit = @ - 1, !.sleep = @ - 1]
  /\ UNCHANGED <<input, run, level, size, glitched>>

Transferring == Measure \/ Move \/ Wake
-----------------------------------------------------------------------------

\* "Don't sleep past timeout": no sleep ends later than a burst after the time
\* at which the call is to return.  A caller that sleeps until the next callback
\* is woken before the one after it, and can keep the FIFO from running dry.
\* (Right after a restart the prediction is from before the stop, and two
\* callbacks may pass.)
NoOversleep == app.pc = "sleep" => /\ app.sleep - app.quit < BurstTime
                                   /\ app.predicted => app.passed < 2
=============================================================================
