------------------------- MODULE LatencyTunerProofs -------------------------
(***************************************************************************)
(* For every size of the FIFO, length of a burst, timeout and number of    *)
(* resets: no blocking call of a tuned OpenSL ES stream oversleeps, and    *)
(* the tuner loses no request for a reset and keeps to its limits.         *)
(***************************************************************************)
EXTENDS LatencyTuner, TLAPS
-----------------------------------------------------------------------------
(* The inductive invariant. *)

Caller == [pc : {"idle", "measure", "move", "sleep"}, left : Int, blocking : BOOLEAN,
           quit : Int, room : Int, sleep : Int, predicted : BOOLEAN, passed : Int]

Tuner == [pc : {"none", "done", "store", "reset", "adjust"}, numRequests : Nat,
          state : {"Idle", "Active", "AtMax"}, countDown : Int]

StreamTyped == /\ input \in BOOLEAN
               /\ run \in {"stopped", "started", "running"}
               /\ level \in Int /\ size \in Int
               /\ phase \in 0..BurstTime
               /\ ranAgo \in Int
               /\ glitched \in BOOLEAN
               /\ app \in Caller

TunerTyped == /\ tuner \in Tuner
              /\ requests \in Nat /\ responses \in Nat
              /\ unserved \in BOOLEAN

\* While the stream calls back, the last callback and the next are a burst apart.
CallbacksApart == run = "running" => ranAgo + phase = BurstTime

\* A caller that sleeps as long as was predicted wakes before the second of the
\* callbacks that follow.
WakesInTime ==
  app.pc = "sleep" /\ app.predicted =>
    /\ run = "running" /\ app.sleep >= 0
    /\ \/ app.passed = 0 /\ app.sleep < phase + BurstTime
       \/ app.passed = 1 /\ app.sleep < phase

Punctual == app.pc = "sleep" => app.sleep - app.quit < BurstTime

StreamInv == StreamTyped /\ CallbacksApart /\ WakesInTime /\ Punctual

\* Only what has been requested is answered, and from the reset to the next
\* time the requests are loaded no request is taken for answered.
RequestsAhead ==
  /\ tuner.numRequests <= requests /\ responses <= requests
  /\ tuner.pc \notin {"store", "reset"} /\ unserved => responses < requests

WithinLimits == tuner.pc # "none" => size \in MinimumBufferSize..MaxBufferSize

TunerInv == TunerTyped /\ RequestsAhead /\ WithinLimits
-----------------------------------------------------------------------------
(* The blocking call. *)

LEMMA Constants ==
  /\ Capacity \in Nat /\ Burst \in Nat /\ BurstTime \in Nat /\ Margin \in Nat
  /\ MinSleep \in Nat /\ MaxRequest \in Nat
  /\ 0 < Burst /\ Burst <= Capacity
  /\ 0 < MinSleep /\ MinSleep < BurstTime /\ 0 < Margin /\ Margin < BurstTime
BY SizeAssumption, CapacityAssumption, TimeAssumption, RequestAssumption

\* A sleep ends less than a burst after the timeout, and if it is predicted less
\* than a burst after the next callback: the smallest sleep is shorter than that.
LEMMA SleepBounds ==
  ASSUME StreamTyped, CallbacksApart, NEW quit \in Int, quit > 0
  PROVE  /\ SleepTime(quit) \in Nat
         /\ SleepTime(quit) - quit < BurstTime
         /\ run = "running" => SleepTime(quit) < phase + BurstTime
<1>1. /\ run = "running" => ranAgo + phase = BurstTime
      /\ phase \in Int /\ phase >= 0 /\ phase <= BurstTime /\ ranAgo \in Int
  BY Constants DEF StreamTyped, CallbacksApart
<1>2. CASE ranAgo = Never
  <2>1. SleepTime(quit) = BurstTime BY <1>2 DEF SleepTime
  <2>2. run # "running" BY <1>1, <1>2, Constants DEF Never
  <2> QED BY <2>1, <2>2, Constants
<1>3. CASE ranAgo # Never
  <2> DEFINE soon == Smaller(BurstTime + Margin - ranAgo, quit)
  <2>1. /\ soon \in Int /\ soon <= quit /\ soon <= BurstTime + Margin - ranAgo
    BY <1>1, Constants DEF Smaller
  <2>2. SleepTime(quit) = Larger(MinSleep, soon) BY <1>3 DEF SleepTime
  <2> HIDE DEF soon
  <2>3. SleepTime(quit) = MinSleep \/ SleepTime(quit) = soon BY <2>2 DEF Larger
  <2>4. SleepTime(quit) >= MinSleep /\ SleepTime(quit) \in Int
    BY <2>1, <2>2, Constants DEF Larger
  <2> QED BY <1>1, <2>1, <2>3, <2>4, Constants
<1> QED BY <1>2, <1>3

\* What can be transferred is a number of frames.
LEMMA TransferableType ==
  ASSUME StreamTyped PROVE Transferable \in Int
BY Constants DEF StreamTyped, Transferable, Smaller, Caller

\* A caller whose fields are replaced by others of their types.
LEMMA CallerCalls ==
  ASSUME NEW a \in Caller, NEW left \in Int, NEW quit \in Int, NEW blocking \in BOOLEAN
  PROVE  LET new == [a EXCEPT !.pc = "measure", !.left = left, !.blocking = blocking,
                              !.quit = quit]
         IN  new \in Caller /\ new.pc = "measure"
BY DEF Caller

Sleeping(a, left, room, sleep, predicted, passed) ==
  [a EXCEPT !.pc = "sleep", !.left = left, !.room = room, !.sleep = sleep,
            !.predicted = predicted, !.passed = passed]

LEMMA CallerSleeps ==
  ASSUME NEW a \in Caller, NEW left \in Int, NEW room \in Int, NEW sleep \in Int,
         NEW predicted \in BOOLEAN, NEW passed \in Int
  PROVE  LET new == Sleeping(a, left, room, sleep, predicted, passed)
         IN  /\ new \in Caller /\ new.sleep = sleep /\ new.quit = a.quit
             /\ new.predicted = predicted /\ new.passed = passed
BY DEF Caller, Sleeping

Waiting(a, quit, sleep) == [a EXCEPT !.quit = quit, !.sleep = sleep]

LEMMA CallerWaits ==
  ASSUME NEW a \in Caller, NEW quit \in Int, NEW sleep \in Int
  PROVE  LET new == Waiting(a, quit, sleep)
         IN  /\ new \in Caller /\ new.pc = a.pc /\ new.predicted = a.predicted
             /\ new.sleep = sleep /\ new.quit = quit /\ new.passed = a.passed
BY DEF Caller, Waiting

LEMMA CallKeeps ==
  ASSUME StreamInv, NEW n \in 1..MaxRequest, NEW timeout \in Timeouts, Call(n, timeout)
  PROVE  StreamInv'
<1> DEFINE new == [Idle EXCEPT !.pc = "measure", !.left = n, !.blocking = (timeout > 0),
                               !.quit = timeout]
<1>1. timeout \in Int /\ n \in Int BY Constants, RequestAssumption
<1>2. new \in Caller /\ new.pc = "measure"
  <2>1. Idle \in Caller BY DEF Idle, Caller
  <2>2. (timeout > 0) \in BOOLEAN OBVIOUS
  <2> QED BY <1>1, <2>1, <2>2, CallerCalls, ZenonT(40)
<1>3. app' = new BY DEF Call
<1> HIDE DEF new
<1>4. UNCHANGED <<input, run, level, size, phase, ranAgo, glitched>> BY DEF Call
<1> QED BY <1>2, <1>3, <1>4 DEF StreamInv, StreamTyped, CallbacksApart, WakesInTime, Punctual

LEMMA MeasureKeeps ==
  ASSUME StreamInv, Measure PROVE StreamInv'
<1> DEFINE new == [app EXCEPT !.pc = "move", !.room = Larger(0, size - level)]
<1>1. app \in Caller /\ Larger(0, size - level) \in Int
  BY DEF StreamInv, StreamTyped, Larger
<1>2. new \in Caller /\ new.pc = "move" BY <1>1 DEF Caller
<1>3. app' = new BY DEF Measure
<1> HIDE DEF new
<1>4. UNCHANGED <<input, run, level, size, phase, ranAgo, glitched>> BY DEF Measure
<1> QED BY <1>2, <1>3, <1>4 DEF StreamInv, StreamTyped, CallbacksApart, WakesInTime, Punctual

LEMMA MoveKeeps ==
  ASSUME StreamInv, Move PROVE StreamInv'
<1> DEFINE n == Transferable
           left == app.left - n
           sleep == SleepTime(app.quit)
           predicted == (run = "running")
           new == Sleeping(app, left, 0, sleep, predicted, 0)
<1>1. n \in Int /\ app \in Caller /\ level \in Int
  BY TransferableType DEF StreamInv, StreamTyped
<1>2. UNCHANGED <<input, run, size, phase, ranAgo, glitched>> BY DEF Move
<1>3. level' \in Int BY <1>1 DEF Move
<1>4. CASE app' = Idle
  <2>1. Idle \in Caller /\ Idle.pc = "idle" BY DEF Idle, Caller
  <2> QED BY <2>1, <1>2, <1>3, <1>4
          DEF StreamInv, StreamTyped, CallbacksApart, WakesInTime, Punctual
<1>5. CASE app' = new /\ ~(app.quit <= 0)
  <2>1. app.quit \in Int /\ app.quit > 0 BY <1>1, <1>5 DEF Caller
  <2>2. /\ sleep \in Nat /\ sleep - app.quit < BurstTime
        /\ run = "running" => sleep < phase + BurstTime
    BY <2>1, SleepBounds DEF StreamInv
  <2>3. left \in Int BY <1>1 DEF Caller
  <2>4. predicted \in BOOLEAN /\ (predicted => run = "running") BY DEF predicted
  <2> HIDE DEF left, sleep, predicted
  <2>5. /\ new \in Caller /\ new.sleep = sleep /\ new.quit = app.quit
        /\ new.predicted = predicted /\ new.passed = 0
    BY <1>1, <2>2, <2>3, <2>4, CallerSleeps
  <2> HIDE DEF new
  <2>6. WakesInTime' BY <1>2, <1>5, <2>2, <2>4, <2>5 DEF WakesInTime
  <2>7. Punctual' BY <1>5, <2>2, <2>5 DEF Punctual
  <2>8. StreamTyped' /\ CallbacksApart'
    BY <1>2, <1>3, <1>5, <2>5 DEF StreamInv, StreamTyped, CallbacksApart
  <2> QED BY <2>6, <2>7, <2>8 DEF StreamInv
<1> QED BY <1>4, <1>5 DEF Move, Sleeping

LEMMA WakeKeeps ==
  ASSUME StreamInv, Wake PROVE StreamInv'
<1> DEFINE new == [app EXCEPT !.pc = "measure"]
<1>1. new \in Caller /\ new.pc = "measure" BY DEF Caller, StreamInv, StreamTyped
<1>2. app' = new BY DEF Wake
<1> HIDE DEF new
<1>3. UNCHANGED <<input, run, level, size, phase, ranAgo, glitched>> BY DEF Wake
<1> QED BY <1>1, <1>2, <1>3 DEF StreamInv, StreamTyped, CallbacksApart, WakesInTime, Punctual
-----------------------------------------------------------------------------
(* OpenSL ES, and time. *)

\* The caller that has slept through one callback does not sleep at the next.
LEMMA CallbackKeeps ==
  ASSUME StreamInv, Callback PROVE StreamInv'
<1> DEFINE passed == IF app.pc = "sleep" THEN Smaller(app.passed + 1, 2) ELSE app.passed
           new == [app EXCEPT !.passed = passed]
<1>1. app \in Caller /\ app' = new /\ phase = 0
  BY DEF StreamInv, StreamTyped, Callback
<1>2. passed \in Int BY <1>1 DEF Caller, Smaller
<1> HIDE DEF passed
<1>3. /\ new \in Caller /\ new.pc = app.pc /\ new.predicted = app.predicted
      /\ new.sleep = app.sleep /\ new.quit = app.quit /\ new.passed = passed
  BY <1>1, <1>2 DEF Caller
<1> HIDE DEF new
<1>4. level' \in Int /\ glitched' \in BOOLEAN
  BY Constants DEF StreamInv, StreamTyped, Callback, Smaller
<1>5. run' = "running" /\ phase' = BurstTime /\ ranAgo' = 0 /\ UNCHANGED <<input, size>>
  BY DEF Callback
<1>6. StreamTyped' /\ CallbacksApart'
  BY <1>1, <1>3, <1>4, <1>5, Constants DEF StreamInv, StreamTyped, CallbacksApart
<1>7. WakesInTime'
  <2> SUFFICES ASSUME app.pc = "sleep", app.predicted
               PROVE  passed = 1 /\ app.sleep >= 0 /\ app.sleep < BurstTime
    BY <1>1, <1>3, <1>5 DEF WakesInTime
  <2>1. app.sleep \in Int BY <1>1 DEF Caller
  <2>2. app.passed = 0 /\ app.sleep >= 0 /\ app.sleep < BurstTime
    BY <1>1, <2>1, Constants DEF StreamInv, WakesInTime
  <2> QED BY <2>2 DEF passed, Smaller
<1>8. Punctual' BY <1>1, <1>3 DEF StreamInv, Punctual
<1> QED BY <1>6, <1>7, <1>8 DEF StreamInv

LEMMA StartStopKeeps ==
  ASSUME StreamInv, Start \/ Stop PROVE StreamInv'
<1>1. app.pc = "idle" /\ UNCHANGED <<input, level, size, ranAgo, glitched, app>>
  BY DEF Start, Stop
<1>2. (run' = "started" /\ phase' = 0) \/ (run' = "stopped" /\ phase' = phase)
  BY DEF Start, Stop
<1> QED
  BY <1>1, <1>2, Constants
     DEF StreamInv, StreamTyped, CallbacksApart, WakesInTime, Punctual

LEMMA TickKeeps ==
  ASSUME StreamInv, Tick PROVE StreamInv'
<1> DEFINE quit == app.quit - 1
           sleep == app.sleep - 1
           new == Waiting(app, quit, sleep)
<1>1. app \in Caller /\ UNCHANGED <<input, run, level, size, glitched>>
  BY DEF StreamInv, StreamTyped, Tick
<1>2. /\ new \in Caller /\ new.pc = app.pc /\ new.predicted = app.predicted
      /\ new.sleep = app.sleep - 1 /\ new.quit = app.quit - 1 /\ new.passed = app.passed
  <2>1. quit \in Int /\ sleep \in Int BY <1>1 DEF Caller
  <2> HIDE DEF quit, sleep
  <2>2. /\ new \in Caller /\ new.pc = app.pc /\ new.predicted = app.predicted
        /\ new.sleep = sleep /\ new.quit = quit /\ new.passed = app.passed
    BY <1>1, <2>1, CallerWaits
  <2> QED BY <2>2 DEF quit, sleep
<1> HIDE DEF new
<1>3. (app.pc = "idle" /\ app' = app) \/ (app.pc # "idle" /\ app.sleep > 0 /\ app' = new)
  BY DEF Tick, new, Waiting
<1>4. /\ phase \in 0..BurstTime /\ ranAgo \in Int /\ (run = "running" => ranAgo + phase = BurstTime)
      /\ run # "stopped" => phase > 0 /\ phase' = phase - 1
      /\ run = "stopped" => phase' = phase
      /\ ranAgo' = IF ranAgo = Never THEN Never ELSE Smaller(ranAgo + 1, BurstTime + Margin)
  BY DEF StreamInv, StreamTyped, CallbacksApart, Tick
<1>5. phase' \in 0..BurstTime BY <1>4, Constants
<1>6. ranAgo' \in Int BY <1>4, Constants DEF Smaller, Never
<1>7. StreamTyped' BY <1>1, <1>2, <1>3, <1>5, <1>6 DEF StreamInv, StreamTyped
<1>8. CallbacksApart'
  <2>1. CASE run = "running"
    <3>1. ranAgo >= 0 /\ ranAgo + 1 <= BurstTime BY <1>4, <2>1
    <3>2. ranAgo' = ranAgo + 1 BY <1>4, <3>1, Constants DEF Smaller, Never
    <3> QED BY <1>4, <2>1, <3>2 DEF CallbacksApart
  <2>2. CASE run # "running" BY <1>1, <2>2 DEF CallbacksApart
  <2> QED BY <2>1, <2>2
<1>9. WakesInTime'
  <2> SUFFICES ASSUME app.pc = "sleep", app.predicted, app.sleep > 0, app' = new
               PROVE  /\ run' = "running" /\ new.sleep >= 0
                      /\ \/ new.passed = 0 /\ new.sleep < phase' + BurstTime
                         \/ new.passed = 1 /\ new.sleep < phase'
    BY <1>2, <1>3 DEF WakesInTime
  <2>1. app.sleep \in Int BY <1>1 DEF Caller
  <2>2. /\ run = "running"
        /\ \/ app.passed = 0 /\ app.sleep < phase + BurstTime
           \/ app.passed = 1 /\ app.sleep < phase
    BY DEF StreamInv, WakesInTime
  <2> QED BY <1>1, <1>2, <1>4, <2>1, <2>2, Constants
<1>10. Punctual'
  <2>1. app.sleep \in Int /\ app.quit \in Int BY <1>1 DEF Caller
  <2> QED BY <1>2, <1>3, <2>1 DEF StreamInv, Punctual
<1> QED BY <1>7, <1>8, <1>9, <1>10 DEF StreamInv
-----------------------------------------------------------------------------
(* The tuner.  It leaves to the stream everything but its size and its       *)
(* glitches.                                                                 *)

LEMMA Limits == /\ MinimumBufferSize \in Nat /\ MaxBufferSize \in Nat /\ kIdleCount \in Int
                /\ Burst <= MinimumBufferSize /\ MinimumBufferSize <= MaxBufferSize
                /\ MaxBufferSize <= Capacity
BY TunerAssumption, Constants

LEMMA SizeKeepsStream ==
  ASSUME StreamInv, UNCHANGED <<input, run, level, phase, ranAgo, app>>,
         size' \in Int, glitched' \in BOOLEAN
  PROVE  StreamInv'
BY DEF StreamInv, StreamTyped, CallbacksApart, WakesInTime, Punctual

LEMMA StreamUntouched == ASSUME StreamInv, UNCHANGED streamVars PROVE StreamInv'
BY SizeKeepsStream DEF streamVars, StreamInv, StreamTyped

\* A size within the limits is what setBufferSizeInFrames() sets.
LEMMA ClippedSize ==
  ASSUME NEW requested \in Int
  PROVE  /\ Clipped(requested) \in Int
         /\ requested \in MinimumBufferSize..MaxBufferSize => Clipped(requested) = requested
BY Limits, Constants DEF Clipped, Larger

LEMMA RequestedSizeWithin ==
  ASSUME size \in MinimumBufferSize..MaxBufferSize
  PROVE  RequestedSize \in MinimumBufferSize..MaxBufferSize
BY Limits, Constants DEF RequestedSize, Smaller

\* Where the tuner gets to, its number of requests, and no more than its type of
\* its state and its countdown.
Turns(pc, n) == tuner' \in Tuner /\ tuner'.pc = pc /\ tuner'.numRequests = n

LEMMA TunerTurns ==
  ASSUME tuner \in Tuner, requests \in Nat
  PROVE  /\ TuneLoad => Turns(IF requests # responses THEN "store" ELSE "adjust", requests)
         /\ tuner' = [tuner EXCEPT !.pc = "reset"] => Turns("reset", tuner.numRequests)
         /\ tuner' = ResetState => Turns("adjust", tuner.numRequests)
         /\ TuneAdjust => Turns("done", tuner.numRequests)
         /\ Construct => Turns("done", 0)
<1>1. TuneLoad => Turns(IF requests # responses THEN "store" ELSE "adjust", requests)
  BY DEF TuneLoad, Turns, Tuner
<1>2. tuner' = [tuner EXCEPT !.pc = "reset"] => Turns("reset", tuner.numRequests)
  BY DEF Turns, Tuner
<1>3. tuner' = ResetState => Turns("adjust", tuner.numRequests)
  BY Limits DEF ResetState, Turns, Tuner
<1>4. Counted \in Tuner /\ Counted.pc = tuner.pc /\ Counted.numRequests = tuner.numRequests
  <2>1. tuner.countDown - 1 \in Int BY DEF Tuner
  <2> QED BY <2>1 DEF Counted, Tuner
<1>5. TuneAdjust => Turns("done", tuner.numRequests)
  <2> SUFFICES ASSUME TuneAdjust PROVE Turns("done", tuner.numRequests)
    OBVIOUS
  <2>1. \/ tuner' = [Counted EXCEPT !.pc = "done"]
        \/ tuner' = [Counted EXCEPT !.pc = "done",
                                    !.state = IF size' = size THEN "AtMax" ELSE @]
    BY DEF TuneAdjust, Adjust
  <2> HIDE DEF Counted
  <2> QED BY <1>4, <2>1 DEF Turns, Tuner
<1>6. Construct => Turns("done", 0)
  <2>1. NewTuner \in Tuner /\ NewTuner.numRequests = 0 BY Limits DEF NewTuner, Tuner
  <2> HIDE DEF NewTuner
  <2>2. [NewTuner EXCEPT !.pc = "done"] \in Tuner
    BY <2>1 DEF Tuner
  <2> QED BY <2>1, <2>2 DEF Construct, Turns, Tuner
<1> QED BY <1>1, <1>2, <1>3, <1>5, <1>6

LEMMA ConstructKeeps ==
  ASSUME StreamInv, TunerInv, Construct PROVE StreamInv' /\ TunerInv'
<1>1. Turns("done", 0) BY TunerTurns DEF TunerInv, TunerTyped
<1>2. size' = MinimumBufferSize
  BY ClippedSize, Limits DEF Construct, SetBufferSize
<1>3. UNCHANGED <<input, run, level, phase, ranAgo, app, glitched, requests, responses, unserved>>
  BY DEF Construct, SetBufferSize
<1>4. StreamInv' BY <1>2, <1>3, Limits, SizeKeepsStream DEF StreamInv, StreamTyped
<1>5. tuner.pc = "none" BY DEF Construct
<1>6. TunerTyped' BY <1>1, <1>3 DEF TunerInv, TunerTyped, Turns
<1>7. RequestsAhead'
  BY <1>1, <1>3, <1>5 DEF TunerInv, TunerTyped, RequestsAhead, Turns
<1>8. WithinLimits' BY <1>2, Limits DEF WithinLimits
<1> QED BY <1>4, <1>6, <1>7, <1>8 DEF TunerInv

LEMMA RequestKeeps ==
  ASSUME StreamInv, TunerInv, RequestReset PROVE StreamInv' /\ TunerInv'
<1>1. StreamInv' BY StreamUntouched DEF RequestReset
<1>2. requests' = requests + 1 /\ unserved' = TRUE /\ UNCHANGED <<size, tuner, responses>>
  BY DEF RequestReset, streamVars
<1>3. tuner.numRequests \in Nat /\ requests \in Nat /\ responses \in Nat
  BY DEF TunerInv, TunerTyped, Tuner
<1>4. TunerTyped' /\ WithinLimits' BY <1>2 DEF TunerInv, TunerTyped, WithinLimits
<1>5. RequestsAhead' BY <1>2, <1>3 DEF TunerInv, RequestsAhead
<1> QED BY <1>1, <1>4, <1>5 DEF TunerInv

\* With no request that is not answered, none is left that was not served.
LEMMA LoadKeeps ==
  ASSUME StreamInv, TunerInv, TuneLoad PROVE StreamInv' /\ TunerInv'
<1>1. StreamInv' BY StreamUntouched DEF TuneLoad
<1>2. Turns(IF requests # responses THEN "store" ELSE "adjust", requests)
  BY TunerTurns DEF TunerInv, TunerTyped
<1>3. /\ UNCHANGED <<size, requests, responses, unserved>> /\ tuner.pc = "done"
      /\ requests \in Nat /\ responses \in Nat
  BY DEF TuneLoad, streamVars, TunerInv, TunerTyped
<1>4. TunerTyped' /\ WithinLimits'
  BY <1>2, <1>3 DEF TunerInv, TunerTyped, WithinLimits, Turns
<1>5. RequestsAhead' BY <1>2, <1>3 DEF TunerInv, RequestsAhead, Turns
<1> QED BY <1>1, <1>4, <1>5 DEF TunerInv

\* Between the store and the reset a request may come in: it is answered only
\* at the next turn, and is served twice rather than not at all.
LEMMA ResetKeeps ==
  ASSUME StreamInv, TunerInv, TuneReset PROVE StreamInv' /\ TunerInv'
<1>1. /\ tuner.numRequests \in Nat /\ requests \in Nat /\ responses \in Nat
      /\ tuner.pc # "none" /\ UNCHANGED requests
  BY DEF TunerInv, TunerTyped, Tuner, TuneReset
<1>2. CASE /\ responses' = tuner.numRequests /\ tuner' = [tuner EXCEPT !.pc = "reset"]
           /\ UNCHANGED <<unserved, streamVars>>
  <2>1. StreamInv' BY <1>2, StreamUntouched
  <2>2. Turns("reset", tuner.numRequests)
    BY <1>2, TunerTurns DEF TunerInv, TunerTyped
  <2>3. TunerTyped' /\ WithinLimits'
    BY <1>1, <1>2, <2>2 DEF TunerInv, TunerTyped, WithinLimits, Turns, streamVars
  <2>4. RequestsAhead' BY <1>1, <1>2, <2>2 DEF TunerInv, RequestsAhead, Turns
  <2> QED BY <2>1, <2>3, <2>4 DEF TunerInv
<1>3. CASE /\ tuner' = ResetState /\ unserved' = FALSE
           /\ SetBufferSize(MinimumBufferSize) /\ UNCHANGED responses
           /\ UNCHANGED glitched
  <2>1. size' = MinimumBufferSize BY <1>3, ClippedSize, Limits DEF SetBufferSize
  <2>2. StreamInv'
    BY <1>3, <2>1, Limits, SizeKeepsStream DEF SetBufferSize, StreamInv, StreamTyped
  <2>3. Turns("adjust", tuner.numRequests)
    BY <1>3, TunerTurns DEF TunerInv, TunerTyped
  <2>4. TunerTyped' BY <1>1, <1>3, <2>3 DEF TunerInv, TunerTyped, Turns
  <2>5. WithinLimits' BY <2>1, Limits DEF WithinLimits
  <2>6. RequestsAhead' BY <1>1, <1>3, <2>3 DEF TunerInv, RequestsAhead, Turns
  <2> QED BY <2>2, <2>4, <2>5, <2>6 DEF TunerInv
<1> QED BY <1>2, <1>3 DEF TuneReset

LEMMA AdjustKeeps ==
  ASSUME StreamInv, TunerInv, TuneAdjust PROVE StreamInv' /\ TunerInv'
<1>1. Turns("done", tuner.numRequests) BY TunerTurns DEF TunerInv, TunerTyped
<1>2. /\ UNCHANGED <<requests, responses, unserved>>
      /\ tuner.pc = "adjust" /\ size \in MinimumBufferSize..MaxBufferSize
  BY DEF TuneAdjust, TunerInv, WithinLimits
<1>3. StreamInv' /\ size' \in MinimumBufferSize..MaxBufferSize
  <2>1. CASE UNCHANGED streamVars
    BY <2>1, <1>2, StreamUntouched DEF streamVars
  <2>2. CASE Adjust
    <3>1. RequestedSize \in MinimumBufferSize..MaxBufferSize /\ RequestedSize \in Int
      BY <1>2, RequestedSizeWithin, Limits
    <3> HIDE DEF RequestedSize
    <3>2. size' = RequestedSize BY <2>2, <3>1, ClippedSize DEF Adjust, SetBufferSize
    <3>3. StreamInv'
      BY <2>2, <3>1, <3>2, SizeKeepsStream DEF Adjust, SetBufferSize
    <3> QED BY <3>1, <3>2, <3>3
  <2> QED BY <2>1, <2>2 DEF TuneAdjust
<1>4. TunerTyped' BY <1>1, <1>2 DEF TunerInv, TunerTyped, Turns
<1>5. RequestsAhead'
  BY <1>1, <1>2 DEF TunerInv, TunerTyped, RequestsAhead, Turns
<1>6. WithinLimits' BY <1>3 DEF WithinLimits
<1> QED BY <1>3, <1>4, <1>5, <1>6 DEF TunerInv

LEMMA ResizeKeeps ==
  ASSUME StreamInv, TunerInv, Resize PROVE StreamInv' /\ TunerInv'
<1>1. PICK requested \in {-1, 0, Capacity - 1, Capacity + 1} : SetBufferSize(requested)
  BY DEF Resize
<1>2. requested \in Int BY Constants
<1>3. size' \in Int BY <1>1, <1>2, ClippedSize DEF SetBufferSize
<1>4. /\ UNCHANGED <<input, run, level, phase, ranAgo, app, glitched>>
      /\ UNCHANGED <<tuner, requests, responses, unserved>> /\ tuner.pc = "none"
  BY <1>1 DEF Resize, SetBufferSize, tunerVars
<1>5. StreamInv' BY <1>3, <1>4, SizeKeepsStream DEF StreamInv, StreamTyped
<1> QED BY <1>4, <1>5 DEF TunerInv, TunerTyped, RequestsAhead, WithinLimits

\* What happens on the stream leaves the size to the tuner.
LEMMA TunerUntouched ==
  ASSUME TunerInv, UNCHANGED <<size, tunerVars>> PROVE TunerInv'
BY DEF TunerInv, TunerTyped, RequestsAhead, WithinLimits, tunerVars

LEMMA StreamKeeps ==
  ASSUME StreamInv, TunerInv, Write \/ Transferring \/ Callback \/ Start \/ Stop \/ Tick,
         UNCHANGED tunerVars
  PROVE  StreamInv' /\ TunerInv'
<1>1. ASSUME NEW n \in 1..MaxRequest, NEW timeout \in Timeouts, Call(n, timeout)
      PROVE  StreamInv' /\ UNCHANGED size
  BY <1>1, CallKeeps DEF Call
<1>2. CASE Write BY <1>1, <1>2, TunerUntouched DEF Write
<1>3. CASE Transferring
  BY <1>3, MeasureKeeps, MoveKeeps, WakeKeeps, TunerUntouched
     DEF Transferring, Measure, Move, Wake
<1>4. CASE Callback BY <1>4, CallbackKeeps, TunerUntouched DEF Callback
<1>5. CASE Start \/ Stop BY <1>5, StartStopKeeps, TunerUntouched DEF Start, Stop
<1>6. CASE Tick BY <1>6, TickKeeps, TunerUntouched DEF Tick
<1> QED BY <1>2, <1>3, <1>4, <1>5, <1>6
-----------------------------------------------------------------------------
LEMMA TunerInitially == TunerInit => StreamInv /\ TunerInv
<1> SUFFICES ASSUME TunerInit PROVE StreamInv /\ TunerInv
  OBVIOUS
<1>1. Idle \in Caller /\ Idle.pc = "idle" BY DEF Idle, Caller
<1>2. /\ NewTuner \in Tuner /\ NewTuner.pc = "none" /\ NewTuner.numRequests = 0
  BY Limits DEF NewTuner, Tuner
<1> HIDE DEF Idle, NewTuner
<1>3. StreamTyped
  <2>1. /\ run \in {"stopped", "started", "running"}
        /\ level \in Int /\ size \in Int /\ phase \in 0..BurstTime /\ ranAgo \in Int
        /\ app \in Caller
    BY <1>1, Constants DEF TunerInit, StreamInit, Never
  <2>2. input \in BOOLEAN /\ glitched \in BOOLEAN BY Zenon DEF TunerInit, StreamInit
  <2> QED BY <2>1, <2>2 DEF StreamTyped
<1>4. CallbacksApart /\ WakesInTime /\ Punctual
  BY <1>1 DEF TunerInit, StreamInit, CallbacksApart, WakesInTime, Punctual
<1>5. TunerInv
  <2>1. unserved = FALSE /\ unserved \in BOOLEAN BY Zenon DEF TunerInit
  <2>2. tuner = NewTuner /\ requests = 0 /\ responses = 0 BY DEF TunerInit
  <2>3. TunerTyped BY <1>2, <2>1, <2>2 DEF TunerTyped
  <2>4. RequestsAhead /\ WithinLimits
    BY <1>2, <2>1, <2>2 DEF RequestsAhead, WithinLimits
  <2> QED BY <2>3, <2>4 DEF TunerInv
<1> QED BY <1>3, <1>4, <1>5 DEF StreamInv

LEMMA TunerStep ==
  StreamInv /\ TunerInv /\ [TunerNext]_latencyVars => StreamInv' /\ TunerInv'
<1> SUFFICES ASSUME StreamInv, TunerInv, [TunerNext]_latencyVars
             PROVE  StreamInv' /\ TunerInv'
  OBVIOUS
<1>1. CASE UNCHANGED latencyVars
  BY <1>1, StreamUntouched, TunerUntouched DEF latencyVars, streamVars
<1>2. CASE TunerNext
  BY <1>2, RequestKeeps, ConstructKeeps, LoadKeeps, ResetKeeps, AdjustKeeps, ResizeKeeps,
     StreamKeeps DEF TunerNext, Tuning
<1> QED BY <1>1, <1>2

\* No blocking call of AudioStreamBuffered::transfer() sleeps a burst longer than
\* its timeout, or through two callbacks when it has predicted the next one,
\* while a tuner, resets from other threads and other sizes change what it waits
\* for.
THEOREM SleepsEnd == TunerSpec => []NoOversleep
<1>1. ASSUME StreamInv PROVE NoOversleep
  <2>1. app \in Caller BY <1>1 DEF StreamInv, StreamTyped
  <2>2. app.pc = "sleep" /\ app.predicted => app.passed < 2
    BY <1>1 DEF StreamInv, WakesInTime
  <2> QED BY <1>1, <2>1, <2>2 DEF StreamInv, Punctual, NoOversleep
<1>2. StreamInv => NoOversleep BY <1>1
<1> QED BY <1>2, TunerInitially, TunerStep, PTL DEF TunerSpec

\* A requestReset() of another thread is never forgotten, whatever tune() is
\* doing when it comes, and a tuned stream stays within its limits.
THEOREM ResetsAreServed == TunerSpec => []NoResetLost
<1>1. ASSUME TunerInv PROVE NoResetLost
  <2>1. requests \in Nat /\ responses \in Nat BY <1>1 DEF TunerInv, TunerTyped
  <2> QED BY <1>1, <2>1 DEF TunerInv, RequestsAhead, WithinLimits, NoResetLost
<1>2. TunerInv => NoResetLost BY <1>1
<1> QED BY <1>2, TunerInitially, TunerStep, PTL DEF TunerSpec
=============================================================================
