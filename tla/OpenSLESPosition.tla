-------------------------- MODULE OpenSLESPosition --------------------------
(***************************************************************************)
(* The two frame counters of an OpenSL ES stream with a data callback: the *)
(* client's, which processBufferCallback advances a buffer at a time, and  *)
(* the server's, which is calculated from the position in milliseconds     *)
(* that the player or recorder reports.  For an output stream the client's *)
(* is getFramesWritten() and the server's getFramesRead(); for an input    *)
(* stream the other way round.                                             *)
(*                                                                         *)
(* A call made under mLock is one step; a getter that finds mLock taken    *)
(* works with the position of the last one that did not.  MaxFrames bounds *)
(* the frames a stream handles.  PausesPlayback: the app pauses a started  *)
(* stream, and not only one that is not playing yet.                       *)
(***************************************************************************)
EXTENDS MonotonicCounter

CONSTANTS SampleRate, kMillisPerSecond, FramesPerCallback, MaxFrames, PausesPlayback

ASSUME RateAssumption == {SampleRate, kMillisPerSecond, FramesPerCallback} \subseteq Nat \ {0}
ASSUME BoundAssumption == MaxFrames \in Nat /\ PausesPlayback \in BOOLEAN

VARIABLES
  input,         \* the direction of the stream
  state,         \* mState
  queued,        \* frames OpenSL ES holds for the other side
  clientFrames,  \* mFramesWritten of an output stream, mFramesRead of an input one
  served,        \* frames the player or recorder has handled since the last stop
  position,      \* mPositionMillis
  reported,      \* the last getFramesRead() of an output, getFramesWritten() of an input
  highest,       \* the largest value reported so far
  base, seen     \* where position stood after the last stop, and the
                 \* milliseconds served when it was last updated since

posVars == <<input, state, queued, clientFrames, served, position, reported, highest,
          base, seen>>

MillisUp(frames) ==
  (frames * kMillisPerSecond + SampleRate - 1) \div SampleRate
Millis(frames) == (frames * kMillisPerSecond) \div SampleRate
Frames(millis) == (millis * SampleRate) \div kMillisPerSecond

PosInit == /\ input \in BOOLEAN /\ state = "Open"
           /\ queued = 0 /\ clientFrames = 0 /\ served = 0
           /\ position = Zero /\ reported = 0 /\ highest = 0 /\ base = 0 /\ seen = 0

Start == /\ state \in {"Open", "Stopped", "Paused"}
         /\ state' = "Started"
         /\ UNCHANGED <<input, queued, clientFrames, served, position, reported, highest,
                        base, seen>>

\* The app's callback has filled, or emptied, a buffer.
Callback ==
  /\ state = "Started" /\ clientFrames + FramesPerCallback <= MaxFrames
  /\ IF input THEN queued >= FramesPerCallback /\ queued' = queued - FramesPerCallback
              ELSE queued <= FramesPerCallback /\ queued' = queued + FramesPerCallback
  /\ clientFrames' = clientFrames + FramesPerCallback
  /\ UNCHANGED <<input, state, served, position, reported, highest, base, seen>>

\* OpenSL ES plays or records a frame.  The app asks for the position before
\* it has advanced by half the range of the counter (MonotonicCounter.h).
Serve ==
  /\ state = "Started" /\ served < MaxFrames
  /\ Millis(served + 1) - seen < Half
  /\ IF input THEN queued < 2 * FramesPerCallback /\ queued' = queued + 1
              ELSE queued > 0 /\ queued' = queued - 1
  /\ served' = served + 1
  /\ UNCHANGED <<input, state, clientFrames, position, reported, highest, base, seen>>

\* updateServiceFrameCounter, if it gets the lock, and getFramesProcessedByServer
Query(locked) ==
  /\ state # "Closed"
  /\ position' = IF locked THEN Update32(position, Wrap(Millis(served))) ELSE position
  /\ seen' = IF locked THEN Millis(served) ELSE seen
  /\ reported' = Frames(position'.c64)
  /\ highest' = IF reported' > highest THEN reported' ELSE highest
  /\ UNCHANGED <<input, state, queued, clientFrames, served, base>>

\* setFramesRead(getFramesWritten())
CatchUp == Set(position, Millis(clientFrames))

\* requestPause_l of an output stream: the position is not reset.
Pause == /\ ~input /\ state \notin {"Paused", "Closed"}
         /\ PausesPlayback \/ state # "Started"
         /\ position' = CatchUp
         /\ state' = "Paused"
         /\ UNCHANGED <<input, queued, clientFrames, served, reported, highest, base, seen>>

\* requestFlush is not implemented for an input stream.
Flush == /\ ~input /\ state # "Closed"
         /\ queued' = 0
         /\ UNCHANGED <<input, state, clientFrames, served, position, reported, highest,
                        base, seen>>

\* requestStop: OpenSL ES goes back to zero.  Only an output stream clears its
\* queue and catches up with the client.
Stop == /\ state \notin {"Stopped", "Closed"}
        /\ position' = Reset32(IF input THEN position ELSE CatchUp)
        /\ queued' = IF input THEN queued ELSE 0
        /\ served' = 0 /\ seen' = 0 /\ base' = position'.c64
        /\ state' = "Stopped"
        /\ UNCHANGED <<input, clientFrames, reported, highest>>

\* close() pauses an output stream and stops an input one, and calculates the
\* server's counter for the last time, without the position: it holds mLock.
Close ==
  /\ state # "Closed"
  /\ state' = "Closed"
  /\ position' = IF input \/ state = "Paused" THEN position ELSE CatchUp
  /\ reported' = Frames(position'.c64)
  /\ highest' = IF reported' > highest THEN reported' ELSE highest
  /\ UNCHANGED <<input, queued, clientFrames, served, base, seen>>

PosDone == state = "Closed" /\ UNCHANGED posVars

PosNext == \/ Start \/ Callback \/ Serve \/ Pause \/ Flush \/ Stop \/ Close \/ PosDone
           \/ \E locked \in BOOLEAN : Query(locked)

PosSpec == PosInit /\ [][PosNext]_posVars
-----------------------------------------------------------------------------
\* "This monotonic counter will never get reset": what the application is told
\* of the server's progress never goes back, through stops and restarts, wraps
\* of the 32-bit position and getters that could not read it.
FramesServedMonotonic == reported = highest

\* A getter that can read the position is exact to the millisecond: all that
\* was served since the last stop is counted, once, also when the 32-bit
\* position has wrapped or started again from zero.
PositionTracked == state # "Closed" => position.c64 = base + seen

\* The server of an output stream is never reported ahead of what the app has
\* written, so getAvailableFrames and latency never go negative, whatever the
\* rounding between frames and milliseconds.
NeverAhead == ~input => reported <= clientFrames

\* The reported position of an OpenSL ES stream follows the device's, and the
\* application never reads or writes frames the device has not got to.
PositionHonest == PositionTracked /\ NeverAhead
=============================================================================
