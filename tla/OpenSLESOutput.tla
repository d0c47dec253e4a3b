--------------------------- MODULE OpenSLESOutput ---------------------------
(***************************************************************************)
(* AudioOutputStreamOpenSLES with its base AudioStreamOpenSLES: start,     *)
(* pause, flush, stop and close from application threads, against the      *)
(* thread on which OpenSL ES reports that a buffer has been played.        *)
(*                                                                         *)
(* Everything done under mLock is one step, except in close(), which holds *)
(* the lock while Destroy joins the callback, and where the holder locks   *)
(* it again.  What the code does without the lock is a step at a time: the *)
(* whole of processBufferCallback, which requestStart also calls itself to *)
(* prime an empty queue.  The position counters are in OpenSLESPosition.   *)
(*                                                                         *)
(* A calm program: one thread makes the calls, starts the stream only when *)
(* nothing of an earlier run is left - no callback in progress, no buffer  *)
(* queued - and flushes only a stream that is not started; its callback    *)
(* never returns Stop, and OpenSL ES never fails.  Any other program does  *)
(* all of this.  MaxCalls bounds the application's calls.                  *)
(***************************************************************************)
EXTENDS Integers, Sequences, FiniteSets

CONSTANTS App, Main, Nobody, MaxCalls

ASSUME AppAssumption == /\ Main \in App /\ "callback" \notin App
                        /\ Nobody \notin App \cup {"callback"}

kBufferQueueLength == 2

Thread == App \cup {"callback"}

VARIABLES
  calm,         \* whether the program is a calm one
  state,        \* mState
  player,       \* state of the OpenSL ES player, "Destroyed" at the end
  queue,        \* indices of the buffers OpenSL ES has to play, in order
  bufferIndex,  \* mCallbackBufferIndex
  enabled,      \* mDataCallbackEnabled
  mLock,        \* the thread that holds mLock, or Nobody
  th,           \* per thread: where it is, and the buffer it was given to fill
  calls         \* calls the app has made

device == <<player, queue>>
outputVars == <<calm, state, device, bufferIndex, enabled, mLock, th, calls>>

NoCall == [pc |-> "idle", buf |-> 0]

OutputInit ==
  /\ calm \in BOOLEAN /\ state = "Open" /\ player = "Stopped" /\ queue = << >>
  /\ bufferIndex = 0 /\ enabled = FALSE
  /\ mLock = Nobody /\ th = [t \in Thread |-> NoCall] /\ calls = 0

At(t, pc) == th[t].pc = pc
GoTo(t, pc) == th' = [th EXCEPT ![t].pc = pc]

\* setPlayState_l(new), and setState(reached) if it succeeds; the state is
\* put back if it fails.  mPlayInterface is null only for the thread that
\* closes, and once the state is Closed: the checks for it never decide.
SetPlayStateOff(new, reached) ==
  \/ player' = new /\ state' = reached
  \/ ~calm /\ state' = reached /\ UNCHANGED player

SetPlayState(new, reached) ==
  \/ player' = new /\ state' = reached
  \/ ~calm /\ UNCHANGED <<player, state>>
-----------------------------------------------------------------------------
(* The calls of the application. *)

\* requestStart, up to the unlock
RequestStart(t) ==
  /\ mLock = Nobody
  /\ calm => At("callback", "idle") /\ queue = << >>
  /\ IF state \in {"Started", "Closed"}
     THEN UNCHANGED <<state, player, enabled, th>>
     ELSE /\ SetPlayState("Playing", "Started")
          /\ enabled' = TRUE
          /\ IF state' = "Started" THEN GoTo(t, "depth") ELSE UNCHANGED th
  /\ UNCHANGED <<queue, bufferIndex, mLock>>

StartDepthUnprimed(t) ==
  /\ At(t, "depth")
  /\ GoTo(t, "idle")
  /\ UNCHANGED <<state, device, bufferIndex, enabled, mLock, calls>>

\* getBufferDepth, without the lock: an empty queue is primed from here.
StartDepth(t) ==
  /\ At(t, "depth")
  /\ GoTo(t, IF queue = << >> THEN "fire" ELSE "idle")
  /\ UNCHANGED <<state, device, bufferIndex, enabled, mLock, calls>>

Pause_l == IF state \in {"Paused", "Closed"} THEN UNCHANGED <<state, player>>
           ELSE SetPlayState("Paused", "Paused")

Pause(t) == /\ mLock = Nobody
            /\ Pause_l
            /\ UNCHANGED <<queue, bufferIndex, enabled, mLock, th>>

\* requestFlush, when it gets the lock
Flush(t) == /\ mLock = Nobody
            /\ calm => state # "Started"
            /\ \/ /\ state # "Closed" /\ queue' = << >>
               \/ (state = "Closed" \/ ~calm) /\ UNCHANGED queue
            /\ UNCHANGED <<state, player, bufferIndex, enabled, mLock, th>>

\* requestStop.  When the flush fails the message that is logged evaluates
\* flush(), which locks mLock again: the thread waits for itself.
RequestStop(t, next) ==
  /\ mLock = Nobody
  /\ \/ /\ state \in {"Stopping", "Stopped", "Closed"} \/ ~calm
        /\ UNCHANGED <<state, device, mLock>>
        /\ GoTo(t, next)
     \/ /\ state \notin {"Stopping", "Stopped", "Closed"}
        /\ player' = "Stopped"
        /\ \/ /\ queue' = << >> /\ state' = "Stopped" /\ GoTo(t, next)
              /\ UNCHANGED mLock
           \/ /\ ~calm /\ state' = "Stopping" /\ mLock' = t /\ GoTo(t, "stuck")
              /\ UNCHANGED queue
  /\ UNCHANGED <<enabled>>

\* close, up to Destroy: pause the player and read the counters.
CloseBegin(t) ==
  /\ mLock = Nobody
  /\ IF state = "Closed"
     THEN UNCHANGED <<state, player, mLock, th>>
     ELSE /\ Pause_l
          /\ mLock' = t
          /\ GoTo(t, "destroying")
  /\ UNCHANGED <<queue, bufferIndex, enabled>>

\* Destroy starts no new callback and joins the one in progress.
CloseEnd(t) ==
  /\ At(t, "destroying") /\ At("callback", "idle")
  /\ player' = "Destroyed" /\ queue' = << >> /\ state' = "Closed"
  /\ mLock' = Nobody
  /\ GoTo(t, "idle")
  /\ UNCHANGED <<bufferIndex, enabled, calls>>
-----------------------------------------------------------------------------
(* OpenSL ES, and processBufferCallback on its thread or in requestStart. *)

BufferPlayed ==
  /\ player = "Playing" /\ queue # << >>
  /\ At("callback", "idle") /\ \A t \in App : ~At(t, "destroying")
  /\ queue' = Tail(queue)
  /\ GoTo("callback", "fire")
  /\ UNCHANGED <<state, player, bufferIndex, enabled, mLock, calls>>

\* fireDataCallback: a disabled callback counts as a Stop.
Fire(t) ==
  /\ At(t, "fire")
  /\ th' = [th EXCEPT ![t] = [pc |-> IF enabled THEN "inApp" ELSE "stop",
                              buf |-> bufferIndex]]
  /\ UNCHANGED <<state, device, bufferIndex, enabled, mLock, calls>>

\* The app has asked for getFramesRead, which waited for mLock.
AppReturnBlocked(t, result) ==
  /\ At(t, "inApp") /\ mLock = Nobody
  /\ enabled' = (result = "Continue")
  /\ GoTo(t, IF result = "Continue" THEN "enqueue" ELSE "stop")
  /\ UNCHANGED <<state, device, bufferIndex, mLock, calls>>

\* The app may ask for getFramesRead, which only tries to lock mLock and goes
\* on without it.
AppReturn(t, result) ==
  /\ At(t, "inApp")
  /\ enabled' = (result = "Continue")
  /\ GoTo(t, IF result = "Continue" THEN "enqueue" ELSE "stop")
  /\ UNCHANGED <<state, device, bufferIndex, mLock, calls>>

\* enqueueCallbackBuffer; a queue that is full, or gone, refuses the buffer.
Enqueue(t) ==
  /\ At(t, "enqueue")
  /\ IF Len(queue) < kBufferQueueLength /\ player # "Destroyed"
     THEN queue' = Append(queue, bufferIndex) /\ GoTo(t, "idle")
     ELSE UNCHANGED queue /\ GoTo(t, "stop")
  /\ bufferIndex' = (bufferIndex + 1) % kBufferQueueLength
  /\ UNCHANGED <<state, player, enabled, mLock, calls>>

\* requestStop from the callback, then mCallbackBufferIndex = 0.
CallbackStop(t) == /\ At(t, "stop")
                   /\ RequestStop(t, "stopped")
                   /\ UNCHANGED <<bufferIndex, calls>>

ResetIndex(t) == /\ At(t, "stopped")
                 /\ bufferIndex' = 0
                 /\ GoTo(t, "idle")
                 /\ UNCHANGED <<state, device, enabled, mLock, calls>>
-----------------------------------------------------------------------------
AppCall(t) ==
  /\ At(t, "idle") /\ calls < MaxCalls /\ (calm => t = Main)
  /\ calls' = calls + 1 /\ UNCHANGED calm
  /\ \/ RequestStart(t) \/ Pause(t) \/ Flush(t) \/ CloseBegin(t)
     \/ RequestStop(t, "idle") /\ UNCHANGED bufferIndex

Results == IF calm THEN {"Continue"} ELSE {"Continue", "Stop"}

Stepping(t) == /\ \/ StartDepth(t) \/ Fire(t) \/ Enqueue(t) \/ ResetIndex(t)
                  \/ \E result \in Results : AppReturn(t, result)
                  \/ CallbackStop(t) \/ CloseEnd(t)
               /\ UNCHANGED calm

Through == calls = MaxCalls /\ (\A t \in Thread : At(t, "idle")) /\ UNCHANGED outputVars

OutputNext == \/ \E t \in App : AppCall(t)
              \/ \E t \in Thread : Stepping(t)
              \/ BufferPlayed /\ UNCHANGED calm
              \/ Through

OutputSpec == OutputInit /\ [][OutputNext]_outputVars
-----------------------------------------------------------------------------
\* A started stream of a calm program never falls silent: once every thread is through
\* there is a buffer to play, whose end will call the callback again.
StartedKeepsPlaying ==
  calm /\ state = "Started" /\ (\A t \in Thread : At(t, "idle"))
    => player = "Playing" /\ queue # << >>

\* Whenever the lock is free the state the stream reports is the one its player
\* is in, also after a call that failed half way.
StateMatchesPlayer ==
  mLock = Nobody => player = CASE state = "Started" -> "Playing"
                               [] state = "Paused" -> "Paused"
                               [] state = "Closed" -> "Destroyed"
                               [] OTHER -> "Stopped"

\* "Avoid deadlock if another thread is trying to stop or close this stream and
\* this is being called from a callback": the callback never waits for the lock
\* whose holder waits for the callback.
NoCircularWait ==
  \A t \in App : ~(At(t, "destroying") /\ At("callback", "stop"))

\* A close() of a calm program always returns, whatever the callback is doing.
CloseReturns == calm => (At(Main, "destroying") ~> At(Main, "idle"))
=============================================================================
