---------------------------- MODULE AAudioStream ----------------------------
(***************************************************************************)
(* AudioStreamAAudio: the wrapper around an AAudio stream, as its threads  *)
(* see it once it is open and in use with a data callback.                 *)
(*                                                                         *)
(* Threads: the application's (App); AAudio's real-time callback thread;   *)
(* the detached thread that handles a disconnect; and, up to Android R,    *)
(* the detached threads that stop the stream for a callback that returned  *)
(* Stop (Stoppers).  They share the handle mAAudioStream, the mutex mLock  *)
(* of start/stop/close and the shared_mutex mAAudioStreamLock of the       *)
(* getters, always taken in that order.                                    *)
(*                                                                         *)
(* A step of a thread is one call on the AAudio library or one lock        *)
(* operation, so another thread may run between loading the handle and     *)
(* using it.  The application follows AudioStreamCallback.h: a data        *)
(* callback calls getters only.  MaxCalls bounds the application's calls,  *)
(* Stoppers the stop threads alive at one time.                            *)
(***************************************************************************)
EXTENDS Integers, FiniteSets, TLC

CONSTANTS App, Stoppers, NoThread,
          Sdk,           \* getSdkVersion()
          Workarounds,   \* OboeGlobals::areWorkaroundsEnabled()
          HandlesErrors, \* the app overrides onError() and may return true
          MaxCalls

OMR1 == 27               \* __ANDROID_API_O_MR1__
R == 30                  \* __ANDROID_API_R__

ASSUME SdkAssumption == Sdk \in Nat
ASSUME FlagAssumption == Workarounds \in BOOLEAN /\ HandlesErrors \in BOOLEAN
ASSUME ThreadAssumption ==
  /\ {"callback", "error"} \cap (App \cup Stoppers) = {}
  /\ App \cap Stoppers = {}
  /\ NoThread \notin App \cup Stoppers \cup {"callback", "error"}

Thread == App \cup Stoppers \cup {"callback", "error"}

VARIABLES
  aaudio,        \* state of the underlying stream, or "Freed"
  handle,        \* mAAudioStream is not null
  mLock,         \* the thread that holds mLock, or NoThread
  th,            \* per thread: where it is, in which call, with what locals
  callback,      \* progress of a data callback
  firing,        \* AAudio may begin a data callback
  enabled,       \* mDataCallbackEnabled
  stopAllowed,   \* mStopThreadAllowed
  errorCalled,   \* mErrorCallbackCalled
  appStopped,    \* onAudioReady returned Stop and no start came since
  errorPhase,    \* progress of oboe_aaudio_error_thread_proc_shared
  owned,         \* the app still holds its shared_ptr
  appCalls       \* calls the app has made

\* What only the callbacks and the error thread change, and the app's own.
flags == <<firing, enabled, stopAllowed, errorCalled, appStopped>>
phases == <<callback, errorPhase, owned, appCalls>>
aaVars == <<aaudio, handle, mLock, th, flags, phases>>

Running == {"Starting", "Started"}
Transient == {"Starting", "Pausing", "Flushing", "Stopping"}
StreamState == Transient \cup {"Open", "Started", "Paused", "Flushed", "Stopped",
                               "Disconnected", "Freed"}
Request == {"start", "pause", "flush", "stop"}

Quiet == [pc |-> "idle", op |-> "none", has |-> FALSE, seen |-> "Open"]
\* A stop thread that is not running; every other thread is idle between calls.
Parked(t) == IF t \in Stoppers THEN [Quiet EXCEPT !.pc = "none"] ELSE Quiet

AaInit == /\ aaudio = "Open" /\ handle = TRUE /\ mLock = NoThread
          /\ th = [t \in Thread |-> Parked(t)]
          /\ firing = FALSE /\ enabled = FALSE /\ stopAllowed = FALSE
          /\ errorCalled = FALSE /\ appStopped = FALSE
          /\ callback = "idle" /\ errorPhase = "none" /\ owned = TRUE /\ appCalls = 0

IsAt(t, pc) == th[t].pc = pc
In(t, pc, op) == IsAt(t, pc) /\ th[t].op = op
MoveTo(t, pc) == th' = [th EXCEPT ![t].pc = pc]

\* libc++'s shared_mutex lets no reader in while a writer waits.
Readers == {t \in Thread : th[t].pc \in {"shared", "both"}}
WriterWaiting == \E t \in Thread : IsAt(t, "closeWait")

\* OBOE_FIX_FORCE_STARTING_TO_STARTED
Reported(s) == IF Workarounds /\ s = "Starting" THEN "Started" ELSE s
-----------------------------------------------------------------------------
(* AAudio itself, as the calls in this file use it. *)

Entered(request) ==
  CASE request = "start" /\ aaudio \in StreamState \ {"Disconnected"} -> "Starting"
    [] request = "pause" /\ aaudio \in Running -> "Pausing"
    [] request = "flush" /\ aaudio = "Paused" -> "Flushing"
    [] request = "stop" /\ aaudio \notin {"Disconnected", "Stopped"} -> "Stopping"
    [] OTHER -> aaudio

Settled == [s \in Transient |->
              CASE s = "Starting" -> "Started" [] s = "Pausing" -> "Paused"
                [] s = "Flushing" -> "Flushed" [] s = "Stopping" -> "Stopped"]

Settle == /\ aaudio \in Transient
          /\ aaudio' = Settled[aaudio]
          /\ UNCHANGED <<handle, mLock, th, flags, phases>>

Disconnect == /\ aaudio \notin {"Disconnected", "Freed"}
              /\ aaudio' = "Disconnected"
              /\ UNCHANGED <<handle, mLock, th, flags, phases>>
\* "Sometimes a callback can occur shortly after a stream has been stopped and
\* even after a close!"  Shortly after is over at some time.
Fade == /\ firing /\ aaudio \notin Running
        /\ firing' = FALSE
        /\ UNCHANGED <<aaudio, handle, mLock, th, enabled, stopAllowed, errorCalled,
                       appStopped, phases>>
-----------------------------------------------------------------------------
(* Calls under mLock. *)

\* lock_guard, then mAAudioStream.load()
LockForCall(t, op) ==
  /\ IsAt(t, "idle") /\ mLock = NoThread
  /\ mLock' = t
  /\ th' = [th EXCEPT ![t] = [Quiet EXCEPT !.pc = "locked", !.op = op,
                                           !.has = handle]]
  /\ UNCHANGED <<aaudio, handle, flags>>

\* Up to O_MR1 a request that is already under way or done is not repeated.
Redundant(request) ==
  /\ Sdk <= OMR1
  /\ aaudio \in CASE request = "start" -> {"Starting", "Started"}
                  [] request = "pause" -> {"Pausing", "Paused"}
                  [] request = "flush" -> {"Flushing", "Flushed"}
                  [] request = "stop"  -> {"Stopping", "Stopped"}

\* The body of requestStart, requestPause, requestFlush and requestStop.  An
\* app that called start(), pause(), flush() or stop() instead goes on to
\* waitForStateTransition when the request succeeds.
RequestBody(t) ==
  LET request == th[t].op
      acts == th[t].has /\ ~Redundant(request)
  IN  /\ IsAt(t, "locked") /\ request \in Request
      /\ aaudio' = IF acts THEN Entered(request) ELSE aaudio
      /\ firing' = (firing \/ aaudio' \in Running)
      /\ enabled' = (enabled \/ (acts /\ request = "start"))
      /\ stopAllowed' = (stopAllowed \/ (acts /\ request = "start"))
      /\ appStopped' = (appStopped /\ ~(acts /\ request = "start"))
      /\ mLock' = NoThread
      /\ \/ th' = [th EXCEPT ![t] = Parked(t)]
         \/ /\ t \in App /\ th[t].has /\ aaudio # "Disconnected"
            /\ MoveTo(t, "transition")
      /\ UNCHANGED <<handle, errorCalled, phases>>

\* The state start(), pause(), flush() and stop() wait to be left.
Awaited == [start |-> "Starting", pause |-> "Pausing", flush |-> "Flushing",
            stop |-> "Stopping"]

\* waitForStateTransition: takes mLock, then the getter's lock in getState().
QueryLock(t) == /\ IsAt(t, "transition") /\ mLock = NoThread /\ ~WriterWaiting
                /\ mLock' = t
                /\ th' = [th EXCEPT ![t].pc = "both", ![t].has = handle]
                /\ UNCHANGED <<aaudio, handle, flags, phases>>

QueryState(t) ==
  /\ IsAt(t, "both")
  /\ LET state == IF th[t].has THEN Reported(aaudio) ELSE "Freed"
     IN  th' = IF state = Awaited[th[t].op]
               THEN [th EXCEPT ![t].pc = "sleeping", ![t].seen = state]
               ELSE [th EXCEPT ![t] = Quiet]
  /\ mLock' = NoThread
  /\ UNCHANGED <<aaudio, handle, flags, phases>>

\* waitForStateChange: polls under mLock, sleeps without it.
PollLock(t) == /\ IsAt(t, "sleeping") /\ mLock = NoThread
               /\ mLock' = t
               /\ th' = [th EXCEPT ![t].pc = "polling", ![t].has = handle]
               /\ UNCHANGED <<aaudio, handle, flags, phases>>

\* The state changed, the stream was closed, or the time is up: return.
PollReturn(t) == /\ IsAt(t, "polling")
                 /\ mLock' = NoThread
                 /\ th' = [th EXCEPT ![t] = Quiet]
                 /\ UNCHANGED <<aaudio, handle, flags, phases>>

PollAgain(t) == /\ IsAt(t, "polling") /\ th[t].has /\ Reported(aaudio) = th[t].seen
                /\ mLock' = NoThread
                /\ MoveTo(t, "sleeping")
                /\ UNCHANGED <<aaudio, handle, flags, phases>>
-----------------------------------------------------------------------------
(* Getters, setBufferSizeInFrames and isMMapUsed: under the shared lock. *)

\* A getter that takes mLock.
GetterLockOff(t) == /\ IsAt(t, "idle") /\ ~WriterWaiting /\ mLock = NoThread
                    /\ th' = [th EXCEPT ![t] = [Quiet EXCEPT !.pc = "shared",
                                                             !.has = handle]]
                    /\ UNCHANGED <<aaudio, handle, mLock, flags>>

GetterLock(t) == /\ IsAt(t, "idle") /\ ~WriterWaiting
                 /\ th' = [th EXCEPT ![t] = [Quiet EXCEPT !.pc = "shared",
                                                          !.has = handle]]
                 /\ UNCHANGED <<aaudio, handle, mLock, flags>>

GetterReturn(t) == /\ IsAt(t, "shared")
                   /\ th' = [th EXCEPT ![t] = Quiet]
                   /\ UNCHANGED <<aaudio, handle, mLock, flags, phases>>
-----------------------------------------------------------------------------
(* close() *)

\* AudioStream::close() reads both counters through the getters' lock.
CloseUpdate(t) == /\ In(t, "locked", "close")
                  /\ MoveTo(t, "closeWait")
                  /\ UNCHANGED <<aaudio, handle, mLock, flags, phases>>

\* Without mAAudioStreamLock.
CloseExchangeUnlocked(t) ==
  /\ IsAt(t, "closeWait")
  /\ handle' = FALSE
  /\ th' = IF handle THEN [th EXCEPT ![t].pc = "closeStop", ![t].has = TRUE]
                     ELSE [th EXCEPT ![t] = Quiet]
  /\ mLock' = IF handle THEN mLock ELSE NoThread
  /\ UNCHANGED <<aaudio, flags, phases>>

\* The unique lock, held for the exchange only.
CloseExchange(t) ==
  /\ IsAt(t, "closeWait") /\ Readers = {}
  /\ handle' = FALSE
  /\ th' = IF handle THEN [th EXCEPT ![t].pc = "closeStop", ![t].has = TRUE]
                     ELSE [th EXCEPT ![t] = Quiet]
  /\ mLock' = IF handle THEN mLock ELSE NoThread
  /\ UNCHANGED <<aaudio, flags, phases>>

CloseStopOff(t) == /\ IsAt(t, "closeStop")
                   /\ MoveTo(t, "closeSleep")
                   /\ UNCHANGED <<aaudio, handle, mLock, flags, phases>>

CloseStop(t) == /\ IsAt(t, "closeStop")
                /\ aaudio' = IF Workarounds /\ ~Redundant("stop")
                             THEN Entered("stop") ELSE aaudio
                /\ MoveTo(t, "closeSleep")
                /\ UNCHANGED <<handle, mLock, flags, phases>>

\* Without the delay.
CloseJoinAtOnce(t) == /\ IsAt(t, "closeSleep")
                      /\ MoveTo(t, "closeJoin")
                      /\ UNCHANGED <<aaudio, handle, mLock, flags, phases>>

\* kDelayBeforeCloseMillis is chosen to outlast the callbacks of a stream that
\* has really been stopped; one that runs calls back through it.
CloseJoin(t) == /\ IsAt(t, "closeSleep")
                /\ Workarounds /\ firing => aaudio \in Running
                /\ MoveTo(t, "closeJoin")
                /\ UNCHANGED <<aaudio, handle, mLock, flags, phases>>

\* stream_close() joins the callback in progress ("we assume that the stream
\* close() will join() any active callback threads") and frees the stream.
CloseFree(t) == /\ IsAt(t, "closeJoin") /\ callback = "idle"
                /\ aaudio' = "Freed" /\ mLock' = NoThread
                /\ th' = [th EXCEPT ![t] = Quiet]
                /\ UNCHANGED <<handle, flags, phases>>
-----------------------------------------------------------------------------
(* The data callback: callOnAudioReady and fireDataCallback. *)

CallbackBegin ==
  /\ callback = "idle" /\ firing
  /\ callback' = IF enabled THEN "inApp" ELSE "stop"
  /\ UNCHANGED <<aaudio, handle, mLock, th, flags, errorPhase, owned, appCalls>>

\* onAudioReady may call getters and setBufferSizeInFrames.
CallbackQuery == /\ callback = "inApp"
                 /\ GetterLock("callback")
                 /\ callback' = "queried"
                 /\ UNCHANGED <<errorPhase, owned, appCalls>>

CallbackReturnOff(result) ==
  /\ callback = "queried" /\ IsAt("callback", "idle")
  /\ appStopped' = (appStopped \/ result = "Stop")
  /\ callback' = IF result = "Continue" THEN "idle" ELSE "stop"
  /\ UNCHANGED <<aaudio, handle, mLock, th, firing, enabled, stopAllowed, errorCalled,
                 errorPhase, owned, appCalls>>

CallbackReturn(result) ==
  /\ callback = "queried" /\ IsAt("callback", "idle")
  /\ enabled' = (result = "Continue")
  /\ appStopped' = (appStopped \/ result = "Stop")
  /\ callback' = IF result = "Continue" THEN "idle" ELSE "stop"
  /\ UNCHANGED <<aaudio, handle, mLock, th, firing, stopAllowed, errorCalled,
                 errorPhase, owned, appCalls>>

\* After a Stop: up to R a stop thread is launched, once per start, and AAudio
\* is told to continue; later AAudio stops the stream by itself.
CallbackStop ==
  /\ callback = "stop"
  /\ callback' = "idle"
  /\ IF Workarounds /\ Sdk <= R
     THEN /\ stopAllowed' = FALSE
          /\ IF stopAllowed
             THEN \E s \in Stoppers : IsAt(s, "none") /\ MoveTo(s, "idle")
             ELSE UNCHANGED th
          /\ UNCHANGED aaudio
     ELSE /\ aaudio' = IF aaudio \in Running THEN Entered("stop") ELSE aaudio
          /\ UNCHANGED <<stopAllowed, th>>
  /\ UNCHANGED <<handle, mLock, firing, enabled, errorCalled, appStopped, errorPhase,
                 owned, appCalls>>

\* oboe_stop_thread_proc
StopThread(s) == LockForCall(s, "stop") /\ UNCHANGED phases
-----------------------------------------------------------------------------
(* The error path.  The thread it starts holds a shared_ptr to the stream. *)

\* internalErrorCallback: AAudio may report a disconnect more than once.
ErrorCallback ==
  /\ aaudio = "Disconnected"
  /\ errorCalled' = TRUE
  /\ errorPhase' = IF ~errorCalled /\ handle THEN "onError" ELSE errorPhase
  /\ UNCHANGED <<aaudio, handle, mLock, th, firing, enabled, stopAllowed, appStopped,
                 callback, owned, appCalls>>

\* onError() returns true only when the app says it takes care of the rest.
ErrorHandled == /\ errorPhase = "onError" /\ HandlesErrors
                /\ errorPhase' = "done"
                /\ UNCHANGED <<aaudio, handle, mLock, th, flags, callback, owned, appCalls>>

ErrorStop == /\ errorPhase = "onError"
             /\ LockForCall("error", "stop")
             /\ errorPhase' = "beforeClose"
             /\ UNCHANGED <<callback, owned, appCalls>>

\* The close is left to the application.
ErrorBeforeCloseOff == /\ errorPhase = "beforeClose"
                       /\ GetterLock("error")
                       /\ errorPhase' = "afterClose"
                       /\ UNCHANGED <<callback, owned, appCalls>>

\* onErrorBeforeClose and onErrorAfterClose may query the stream.
ErrorBeforeClose == /\ errorPhase = "beforeClose"
                    /\ GetterLock("error")
                    /\ errorPhase' = "close"
                    /\ UNCHANGED <<callback, owned, appCalls>>

ErrorClose == /\ errorPhase = "close"
              /\ LockForCall("error", "close")
              /\ errorPhase' = "afterClose"
              /\ UNCHANGED <<callback, owned, appCalls>>

ErrorAfterClose == /\ errorPhase = "afterClose"
                   /\ GetterLock("error")
                   /\ errorPhase' = "done"
                   /\ UNCHANGED <<callback, owned, appCalls>>
-----------------------------------------------------------------------------
(* The application. *)

AppCall(t) == /\ owned /\ appCalls < MaxCalls
              /\ appCalls' = appCalls + 1
              /\ \/ \E op \in Request \cup {"close"} : LockForCall(t, op)
                 \/ GetterLock(t)
              /\ UNCHANGED <<callback, errorPhase, owned>>

\* The app drops its shared_ptr once the stream is closed and no call is left.
AppRelease == /\ owned /\ ~handle /\ \A t \in App : IsAt(t, "idle")
              /\ owned' = FALSE
              /\ UNCHANGED <<aaudio, handle, mLock, th, flags, callback, errorPhase,
                             appCalls>>

Locking(t) == QueryLock(t) \/ PollLock(t)
Stepping(t) == \/ RequestBody(t) \/ QueryState(t) \/ PollAgain(t) \/ PollReturn(t)
               \/ GetterReturn(t) \/ CloseUpdate(t) \/ CloseExchange(t)
               \/ CloseStop(t) \/ CloseJoin(t) \/ CloseFree(t)

AaDone == ~owned /\ UNCHANGED aaVars

AaNext == \/ Settle \/ Disconnect \/ Fade
          \/ \E t \in Thread : Locking(t) \/ Stepping(t)
          \/ CallbackBegin \/ CallbackQuery \/ CallbackStop
          \/ \E result \in {"Continue", "Stop"} : CallbackReturn(result)
          \/ \E s \in Stoppers : StopThread(s)
          \/ ErrorCallback
          \/ errorPhase = "onError" /\ (ErrorHandled \/ ErrorStop)
          \/ ErrorBeforeClose \/ ErrorClose \/ ErrorAfterClose
          \/ \E t \in App : AppCall(t)
          \/ AppRelease \/ AaDone

AaSpec == AaInit /\ [][AaNext]_aaVars

\* A thread that is not waiting goes on; a lock that is released again and
\* again is granted in the end; a poll with a timeout ends; AAudio reports a
\* disconnect, and a stopped stream does not call back for ever.  Nothing makes
\* the app call, or AAudio call back.
Fairness ==
  /\ \A t \in Thread : WF_aaVars(Stepping(t)) /\ SF_aaVars(Locking(t))
                       /\ SF_aaVars(PollReturn(t))
  /\ WF_aaVars(CallbackStop) /\ SF_aaVars(CallbackQuery)
  /\ WF_aaVars(\E result \in {"Continue", "Stop"} : CallbackReturn(result))
  /\ WF_aaVars(ErrorCallback) /\ WF_aaVars(Fade)
  /\ SF_aaVars(ErrorStop) /\ SF_aaVars(ErrorBeforeClose) /\ SF_aaVars(ErrorClose)

AaFairSpec == AaSpec /\ Fairness
-----------------------------------------------------------------------------
AaWhere == {"idle", "none", "locked", "transition", "both", "sleeping", "polling",
          "shared", "closeWait", "closeStop", "closeSleep", "closeJoin"}

\* Threads inside a call on the AAudio stream; AAudio runs the callback itself.
Inside(t) == IF t = "callback" THEN callback # "idle"
             ELSE th[t].has /\ th[t].pc \in {"locked", "shared", "both", "polling",
                                            "closeStop"}

Promise == INSTANCE ClosableStream WITH alive <- aaudio # "Freed",
                                        users <- {t \in Thread : Inside(t)}

\* Whatever the threads do, the stream is freed once and no call on it, and no
\* data callback of it, is in progress or begins after that: what mLock,
\* mAAudioStreamLock, the exchange of the handle and, against callbacks that
\* come late, the stop and the delay before stream_close() are there for.
StreamOutlivesCalls == Promise!CSpec

\* Once onAudioReady has returned Stop it is not called again before the next
\* start, though AAudio may go on calling (AudioStream.cpp, "On Oreo"); and
\* however often AAudio reports a disconnect the error path starts at most once
\* ("Only one of these threads will be launched").
NoCallbackAfterStop ==
  [][/\ callback # "inApp" /\ callback' = "inApp" => ~appStopped
     /\ errorPhase # "onError" /\ errorPhase' = "onError" => errorPhase = "none"]_aaVars

\* The object is deleted when the app and the error thread have dropped it.
Deleted == ~owned /\ errorPhase \in {"none", "done"} /\ IsAt("error", "idle")

\* "The shared_ptr is used internally by Oboe to prevent the stream from being
\* deleted while it is being used by callbacks": nothing that a callback
\* started still runs on the stream when it is deleted.
NoThreadOutlivesStream ==
  Deleted => callback = "idle" /\ \A s \in Stoppers : IsAt(s, "none")

\* A close() always returns: no lock it needs is held by a thread that waits
\* for it, and the callback it joins does not wait for the closer.
CloseReturns ==
  \A t \in App : In(t, "locked", "close") ~> IsAt(t, "idle")

\* A disconnected stream is closed by Oboe, whatever the app's threads are in
\* the middle of, when the app leaves the error to it.
DisconnectCloses == aaudio = "Disconnected" ~> aaudio = "Freed"
-----------------------------------------------------------------------------
\* The threads of a kind are interchangeable.
AppSymmetry == Permutations(App)
AaSymmetry == AppSymmetry \cup Permutations(Stoppers)
=============================================================================
