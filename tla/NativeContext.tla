---------------------------- MODULE NativeContext ----------------------------
(***************************************************************************)
(* ActivityContext of OboeTester below the manual tests: the stream of     *)
(* TestOutputActivity, TestInputActivity or RecorderActivity, the thread   *)
(* that writes or reads it when callbacks are off, the recording, and the  *)
(* stream that plays the recording.                                        *)
(*                                                                         *)
(* Every button of a manual test is always enabled, those of the recorder  *)
(* by its state.  NcThreads bounds the data threads and the recordings,    *)
(* NcPresses the user's actions.                                           *)
(***************************************************************************)
EXTENDS Integers

CONSTANTS NcThreads, NcPresses
ASSUME NcAssumption == {NcThreads, NcPresses} \subseteq Nat \ {0}

VARIABLES
  ncTest,         \* activity, API of the stream, mUseCallback: fixed
  call,           \* what the UI thread is doing, "none" when it is free
  device,         \* the stream: "none", "open", "started", "paused", "stopping", "stopped"
  threadEnabled, dataThread,  \* dataThread: 0 is null
  io,             \* where each data thread is
  recording,      \* mRecording, by number; 0 is null
  recordTo,       \* the recording that the analyzer of the input was given
  playFrom,       \* the recording that is played, or 0
  recorder,       \* mRecorderState, mGotRecording
  ncPresses

ncVars == <<ncTest, call, device, threadEnabled, dataThread, io, recording, recordTo,
            playFrom, recorder, ncPresses>>
ioVars == <<threadEnabled, dataThread, io>>
media == <<recording, recordTo, playFrom>>

Stopped == [state |-> "stopped", got |-> FALSE]

NcInit ==
  /\ ncTest \in [activity : {"output", "input", "recorder"}, api : {"aaudio", "opensl"},
                 useCallback : BOOLEAN]
  /\ call = "none" /\ device = "none"
  /\ threadEnabled = FALSE /\ dataThread = 0 /\ io = [i \in 1..NcThreads |-> "none"]
  /\ recording = 0 /\ recordTo = 0 /\ playFrom = 0
  /\ recorder = Stopped /\ ncPresses = 0

Records == ncTest.activity # "output"
-----------------------------------------------------------------------------
(* The buttons.  A call that joins the data thread first tells it to end.  *)

Buttons_of ==
  IF ncTest.activity # "recorder" THEN {"open", "start", "pause", "stop", "close", "leave"}
  ELSE IF recorder.state # "stopped" THEN {"stopRecordPlay", "leave"}
  ELSE {"record", "leave"} \cup (IF recorder.got THEN {"play"} ELSE {})

\* ActivityRecording::stop
StopsPlayback(c) == ncTest.activity = "recorder" /\ c \in {"stop", "stopRecordPlay", "play", "leave"}

NcPress ==
  /\ call = "none" /\ ncPresses < NcPresses /\ ncPresses' = ncPresses + 1
  /\ \E c \in Buttons_of :
       /\ call' = c
       /\ playFrom' = IF StopsPlayback(c) THEN 0 ELSE playFrom
       /\ threadEnabled' = (threadEnabled /\ (c = "start" \/ dataThread = 0))
  /\ UNCHANGED <<ncTest, device, dataThread, io, recording, recordTo, recorder>>

\* stopBlockingIOThread
Joinable == dataThread # 0 => io[dataThread] = "ended"

Join == /\ Joinable
        /\ dataThread' = 0 /\ UNCHANGED <<threadEnabled, io>>

Done == call' = "none" /\ UNCHANGED <<ncTest, ncPresses>>

\* open, after closeAudio: a new recording takes the place of the old one.
Opened == \/ /\ recording < NcThreads
             /\ device' = "open" /\ recording' = recording + 1
          \/ device' = "none" /\ UNCHANGED recording

Open == /\ call = "open" /\ Join /\ Opened
        /\ Done /\ UNCHANGED <<recordTo, playFrom, recorder>>

\* start.  A stream of OpenSL ES that is started can be started again, and a
\* second thread takes the place of the first.
Starts == device \notin {"none", "stopping"} /\ (device = "started" => ncTest.api = "opensl")

NewThread(i) == /\ io[i] = "none"
                /\ io' = [io EXCEPT ![i] = "check"] /\ dataThread' = i /\ threadEnabled' = TRUE

Started == /\ Starts
           /\ device' = "started"
           /\ IF ncTest.useCallback THEN UNCHANGED ioVars
              ELSE \E i \in 1..NcThreads : NewThread(i)

NcStart == /\ call = "start"
           /\ recordTo' = IF device # "none" /\ Records THEN recording ELSE recordTo
           /\ Started \/ UNCHANGED <<device, ioVars>>
           /\ Done /\ UNCHANGED <<recording, playFrom, recorder>>

\* pause.  An input stream cannot be paused.
PauseUnjoined ==
  /\ call = "pause"
  /\ device' = IF device = "started" /\ ~Records THEN "paused" ELSE device
  /\ Done /\ UNCHANGED <<ioVars, media, recorder>>

NcPause == /\ call = "pause" /\ Join
           /\ device' = IF device = "started" /\ ~Records THEN "paused" ELSE device
           /\ Done /\ UNCHANGED <<media, recorder>>

\* stopAllStreams.  AAudio stops in its own time.
RequestStop == device' = IF device \in {"started", "paused"} THEN "stopping" ELSE device

NcStop == /\ call = "stop" /\ Join /\ RequestStop
          /\ Done /\ UNCHANGED <<media, recorder>>

\* Closing waits for the callbacks.
Close == device' = "none"

NcClose == /\ call = "close" /\ Join /\ Close
           /\ Done /\ UNCHANGED <<media, recorder>>

\* The screen is left, stopTest, and shown again, perhaps created again.
LeaveTest == /\ call = "leave" /\ Join /\ Close
             /\ recorder' \in {recorder, Stopped}
             /\ Done /\ UNCHANGED media

\* onStartRecording.  When the start fails the state is left as it was.
OnStartRecording ==
  /\ call = "record" /\ Joinable
  /\ \/ /\ recording < NcThreads /\ recording' = recording + 1 /\ recordTo' = recording'
        /\ \/ /\ device' = "started"
              /\ recorder' = [state |-> "recording", got |-> TRUE]
              /\ IF ncTest.useCallback THEN Join ELSE \E i \in 1..NcThreads : NewThread(i)
           \/ device' = "open" /\ Join /\ UNCHANGED recorder
     \/ device' = "none" /\ Join /\ UNCHANGED <<recording, recordTo, recorder>>
  /\ Done /\ UNCHANGED playFrom

OnStopRecordPlayOpen ==
  /\ call = "stopRecordPlay" /\ Join /\ RequestStop
  /\ recorder' = [recorder EXCEPT !.state = "stopped"]
  /\ Done /\ UNCHANGED media

OnStopRecordPlay ==
  /\ call = "stopRecordPlay" /\ Join /\ Close
  /\ recorder' = [recorder EXCEPT !.state = "stopped"]
  /\ Done /\ UNCHANGED media

\* onStartPlayback, startPlayback
OnStartPlayback ==
  /\ call = "play" /\ Join /\ RequestStop
  /\ playFrom' \in {0, recording}
  /\ recorder' = [recorder EXCEPT !.state = "playing"]
  /\ Done /\ UNCHANGED <<recording, recordTo>>

\* What the UI thread has begun.
NcCall == \/ Open \/ NcStart \/ NcPause \/ NcStop \/ NcClose \/ LeaveTest
          \/ OnStartRecording \/ OnStopRecordPlay \/ OnStartPlayback
-----------------------------------------------------------------------------
(* The stream and the data threads. *)

DeviceStops == /\ device = "stopping" /\ device' = "stopped"
               /\ UNCHANGED <<ncTest, call, ioVars, media, recorder, ncPresses>>

IoCheckOff(i) == io[i] = "check" /\ io' = [io EXCEPT ![i] = "work"]

IoCheck(i) == /\ io[i] = "check"
              /\ io' = [io EXCEPT ![i] = IF threadEnabled THEN "work" ELSE "ended"]

\* The callback, and the write or read that may fail or time out.
IoTransfer(i) == /\ io[i] = "work"
                 /\ io' = [io EXCEPT ![i] = "ended"] \/ io' = [io EXCEPT ![i] = "check"]

IoStep(i) == /\ IoCheck(i) \/ IoTransfer(i)
             /\ UNCHANGED <<ncTest, call, device, threadEnabled, dataThread, media,
                            recorder, ncPresses>>

NcIo == \E i \in 1..NcThreads : IoStep(i)

NcNext == NcPress \/ NcCall \/ DeviceStops \/ NcIo

NcSpec == NcInit /\ [][NcNext]_ncVars
-----------------------------------------------------------------------------
Alive(i) == io[i] \in {"check", "work"}

\* A manual test can start a stream of OpenSL ES twice.  A first data thread
\* is then never joined, see the README.
StartsTwice == ~ncTest.useCallback /\ ncTest.api = "opensl" /\ ncTest.activity # "recorder"

\* No data thread feeds a stream that was paused, stopped or closed, and none
\* but the one that will be joined: a thread that is left uses the graph and the
\* buffer that the next open() and start() replace.
NoLostThread ==
  ~StartsTwice =>
    \A i \in 1..NcThreads : Alive(i) => i = dataThread /\ device = "started"

Writing == Records /\ IF ncTest.useCallback THEN device \in {"started", "stopping"}
                      ELSE \E i \in 1..NcThreads : Alive(i)

\* "Do not read and write from separate threads.": while a recording is played
\* no stream records, and the one that is played or written is the one that
\* exists, through the raw pointers that the callbacks keep.
RecordingInOneHand ==
  ~StartsTwice => /\ playFrom # 0 => playFrom = recording /\ ~Writing
                  /\ Writing => recordTo = recording

\* Every data thread can still be joined, and a recording is written or read by
\* one of them at a time.
DataThreadsInHand == NoLostThread /\ RecordingInOneHand

\* The UI thread waits for a data thread that is in the middle of a write or a
\* read, and comes back.
CallEnds == (call # "none") ~> (call = "none")
=============================================================================
