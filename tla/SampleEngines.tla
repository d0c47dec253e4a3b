---------------------------- MODULE SampleEngines ----------------------------
(***************************************************************************)
(* The engines of three samples that play until they are paused: HelloOboe,*)
(* whose stream the user chooses by spinners, MegaDrone and SoundBoard.    *)
(* Each is made by onResume() and deleted by onPause(); when its stream is *)
(* disconnected, the library's error thread closes the stream and then has *)
(* the engine open another.  HelloOboe locks every start() and stop(), but *)
(* not the two of them together.                                           *)
(***************************************************************************)
EXTENDS Integers, Sequences

CONSTANTS SeStreams,    \* bound on the streams opened
          SeDevices     \* the devices to choose from; 0 is the default one

VARIABLES seHello,      \* HelloOboe, or one of the others
          seEngine,     \* the engine's members
          seStreams,    \* every stream it opened
          seShown,      \* what the spinners show
          seRoute,      \* the channels of the default device
          seUI,         \* what the UI thread is in
          seError,      \* what the error thread is in, and with which stream
          seFailed,     \* some open or start failed since onResume()
          seOverlap     \* the two threads were at the engine together

seVars == <<seHello, seEngine, seStreams, seShown, seRoute, seUI, seError,
            seFailed, seOverlap>>

Rests == [at |-> "resting", setting |-> "none"]
Paused == [at |-> "paused", setting |-> "none"]
Quiet == [at |-> "none", stream |-> 0]
Defaults == [api |-> "unspecified", device |-> 0, auto |-> TRUE]
FirstState == [live |-> TRUE, api |-> "unspecified", device |-> 0, channels |-> 0,
          stream |-> 0, source |-> 0, tune |-> TRUE]

SeInit == /\ seHello \in BOOLEAN
          /\ seEngine = [FirstState EXCEPT !.live = FALSE]
          /\ seStreams = <<>> /\ seShown = Defaults /\ seRoute = 2
          /\ seUI = Paused /\ seError = Quiet
          /\ seFailed = FALSE /\ seOverlap = FALSE

Closed(streams, n) == IF n = 0 THEN streams ELSE [streams EXCEPT ![n].life = "closed"]

\* The stream that openStream() gives for the engine's members
Requested == [api |-> seEngine.api, device |-> seEngine.device,
              channels |-> IF seEngine.channels = 0 THEN seRoute ELSE seEngine.channels]

\* A source that outlives the stream it was made for
WithFirstSource(e, s) ==
  [e EXCEPT !.stream = Len(seStreams) + 1,
            !.source = IF e.source = 0 THEN s.channels ELSE e.source]

\* The engine with its new stream, and the audio source made for it
WithSource(e, s) == [e EXCEPT !.stream = Len(seStreams) + 1, !.source = s.channels]

\* HelloOboe keeps the number of channels it was given, and gives up a stream
\* that does not start.
HelloStart(opens, starts) ==
  LET e == [WithSource(seEngine, Requested) EXCEPT !.channels = Requested.channels]
  IN IF ~opens THEN [seEngine EXCEPT !.stream = 0]
               ELSE [e EXCEPT !.stream = IF starts THEN @ ELSE 0]

\* The others go on with a stream that does not start.
SynthStart(opens) ==
  IF opens THEN WithSource(seEngine, Requested) ELSE [seEngine EXCEPT !.stream = 0]

SeStarted(opens, starts) == IF seHello THEN HelloStart(opens, starts) ELSE SynthStart(opens)

\* The streams after it
Opening(opens, starts) ==
  LET life == CASE starts -> "running" [] ~starts /\ seHello -> "closed" [] OTHER -> "open"
      r == Requested
  IN /\ Len(seStreams) < SeStreams /\ (starts => opens)
     /\ seStreams' = IF opens THEN Append(seStreams, [life |-> life, api |-> r.api,
                                                     device |-> r.device,
                                                     channels |-> r.channels])
                              ELSE seStreams
     /\ seFailed' = (seFailed \/ ~starts)

Overlaps == seOverlap' = (seOverlap \/ seError.at # "none")

-----------------------------------------------------------------------------
(* The UI thread.                                                          *)

SeOnResume == /\ seUI = Paused /\ seUI' = [Paused EXCEPT !.at = "creating"]
            /\ Len(seStreams) < SeStreams
            /\ seEngine' = FirstState /\ seShown' = Defaults /\ seFailed' = FALSE
            /\ UNCHANGED <<seStreams, seRoute, seError, seOverlap>>

\* startEngine(): MegaDrone and SoundBoard delete an engine without a stream.
StartEngine(opens, starts) ==
  /\ seUI.at = "creating" /\ seUI' = Rests
  /\ Opening(opens, starts)
  /\ seEngine' = [SeStarted(opens, starts) EXCEPT !.live = seHello \/ opens]
  /\ UNCHANGED <<seShown, seRoute, seError, seOverlap>>

\* stop() and delete; an error thread that still wants the engine is lost,
\* and what it does then is not followed.
SeOnPause == /\ seUI = Rests /\ seUI' = Paused
           /\ seStreams' = Closed(seStreams, seEngine.stream)
           /\ seEngine' = [seEngine EXCEPT !.live = FALSE, !.stream = 0]
           /\ Overlaps /\ seError' = Quiet
           /\ UNCHANGED <<seShown, seRoute, seFailed>>

\* A spinner was moved; setAudioApi(), setDeviceId() and setChannelCount() look
\* at mStream without the lock, and reopen it if there is one.
Selected(setting, e, shown) ==
  /\ seHello /\ seUI = Rests /\ e # seEngine
  /\ seEngine' = e /\ seShown' = shown
  /\ IF e.stream = 0 THEN UNCHANGED <<seUI, seOverlap>>
                     ELSE seUI' = [at |-> "stopping", setting |-> setting] /\ Overlaps
  /\ UNCHANGED <<seStreams, seRoute, seError, seFailed>>

SeSetAudioApi(api) ==
  Selected("api", [seEngine EXCEPT !.api = api], [seShown EXCEPT !.api = api])
SetChannelCount(c) == Selected("channels", [seEngine EXCEPT !.channels = c], seShown)
SetDeviceId(d) ==
  Selected("device", [seEngine EXCEPT !.device = d], [seShown EXCEPT !.device = d])

SetBufferSize(auto) ==
  /\ seHello /\ seUI = Rests
  /\ seShown' = [seShown EXCEPT !.auto = auto]
  /\ seEngine' = IF seEngine.stream = 0 THEN seEngine ELSE [seEngine EXCEPT !.tune = auto]
  /\ UNCHANGED <<seStreams, seRoute, seUI, seError, seFailed, seOverlap>>

ReopenStop == /\ seUI.at = "stopping" /\ seUI' = [seUI EXCEPT !.at = "starting"]
              /\ seStreams' = Closed(seStreams, seEngine.stream)
              /\ seEngine' = [seEngine EXCEPT !.stream = 0]
              /\ UNCHANGED <<seShown, seRoute, seError, seFailed, seOverlap>>

\* A device that cannot be opened is forgotten, which is setDeviceId()'s.
ReopenStart(opens, starts) ==
  /\ seUI.at = "starting" /\ seUI' = Rests
  /\ Opening(opens, starts)
  /\ seEngine' = IF ~starts /\ seUI.setting = "device"
                 THEN [SeStarted(opens, starts) EXCEPT !.device = 0]
                 ELSE SeStarted(opens, starts)
  /\ UNCHANGED <<seShown, seRoute, seError, seOverlap>>

-----------------------------------------------------------------------------
(* The error thread of a disconnected stream.                              *)

SeDisconnect(route) ==
  /\ seError = Quiet /\ seEngine.stream # 0
  /\ seStreams[seEngine.stream].life = "running"
  /\ seError' = [at |-> "closing", stream |-> seEngine.stream]
  /\ seRoute' = route
  /\ seOverlap' = (seOverlap \/ seUI # Rests)
  /\ UNCHANGED <<seEngine, seStreams, seShown, seUI, seFailed>>

ErrorClose == /\ seError.at = "closing" /\ seError' = [seError EXCEPT !.at = "restarting"]
              /\ seStreams' = Closed(seStreams, seError.stream)
              /\ UNCHANGED <<seEngine, seShown, seRoute, seUI, seFailed, seOverlap>>

\* restart(): MegaDrone and SoundBoard stop() what there is, which is closed.
\* HelloOboe calls start() at once.
SeRestart(opens, starts) ==
  /\ seError.at = "restarting" /\ seError' = Quiet
  /\ Opening(opens, starts) /\ seEngine' = SeStarted(opens, starts)
  /\ UNCHANGED <<seShown, seRoute, seUI, seOverlap>>

SeNext ==
  /\ UNCHANGED seHello
  /\ \/ SeOnResume \/ SeOnPause
     \/ ReopenStop \/ ErrorClose
     \/ \E opens, starts \in BOOLEAN :
          StartEngine(opens, starts) \/ ReopenStart(opens, starts) \/ SeRestart(opens, starts)
     \/ \E api \in {"unspecified", "aaudio"} : SeSetAudioApi(api)
     \/ \E c \in 1..2 : SetChannelCount(c)
     \/ \E d \in SeDevices : SetDeviceId(d)
     \/ \E auto \in BOOLEAN : SetBufferSize(auto)
     \/ \E route \in 1..2 : SeDisconnect(route)

SeSpec == SeInit /\ [][SeNext]_seVars

-----------------------------------------------------------------------------
(* Properties.                                                             *)

\* When nothing goes on, and the UI thread and the error thread were not at
\* the engine together: the engine's stream is the only one that is open, no
\* stream is left behind a pause, it is the one the spinners ask for, and the
\* audio source fills frames of as many channels as the stream has.  Without a
\* failure there is a stream while the activity is shown.
EnginePlays ==
  seUI.at \in {"paused", "resting"} /\ seError = Quiet /\ ~seOverlap =>
    /\ \A n \in DOMAIN seStreams : seStreams[n].life # "closed" =>
         seUI = Rests /\ seEngine.live /\ seEngine.stream = n
    /\ seUI = Rests /\ ~seFailed => seEngine.stream # 0
    /\ seEngine.stream # 0 =>
         LET s == seStreams[seEngine.stream]
         IN /\ s.api = seShown.api /\ s.device = seShown.device
            /\ s.channels = seEngine.source
            /\ seEngine.tune = seShown.auto
=============================================================================
