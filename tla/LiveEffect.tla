------------------------------ MODULE LiveEffect ------------------------------
(***************************************************************************)
(* LiveEffect: MainActivity on the UI thread, the engine behind the JNI    *)
(* functions, the rack of plugins, and the data callback of the output     *)
(* stream, which reads the input stream and runs the rack.                 *)
(*                                                                         *)
(* The rack is plugin 0 of LeLibrary, the one that default_plugins names:  *)
(* libnoise.so; the others are commented out there.  LeCalls bounds what   *)
(* the user and the system do.                                             *)
(***************************************************************************)
EXTENDS Ladspa

CONSTANTS LeLibrary,
          LeRates,  \* the sample rates that an output stream may be given
          LeCalls

ASSUME LeAssumption == /\ LeLibrary \in DOMAIN Plugins
                       /\ LeRates \subseteq Nat /\ LeCalls \in Nat

VARIABLES
  resumed, permission, asked, isPlaying, apiSelection,  \* MainActivity
  engine,      \* the engine, or None
  live,        \* the streams that are open: a set of [dir, rate, api, engine]
  started,     \* the directions that were started and not stopped
  callback,    \* where the data callback is: "none", "begun", "run"
  leUI,        \* what the UI thread has left to do
  calls

leVars == <<resumed, permission, asked, isPlaying, apiSelection, engine, live,
            started, callback, leUI, calls>>
activity == <<resumed, permission, asked, isPlaying, apiSelection, calls>>

None == [none |-> TRUE]
NullEngine == engine = None

\* A new engine.  Its streams are held both by the engine and by mFullDuplexPass.
NewEngine == [isEffectOn |-> FALSE, api |-> "aaudio", rate |-> 0, rack |-> <<>>,
              play |-> None, recording |-> None, output |-> None, input |-> None]

LeInit ==
  /\ resumed = FALSE /\ permission \in BOOLEAN /\ asked = FALSE /\ isPlaying = FALSE
  /\ apiSelection = "aaudio" /\ engine = None /\ live = {} /\ started = {}
  /\ callback = "none" /\ leUI = <<>> /\ calls = 0
-----------------------------------------------------------------------------
(* The rack. *)

\* setupControls: the ports that the host connects for every block.  The last
\* port of a kind wins, and controls keep their values to themselves.
IsAudioInput(port) == port.kind = "audio" /\ port.dir = "input"
InputPort(ports) == {i \in DOMAIN ports : /\ IsAudioInput(ports[i])
                                          /\ \A j \in DOMAIN ports : j > i => ~IsAudioInput(ports[j])}
OutputPort(ports) == {i \in DOMAIN ports : /\ ports[i].dir = "output"
                                           /\ \A j \in DOMAIN ports : j > i => ports[j].dir = "input"}

\* loadLibraries and addPluginToRack(0, 0): every plugin is instantiated and
\* activated at the rate of the first stream.  libnoise.so and libdelay.so free
\* their descriptors as they are loaded (the attribute of ON_UNLOAD_ROUTINE).
\* Where one is read the process may end, which is a behaviour that goes no
\* further; or the memory still holds what it held.
LoadRack(rate) ==
  LET ports == Plugins[LeLibrary][1]
  IN << [ports |-> ports, rate |-> rate,
         inputPort |-> InputPort(ports), outputPort |-> OutputPort(ports)] >>

\* process: what every port of a plugin is connected to when it is run.
Audio(plugin, i) == IF i \in plugin.outputPort THEN "outputData" ELSE "inputData"
ConnectedAudioOnly(plugin) ==
  [i \in plugin.inputPort \cup plugin.outputPort |-> Audio(plugin, i)]
Connected(plugin) ==
  [i \in {0} \cup plugin.inputPort \cup plugin.outputPort |->
     IF i = 0 THEN "cutoff" ELSE Audio(plugin, i)]
-----------------------------------------------------------------------------
(* The engine. *)

Stream(dir, rate) == [dir |-> dir, rate |-> rate, api |-> engine.api]

\* openStreams: the input is asked for the rate of the output.  A failure of
\* the second open closes the first stream.
OpenFailsLeaky ==
  \E rate \in LeRates \cup {0} :
    /\ engine' = [engine EXCEPT !.rate = rate]
    /\ live' = IF rate = 0 THEN live ELSE live \cup {Stream("output", rate)}
    /\ leUI' = <<"failed">> /\ UNCHANGED started
OpenFails ==
  \E rate \in LeRates \cup {0} :
    /\ engine' = [engine EXCEPT !.rate = rate]
    /\ leUI' = <<"failed">> /\ UNCHANGED <<live, started>>

\* setEffectOn(true), when both streams open: the rack is loaded once for each
\* engine, and the results of start are not looked at.
TurnOn ==
  \E rate \in LeRates :
    LET play == Stream("output", rate)
        recording == Stream("input", rate)
    IN /\ engine' = [engine EXCEPT
              !.isEffectOn = TRUE, !.rate = rate,
              !.rack = IF @ = <<>> THEN LoadRack(rate) ELSE @,
              !.play = play, !.output = play, !.recording = recording, !.input = recording]
       /\ live' = live \cup {play, recording}
       /\ started' \in {{}, {"input"}, {"input", "output"}}
       /\ leUI' = <<"playing">>

\* setEffectOn and the JNI function
SetEffectOn ==
  /\ leUI # <<>> /\ Head(leUI) = "on" /\ callback = "none"
  /\ IF NullEngine THEN leUI' = <<"failed">> /\ UNCHANGED <<engine, live, started>>
     ELSE IF engine.isEffectOn THEN leUI' = <<"playing">> /\ UNCHANGED <<engine, live, started>>
     ELSE OpenFails \/ TurnOn
  /\ UNCHANGED <<activity, callback>>

\* The steps of setEffectOn(false): mFullDuplexPass.stop, then closeStreams.
\* The output is asked to stop, but is called back until it is closed.
OffStepsInputFirst == <<"stop", "closeInput", "closeOutput", "off">>
OffSteps == <<"stop", "closeOutput", "closeInput", "off">>
Off == IF NullEngine \/ ~engine.isEffectOn THEN <<>> ELSE OffSteps

OffStep(step) == /\ leUI # <<>> /\ Head(leUI) = step /\ leUI' = Tail(leUI)
                 /\ UNCHANGED activity

StopDuplex == /\ OffStep("stop")
              /\ started' = started \ {"input"}
              /\ UNCHANGED <<engine, live, callback>>

\* Closing the output waits for its callback.
CloseOutput == /\ OffStep("closeOutput") /\ callback = "none"
               /\ live' = live \ {engine.play} /\ started' = started \ {"output"}
               /\ engine' = [engine EXCEPT !.play = None, !.output = None]
               /\ UNCHANGED callback

CloseInput == /\ OffStep("closeInput")
              /\ live' = live \ {engine.recording} /\ started' = started \ {"input"}
              /\ engine' = [engine EXCEPT !.recording = None, !.input = None]
              /\ UNCHANGED callback

EffectOff == /\ OffStep("off")
             /\ engine' = [engine EXCEPT !.isEffectOn = FALSE]
             /\ UNCHANGED <<live, started, callback>>

\* delete, after its setEffectOn(false)
Delete == /\ OffStep("delete")
          /\ engine' = None
          /\ UNCHANGED <<live, started, callback>>
-----------------------------------------------------------------------------
(* MainActivity. *)

UIRests == leUI = <<>> /\ calls < LeCalls /\ calls' = calls + 1

\* setAPI, which is refused while the effect is on
SetAudioApi == engine' = IF engine = None \/ engine.isEffectOn THEN engine
                         ELSE [engine EXCEPT !.api = apiSelection]

OnResume == /\ UIRests /\ ~resumed
            /\ resumed' = TRUE
            /\ engine' = [IF NullEngine THEN NewEngine ELSE engine EXCEPT !.api = apiSelection]
            /\ UNCHANGED <<permission, asked, isPlaying, apiSelection, live, started,
                           callback, leUI>>

OnPause == /\ UIRests /\ resumed
           /\ resumed' = FALSE
           /\ leUI' = Off \o <<"stopped", "delete">>
           /\ UNCHANGED <<permission, asked, isPlaying, apiSelection, engine, live,
                          started, callback>>

\* The buttons of the API are enabled while nothing plays.
SelectApi == /\ UIRests /\ resumed /\ ~isPlaying
             /\ apiSelection' \in {"aaudio", "opensles"} \ {apiSelection}
             /\ UNCHANGED <<resumed, permission, asked, isPlaying, engine, live,
                            started, callback, leUI>>

\* startEffect asks for the permission when it is not granted.
ToggleEffect ==
  IF isPlaying
  THEN leUI' = Off \o <<"stopped">> /\ UNCHANGED engine
  ELSE SetAudioApi /\ leUI' = IF permission' THEN <<"on">> ELSE <<>>

PressToggle == /\ UIRests /\ resumed /\ UNCHANGED permission /\ ToggleEffect
               /\ asked' = (asked \/ (~isPlaying /\ ~permission))
               /\ UNCHANGED <<resumed, isPlaying, apiSelection, live, started, callback>>

\* The answer may come while the activity is paused, where there is no engine.
OnRequestPermissionsResult ==
  /\ UIRests /\ asked
  /\ permission' \in BOOLEAN
  /\ asked' = FALSE
  /\ IF permission' THEN ToggleEffect ELSE UNCHANGED <<engine, leUI>>
  /\ UNCHANGED <<resumed, isPlaying, apiSelection, live, started, callback>>

\* What startEffect and stopEffect show when the engine has answered
Shown == /\ leUI # <<>> /\ Head(leUI) \in {"playing", "failed", "stopped"}
         /\ isPlaying' = (Head(leUI) = "playing")
         /\ leUI' = Tail(leUI)
         /\ UNCHANGED <<resumed, permission, asked, apiSelection, calls, engine, live,
                        started, callback>>
-----------------------------------------------------------------------------
(* The data callback of the output stream. *)

AudioReady == /\ callback = "none" /\ "output" \in started
              /\ callback' = "begun"
              /\ UNCHANGED <<activity, engine, live, started, leUI>>

\* The input is drained, or the cushion grows; or both streams are ready.
\* A failed read stops both.
Read == /\ callback = "begun"
        /\ \/ callback' = "none" /\ UNCHANGED started
           \/ callback' = "none" /\ started' = {}
           \/ callback' = "run" /\ UNCHANGED started
        /\ UNCHANGED <<activity, engine, live, leUI>>

\* Oboe closes an output whose device is gone; the engine only logs that.
Disconnect == /\ callback = "none" /\ "output" \in started /\ engine.play \in live
              /\ live' = live \ {engine.play} /\ started' = started \ {"output"}
              /\ UNCHANGED <<activity, engine, callback, leUI>>

Process == /\ callback = "run"
           /\ callback' = "none"
           /\ UNCHANGED <<activity, engine, live, started, leUI>>

LeNext == \/ OnResume \/ OnPause \/ SelectApi \/ PressToggle \/ OnRequestPermissionsResult \/ Shown
          \/ SetEffectOn \/ StopDuplex \/ CloseOutput \/ CloseInput \/ EffectOff \/ Delete
          \/ AudioReady \/ Read \/ Process \/ Disconnect

LeSpec == LeInit /\ [][LeNext]_leVars
-----------------------------------------------------------------------------
\* When the UI thread rests, the screen and the engine agree on whether the
\* effect is on; the effect has both its streams, at one rate and of the API
\* that is selected, and without the effect, or an engine, no stream is open.
EffectInStep ==
  leUI = <<>> =>
    /\ isPlaying = (~NullEngine /\ engine.isEffectOn)
    /\ ~isPlaying => live = {}
    /\ isPlaying => /\ engine.play = [dir |-> "output", rate |-> engine.rate, api |-> apiSelection]
                    /\ engine.recording = [engine.play EXCEPT !.dir = "input"]
                    /\ live \subseteq {engine.play, engine.recording}

\* What a port takes: a block of samples to read or to fill, or one value
Fitting(port) == IF port.kind = "control" THEN "cutoff"
                 ELSE IF port.dir = "output" THEN "outputData" ELSE "inputData"

\* "If the recording stream were to be closed first the playback stream's
\* callback may attempt to read from the recording stream which would cause the
\* app to crash": a callback has both streams; and every port of a plugin that
\* it runs is connected (ladspa.h:455), an audio port to a block of this call, a
\* control to the value.  So it is with the ports of libnoise.so; delay has a
\* second control, which is left alone, and sine an audio port 0, which is given
\* the one value.
CallbackLegal ==
  /\ callback # "none" => /\ ~NullEngine
                          /\ engine.output # None /\ engine.input \in live
  /\ callback = "run" => \A k \in DOMAIN engine.rack :
                            LET plugin == engine.rack[k]
                            IN Connected(plugin) = [i \in DOMAIN plugin.ports |->
                                                      Fitting(plugin.ports[i])]
=============================================================================
