----------------------------- MODULE SamplePlayer -----------------------------
(***************************************************************************)
(* DrumThumper over iolib's SimpleMultiPlayer: the activity and the pads   *)
(* on the UI thread, a sample that the audio thread mixes frame by frame,  *)
(* and the thread that opens another stream when the device is gone.       *)
(***************************************************************************)
EXTENDS Integers, Sequences, FiniteSetsExt

CONSTANTS SpRates,    \* rates that a stream may have
          SpRate, SpFrames,  \* rate and frames of the asset
          SpBlock,    \* frames of a callback
          SpStreams,  \* bounds the streams that are opened
          SpTriggers  \* bounds the pads that are hit

ASSUME SpAssumption == /\ SpRates \cup {SpRate} \subseteq Nat \ {0}
                       /\ {SpFrames, SpBlock, SpStreams, SpTriggers} \subseteq Nat

VARIABLES
  spShown, spUI,   \* the activity is started; what its onStop has yet to do
  opened,         \* the streams that were opened, in order: [state, rate]
  mAudioStream,    \* the number of the player's stream, or 0
  sample,          \* the source and its buffer, or NoSample
  mixing,          \* frames that the callback has yet to mix, or -1
  errorStep,       \* of onErrorAfterClose: "none", "reset", "open", "start"
  outputReset, together, triggers

spVars == <<spShown, spUI, opened, mAudioStream, sample, mixing, errorStep, outputReset,
            together, triggers>>

NoSample == [loaded |-> FALSE]

SpInit == /\ spShown = FALSE /\ spUI = <<>> /\ opened = <<>> /\ mAudioStream = 0
          /\ sample = NoSample /\ mixing = -1 /\ errorStep = "none"
          /\ outputReset = FALSE /\ together = FALSE /\ triggers = 0

\* resampleData: the frames that come out until all of the input is written,
\* and the buffer that is allocated for them.
Resampled(frames, in, out) ==
  LET made[left \in 0..frames, phase \in 0..(in + out)] ==
        IF left = 0 THEN 0
        ELSE IF phase >= out THEN made[left - 1, phase - out] ELSE 1 + made[left, phase + in]
  IN made[frames, out]
Allocated(frames, in, out) == (2 * frames * out + in) \div (2 * in) + 8

Loaded(rate) ==
  [loaded |-> TRUE, isPlaying |-> FALSE, index |-> 0,
   frames |-> IF rate = SpRate THEN SpFrames ELSE Resampled(SpFrames, SpRate, rate),
   room |-> IF rate = SpRate THEN SpFrames ELSE Allocated(SpFrames, SpRate, rate)]

\* The buffer is large enough for every rate.
ResamplesWithin ==
  \A rate \in SpRates : /\ {Loaded(rate).frames, Loaded(rate).room} \subseteq Nat
                        /\ Loaded(rate).frames <= Loaded(rate).room

PlayerStarted == {i \in DOMAIN opened : opened[i].state = "started"}
-----------------------------------------------------------------------------
(* The activity *)

\* onStart: setupAudioStream, whose open must not fail, loadWavAssets and
\* startAudioStream
SpOnStart ==
  /\ ~spShown /\ spUI = <<>> /\ Len(opened) < SpStreams
  /\ \E rate \in SpRates :
       /\ opened' = Append(opened, [state |-> "started", rate |-> rate])
       /\ sample' = Loaded(rate)
  /\ mAudioStream' = Len(opened') /\ spShown' = TRUE
  /\ UNCHANGED <<spUI, mixing, errorStep, outputReset, together, triggers>>

StopUnloadsFirst == <<"unload", "teardown">>
StopOrder == <<"teardown", "unload">>

SpOnStop == /\ spShown /\ spShown' = FALSE /\ spUI' = StopOrder
            /\ together' = (together \/ errorStep # "none")
            /\ UNCHANGED <<opened, mAudioStream, sample, mixing, errorStep, outputReset, triggers>>

\* stop and close wait for the callback.
Teardown == /\ spUI # <<>> /\ Head(spUI) = "teardown"
            /\ mAudioStream \in PlayerStarted => mixing = -1
            /\ spUI' = Tail(spUI) /\ mAudioStream' = 0
            /\ opened' = [i \in DOMAIN opened |->
                 IF i = mAudioStream THEN [opened[i] EXCEPT !.state = "closed"] ELSE opened[i]]
            /\ UNCHANGED <<spShown, sample, mixing, errorStep, outputReset, together, triggers>>

\* unloadSampleData: resetAll, and the sources and buffers are deleted.
Unload == /\ spUI # <<>> /\ Head(spUI) = "unload"
          /\ spUI' = Tail(spUI) /\ sample' = NoSample
          /\ UNCHANGED <<spShown, opened, mAudioStream, mixing, errorStep, outputReset, together,
                         triggers>>

\* triggerDown: setPlayMode
TriggerDown == /\ spShown /\ sample.loaded /\ triggers < SpTriggers /\ triggers' = triggers + 1
               /\ sample' = [sample EXCEPT !.index = 0, !.isPlaying = TRUE]
               /\ UNCHANGED <<spShown, spUI, opened, mAudioStream, mixing, errorStep, outputReset,
                              together>>
-----------------------------------------------------------------------------
(* The callback *)

MixWhole(n) == n
MixFrames(n) == Min({n, sample.frames - sample.index})

\* onAudioReady, and what mixAudio decides to write
Mix == /\ PlayerStarted # {} /\ mixing = -1
       /\ sample.loaded /\ sample.isPlaying
       /\ mixing' = MixFrames(SpBlock)
       /\ UNCHANGED <<spShown, spUI, opened, mAudioStream, sample, errorStep, outputReset,
                      together, triggers>>

MixFrame == /\ mixing > 0
            /\ mixing' = mixing - 1
            /\ sample' = IF sample.loaded THEN [sample EXCEPT !.index = @ + 1] ELSE sample
            /\ UNCHANGED <<spShown, spUI, opened, mAudioStream, errorStep, outputReset, together,
                           triggers>>

MixEnd == /\ mixing = 0
          /\ mixing' = -1
          /\ sample' = IF sample.loaded /\ sample.index >= sample.frames
                       THEN [sample EXCEPT !.isPlaying = FALSE] ELSE sample
          /\ UNCHANGED <<spShown, spUI, opened, mAudioStream, errorStep, outputReset, together,
                         triggers>>
-----------------------------------------------------------------------------
(* A device that goes, and onErrorAfterClose on a thread of its own *)

SpDisconnect == /\ mAudioStream \in PlayerStarted /\ mixing = -1 /\ errorStep = "none"
                /\ opened' = [opened EXCEPT ![mAudioStream].state = "closed"]
                /\ errorStep' = "reset"
                /\ together' = (together \/ spUI # <<>>)
                /\ UNCHANGED <<spShown, spUI, mAudioStream, sample, mixing, outputReset, triggers>>

ResetAll == /\ errorStep = "reset"
            /\ sample' = IF sample.loaded THEN [sample EXCEPT !.isPlaying = FALSE, !.index = 0]
                         ELSE sample
            /\ errorStep' = "open"
            /\ UNCHANGED <<spShown, spUI, opened, mAudioStream, mixing, outputReset, together,
                           triggers>>

Reopen == /\ errorStep = "open"
          /\ \/ /\ Len(opened) < SpStreams
                /\ \E rate \in SpRates :
                     opened' = Append(opened, [state |-> "open", rate |-> rate])
                /\ mAudioStream' = Len(opened') /\ errorStep' = "start"
             \/ errorStep' = "none" /\ UNCHANGED <<opened, mAudioStream>>
          /\ UNCHANGED <<spShown, spUI, sample, mixing, outputReset, together, triggers>>

Restart == /\ errorStep = "start" /\ mAudioStream # 0
           /\ \/ /\ opened' = [opened EXCEPT ![mAudioStream].state =
                                  IF @ = "open" THEN "started" ELSE @]
                 /\ outputReset' = TRUE
              \/ UNCHANGED <<opened, outputReset>>
           /\ errorStep' = "none"
           /\ UNCHANGED <<spShown, spUI, mAudioStream, sample, mixing, together, triggers>>

SpNext == \/ SpOnStart \/ SpOnStop \/ Teardown \/ Unload \/ TriggerDown
          \/ Mix \/ MixFrame \/ MixEnd \/ SpDisconnect \/ ResetAll \/ Reopen \/ Restart

SpSpec == SpInit /\ [][SpNext]_spVars
-----------------------------------------------------------------------------
\* A frame that is mixed is a frame of the sample, wherever a pad or a reset
\* puts its index meanwhile; a callback never outlives the sample, nor a stream
\* the activity; and resampling stays in its buffer.  Excluded is an activity
\* that stops while the other thread reopens the stream: it is left playing.
SamplesLive ==
  together \/ /\ mixing > 0 => sample.loaded /\ sample.index < sample.frames
              /\ sample.loaded => sample.frames <= sample.room
              /\ ~sample.loaded => mixing = -1 /\ PlayerStarted = {}
              /\ ~spShown /\ spUI = <<>> => PlayerStarted = {}
              /\ PlayerStarted \subseteq {mAudioStream}
=============================================================================
