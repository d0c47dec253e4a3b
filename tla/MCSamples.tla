------------------------------- MODULE MCSamples -------------------------------
(***************************************************************************)
(* The demo applications and what they are built from, one part per      *)
(* behaviour: the engines that play until they are paused, LiveEffect and  *)
(* instances of its plugins, RhythmGame and its queue, the decoders of its *)
(* assets, DrumThumper's player, and the reader of its wave files.         *)
(***************************************************************************)
EXTENDS SampleEngines, EffectPlugins, LiveEffect, RhythmGame, AssetExtraction,
        SamplePlayer, WavReader

\* The buffer of a resampled asset is large enough for the rates of this instance,
\* for small rates, and for those of devices, at short lengths.
Enough(frames, rates) ==
  Resampled(frames, rates[1], rates[2]) <= Allocated(frames, rates[1], rates[2])
DeviceRates == {16000, 22050, 44100, 48000, 96000}
ASSUME ResampledAssumption ==
  /\ ResamplesWithin
  /\ \A rates \in (1..6) \X (1..6), frames \in 0..9 : Enough(frames, rates)
  /\ \A rates \in DeviceRates \X DeviceRates, frames \in 0..8 : Enough(frames, rates)

VARIABLE demo

sampleVars == <<demo, seVars, epVars, leVars, lfqVars, rgVars, axVars, spVars, wrVars>>

Parts == {"engines", "plugins", "effect", "queue", "game", "asset", "player", "wave"}

\* The parts that do not run are in one initial state each.
SamplesInit ==
  /\ demo \in Parts
  /\ SeInit /\ (demo # "engines" => seHello)
  /\ EpInit /\ (demo # "plugins" => effect = Instance.sine)
  /\ LeInit /\ (demo # "effect" => permission)
  /\ LfqInit /\ RgInit /\ SpInit
  /\ AxInit /\ (demo # "asset" => axKind = "ndk" /\ axRoom = CHOOSE room \in AxRooms : TRUE)
  /\ WrInit /\ (demo # "wave" => file = CHOOSE f \in Files : TRUE)

SamplesNext ==
  /\ UNCHANGED demo
  /\ demo # "engines" => UNCHANGED seVars
  /\ demo # "plugins" => UNCHANGED epVars
  /\ demo # "effect" => UNCHANGED leVars
  /\ demo # "queue" => UNCHANGED lfqVars
  /\ demo # "game" => UNCHANGED rgVars
  /\ demo # "asset" => UNCHANGED axVars
  /\ demo # "player" => UNCHANGED spVars
  /\ demo # "wave" => UNCHANGED wrVars
  /\ \/ demo = "engines" /\ SeNext
     \/ demo = "plugins" /\ EpNext
     \/ demo = "effect" /\ LeNext
     \/ demo = "queue" /\ LfqNext
     \/ demo = "game" /\ RgNext
     \/ demo = "asset" /\ AxNext
     \/ demo = "player" /\ SpNext
     \/ demo = "wave" /\ WrNext
-----------------------------------------------------------------------------
\* LiveEffect: its screen and its streams agree, its callback finds all that it
\* uses, and the plugins in its rack do what their ports ask for.
EffectWorks == EffectInStep /\ CallbackLegal /\ PluginsFollow

\* RhythmGame: a stream plays the players there are, and none after a stop that
\* crossed no load and no disconnect; and a tap is judged once.
GamePlays == RhythmInStep /\ TapsInTurn

\* What is played is the samples of the file in order and nothing else: of an
\* asset all blocks from the first to the last, or to a read that failed, but
\* those that FFmpeg's codec keeps; of a well-formed wave all frames, however it is
\* cut into blocks.
FilesDecoded == DecodedWhole /\ SamplesRead
=============================================================================
