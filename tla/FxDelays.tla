------------------------------- MODULE FxDelays -------------------------------
(***************************************************************************)
(* The effects of fxlab that remember what they heard: a delay line, and   *)
(* the taps that each effect takes from it for every sample.  A sample is  *)
(* its number, from 1; silence, from before the first, is 0.  Gains,       *)
(* interpolation and the shape of the modulation are left out: a modulated *)
(* effect takes any tap that its depth allows.                             *)
(***************************************************************************)
EXTENDS Integers, FiniteSets

CONSTANTS
  DlTimes,    \* delays and depths that the sliders give, in samples
  DlFlanger,  \* BOOLEAN: the flanger is among the effects
  DlSamples   \* how long an effect runs

ASSUME DelaysAssumption == DlTimes \subseteq Nat \ {0} /\ DlFlanger \in BOOLEAN /\ DlSamples \in Nat

VARIABLES
  dlEffect,  \* size of its line, its steady tap, and how far others are around that
  mArr, mfront,
  dlPushed,    \* samples pushed so far
  reads      \* what was taken for the last sample, by tap

dlVars == <<dlEffect, mArr, mfront, dlPushed, reads>>

-----------------------------------------------------------------------------
(* DelayLine *)

\* What it would be, if push() came back to the start of its array one too early.
PushShort(x) ==
  /\ mArr' = [mArr EXCEPT ![mfront] = x]
  /\ mfront' = IF mfront + 1 >= dlEffect.size - 1 THEN 0 ELSE mfront + 1

PushSample(x) == /\ mArr' = [mArr EXCEPT ![mfront] = x]
           /\ mfront' = IF mfront + 1 = dlEffect.size THEN 0 ELSE mfront + 1

TapAt(i) == LET at == mfront - i IN mArr[IF at < 0 THEN at + dlEffect.size ELSE at]

-----------------------------------------------------------------------------
(* The effects, as they are built from their parameters *)

DelayLineEffect(delay, depth) ==
  [size |-> delay + 2 * depth + 1, tap |-> delay + depth, depth |-> depth]

CombFilter(delay) == [size |-> delay + 1, tap |-> delay, depth |-> 0]

Echo == {DelayLineEffect(t, 0) : t \in DlTimes}
Slapback == {DelayLineEffect(t, 0) : t \in DlTimes}
Doubling == {DelayLineEffect(t, d) : t \in DlTimes, d \in DlTimes}
WhiteChorus == {DelayLineEffect(t, d) : t \in DlTimes, d \in DlTimes}
Flanger == {DelayLineEffect(0, d) : d \in DlTimes}
Vibrato == {DelayLineEffect(1, d) : d \in DlTimes \cup {0}}
FIR == {CombFilter(t) : t \in DlTimes}
IIR == {CombFilter(t) : t \in DlTimes}
AllPass == {CombFilter(t) : t \in DlTimes}

Effects == Echo \cup Slapback \cup Doubling \cup WhiteChorus \cup Vibrato \cup FIR \cup IIR
             \cup AllPass \cup (IF DlFlanger THEN Flanger ELSE {})

DlInit == /\ dlEffect \in Effects /\ mArr = [i \in 0..(dlEffect.size - 1) |-> 0]
          /\ mfront = 0 /\ dlPushed = 0 /\ reads = {}

\* The first comes from the integer part of the modulated delay, and its successor
\* is taken for the fraction; a comb filter has its one tap.
Taps == {{dlEffect.tap}} \cup
        {{dlEffect.tap, first, first + 1} :
           first \in (dlEffect.tap - dlEffect.depth)..(dlEffect.tap + dlEffect.depth)}

ProcessSample ==
  /\ dlPushed < DlSamples
  /\ \E taps \in Taps : reads' = {[tap |-> i, value |-> TapAt(i)] : i \in taps}
  /\ dlPushed' = dlPushed + 1 /\ PushSample(dlPushed')
  /\ UNCHANGED dlEffect

DlSpec == DlInit /\ [][ProcessSample]_dlVars

-----------------------------------------------------------------------------
\* A tap at i gives the i-th last sample that was dlPushed before, or silence: the
\* line holds as many as the furthest tap of any modulation needs, however often
\* it has come round ("indexed from last value written backwards", DelayLine.h:31).
TapsInOrder == \A r \in reads : LET due == dlPushed - r.tap IN r.value = IF due > 0 THEN due ELSE 0
=============================================================================
