---------------------------- MODULE EffectPlugins ----------------------------
(***************************************************************************)
(* Instances of LiveEffect's plugins that keep state from one run to the   *)
(* next, whatever the blocks and the values of their ports: the delay      *)
(* line, the sine oscillator and the low pass filter.  A sample is known   *)
(* by its number; 0 is silence.                                            *)
(***************************************************************************)
EXTENDS Ladspa, FiniteSetsExt

CONSTANTS EpRate,     \* the sample rate
          EpSamples,  \* bounds the samples that an instance is given
          EpBlock     \* the longest block

\* MAX_DELAY in seconds
MaxDelay == 5

\* The rate is one of a device.
ASSUME EpAssumption == /\ {EpRate, EpSamples, EpBlock} \subseteq Nat \ {0}
                       /\ EpRate * MaxDelay <= 1048576

VARIABLES
  effect,      \* the instance, see the records below
  given,       \* samples that it was given
  since,       \* samples that it had been given when it was activated last
  port,        \* what its first port holds: the delay in seconds, the frequency
  heard        \* what the last run put out

epVars == <<effect, given, since, port, heard>>

\* The smallest power of two that holds the longest delay
PowersOfTwo == {1, 2, 4, 8, 16, 32, 64, 128, 256, 512, 1024, 2048, 4096, 8192, 16384, 32768,
                65536, 131072, 262144, 524288, 1048576}
BufferSizeShort == Min({size \in PowersOfTwo : size >= EpRate * MaxDelay}) \div 2
BufferSize == Min({size \in PowersOfTwo : size >= EpRate * MaxDelay})

\* Steps of the phase are known by their frequency, amounts of the filter by
\* the regime that they stand for.
Instance ==
  [delay |-> [kind |-> "delay", buffer |-> [i \in 0..(BufferSize - 1) |-> 0], write |-> 0],
   sine |-> [kind |-> "sine", cached |-> 0, step |-> 0, phase |-> 0],
   lpf |-> [kind |-> "lpf", cached |-> 0, regime |-> "reject"]]

\* Hints that a port may carry, for the controls that a host makes of them
HintedPorts ==
  {Port("input", "control", flags, lower, lower + width, default) :
     flags \in {flags \in SUBSET {"below", "above", "rate", "toggled", "integer"} :
                 "toggled" \in flags => flags = {"toggled"}},
     lower \in {-50, 0, 50}, width \in {50, 150, 500},
     default \in {"none", "minimum", "low", "middle", "high", "maximum", "0", "1", "100", "440"}}

EpInit == /\ effect \in {Instance[kind] : kind \in DOMAIN Instance}
                       \cup {[kind |-> "control", of |-> hinted] : hinted \in HintedPorts}
          /\ given = 0 /\ since = 0 /\ port = 0 /\ heard = <<>>

\* activate: the history is forgotten.
Activate ==
  /\ effect' = CASE effect.kind = "delay" -> [effect EXCEPT !.buffer = Instance.delay.buffer]
                 [] effect.kind = "sine" -> [effect EXCEPT !.phase = 0]
                 [] OTHER -> effect
  /\ since' = given /\ heard' = <<>>
  /\ UNCHANGED <<given, port>>

-----------------------------------------------------------------------------
\* A delay, limited to what the buffer holds
Delay(seconds) == EpRate * CASE seconds < 0 -> 0
                             [] seconds > MaxDelay -> MaxDelay
                             [] OTHER -> seconds

\* runSimpleDelayLine: the read of a sample comes before the write.
RunDelay(n, seconds) ==
  LET place(i) == i % BufferSize
      from(k) == place(effect.write + BufferSize - Delay(seconds) + k - 1)
      read(k) == LET ages == {j \in 1..(k - 1) : place(effect.write + j - 1) = from(k)}
                 IN IF ages # {} THEN given + Max(ages) ELSE effect.buffer[from(k)]
  IN /\ effect.kind = "delay" /\ seconds \in {-1, 0, 1, MaxDelay, MaxDelay + 1}
     /\ heard' = [k \in 1..n |-> read(k)]
     /\ effect' = [effect EXCEPT
          !.buffer = [i \in DOMAIN @ |->
             LET ages == {j \in 1..n : place(effect.write + j - 1) = i}
             IN IF ages = {} THEN @[i] ELSE given + Max(ages)],
          !.write = place(@ + n)]

\* setPhaseStepFromFrequency: the limit is half the sample rate.
SetPhaseStep(sine, frequency) ==
  IF frequency = sine.cached THEN sine
  ELSE [sine EXCEPT !.step = IF frequency >= 0 /\ 2 * frequency < EpRate THEN frequency ELSE 0,
                    !.cached = frequency]

\* The four runs of the oscillator: a signal of frequencies, one for each
\* sample, is taken after the sample is put out and a control before.
RunSine(n, frequency) ==
  /\ effect.kind = "sine" /\ frequency \in {-1, 0, 1, EpRate}
  /\ effect' = LET sine == SetPhaseStep(effect, frequency)
               IN [sine EXCEPT !.phase = (@ + n * sine.step) % EpRate]
  /\ heard' = <<effect'.phase>>

\* runSimpleLowPassFilter
Regime(cutoff) == CASE cutoff <= 0 -> "reject"
                    [] 2 * cutoff > EpRate -> "pass"
                    [] OTHER -> "smooth"

RunLowPass(n, cutoff) ==
  /\ effect.kind = "lpf" /\ cutoff \in {-1, 0, 1, EpRate}
  /\ effect' = IF cutoff = effect.cached THEN effect
               ELSE [effect EXCEPT !.cached = cutoff, !.regime = Regime(cutoff)]
  /\ heard' = <<effect'.regime>>

Run(n, value) ==
  /\ given + n <= EpSamples /\ given' = given + n
  /\ port' = value
  /\ RunDelay(n, value) \/ RunSine(n, value) \/ RunLowPass(n, value)
  /\ UNCHANGED since

EpNext == \/ effect.kind # "control" /\ Activate
          \/ \E n \in 1..EpBlock, value \in {-1, 0, 1, MaxDelay, MaxDelay + 1, EpRate} : Run(n, value)

EpSpec == EpInit /\ [][EpNext]_epVars
-----------------------------------------------------------------------------
\* A delay of at least a sample is exact, over every change of its length, and
\* silent where it reaches back beyond the activation; the phase always turns
\* by the frequency the port holds, not one that was cached; and the filter is
\* in the regime of its cutoff.
DelayIsExact ==
  \A k \in DOMAIN heard :
    LET sample == given - Len(heard) + k - Delay(port)
    IN Delay(port) > 0 => heard[k] = IF sample > since THEN sample ELSE 0
StepIsCurrent == effect.step = IF 0 <= port /\ 2 * port < EpRate THEN port ELSE 0

\* The value of a control lies in its range, and is the value that the hint of
\* its port suggests where the bounds allow it.
ControlFits(of) ==
  LET bounded == {"below", "above"} \subseteq of.flags
      v == ControlValue(of)
  IN bounded => /\ ControlMin(of) <= v /\ v <= ControlMax(of)
                /\ (/\ of.default # "none" /\ Lower(of) <= Suggested(of)
                    /\ Suggested(of) <= Upper(of)) =>
                      v - Suggested(of) \in (IF "integer" \in of.flags THEN -50..50 ELSE {0})

PluginsFollow == CASE effect.kind = "delay" -> DelayIsExact
                   [] effect.kind = "sine" -> StepIsCurrent
                   [] effect.kind = "lpf" -> effect.regime = Regime(port)
                   [] effect.kind = "control" -> ControlFits(effect.of)
=============================================================================
