-------------------------------- MODULE Ladspa --------------------------------
(***************************************************************************)
(* The plugins of LiveEffect as their host sees them: the descriptors that *)
(* the libraries build when they are loaded, and the control that the host *)
(* makes of a port and its range hint.  Ports are numbered from 0; values  *)
(* of ports and bounds are in hundredths.                                  *)
(***************************************************************************)
EXTENDS Integers, Sequences

\* A port, with the hints that the host uses.  flags is a part of
\* {"below", "above", "rate", "toggled", "integer"}.
Port(dir, kind, flags, lower, upper, default) ==
  [dir |-> dir, kind |-> kind, flags |-> flags, lower |-> lower, upper |-> upper,
   default |-> default]

\* The C code numbers ports from 0.
Ports(ports) == [i \in 0..(Len(ports) - 1) |-> ports[i + 1]]

AudioIn == Port("input", "audio", {}, 0, 0, "none")
AudioOut == Port("output", "audio", {}, 0, 0, "none")
Gain == Port("input", "control", {"below"}, 0, 0, "1")
Frequency == Port("input", "control", {"below", "above", "rate"}, 0, 50, "440")
DelayLength == Port("input", "control", {"below", "above"}, 0, 500, "1")
DryWet == Port("input", "control", {"below", "above"}, 0, 100, "middle")

AmpPlugins == << Ports(<<Gain, AudioIn, AudioOut>>),
                 Ports(<<Gain, AudioIn, AudioOut, AudioIn, AudioOut>>) >>
FilterPlugins == << Ports(<<Frequency, AudioIn, AudioOut>>),
                    Ports(<<Frequency, AudioIn, AudioOut>>) >>
DelayPlugins == << Ports(<<DelayLength, DryWet, AudioIn, AudioOut>>) >>
NoisePlugins == << Ports(<<Gain, AudioOut>>) >>

\* One plugin for each way to take frequency and amplitude
Signal(port) == [port EXCEPT !.kind = "audio"]
SinePlugins == << Ports(<<Signal(Frequency), Signal(Gain), AudioOut>>),
                  Ports(<<Signal(Frequency), Gain, AudioOut>>),
                  Ports(<<Frequency, Signal(Gain), AudioOut>>),
                  Ports(<<Frequency, Gain, AudioOut>>) >>

Plugins == [amp |-> AmpPlugins, filter |-> FilterPlugins, delay |-> DelayPlugins,
            noise |-> NoisePlugins, sine |-> SinePlugins]
-----------------------------------------------------------------------------
(* PluginControl, the value in the interface of a port. *)

\* nearbyint, which rounds a half to the even
Rounded(v) == LET low == v \div 100
              IN 100 * CASE v % 100 < 50 -> low
                         [] v % 100 > 50 -> low + 1
                         [] OTHER -> IF low % 2 = 0 THEN low ELSE low + 1

\* The bounds, for a control whose sample rate never changes
ControlRate == 48000
Scale(port) == IF "rate" \in port.flags THEN ControlRate ELSE 1
Lower(port) == port.lower * Scale(port)
Upper(port) == port.upper * Scale(port)

Minimum(port) == IF "below" \in port.flags THEN Lower(port)
                 ELSE IF "above" \in port.flags THEN 0 ELSE -100
Maximum(port) == IF "above" \in port.flags THEN Upper(port) ELSE 100

Suggested(port) ==
  CASE port.default = "minimum" -> Lower(port)
    [] port.default = "low" -> (3 * Lower(port) + Upper(port)) \div 4
    [] port.default = "middle" -> (Lower(port) + Upper(port)) \div 2
    [] port.default = "high" -> (Lower(port) + 3 * Upper(port)) \div 4
    [] port.default = "maximum" -> Upper(port)
    [] port.default = "0" -> 0
    [] port.default = "1" -> 100
    [] port.default = "100" -> 10000
    [] port.default = "440" -> 44000

\* The check of the default against the bounds
CheckedAsIs(port) == Suggested(port)
Checked(port) == LET least == IF Suggested(port) < Minimum(port) THEN Minimum(port)
                              ELSE Suggested(port)
                 IN IF least > Maximum(port) THEN Maximum(port) ELSE least

\* A control has a range, which the kind of value may override, and a value.
ControlMin(port) == IF "toggled" \in port.flags THEN 0
                    ELSE IF "integer" \in port.flags THEN Rounded(Minimum(port)) ELSE Minimum(port)
ControlMax(port) == IF "toggled" \in port.flags THEN 100
                    ELSE IF "integer" \in port.flags THEN Rounded(Maximum(port)) ELSE Maximum(port)
ControlValue(port) ==
  IF port.default = "none" THEN ControlMin(port)
  ELSE IF port.flags \cap {"toggled", "integer"} # {} THEN Rounded(Checked(port)) ELSE Checked(port)
=============================================================================
