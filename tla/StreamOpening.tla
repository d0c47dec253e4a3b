---------------------------- MODULE StreamOpening ----------------------------
(***************************************************************************)
(* AudioStreamBuilder::openStream: the choice of AAudio or OpenSL ES, the  *)
(* child stream that QuirksManager asks for and the filter stream around   *)
(* it, the open() of either kind of native stream, and MMAP, which is      *)
(* switched off for the whole process while an unsafe stream is opened.    *)
(*                                                                         *)
(* openStream() calls itself for the child, so each thread has a stack of  *)
(* frames.  0 stands for kUnspecified, rates are in kHz.  The AAudio       *)
(* library has been loaded; builders are valid (isValidConfig).            *)
(***************************************************************************)
EXTENDS Integers, Sequences, SequencesExt

CONSTANTS Opener,             \* threads that open one stream each
          Phones,             \* the devices on which they run
          Requests,           \* what a thread asks for when it is alone,
          SharedRequests,     \* and when there are others
          Burst, NativeRate

\* What a builder may hold, and what differs between devices
Builder == [api : {"Unspecified", "AAudio", "OpenSLES"}, direction : {"input", "output"},
            format : {"Unspecified", "I16", "Float"}, rate : Nat, channels : Nat,
            lowLatency : BOOLEAN, frames : Nat, callback : BOOLEAN,
            converts : BOOLEAN, resamples : BOOLEAN]
Device == [sdk : Nat, workarounds : BOOLEAN, policy : {"never", "auto", "always"},
           unsafe : SUBSET {"input", "output"}, monoIsStereo : BOOLEAN, together : BOOLEAN]

ASSUME OpeningAssumption == /\ Requests \cup SharedRequests \subseteq Builder
                            /\ Phones \subseteq Device
                            /\ {Burst, NativeRate} \subseteq Nat \ {0}

VARIABLES
  phone,      \* the device, fixed
  policy,     \* AAudio's MMAP policy
  frames,     \* of each thread, the frames of openStream()
  returned    \* of each thread, what the last openStream() handed over

soVars == <<phone, policy, frames, returned>>

Nothing == [kind |-> "nothing"]
Frame(r) == [at |-> "convert", asked |-> r, stream |-> Nothing]

SoInit == /\ phone \in Phones /\ policy = phone.policy
          /\ frames = [o \in Opener |-> <<>>]
          /\ returned = [o \in Opener |-> Nothing]
-----------------------------------------------------------------------------
(* The API.  build() decides as willUseAAudio() does. *)

\* isAAudioSupported from O on, isAAudioRecommended from O_MR1 on
WillUseAAudio(r) == \/ r.api = "AAudio" /\ phone.sdk >= 26
                    \/ r.api = "Unspecified" /\ phone.sdk >= 27

Input(r) == r.direction = "input"
-----------------------------------------------------------------------------
(* QuirksManager *)

\* With a rate other than the common one the child's must be free to differ.
MMapPossible(r) == /\ r.lowLatency /\ r.channels <= 2
                   /\ r.rate \in {0, NativeRate} \/ r.resamples

\* isMMapSafe, of the Exynos and Qualcomm quirks
MMapSafe(r) == phone.workarounds => r.direction \notin phone.unsafe

\* isConversionNeeded: the child that is asked for instead of the stream.
ChildFrames(r) ==
  IF phone.workarounds /\ WillUseAAudio(r) /\ r.callback /\ phone.sdk <= 30 THEN 0
  ELSE r.frames

ChildRate(r) == IF r.resamples /\ r.lowLatency THEN 0 ELSE r.rate

ChildFormat(r) ==
  IF /\ r.format = "Float" /\ r.converts
     /\ IF Input(r) THEN r.lowLatency /\ (~WillUseAAudio(r) \/ phone.sdk < 28)
        ELSE phone.sdk < 21
  THEN "I16" ELSE r.format

ChildChannels(r) ==
  IF ~phone.workarounds \/ ~Input(r) THEN r.channels
  ELSE IF /\ r.channels = 2 /\ r.converts /\ r.lowLatency
          /\ ~WillUseAAudio(r) /\ phone.sdk = 26 THEN 1
  ELSE IF /\ r.channels = 1 /\ phone.monoIsStereo
          /\ WillUseAAudio(r) /\ MMapPossible(r) THEN 2
  ELSE r.channels

Child(r) == [r EXCEPT !.frames = ChildFrames(r), !.rate = ChildRate(r),
                      !.format = ChildFormat(r), !.channels = ChildChannels(r)]
-----------------------------------------------------------------------------
(* Native streams.  What was specified is honoured, or open() fails. *)

Or(value, default) == IF value = 0 THEN default ELSE value

Enabled(p) == p \in {"auto", "always"}

\* AudioStreamAAudio::open.  AAudio uses MMAP for low latency at its own rate.
AAudioStreams(r) ==
  {s \in [kind : {"aaudio"},
          format : IF r.format = "Unspecified" THEN {"I16", "Float"} ELSE {r.format},
          rate : {Or(r.rate, NativeRate)}, channels : {Or(r.channels, 2)},
          frames : {r.frames}, lowLatency : {r.lowLatency, FALSE}, mmap : BOOLEAN] :
     s.mmap => Enabled(policy) /\ s.lowLatency /\ s.rate = NativeRate}

\* The first level of the API with floats: L for output, M for input
FloatSince(r) == IF Input(r) THEN 23 ELSE 21

OpenSLFormat(r) == IF r.format # "Unspecified" THEN r.format
                   ELSE IF phone.sdk < FloatSince(r) THEN "I16" ELSE "Float"

\* configureBufferSizes: a larger buffer when the latency may be high.
OpenSLFrames(r, lowLatency) ==
  IF r.frames # 0 THEN r.frames
  ELSE IF phone.sdk >= 25 /\ ~lowLatency THEN 5 * Burst ELSE Burst

\* configurePerformanceMode, updateStreamParameters: since N_MR1
OpenSLLatency(r) == IF phone.sdk < 25 THEN {FALSE} ELSE {r.lowLatency, FALSE}

OpenSLStreams(r) ==
  IF r.format = "Float" /\ phone.sdk < FloatSince(r) THEN {}
  ELSE {[kind |-> "opensl", format |-> OpenSLFormat(r), rate |-> Or(r.rate, NativeRate),
         channels |-> Or(r.channels, 2), frames |-> OpenSLFrames(r, l),
         lowLatency |-> l, mmap |-> FALSE] : l \in OpenSLLatency(r)}

NativeStreams(r) == IF WillUseAAudio(r) THEN AAudioStreams(r) ELSE OpenSLStreams(r)
-----------------------------------------------------------------------------
(* The filter stream.  A node of its graph turns frames of some channels and *)
(* rate into others.                                                        *)

Node(c, rate, d, newRate) == [from |-> <<c, rate>>, to |-> <<d, newRate>>]

Fewer(s, t) == IF s.channels < t.channels THEN s.channels ELSE t.channels

\* DataConversionFlowGraph::configure: channels are reduced before the rate
\* is converted, and expanded after.
ReducedFirst(s, t) == IF s.channels > t.channels
                  THEN <<Node(s.channels, s.rate, t.channels, s.rate)>> ELSE <<>>
Resampled(s, t) == IF s.rate # t.rate
                   THEN <<Node(Fewer(s, t), s.rate, Fewer(s, t), t.rate)>> ELSE <<>>
ExpandedLast(s, t) == IF s.channels < t.channels
                  THEN <<Node(s.channels, t.rate, t.channels, t.rate)>> ELSE <<>>

FlowGraph(s, t) == ReducedFirst(s, t) \o Resampled(s, t) \o ExpandedLast(s, t)

\* A stream as close as possible to the child, FilterAudioStream over it.
Parent(r, c) ==
  [kind |-> "filter",
   format |-> IF r.format = "Unspecified" THEN c.format ELSE r.format,
   rate |-> Or(r.rate, c.rate), channels |-> Or(r.channels, c.channels),
   frames |-> Or(r.frames, c.frames), lowLatency |-> c.lowLatency, mmap |-> c.mmap]

Filter(r, c) ==
  LET p == Parent(r, c)
  IN [stream |-> p, source |-> IF Input(r) THEN c ELSE p, sink |-> IF Input(r) THEN p ELSE c]

CompatibleUnblocked(r, c) == /\ r.rate \in {0, c.rate} /\ r.channels \in {0, c.channels}
                             /\ r.format \in {"Unspecified", c.format}

\* isCompatible: the child is as good as the stream that was asked for.
Compatible(r, c) == /\ r.rate \in {0, c.rate} /\ r.channels \in {0, c.channels}
                    /\ r.format \in {"Unspecified", c.format}
                    /\ r.frames \in {0, c.frames}
-----------------------------------------------------------------------------
(* AudioStreamBuilder::openStream *)

Top(o) == frames[o][Len(frames[o])]
At(o, places) == frames[o] # <<>> /\ Top(o).at \in places
Go(o, f) == frames' = [frames EXCEPT ![o] = Append(Front(@), f)]
GoOn(o, at) == Go(o, [Top(o) EXCEPT !.at = at])

Return(o, s) ==
  /\ returned' = [returned EXCEPT ![o] = s]
  /\ IF Len(frames[o]) = 1 THEN GoOn(o, "done")
     ELSE frames' = [frames EXCEPT ![o] = Front(@)]

Ask(o) == /\ frames[o] = <<>>
          /\ phone.together \/ \A other \in Opener : frames[other] = <<>>
          /\ \E r \in IF phone.together THEN SharedRequests ELSE Requests :
               frames' = [frames EXCEPT ![o] = <<Frame(r)>>]
          /\ UNCHANGED <<phone, policy, returned>>

Convert(o) ==
  /\ At(o, {"convert"})
  /\ LET f == Top(o) IN
       IF Child(f.asked) = f.asked THEN GoOn(o, "mmap")
       ELSE frames' = [frames EXCEPT ![o] = Front(@) \o <<[f EXCEPT !.at = "child"],
                                                          Frame(Child(f.asked))>>]
  /\ UNCHANGED <<phone, policy, returned>>

TakeChild(o) ==
  /\ At(o, {"child"})
  /\ LET f == Top(o)
         c == returned[o]
     IN \/ c = Nothing /\ Return(o, Nothing)
        \/ c # Nothing /\ Compatible(f.asked, c) /\ Return(o, c)
        \/ /\ c # Nothing /\ ~Compatible(f.asked, c)
           /\ Go(o, [f EXCEPT !.at = "mmap", !.stream = Filter(f.asked, c)])
           /\ UNCHANGED returned
  /\ UNCHANGED <<phone, policy>>

\* The policy is read, and set in a step of its own.
CheckMMap(o) ==
  /\ At(o, {"mmap"})
  /\ GoOn(o, IF Enabled(policy) /\ ~MMapSafe(Top(o).asked) THEN "disable" ELSE "open")
  /\ UNCHANGED <<phone, policy, returned>>

DisableMMap(o) ==
  /\ At(o, {"disable"}) /\ policy' = "never" /\ GoOn(o, "openOff")
  /\ UNCHANGED <<phone, returned>>

\* The pointer is written, or the stream deleted, after MMAP is restored.
OpenReturns(o, s) ==
  IF Top(o).at = "open" THEN Return(o, s)
  ELSE GoOn(o, "restore") /\ returned' = [returned EXCEPT ![o] = s]

OpenNative(o) ==
  /\ At(o, {"open", "openOff"}) /\ Top(o).stream = Nothing
  /\ \E s \in NativeStreams(Top(o).asked) \cup {Nothing} : OpenReturns(o, s)
  /\ UNCHANGED <<phone, policy>>

OpenFilter(o) ==
  /\ At(o, {"open", "openOff"}) /\ Top(o).stream # Nothing
  /\ OpenReturns(o, Top(o).stream.stream)
  /\ UNCHANGED <<phone, policy>>

RestoreMMapOpened(o) ==
  /\ At(o, {"restore"})
  /\ policy' = IF returned[o] = Nothing THEN policy ELSE "auto"
  /\ Return(o, returned[o])
  /\ UNCHANGED phone

RestoreMMap(o) ==
  /\ At(o, {"restore"})
  /\ policy' = "auto"
  /\ Return(o, returned[o])
  /\ UNCHANGED phone

SoNext == \E o \in Opener : \/ Ask(o) \/ Convert(o) \/ TakeChild(o)
                            \/ CheckMMap(o) \/ DisableMMap(o)
                            \/ OpenNative(o) \/ OpenFilter(o) \/ RestoreMMap(o)

SoSpec == SoInit /\ [][SoNext]_soVars
-----------------------------------------------------------------------------
Handed(o) == At(o, {"done"}) /\ returned[o] # Nothing

FrameOf(s) == <<s.channels, s.rate>>

\* Each node of the graph takes what the one before it makes.
Fits(f) ==
  LET g == FlowGraph(f.source, f.sink)
  IN IF g = <<>> THEN FrameOf(f.source) = FrameOf(f.sink)
     ELSE /\ g[1].from = FrameOf(f.source) /\ g[Len(g)].to = FrameOf(f.sink)
          /\ \A i \in 1..(Len(g) - 1) : g[i + 1].from = g[i].to

\* Whatever the quirks make of a request: the stream that is handed over has
\* every property that was specified and no property left unspecified, a filter's
\* graph leads from the one stream to the other, and the child of a filter is
\* never wrapped itself.
RequestHonoured ==
  \A o \in Opener :
    /\ Len(frames[o]) <= 2
    /\ \A i \in 1..Len(frames[o]) :
         frames[o][i].stream # Nothing => i = 1 /\ Fits(frames[o][i].stream)
    /\ Handed(o) => LET r == frames[o][1].asked
                        s == returned[o]
                    IN /\ r.format \in {"Unspecified", s.format}
                       /\ r.rate \in {0, s.rate} /\ r.channels \in {0, s.channels}
                       /\ r.callback => r.frames \in {0, s.frames}
                       /\ s.format # "Unspecified" /\ s.rate # 0 /\ s.channels # 0

\* "restore original": MMAP is enabled again for the other streams of the process
\* when no stream is being opened, also when an open() failed; and a thread that
\* opens streams alone is given no MMAP stream that is unsafe, and none that would
\* record stereo as mono.
MMapSettled ==
  /\ (\A o \in Opener : ~At(o, {"openOff", "restore"})) => Enabled(policy) = Enabled(phone.policy)
  /\ \A o \in Opener :
       Handed(o) /\ returned[o].mmap /\ phone.workarounds =>
         LET r == frames[o][1].asked IN
           /\ phone.together \/ MMapSafe(r)
           /\ Input(r) /\ returned[o].kind = "aaudio" /\ returned[o].channels = 1
                => ~phone.monoIsStereo
=============================================================================
