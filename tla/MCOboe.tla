-------------------------------- MODULE MCOboe --------------------------------
(***************************************************************************)
(* Parts of the library whose properties are invariants, each with         *)
(* variables of its own: part says which one runs.  Three threads open and *)
(* close streams of either direction on the shared engine.  Streams of     *)
(* both directions have a frame rate that is no multiple of the            *)
(* millisecond's, and a position that wraps several times.  One thread     *)
(* asks for every kind of stream on devices with and without quirks, two   *)
(* ask for streams that are unsafe.  Threads race to load libaaudio.       *)
(* Flowgraphs of every shape are read, and a ramp is turned while it runs. *)
(* Two application threads use an AAudio stream on O_MR1, with the error    *)
(* thread and two stop threads; the parts that only read may stop.         *)
(***************************************************************************)
EXTENDS SharedEngine, OpenSLESPosition, StreamOpening, AAudioLoading,
        FlowGraphNodes, RampLinear, AAudioStream

CONSTANTS s1, s2, s3, o1, o2

VARIABLE part

oboeVars == <<part, vars, posVars, soVars, alVars, fgVars, rlVars, aaVars>>

Phone(sdk, workarounds, mmapPolicy, unsafe, mono, together) ==
  [sdk |-> sdk, workarounds |-> workarounds, policy |-> mmapPolicy, unsafe |-> unsafe,
   monoIsStereo |-> mono, together |-> together]

AnyRequest ==
  {r \in [api : {"Unspecified", "AAudio", "OpenSLES"}, direction : {"input", "output"},
          format : {"Unspecified", "I16", "Float"}, rate : {0, 44, 48}, channels : 0..2,
          lowLatency : BOOLEAN, frames : {0, 64}, callback : BOOLEAN,
          converts : BOOLEAN, resamples : BOOLEAN] :
     /\ r.frames # 0 => r.callback
     /\ r.rate # 44 => ~r.resamples}

UnsafeRequest == {r \in AnyRequest : /\ r.api = "Unspecified" /\ r.format = "Float"
                                     /\ r.lowLatency /\ r.callback /\ r.frames = 64
                                     /\ r.channels = 1 /\ ~r.resamples /\ r.rate = 0}

SomePhones == {Phone(20, TRUE, "never", {}, FALSE, FALSE),
               Phone(23, TRUE, "never", {}, FALSE, FALSE),
               Phone(26, TRUE, "never", {}, FALSE, FALSE),
               Phone(28, TRUE, "auto", {"input", "output"}, FALSE, FALSE),
               Phone(30, TRUE, "always", {"input"}, TRUE, FALSE),
               Phone(31, TRUE, "auto", {}, TRUE, FALSE),
               Phone(31, FALSE, "auto", {"input"}, TRUE, FALSE),
               Phone(30, TRUE, "auto", {"input"}, TRUE, TRUE)}

\* Of Android N, O with its first names, O_MR1 without all of MMAP, P and S
Library(sdk, symbols) == [sdk |-> sdk, symbols |-> {"builder", "stream"} \cup symbols]
Names == {"setChannelCount", "getChannelCount"}
NoLibrary == [sdk |-> 25, symbols |-> {}]
Libraries == {NoLibrary,
              Library(26, {"setSamplesPerFrame", "getSamplesPerFrame"}),
              Library(27, Names \cup {"isMMapUsed", "setMMapPolicy"}),
              Library(28, Names \cup Range(Symbols) \cup {"usage"}),
              Library(31, Names \cup Range(Symbols) \cup {"usage", "packageName"})}

Parts == {"engine", "position", "opening", "loading", "graph", "ramp", "stream"}

\* The parts that do not run are in one initial state each.
OboeInit ==
  /\ part \in Parts
  /\ Init
  /\ PosInit /\ (part # "position" => ~input)
  /\ SoInit /\ (part # "opening" => phone.sdk = 20)
  /\ alDevice \in (IF part = "loading" THEN Libraries ELSE {NoLibrary}) /\ AlInit
  /\ graph \in (IF part = "graph" THEN Graphs ELSE {Chain}) /\ FgInit
  /\ RlInit
  /\ AaInit

\* Only the threads of a stream wait for one another.
Ended == part # "stream" /\ UNCHANGED oboeVars

OboeNext ==
  /\ UNCHANGED part
  /\ part # "engine" => UNCHANGED vars
  /\ part # "position" => UNCHANGED posVars
  /\ part # "opening" => UNCHANGED soVars
  /\ part # "loading" => UNCHANGED alVars
  /\ part # "graph" => UNCHANGED fgVars
  /\ part # "ramp" => UNCHANGED rlVars
  /\ part # "stream" => UNCHANGED aaVars
  /\ \/ part = "engine" /\ Next
     \/ part = "position" /\ PosNext
     \/ part = "opening" /\ SoNext
     \/ part = "loading" /\ AlNext
     \/ part = "graph" /\ FgNext
     \/ part = "ramp" /\ RlNext
     \/ part = "stream" /\ AaNext
     \/ Ended

OboeSpec == OboeInit /\ [][OboeNext]_oboeVars

\* What openStream() finds of AAudio it can call, and leaves as it was.
AAudioAsFound == LoadedBeforeUse /\ MMapSettled

\* A flowgraph gives all the frames of its source, in pulls that end, and levels
\* that do not jump.
GraphPlays == FramesPulled /\ PullEnds /\ RampSmooth

OboeSymmetry == Permutations(Stream) \cup Permutations(Opener) \cup AaSymmetry
=============================================================================
