---------------------------- MODULE SharedEngine ----------------------------
(***************************************************************************)
(* The OpenSL ES engine and the output mixer, two singletons that all      *)
(* streams share and count their users, as streams are opened and closed   *)
(* by several threads.  Both have the same open() and close(), each under  *)
(* the singleton's own mutex; a player is created from the mixer and the   *)
(* engine, and the mixer from the engine, without any lock.                *)
(*                                                                         *)
(* A stream stands for the thread that opens and closes it, and for one    *)
(* stream object after the other.  MaxLeaks bounds the failed opens.       *)
(***************************************************************************)
EXTENDS Integers, FiniteSets

CONSTANTS Stream, Nobody,
          Failures,     \* of "engine", "mixer" and "object", the ones that may
          MaxLeaks      \* fail to be created

ASSUME StreamAssumption == IsFiniteSet(Stream) /\ Nobody \notin Stream
ASSUME FailureAssumption == Failures \subseteq {"engine", "mixer", "object"}
                            /\ MaxLeaks \in Nat

Singleton == {"engine", "mixer"}

VARIABLES
  mOpenCount,   \* of each singleton
  alive,        \* whether its OpenSL ES object exists
  holder,       \* the thread that holds its mutex for good, or Nobody
  stream,       \* where each stream is in open() or close(), its direction
  leaked        \* streams deleted by the builder after open() failed

vars == <<mOpenCount, alive, holder, stream, leaked>>

NoStream == [pc |-> "none", output |-> FALSE]

Init == /\ mOpenCount = [x \in Singleton |-> 0]
        /\ alive = [x \in Singleton |-> FALSE]
        /\ holder = [x \in Singleton |-> Nobody]
        /\ stream = [s \in Stream |-> NoStream]
        /\ leaked = [output |-> 0, input |-> 0]

GoTo(s, pc) == stream' = [stream EXCEPT ![s].pc = pc]
-----------------------------------------------------------------------------
(* EngineOpenSLES and OutputMixerOpenSL *)

Acquire(x) == /\ holder[x] = Nobody
              /\ mOpenCount' = [mOpenCount EXCEPT ![x] = @ + 1]
              /\ alive' = [alive EXCEPT ![x] = IF mOpenCount[x] = 0 THEN TRUE ELSE @]
              /\ UNCHANGED holder

\* The first open() fails: its error path calls close(), which locks the mutex
\* that open() holds.  std::mutex is not recursive: the thread waits for itself.
AcquireFails(x, s) == /\ x \in Failures /\ holder[x] = Nobody /\ mOpenCount[x] = 0
                      /\ mOpenCount' = [mOpenCount EXCEPT ![x] = @ + 1]
                      /\ holder' = [holder EXCEPT ![x] = s]
                      /\ GoTo(s, "stuck")
                      /\ UNCHANGED <<alive, leaked>>

\* Does not notice that it is not the last user.
ReleaseEarly(x) == /\ holder[x] = Nobody
                   /\ mOpenCount' = [mOpenCount EXCEPT ![x] = @ - 1]
                   /\ alive' = [alive EXCEPT ![x] = @ /\ mOpenCount[x] > 2]
                   /\ UNCHANGED holder

Release(x) == /\ holder[x] = Nobody
              /\ mOpenCount' = [mOpenCount EXCEPT ![x] = @ - 1]
              /\ alive' = [alive EXCEPT ![x] = @ /\ mOpenCount[x] # 1]
              /\ UNCHANGED holder
-----------------------------------------------------------------------------
(* A stream *)

\* AudioStreamOpenSLES::open: the engine
OpenEngine(s) ==
  /\ stream[s].pc = "none"
  /\ \/ /\ Acquire("engine") /\ UNCHANGED leaked
        /\ \/ stream' = [stream EXCEPT ![s] = [pc |-> "mixer", output |-> TRUE]]
           \/ stream' = [stream EXCEPT ![s] = [pc |-> "create", output |-> FALSE]]
     \/ AcquireFails("engine", s)

\* AudioOutputStreamOpenSLES::open: the mixer
OpenMixer(s) ==
  /\ stream[s].pc = "mixer"
  /\ \/ Acquire("mixer") /\ GoTo(s, "create") /\ UNCHANGED leaked
     \/ AcquireFails("mixer", s)

\* The rest of open() of either direction: the player or recorder.
Create(s) == /\ stream[s].pc = "create"
             /\ GoTo(s, "open")
             /\ UNCHANGED <<mOpenCount, alive, holder, leaked>>

\* It fails, and the builder deletes the stream: nothing is released, and the
\* player stays too if only its configuration failed.
CreateFails(s) ==
  /\ stream[s].pc = "create" /\ "object" \in Failures
  /\ leaked.output + leaked.input < MaxLeaks
  /\ stream' = [stream EXCEPT ![s] = NoStream]
  /\ leaked' = IF stream[s].output THEN [leaked EXCEPT !.output = @ + 1]
               ELSE [leaked EXCEPT !.input = @ + 1]
  /\ UNCHANGED <<mOpenCount, alive, holder>>

\* close_l: Destroy of the player or recorder
CloseObject(s) == /\ stream[s].pc = "open"
                  /\ GoTo(s, IF stream[s].output THEN "closeMixer" ELSE "closeEngine")
                  /\ UNCHANGED <<mOpenCount, alive, holder, leaked>>

CloseMixerOff(s) == /\ stream[s].pc = "closeMixer"
                    /\ GoTo(s, "closeEngine")
                    /\ UNCHANGED <<mOpenCount, alive, holder, leaked>>

\* onAfterDestroy
CloseMixer(s) == /\ stream[s].pc = "closeMixer"
                 /\ Release("mixer")
                 /\ GoTo(s, "closeEngine")
                 /\ UNCHANGED leaked

CloseEngine(s) == /\ stream[s].pc = "closeEngine"
                  /\ Release("engine")
                  /\ stream' = [stream EXCEPT ![s] = NoStream]
                  /\ UNCHANGED leaked

Next == \E s \in Stream : \/ OpenEngine(s) \/ OpenMixer(s) \/ Create(s) \/ CreateFails(s)
                          \/ CloseObject(s) \/ CloseMixer(s) \/ CloseEngine(s)

Spec == Init /\ [][Next]_vars
-----------------------------------------------------------------------------
Leaks == leaked.output + leaked.input

\* The values every variable takes; no count goes below zero.
TypeOK ==
  /\ mOpenCount \in [Singleton -> 0..(Cardinality(Stream) + MaxLeaks)]
  /\ alive \in [Singleton -> BOOLEAN]
  /\ holder \in [Singleton -> Stream \cup {Nobody}]
  /\ stream \in [Stream -> [pc : {"none", "mixer", "create", "open", "closeMixer",
                                  "closeEngine", "stuck"}, output : BOOLEAN]]
  /\ leaked \in [output : 0..MaxLeaks, input : 0..MaxLeaks]

\* A singleton outlives everything made from it: whatever other streams open,
\* fail to open and close meanwhile, the engine is there for every mixer, player
\* and recorder, and the mixer for every player, without a lock on their use.
SingletonsOutliveUse ==
  /\ alive["mixer"] => alive["engine"]
  /\ \A s \in Stream :
       /\ stream[s].pc \in {"mixer", "create", "open"} => alive["engine"]
       /\ stream[s].pc \in {"create", "open"} /\ stream[s].output => alive["mixer"]

\* The last stream to close takes the engine and the mixer with it, unless a
\* stream failed to open: its references are never given back.
LastCloseDestroys ==
  (\A s \in Stream : stream[s].pc = "none") =>
    /\ alive["engine"] <=> Leaks > 0
    /\ alive["mixer"] <=> leaked.output > 0
=============================================================================
