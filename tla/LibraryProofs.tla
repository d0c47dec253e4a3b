--------------------------- MODULE LibraryProofs ----------------------------
(***************************************************************************)
(* Proofs about the library, one part after the other.                     *)
(*                                                                         *)
(* SharedEngine: for any number of streams, of failures and of orders in   *)
(* which they are opened and closed, nothing made from the engine or the   *)
(* mixer outlives them, and only failed opens keep them alive after the    *)
(* last close.                                                             *)
(*                                                                         *)
(* OpenSLESPosition: for every frame rate, size of a buffer, width of the  *)
(* device's counter and number of frames, what an OpenSL ES stream reports *)
(* of the device's progress is exact, never ahead of the application, and  *)
(* never goes back, if the application pauses no stream that plays.        *)
(*                                                                         *)
(* StreamOpening: for every request, device and set of quirks, and any     *)
(* number of threads, a stream that is handed over is the one that was     *)
(* asked for, and MMAP is as it was found.                                 *)
(*                                                                         *)
(* AAudioLoading: any number of threads load libaaudio without a lock, and *)
(* none calls through a pointer that is null.                              *)
(*                                                                         *)
(* FlowGraphNodes: for every size of a buffer and of the reads, and every  *)
(* graph of two nodes between a source and two sinks, a pull ends and what *)
(* it gives is the frames of the source, once and in order.                *)
(*                                                                         *)
(* RampLinear: for every length of a ramp and any number of targets, the   *)
(* level does not jump and arrives.                                        *)
(***************************************************************************)
EXTENDS MCOboe, FiniteSetTheorems, SequenceTheorems, TLAPS
-----------------------------------------------------------------------------
(* SharedEngine *)

(* The inductive invariant: a count is the number of those who will still   *)
(* close the singleton and of those who never will.                         *)

\* Streams whose thread has a reference to the engine, or is stuck in open().
EngineUsers == {s \in Stream : stream[s].pc # "none"}

MixerUsers == {s \in Stream :
                 \/ stream[s].output /\ stream[s].pc \in {"create", "open", "closeMixer"}
                 \/ stream[s].pc = "stuck" /\ holder["mixer"] = s}

Where == {"none", "mixer", "create", "open", "closeMixer", "closeEngine", "stuck"}

Typed == /\ mOpenCount \in [Singleton -> Int]
         /\ alive \in [Singleton -> BOOLEAN]
         /\ holder \in [Singleton -> Stream \cup {Nobody}]
         /\ stream \in [Stream -> [pc : Where, output : BOOLEAN]]
         /\ leaked \in [output : Nat, input : Nat] /\ Leaks <= MaxLeaks

Counted == /\ mOpenCount["engine"] = Cardinality(EngineUsers) + Leaks
           /\ mOpenCount["mixer"] = Cardinality(MixerUsers) + leaked.output

\* The first to open creates, the last to close destroys.
AliveWhileCounted ==
  \A x \in Singleton : alive[x] = (mOpenCount[x] # 0 /\ holder[x] = Nobody)

\* Whoever fails to create a singleton is stuck in its open(), its only user.
StuckInOpen ==
  \A x \in Singleton :
    holder[x] # Nobody => stream[holder[x]].pc = "stuck" /\ mOpenCount[x] = 1

OnlyOutputMixes ==
  \A s \in Stream : stream[s].pc \in {"mixer", "closeMixer"} => stream[s].output = TRUE

IInv == Typed /\ Counted /\ AliveWhileCounted /\ StuckInOpen /\ OnlyOutputMixes

\* The users of a singleton are finitely many, so they can be counted.
LEMMA UsersFinite ==
  /\ IsFiniteSet(EngineUsers) /\ Cardinality(EngineUsers) \in Nat
  /\ Cardinality(EngineUsers) <= Cardinality(Stream)
  /\ IsFiniteSet(MixerUsers) /\ Cardinality(MixerUsers) \in Nat
  /\ Cardinality(MixerUsers) <= Cardinality(Stream)
<1>1. EngineUsers \subseteq Stream /\ MixerUsers \subseteq Stream
  BY DEF EngineUsers, MixerUsers
<1> QED BY <1>1, StreamAssumption, FS_Subset, FS_CardinalityType

\* Whatever a step does to the one who takes it, every set of users gains it,
\* loses it or stays, and its cardinality follows.
LEMMA OneMore ==
  ASSUME NEW S, IsFiniteSet(S), NEW T, NEW s, s \notin S, T = S \cup {s}
  PROVE  Cardinality(T) = Cardinality(S) + 1
BY FS_AddElement

LEMMA OneLess ==
  ASSUME NEW S, IsFiniteSet(S), NEW T, NEW s, s \in S, T = S \ {s}
  PROVE  Cardinality(T) = Cardinality(S) - 1
BY FS_RemoveElement

LEMMA InitIInv == Init => IInv
<1> SUFFICES ASSUME Init PROVE IInv
  OBVIOUS
<1> USE DEF Init, NoStream, Singleton, Where
<1>1. Typed
  BY FailureAssumption DEF Typed, Leaks
<1>2. Counted
  <2>1. EngineUsers = {} /\ MixerUsers = {}
    BY DEF EngineUsers, MixerUsers
  <2> QED BY <2>1, FS_EmptySet DEF Counted, Leaks
<1>3. AliveWhileCounted /\ StuckInOpen /\ OnlyOutputMixes
  BY DEF AliveWhileCounted, StuckInOpen, OnlyOutputMixes
<1> QED BY <1>1, <1>2, <1>3 DEF IInv

-----------------------------------------------------------------------------
(* What the three operations on a singleton do to the parts of the          *)
(* invariant that do not count streams.                                     *)

Singletons == /\ mOpenCount \in [Singleton -> Int]
              /\ alive \in [Singleton -> BOOLEAN]
              /\ holder \in [Singleton -> Stream \cup {Nobody}]
              /\ AliveWhileCounted

LEMMA AcquireKeeps ==
  ASSUME Singletons, NEW x \in Singleton, Acquire(x), mOpenCount[x] \in Nat
  PROVE  Singletons' /\ mOpenCount' = [mOpenCount EXCEPT ![x] = @ + 1]
<1> USE DEF Singletons, Acquire
<1>1. alive' = [alive EXCEPT ![x] = TRUE]
  <2>1. CASE mOpenCount[x] = 0
    BY <2>1
  <2>2. CASE mOpenCount[x] # 0
    <3>1. alive[x] = TRUE
      BY <2>2 DEF AliveWhileCounted
    <3> QED BY <2>2, <3>1
  <2> QED BY <2>1, <2>2
<1>2. ASSUME NEW y \in Singleton
      PROVE  alive'[y] = (mOpenCount'[y] # 0 /\ holder'[y] = Nobody)
  <2>1. CASE y = x
    <3>1. alive'[y] = TRUE
      BY <1>1, <2>1
    <3>2. mOpenCount'[y] # 0 /\ holder'[y] = Nobody
      BY <2>1
    <3> QED BY <3>1, <3>2
  <2>2. CASE y # x
    BY <1>1, <2>2 DEF AliveWhileCounted
  <2> QED BY <2>1, <2>2
<1>3. /\ mOpenCount' \in [Singleton -> Int] /\ alive' \in [Singleton -> BOOLEAN]
      /\ holder' \in [Singleton -> Stream \cup {Nobody}]
  <2>1. alive' \in [Singleton -> BOOLEAN]
    <3> HIDE DEF Acquire
    <3> QED BY <1>1
  <2>2. mOpenCount' \in [Singleton -> Int]
    OBVIOUS
  <2>3. holder' \in [Singleton -> Stream \cup {Nobody}]
    OBVIOUS
  <2> QED BY <2>1, <2>2, <2>3
<1> QED BY <1>2, <1>3 DEF AliveWhileCounted

LEMMA FailureKeeps ==
  ASSUME Singletons, NEW x \in Singleton, NEW s \in Stream, AcquireFails(x, s)
  PROVE  Singletons' /\ mOpenCount' = [mOpenCount EXCEPT ![x] = 1]
<1> USE StreamAssumption DEF Singletons, AcquireFails
<1>1. ASSUME NEW y \in Singleton
      PROVE  alive'[y] = (mOpenCount'[y] # 0 /\ holder'[y] = Nobody)
  <2>1. CASE y = x
    BY <2>1 DEF AliveWhileCounted
  <2>2. CASE y # x
    BY <2>2 DEF AliveWhileCounted
  <2> QED BY <2>1, <2>2
<1>2. /\ mOpenCount' \in [Singleton -> Int] /\ alive' \in [Singleton -> BOOLEAN]
      /\ holder' \in [Singleton -> Stream \cup {Nobody}]
  OBVIOUS
<1> QED BY <1>1, <1>2 DEF AliveWhileCounted

LEMMA ReleaseKeeps ==
  ASSUME Singletons, NEW x \in Singleton, Release(x), mOpenCount[x] \in Nat \ {0}
  PROVE  Singletons' /\ mOpenCount' = [mOpenCount EXCEPT ![x] = @ - 1]
<1> USE DEF Singletons, Release
<1>1. ASSUME NEW y \in Singleton
      PROVE  alive'[y] = (mOpenCount'[y] # 0 /\ holder'[y] = Nobody)
  <2>1. CASE y = x
    BY <2>1 DEF AliveWhileCounted
  <2>2. CASE y # x
    BY <2>2 DEF AliveWhileCounted
  <2> QED BY <2>1, <2>2
<1>2. /\ mOpenCount' \in [Singleton -> Int] /\ alive' \in [Singleton -> BOOLEAN]
      /\ holder' \in [Singleton -> Stream \cup {Nobody}]
  OBVIOUS
<1> QED BY <1>1, <1>2 DEF AliveWhileCounted
-----------------------------------------------------------------------------
(* Every action preserves the invariant. *)

\* AudioStreamOpenSLES::open
LEMMA OpenEngineIInv ==
  ASSUME IInv, NEW s \in Stream, OpenEngine(s)
  PROVE  IInv'
<1> USE DEF IInv
<1>0. mOpenCount["engine"] \in Nat /\ "engine" \in Singleton /\ "mixer" \in Singleton
  BY UsersFinite DEF Counted, Typed, Leaks, Singleton
<1>1. /\ stream[s].pc = "none" /\ holder["engine"] = Nobody /\ leaked' = leaked
      /\ stream' \in [Stream -> [pc : Where, output : BOOLEAN]]
      /\ \A t \in Stream \ {s} : stream'[t] = stream[t]
      /\ \/ stream'[s].pc = "mixer" /\ stream'[s].output = TRUE
         \/ stream'[s].pc = "create" /\ stream'[s].output = FALSE
         \/ stream'[s].pc = "stuck"
      /\ holder'["mixer"] = holder["mixer"] /\ holder["mixer"] # s
      /\ \/ holder'["engine"] = Nobody
         \/ holder'["engine"] = s /\ stream'[s].pc = "stuck" /\ mOpenCount["engine"] = 0
  <2>0. stream[s].pc = "none" /\ holder["engine"] = Nobody /\ holder["mixer"] # s
    BY StreamAssumption DEF OpenEngine, Acquire, AcquireFails, StuckInOpen, Singleton
  <2>1. CASE /\ Acquire("engine") /\ UNCHANGED leaked
             /\ \/ stream' = [stream EXCEPT ![s] = [pc |-> "mixer", output |-> TRUE]]
                \/ stream' = [stream EXCEPT ![s] = [pc |-> "create", output |-> FALSE]]
    <3>1. holder' = holder
      BY <2>1 DEF Acquire
    <3>2. PICK r \in [pc : Where, output : BOOLEAN] :
            /\ stream' = [stream EXCEPT ![s] = r]
            /\ \/ r.pc = "mixer" /\ r.output = TRUE
               \/ r.pc = "create" /\ r.output = FALSE
      <4> DEFINE out == [pc |-> "mixer", output |-> TRUE]
                 in == [pc |-> "create", output |-> FALSE]
      <4>1. out \in [pc : Where, output : BOOLEAN] /\ out.pc = "mixer" /\ out.output = TRUE
        BY DEF Where
      <4>2. in \in [pc : Where, output : BOOLEAN] /\ in.pc = "create" /\ in.output = FALSE
        BY DEF Where
      <4>3. stream' = [stream EXCEPT ![s] = out] \/ stream' = [stream EXCEPT ![s] = in]
        BY <2>1
      <4> HIDE DEF out, in
      <4> QED BY <4>1, <4>2, <4>3
    <3>3. stream \in [Stream -> [pc : Where, output : BOOLEAN]]
      BY DEF Typed
    <3>4. /\ stream' \in [Stream -> [pc : Where, output : BOOLEAN]] /\ stream'[s] = r
          /\ \A t \in Stream \ {s} : stream'[t] = stream[t]
      BY <3>2, <3>3
    <3> HIDE DEF IInv
    <3> QED BY <2>0, <2>1, <3>1, <3>2, <3>4
  <2>2. CASE AcquireFails("engine", s)
    BY <2>0, <2>2 DEF AcquireFails, Typed, Where, GoTo, Singleton
  <2> QED BY <2>1, <2>2 DEF OpenEngine
<1>2. Singletons' /\ mOpenCount' = [mOpenCount EXCEPT !["engine"] = @ + 1]
  <2>0. Singletons
    BY DEF Singletons, Typed
  <2>1. CASE Acquire("engine")
    BY <1>0, <2>0, <2>1, AcquireKeeps
  <2>2. CASE AcquireFails("engine", s)
    <3>1. mOpenCount["engine"] = 0
      BY <2>2 DEF AcquireFails
    <3> QED BY <1>0, <2>0, <2>2, <3>1, FailureKeeps
  <2> QED BY <2>1, <2>2 DEF OpenEngine
<1>3. Typed' /\ AliveWhileCounted'
  BY <1>1, <1>2 DEF Typed, Singletons, Leaks
<1>4. EngineUsers' = EngineUsers \cup {s} /\ s \notin EngineUsers
  BY <1>1 DEF EngineUsers
<1>5. MixerUsers' = MixerUsers
  BY <1>1 DEF MixerUsers
<1>6. Counted'
  <2>1. Cardinality(EngineUsers') = Cardinality(EngineUsers) + 1
    BY <1>4, UsersFinite, OneMore
  <2>2. mOpenCount'["engine"] = mOpenCount["engine"] + 1 /\ mOpenCount'["mixer"] = mOpenCount["mixer"]
    BY <1>0, <1>2 DEF Typed
  <2> QED BY <1>1, <1>5, <2>1, <2>2, UsersFinite DEF Counted, Typed, Leaks
<1>7. StuckInOpen'
  <2>1. /\ holder'["engine"] # Nobody => mOpenCount'["engine"] = 1
        /\ holder'["mixer"] # Nobody => mOpenCount'["mixer"] = 1
    BY <1>0, <1>1, <1>2 DEF Typed, StuckInOpen
  <2>2. ASSUME NEW x \in Singleton, holder'[x] # Nobody PROVE stream'[holder'[x]].pc = "stuck"
    BY <1>1, <2>2 DEF StuckInOpen, Typed, Singleton
  <2> QED BY <2>1, <2>2 DEF StuckInOpen, Singleton
<1>8. OnlyOutputMixes'
  BY <1>1 DEF OnlyOutputMixes
<1> QED BY <1>3, <1>6, <1>7, <1>8

\* AudioOutputStreamOpenSLES::open
LEMMA OpenMixerIInv ==
  ASSUME IInv, NEW s \in Stream, OpenMixer(s)
  PROVE  IInv'
<1> USE DEF IInv
<1>0. mOpenCount["mixer"] \in Nat /\ "engine" \in Singleton /\ "mixer" \in Singleton
  BY UsersFinite DEF Counted, Typed, Leaks, Singleton
<1>1. /\ stream[s].pc = "mixer" /\ stream[s].output = TRUE
      /\ holder["mixer"] = Nobody /\ leaked' = leaked
      /\ stream' \in [Stream -> [pc : Where, output : BOOLEAN]]
      /\ \A t \in Stream \ {s} : stream'[t] = stream[t]
      /\ stream'[s].output = TRUE
      /\ \/ stream'[s].pc = "create" /\ holder'["mixer"] = Nobody
         \/ stream'[s].pc = "stuck" /\ holder'["mixer"] = s /\ mOpenCount["mixer"] = 0
      /\ holder'["engine"] = holder["engine"] /\ holder["engine"] # s
  <2>0. /\ stream[s].pc = "mixer" /\ stream[s].output = TRUE
        /\ holder["mixer"] = Nobody /\ leaked' = leaked /\ holder["engine"] # s
    BY StreamAssumption
    DEF OpenMixer, Acquire, AcquireFails, StuckInOpen, Singleton, OnlyOutputMixes
  <2>1. CASE Acquire("mixer") /\ GoTo(s, "create")
    BY <2>0, <2>1 DEF Acquire, GoTo, Typed, Where
  <2>2. CASE AcquireFails("mixer", s)
    BY <2>0, <2>2 DEF AcquireFails, Typed, Where, GoTo, Singleton
  <2> QED BY <2>1, <2>2 DEF OpenMixer
<1>2. Singletons' /\ mOpenCount' = [mOpenCount EXCEPT !["mixer"] = @ + 1]
  <2>0. Singletons
    BY DEF Singletons, Typed
  <2>1. CASE Acquire("mixer")
    BY <1>0, <2>0, <2>1, AcquireKeeps
  <2>2. CASE AcquireFails("mixer", s)
    <3>1. mOpenCount["mixer"] = 0
      BY <2>2 DEF AcquireFails
    <3> QED BY <1>0, <2>0, <2>2, <3>1, FailureKeeps
  <2> QED BY <2>1, <2>2 DEF OpenMixer
<1>3. Typed' /\ AliveWhileCounted'
  BY <1>1, <1>2 DEF Typed, Singletons, Leaks
<1>4. EngineUsers' = EngineUsers
  BY <1>1 DEF EngineUsers
<1>5. MixerUsers' = MixerUsers \cup {s} /\ s \notin MixerUsers
  BY <1>1, StreamAssumption DEF MixerUsers
<1>6. Counted'
  <2>1. Cardinality(MixerUsers') = Cardinality(MixerUsers) + 1
    BY <1>5, UsersFinite, OneMore
  <2>2. mOpenCount'["mixer"] = mOpenCount["mixer"] + 1 /\ mOpenCount'["engine"] = mOpenCount["engine"]
    BY <1>0, <1>2 DEF Typed
  <2> QED BY <1>1, <1>4, <2>1, <2>2, UsersFinite DEF Counted, Typed, Leaks
<1>7. StuckInOpen'
  <2>1. /\ holder'["engine"] # Nobody => mOpenCount'["engine"] = 1
        /\ holder'["mixer"] # Nobody => mOpenCount'["mixer"] = 1
    BY <1>0, <1>1, <1>2 DEF Typed, StuckInOpen
  <2>2. ASSUME NEW x \in Singleton, holder'[x] # Nobody PROVE stream'[holder'[x]].pc = "stuck"
    BY <1>1, <2>2 DEF StuckInOpen, Typed, Singleton
  <2> QED BY <2>1, <2>2 DEF StuckInOpen, Singleton
<1>8. OnlyOutputMixes'
  BY <1>1 DEF OnlyOutputMixes
<1> QED BY <1>3, <1>6, <1>7, <1>8

\* A step that leaves the singletons alone.
LEMMA CreateIInv ==
  ASSUME IInv, NEW s \in Stream, Create(s) \/ CloseObject(s)
  PROVE  IInv'
<1> USE DEF IInv
<1>1. /\ stream' \in [Stream -> [pc : Where, output : BOOLEAN]]
      /\ \A t \in Stream \ {s} : stream'[t] = stream[t]
      /\ stream'[s].output = stream[s].output
      /\ \/ stream[s].pc = "create" /\ stream'[s].pc = "open"
         \/ /\ stream[s].pc = "open"
            /\ stream'[s].pc = IF stream[s].output THEN "closeMixer" ELSE "closeEngine"
      /\ UNCHANGED <<mOpenCount, alive, holder, leaked>>
  BY DEF Create, CloseObject, GoTo, Typed, Where
<1>2. EngineUsers' = EngineUsers
  BY <1>1 DEF EngineUsers
<1>3. MixerUsers' = MixerUsers
  BY <1>1 DEF MixerUsers
<1>4. Typed' /\ AliveWhileCounted'
  BY <1>1 DEF Typed, AliveWhileCounted, Leaks
<1>5. Counted'
  BY <1>1, <1>2, <1>3 DEF Counted, Leaks
<1>6. StuckInOpen'
  BY <1>1 DEF StuckInOpen, Typed
<1>7. OnlyOutputMixes'
  BY <1>1 DEF OnlyOutputMixes, Typed
<1> QED BY <1>4, <1>5, <1>6, <1>7

\* A stream that fails to open keeps its references, as a leak.
LEMMA CreateFailsIInv ==
  ASSUME IInv, NEW s \in Stream, CreateFails(s)
  PROVE  IInv'
<1> USE DEF IInv
<1>1. /\ stream' \in [Stream -> [pc : Where, output : BOOLEAN]]
      /\ \A t \in Stream \ {s} : stream'[t] = stream[t]
      /\ stream[s].pc = "create"
      /\ stream'[s].output = FALSE /\ stream'[s].pc = "none"
      /\ UNCHANGED <<mOpenCount, alive, holder>>
  BY DEF CreateFails, NoStream, Typed, Where
<1>2. /\ leaked' \in [output : Nat, input : Nat]
      /\ Leaks' = Leaks + 1 /\ Leaks' <= MaxLeaks
      /\ leaked'.output = leaked.output + (IF stream[s].output THEN 1 ELSE 0)
  <2>1. leaked \in [output : Nat, input : Nat] /\ leaked.output + leaked.input < MaxLeaks
    BY DEF CreateFails, Typed
  <2>2. CASE stream[s].output
    <3>1. leaked' = [leaked EXCEPT !.output = @ + 1]
      BY <2>2 DEF CreateFails
    <3> QED BY <2>1, <2>2, <3>1, FailureAssumption DEF Leaks
  <2>3. CASE ~stream[s].output
    <3>1. leaked' = [leaked EXCEPT !.input = @ + 1]
      BY <2>3 DEF CreateFails
    <3> QED BY <2>1, <2>3, <3>1, FailureAssumption DEF Leaks
  <2> QED BY <2>2, <2>3
<1>3. EngineUsers' = EngineUsers \ {s} /\ s \in EngineUsers
  BY <1>1 DEF EngineUsers
<1>4. /\ stream[s].output => MixerUsers' = MixerUsers \ {s} /\ s \in MixerUsers
      /\ ~stream[s].output => MixerUsers' = MixerUsers
  BY <1>1 DEF MixerUsers
<1>5. Typed' /\ AliveWhileCounted'
  BY <1>1, <1>2 DEF Typed, AliveWhileCounted, Leaks
<1>6. Counted'
  <2>1. Cardinality(EngineUsers') = Cardinality(EngineUsers) - 1
    BY <1>3, UsersFinite, OneLess
  <2>2. Cardinality(MixerUsers') = Cardinality(MixerUsers) - (IF stream[s].output THEN 1 ELSE 0)
    BY <1>4, UsersFinite, OneLess
  <2>3. Leaks \in Nat /\ leaked.output \in Nat
    BY DEF Typed, Leaks
  <2> QED BY <1>1, <1>2, <2>1, <2>2, <2>3, UsersFinite DEF Counted
<1>7. StuckInOpen' /\ OnlyOutputMixes'
  BY <1>1 DEF StuckInOpen, OnlyOutputMixes, Typed
<1> QED BY <1>5, <1>6, <1>7

\* onAfterDestroy
LEMMA CloseMixerIInv ==
  ASSUME IInv, NEW s \in Stream, CloseMixer(s)
  PROVE  IInv'
<1> USE DEF IInv
<1>1. /\ stream' \in [Stream -> [pc : Where, output : BOOLEAN]]
      /\ \A t \in Stream \ {s} : stream'[t] = stream[t]
      /\ stream[s].pc = "closeMixer" /\ stream[s].output = TRUE
      /\ stream'[s].pc = "closeEngine"
      /\ holder["mixer"] = Nobody
      /\ UNCHANGED <<holder, leaked>>
  BY DEF CloseMixer, Release, GoTo, Typed, Where, OnlyOutputMixes
<1>2. MixerUsers' = MixerUsers \ {s} /\ s \in MixerUsers
  BY <1>1 DEF MixerUsers
<1>3. EngineUsers' = EngineUsers
  BY <1>1 DEF EngineUsers
<1>4. mOpenCount["mixer"] \in Nat \ {0}
  <2>1. Cardinality(MixerUsers) # 0
    BY <1>2, UsersFinite, FS_EmptySet
  <2> QED BY <2>1, UsersFinite DEF Counted, Typed
<1>5. Singletons' /\ mOpenCount' = [mOpenCount EXCEPT !["mixer"] = @ - 1]
  <2>1. Singletons /\ "mixer" \in Singleton /\ Release("mixer")
    BY DEF Singletons, Typed, Singleton, CloseMixer
  <2> QED BY <1>4, <2>1, ReleaseKeeps
<1>6. Typed' /\ AliveWhileCounted'
  BY <1>1, <1>5 DEF Typed, Singletons, Leaks
<1>7. /\ mOpenCount'["mixer"] = mOpenCount["mixer"] - 1
      /\ mOpenCount'["engine"] = mOpenCount["engine"]
  BY <1>5 DEF Typed, Singleton
<1>8. Counted'
  <2>1. Cardinality(MixerUsers') = Cardinality(MixerUsers) - 1
    BY <1>2, UsersFinite, OneLess
  <2> QED BY <1>1, <1>3, <1>7, <2>1, UsersFinite DEF Counted, Typed, Leaks
<1>9. StuckInOpen' /\ OnlyOutputMixes'
  BY <1>1, <1>7, SMTT(30) DEF StuckInOpen, OnlyOutputMixes, Typed, Singleton
<1> QED BY <1>6, <1>8, <1>9

\* The end of onAfterDestroy
LEMMA CloseEngineIInv ==
  ASSUME IInv, NEW s \in Stream, CloseEngine(s)
  PROVE  IInv'
<1> USE DEF IInv
<1>1. /\ stream' \in [Stream -> [pc : Where, output : BOOLEAN]]
      /\ \A t \in Stream \ {s} : stream'[t] = stream[t]
      /\ stream[s].pc = "closeEngine"
      /\ stream'[s].pc = "none"
      /\ holder["engine"] = Nobody
      /\ UNCHANGED <<holder, leaked>>
  BY DEF CloseEngine, Release, NoStream, Typed, Where
<1>2. EngineUsers' = EngineUsers \ {s} /\ s \in EngineUsers
  BY <1>1 DEF EngineUsers
<1>3. MixerUsers' = MixerUsers
  BY <1>1 DEF MixerUsers
<1>4. mOpenCount["engine"] \in Nat \ {0}
  <2>1. Cardinality(EngineUsers) # 0
    BY <1>2, UsersFinite, FS_EmptySet
  <2>2. Leaks \in Nat
    BY DEF Typed, Leaks
  <2> QED BY <2>1, <2>2, UsersFinite DEF Counted
<1>5. Singletons' /\ mOpenCount' = [mOpenCount EXCEPT !["engine"] = @ - 1]
  <2>1. Singletons /\ "engine" \in Singleton /\ Release("engine")
    BY DEF Singletons, Typed, Singleton, CloseEngine
  <2> QED BY <1>4, <2>1, ReleaseKeeps
<1>6. Typed' /\ AliveWhileCounted'
  BY <1>1, <1>5 DEF Typed, Singletons, Leaks
<1>7. /\ mOpenCount'["mixer"] = mOpenCount["mixer"]
      /\ mOpenCount'["engine"] = mOpenCount["engine"] - 1
  BY <1>5 DEF Typed, Singleton
<1>8. Counted'
  <2>1. Cardinality(EngineUsers') = Cardinality(EngineUsers) - 1
    BY <1>2, UsersFinite, OneLess
  <2> QED BY <1>1, <1>3, <1>7, <2>1, UsersFinite DEF Counted, Typed, Leaks
<1>9. StuckInOpen' /\ OnlyOutputMixes'
  BY <1>1, <1>7 DEF StuckInOpen, OnlyOutputMixes, Typed, Singleton
<1> QED BY <1>6, <1>8, <1>9

LEMMA NextIInv == IInv /\ [Next]_vars => IInv'
<1> SUFFICES ASSUME IInv, [Next]_vars PROVE IInv'
  OBVIOUS
<1>1. CASE UNCHANGED vars
  BY <1>1 DEF vars, IInv, Typed, Counted, AliveWhileCounted, StuckInOpen, OnlyOutputMixes,
              EngineUsers, MixerUsers, Leaks
<1>2. CASE Next
  <2>1. PICK s \in Stream : \/ OpenEngine(s) \/ OpenMixer(s) \/ Create(s) \/ CreateFails(s)
                            \/ CloseObject(s) \/ CloseMixer(s) \/ CloseEngine(s)
    BY <1>2 DEF Next
  <2> QED BY <2>1, OpenEngineIInv, OpenMixerIInv, CreateIInv, CreateFailsIInv,
             CloseMixerIInv, CloseEngineIInv
<1> QED BY <1>1, <1>2

LEMMA Invariance == Spec => []IInv
<1> QED BY InitIInv, NextIInv, PTL DEF Spec
-----------------------------------------------------------------------------
(* The theorems *)

\* Type correctness: however many streams there are, no count of users goes
\* below zero, or above the streams and the failed opens.
THEOREM EngineTypeCorrect == Spec => []TypeOK
<1>1. IInv => TypeOK
  <2> SUFFICES ASSUME IInv PROVE TypeOK
    OBVIOUS
  <2>1. leaked \in [output : 0..MaxLeaks, input : 0..MaxLeaks] /\ Leaks \in 0..MaxLeaks
        /\ leaked.output <= MaxLeaks /\ leaked.output \in Nat
    BY FailureAssumption DEF IInv, Typed, Leaks
  <2>2. ASSUME NEW x \in Singleton
        PROVE  mOpenCount[x] \in 0..(Cardinality(Stream) + MaxLeaks)
    <3>1. Cardinality(Stream) \in Nat
      BY StreamAssumption, FS_CardinalityType
    <3>2. mOpenCount["engine"] \in 0..(Cardinality(Stream) + MaxLeaks)
      BY <2>1, <3>1, UsersFinite, FailureAssumption DEF IInv, Counted
    <3>3. mOpenCount["mixer"] \in 0..(Cardinality(Stream) + MaxLeaks)
      BY <2>1, <3>1, UsersFinite, FailureAssumption DEF IInv, Counted
    <3> QED BY <3>2, <3>3 DEF Singleton
  <2>3. mOpenCount \in [Singleton -> 0..(Cardinality(Stream) + MaxLeaks)]
    BY <2>2 DEF IInv, Typed
  <2> QED BY <2>1, <2>3 DEF IInv, Typed, TypeOK, Where
<1> QED BY <1>1, Invariance, PTL

\* Use is safe without a lock: while a mixer, a player or a recorder exists, what
\* it was made from does too, whatever other streams do.
THEOREM UseIsSafe == Spec => []SingletonsOutliveUse
<1>1. IInv => SingletonsOutliveUse
  <2> SUFFICES ASSUME IInv PROVE SingletonsOutliveUse
    OBVIOUS
  <2> USE DEF IInv
  <2>0. Leaks \in Nat /\ leaked.output \in Nat /\ leaked.output <= Leaks
    BY DEF Typed, Leaks
  <2>1. ASSUME NEW s \in Stream, stream[s].pc \notin {"none", "stuck"}
        PROVE  alive["engine"]
    <3>1. Cardinality(EngineUsers) # 0
      BY <2>1, UsersFinite, FS_EmptySet DEF EngineUsers
    <3>2. mOpenCount["engine"] # 0
      BY <2>0, <3>1, UsersFinite DEF Counted
    <3>3. holder["engine"] = Nobody
      <4> SUFFICES ASSUME holder["engine"] # Nobody PROVE FALSE
        OBVIOUS
      <4>1. /\ holder["engine"] \in Stream /\ stream[holder["engine"]].pc = "stuck"
            /\ mOpenCount["engine"] = 1
        BY DEF StuckInOpen, Typed, Singleton
      <4>2. Cardinality(EngineUsers) = 1
        BY <2>0, <3>1, <4>1, UsersFinite DEF Counted
      <4>3. s \in EngineUsers /\ holder["engine"] \in EngineUsers /\ s # holder["engine"]
        BY <2>1, <4>1 DEF EngineUsers
      <4> QED BY <4>2, <4>3, UsersFinite, FS_Singleton
    <3> QED BY <3>2, <3>3 DEF AliveWhileCounted, Singleton
  <2>2. ASSUME alive["mixer"] PROVE alive["engine"]
    <3>1. mOpenCount["mixer"] # 0 /\ holder["mixer"] = Nobody
      BY <2>2 DEF AliveWhileCounted, Singleton
    <3>2. CASE Cardinality(MixerUsers) # 0
      <4>1. PICK s \in Stream : s \in MixerUsers
        BY <3>2, FS_EmptySet DEF MixerUsers
      <4>2. stream[s].pc \in {"create", "open", "closeMixer"}
        BY <3>1, <4>1, StreamAssumption DEF MixerUsers
      <4> QED BY <2>1, <4>2
    <3>3. CASE Cardinality(MixerUsers) = 0
      <4>1. Leaks # 0
        BY <2>0, <3>1, <3>3 DEF Counted
      <4>2. mOpenCount["engine"] # 0
        BY <2>0, <4>1, UsersFinite DEF Counted
      <4>3. holder["engine"] = Nobody
        <5> SUFFICES ASSUME holder["engine"] # Nobody PROVE FALSE
          OBVIOUS
        <5>1. /\ holder["engine"] \in EngineUsers /\ mOpenCount["engine"] = 1
          BY DEF StuckInOpen, Typed, Singleton, EngineUsers
        <5>2. Cardinality(EngineUsers) # 0
          BY <5>1, UsersFinite, FS_EmptySet
        <5> QED BY <2>0, <4>1, <5>1, <5>2, UsersFinite DEF Counted
      <4> QED BY <4>2, <4>3 DEF AliveWhileCounted, Singleton
    <3> QED BY <3>2, <3>3
  <2>3. ASSUME NEW s \in Stream, stream[s].pc \in {"create", "open"}, stream[s].output
        PROVE  alive["mixer"]
    <3>1. s \in MixerUsers
      BY <2>3 DEF MixerUsers
    <3>2. Cardinality(MixerUsers) # 0
      BY <3>1, UsersFinite, FS_EmptySet
    <3>3. mOpenCount["mixer"] # 0
      BY <2>0, <3>2, UsersFinite DEF Counted
    <3>4. holder["mixer"] = Nobody
      <4> SUFFICES ASSUME holder["mixer"] # Nobody PROVE FALSE
        OBVIOUS
      <4>1. /\ holder["mixer"] \in Stream /\ stream[holder["mixer"]].pc = "stuck"
            /\ mOpenCount["mixer"] = 1
        BY DEF StuckInOpen, Typed, Singleton
      <4>2. Cardinality(MixerUsers) = 1
        BY <2>0, <3>2, <4>1, UsersFinite DEF Counted
      <4>3. holder["mixer"] \in MixerUsers /\ s # holder["mixer"]
        BY <2>3, <4>1 DEF MixerUsers
      <4> QED BY <3>1, <4>2, <4>3, UsersFinite, FS_Singleton
    <3> QED BY <3>3, <3>4 DEF AliveWhileCounted, Singleton
  <2> QED BY <2>1, <2>2, <2>3 DEF SingletonsOutliveUse
<1> QED BY <1>1, Invariance, PTL

\* When every stream is closed the engine and the mixer are gone, or a stream
\* that failed to open has kept them.
THEOREM LastCloseIsClean == Spec => []LastCloseDestroys
<1>1. IInv => LastCloseDestroys
  <2> SUFFICES ASSUME IInv, \A s \in Stream : stream[s].pc = "none"
               PROVE  (alive["engine"] <=> Leaks > 0) /\ (alive["mixer"] <=> leaked.output > 0)
    BY DEF LastCloseDestroys
  <2> USE DEF IInv
  <2>1. EngineUsers = {} /\ MixerUsers = {}
    BY DEF EngineUsers, MixerUsers
  <2>2. mOpenCount["engine"] = Leaks /\ mOpenCount["mixer"] = leaked.output
        /\ Leaks \in Nat /\ leaked.output \in Nat
    BY <2>1, FS_EmptySet DEF Counted, Typed, Leaks
  <2>3. holder["engine"] = Nobody /\ holder["mixer"] = Nobody
    BY DEF StuckInOpen, Typed, Singleton
  <2>4. alive["engine"] = (mOpenCount["engine"] # 0) /\ alive["mixer"] = (mOpenCount["mixer"] # 0)
    BY <2>3 DEF AliveWhileCounted, Singleton
  <2>5. (mOpenCount["engine"] # 0 <=> Leaks > 0) /\ (mOpenCount["mixer"] # 0 <=> leaked.output > 0)
    BY <2>2
  <2> QED BY <2>4, <2>5
<1> QED BY <1>1, Invariance, PTL
-----------------------------------------------------------------------------
(* OpenSLESPosition *)

(* Division with a remainder, by a number that the provers do not know. *)

LEMMA Division ==
  ASSUME NEW a \in Int, NEW d \in Nat \ {0}
  PROVE  /\ a \div d \in Int /\ a % d \in Int
         /\ a = d * (a \div d) + (a % d)
         /\ 0 <= a % d /\ a % d < d
OBVIOUS

LEMMA DivisionBounds ==
  ASSUME NEW a \in Int, NEW d \in Nat \ {0}
  PROVE  d * (a \div d) <= a /\ a < d * (a \div d) + d
OBVIOUS

LEMMA MultipleBounds ==
  ASSUME NEW q \in Int, NEW p \in Int, NEW d \in Nat \ {0}, d * q < d * p + d
  PROVE  q <= p
OBVIOUS

LEMMA LargestMultiple ==
  ASSUME NEW a \in Int, NEW q \in Int, NEW d \in Nat \ {0}, d * q <= a
  PROVE  q <= a \div d
<1>1. a \div d \in Int /\ a < d * (a \div d) + d BY Division, DivisionBounds
<1>2. d * q \in Int /\ d * (a \div d) \in Int BY <1>1
<1>3. d * q < d * (a \div d) + d BY <1>1, <1>2
<1> QED BY <1>1, <1>3, MultipleBounds

LEMMA DivisionMonotonic ==
  ASSUME NEW a \in Int, NEW b \in Int, NEW d \in Nat \ {0}, a <= b
  PROVE  a \div d <= b \div d
<1>1. a \div d \in Int /\ d * (a \div d) \in Int /\ d * (a \div d) <= a
  BY Division, DivisionBounds
<1> QED BY <1>1, LargestMultiple
-----------------------------------------------------------------------------
(* The 32-bit counter.  Two values that are less than half its range apart   *)
(* have the difference that their wrapped values, subtracted and wrapped,    *)
(* have.                                                                     *)

LEMMA WrapCongruent ==
  ASSUME NEW n \in Int
  PROVE  /\ Wrap(n) \in Int /\ -Half <= Wrap(n) /\ Wrap(n) < Half
         /\ \E q \in Int : Wrap(n) = n - 2 * Half * q
<1> DEFINE m == 2 * Half
           a == n + Half
<1>1. Half \in Nat /\ Half > 0 /\ m \in Nat \ {0} /\ a \in Int BY HalfAssumption
<1>2. Wrap(n) = (a % m) - Half BY DEF Wrap
<1>3. m = 2 * Half /\ a = n + Half OBVIOUS
<1> HIDE DEF m, a
<1>4. /\ a \div m \in Int /\ a % m \in Int /\ a = m * (a \div m) + (a % m)
      /\ 0 <= a % m /\ a % m < m
  BY <1>1, Division
<1>5. Wrap(n) \in Int /\ -Half <= Wrap(n) /\ Wrap(n) < Half BY <1>1, <1>2, <1>3, <1>4
<1>6. PICK q \in Int : a = m * q + (a % m) BY <1>4
<1>7. m * q \in Int BY <1>1
<1>8. Wrap(n) = n - m * q BY <1>1, <1>2, <1>3, <1>4, <1>6, <1>7
<1> QED BY <1>3, <1>5, <1>8

LEMMA NoMultipleWithin ==
  ASSUME NEW k \in Int, NEW m \in Nat \ {0}, -m < m * k, m * k < m
  PROVE  m * k = 0
<1>1. k < 1
  <2> SUFFICES ASSUME k >= 1 PROVE FALSE OBVIOUS
  <2>1. m * k >= m OBVIOUS
  <2> QED BY <2>1
<1>2. k > -1
  <2> SUFFICES ASSUME k <= -1 PROVE FALSE OBVIOUS
  <2>1. m * k <= -m OBVIOUS
  <2> QED BY <2>1
<1>3. k = 0 BY <1>1, <1>2
<1> QED BY <1>3

LEMMA WrapDelta ==
  ASSUME NEW a \in Int, NEW b \in Int, 0 <= a - b, a - b < Half
  PROVE  Wrap(Wrap(a) - Wrap(b)) = a - b
<1> DEFINE m == 2 * Half
           d == a - b
           w == Wrap(Wrap(a) - Wrap(b))
<1>1. Half \in Nat /\ Half > 0 /\ m \in Nat \ {0} BY HalfAssumption
<1>2. PICK p \in Int : Wrap(a) = a - m * p BY WrapCongruent
<1>3. PICK q \in Int : Wrap(b) = b - m * q BY WrapCongruent
<1>4. Wrap(a) \in Int /\ Wrap(b) \in Int BY WrapCongruent
<1>5. PICK r \in Int : w = (Wrap(a) - Wrap(b)) - m * r BY <1>4, WrapCongruent
<1>6. w \in Int /\ -Half <= w /\ w < Half BY <1>4, WrapCongruent
<1>7. d \in Int /\ 0 <= d /\ d < Half /\ m = 2 * Half OBVIOUS
<1>8. m * p \in Int /\ m * q \in Int /\ m * r \in Int BY <1>1
<1>9. w = d - (m * p - m * q + m * r)
  BY <1>2, <1>3, <1>4, <1>5, <1>8
<1> HIDE DEF m, d, w
<1>10. m * p - m * q + m * r = m * (p - q + r) BY <1>1
<1> DEFINE k == p - q + r
<1>11. k \in Int /\ m * k \in Int /\ w = d - m * k
  BY <1>1, <1>9, <1>10
<1> HIDE DEF k
<1>12. -m < m * k /\ m * k < m BY <1>1, <1>6, <1>7, <1>11
<1>13. m * k = 0 BY <1>1, <1>11, <1>12, NoMultipleWithin
<1>14. w = d BY <1>7, <1>11, <1>13
<1> QED BY <1>14 DEF w, d

\* Following a position that has advanced by less than half the range, the
\* counter advances by as much, whether the position has wrapped or not.
LEMMA UpdateFollows ==
  ASSUME NEW c \in [c64 : Int, c32 : Int], NEW before \in Int, NEW now \in Int,
         c.c32 = Wrap(before), before <= now, now - before < Half
  PROVE  /\ Update32(c, Wrap(now)) \in [c64 : Int, c32 : Int]
         /\ Update32(c, Wrap(now)).c64 = c.c64 + (now - before)
         /\ Update32(c, Wrap(now)).c32 = Wrap(now)
<1>1. Wrap(Wrap(now) - c.c32) = now - before BY WrapDelta
<1>2. Wrap(now) \in Int BY WrapCongruent
<1> DEFINE delta == now - before
<1>3. delta \in Int /\ delta >= 0 OBVIOUS
<1>4. Update32(c, Wrap(now)) =
        IF delta > 0 THEN [c64 |-> c.c64 + delta, c32 |-> Wrap(now)] ELSE c
  BY <1>1 DEF Update32
<1>5. CASE delta > 0 BY <1>2, <1>3, <1>4, <1>5
<1>6. CASE delta = 0
  <2>1. now = before BY <1>6
  <2> QED BY <1>4, <1>6, <2>1
<1> QED BY <1>3, <1>5, <1>6
-----------------------------------------------------------------------------
(* The inductive invariant. *)

PosTyped == /\ input \in BOOLEAN
            /\ state \in {"Open", "Started", "Paused", "Stopped", "Closed"}
            /\ {queued, clientFrames, served, base, seen} \subseteq Nat
            /\ position \in [c64 : Int, c32 : Int]
            /\ reported \in Int /\ highest \in Int

\* The counter has followed the device to where it was last asked.
Follows == /\ state # "Closed" => /\ position.c64 = base + seen
                                  /\ position.c32 = Wrap(seen)
           /\ seen <= Millis(served) /\ Millis(served) - seen < Half

\* Before the last stop an output stream had played s frames, and with what it
\* has played since and what is queued that is no more than the app has written.
Behind == ~input => \E s \in Nat : base = Millis(s) /\ s + served + queued <= clientFrames

\* A stream that is not playing has caught up.
CaughtUp == ~input /\ state \in {"Open", "Paused", "Stopped"}
              => base = Millis(clientFrames) /\ served = 0 /\ seen = 0

\* What was reported is at most what would be reported now.
Reports == /\ reported = highest /\ reported <= Frames(position.c64)
           /\ ~input => reported <= clientFrames

PosInv == PosTyped /\ Follows /\ Behind /\ CaughtUp /\ Reports
-----------------------------------------------------------------------------
(* Frames and milliseconds. *)

LEMMA Rates == /\ SampleRate \in Nat \ {0} /\ kMillisPerSecond \in Nat \ {0}
               /\ FramesPerCallback \in Nat /\ MaxFrames \in Nat
BY RateAssumption, BoundAssumption

LEMMA MillisBounds ==
  ASSUME NEW a \in Nat
  PROVE  Millis(a) \in Nat /\ SampleRate * Millis(a) <= a * kMillisPerSecond
<1> DEFINE n == a * kMillisPerSecond
<1>1. n \in Int /\ n >= 0 /\ Millis(a) = n \div SampleRate BY Rates DEF Millis
<1> HIDE DEF n
<1>2. Millis(a) \in Int /\ SampleRate * Millis(a) <= n
  BY <1>1, Rates, Division, DivisionBounds
<1>3. SampleRate * 0 <= n BY <1>1, Rates
<1>4. 0 <= Millis(a) BY <1>1, <1>3, Rates, LargestMultiple
<1> QED BY <1>2, <1>4 DEF n

LEMMA MillisMonotonic ==
  ASSUME NEW a \in Nat, NEW b \in Nat, a <= b PROVE Millis(a) <= Millis(b)
<1>1. a * kMillisPerSecond \in Int /\ b * kMillisPerSecond \in Int BY Rates
<1>2. a * kMillisPerSecond <= b * kMillisPerSecond BY Rates
<1> QED BY <1>1, <1>2, Rates, DivisionMonotonic DEF Millis

\* Rounding two times loses no less than rounding once.
LEMMA MillisAdd ==
  ASSUME NEW a \in Nat, NEW b \in Nat
  PROVE  Millis(a) + Millis(b) <= Millis(a + b)
<1> DEFINE i == Millis(a)
           j == Millis(b)
           n == (a + b) * kMillisPerSecond
<1>1. /\ i \in Nat /\ SampleRate * i <= a * kMillisPerSecond
      /\ j \in Nat /\ SampleRate * j <= b * kMillisPerSecond
  BY MillisBounds
<1>2. n \in Int /\ n = a * kMillisPerSecond + b * kMillisPerSecond BY Rates
<1>3. Millis(a + b) = n \div SampleRate BY DEF Millis
<1> HIDE DEF i, j, n
<1>4. SampleRate * (i + j) = SampleRate * i + SampleRate * j BY <1>1, Rates
<1>5. /\ SampleRate * i \in Int /\ SampleRate * j \in Int
      /\ a * kMillisPerSecond \in Int /\ b * kMillisPerSecond \in Int
  BY <1>1, Rates
<1>6. SampleRate * (i + j) <= n BY <1>1, <1>2, <1>4, <1>5
<1>7. i + j \in Int BY <1>1
<1>8. i + j <= n \div SampleRate BY <1>2, <1>6, <1>7, Rates, LargestMultiple
<1> QED BY <1>3, <1>8 DEF i, j

\* A position in milliseconds that is not after a frame's is not turned into a
\* later frame.
LEMMA FramesWithin ==
  ASSUME NEW m \in Int, NEW c \in Nat, m <= Millis(c)
  PROVE  Frames(m) \in Int /\ Frames(m) <= c
<1> DEFINE n == m * SampleRate
           f == Frames(m)
<1>1. n \in Int /\ f = n \div kMillisPerSecond BY Rates DEF Frames
<1> HIDE DEF n, f
<1>2. f \in Int /\ kMillisPerSecond * f <= n
  BY <1>1, Rates, Division, DivisionBounds
<1>3. Millis(c) \in Nat /\ SampleRate * Millis(c) <= c * kMillisPerSecond BY MillisBounds
<1>4. m * SampleRate <= SampleRate * Millis(c) BY <1>3, Rates
<1>5. n <= c * kMillisPerSecond
  BY <1>3, <1>4, Rates DEF n
<1>6. kMillisPerSecond * f < kMillisPerSecond * c + kMillisPerSecond
  BY <1>1, <1>2, <1>5, Rates
<1>7. f <= c BY <1>2, <1>6, Rates, MultipleBounds
<1> QED BY <1>2, <1>7 DEF f

LEMMA FramesMonotonic ==
  ASSUME NEW m \in Int, NEW n \in Int, m <= n
  PROVE  Frames(m) \in Int /\ Frames(n) \in Int /\ Frames(m) <= Frames(n)
<1>1. m * SampleRate \in Int /\ n * SampleRate \in Int BY Rates
<1>2. m * SampleRate <= n * SampleRate BY Rates
<1> QED BY <1>1, <1>2, Rates, Division, DivisionMonotonic DEF Frames

\* The device's progress, to the millisecond, is not beyond what was written.
LEMMA DeviceBehind ==
  ASSUME PosTyped, Behind, ~input
  PROVE  base + Millis(served) <= Millis(clientFrames)
<1>1. PICK t \in Nat : base = Millis(t) /\ t + served + queued <= clientFrames
  BY DEF Behind
<1>2. served \in Nat /\ queued \in Nat /\ clientFrames \in Nat BY DEF PosTyped
<1>3. Millis(t) + Millis(served) <= Millis(t + served) BY <1>2, MillisAdd
<1>4. Millis(t + served) <= Millis(clientFrames) BY <1>1, <1>2, MillisMonotonic
<1>5. /\ Millis(t) \in Nat /\ Millis(served) \in Nat /\ Millis(t + served) \in Nat
      /\ Millis(clientFrames) \in Nat
  BY <1>2, MillisBounds
<1> QED BY <1>1, <1>3, <1>4, <1>5
-----------------------------------------------------------------------------
(* The application, its callback and the device. *)

LEMMA MillisZero == Millis(0) = 0 /\ Wrap(0) = 0
<1>1. Millis(0) = 0
  <2>1. Millis(0) \in Nat /\ SampleRate * Millis(0) <= 0 * kMillisPerSecond BY MillisBounds
  <2>2. SampleRate * Millis(0) <= 0 BY <2>1, Rates
  <2> QED BY <2>1, <2>2, Rates
<1>2. Wrap(0) = 0
  <2>1. 0 \in Int /\ 0 <= 0 - 0 /\ 0 - 0 < Half BY HalfAssumption
  <2>2. Wrap(Wrap(0) - Wrap(0)) = 0 - 0 BY <2>1, WrapDelta
  <2>3. Wrap(0) - Wrap(0) = 0 BY WrapCongruent
  <2> QED BY <2>2, <2>3
<1> QED BY <1>1, <1>2

\* What a step has to keep if the position and what is reported stay as they are.
LEMMA PositionStays ==
  ASSUME PosInv, UNCHANGED <<input, position, reported, highest, base, seen>>,
         state' \in {"Open", "Started", "Paused", "Stopped"},
         queued' \in Nat, served' \in Nat, clientFrames' \in Nat,
         state # "Closed", clientFrames <= clientFrames',
         Millis(served) <= Millis(served'), Millis(served') - seen < Half,
         \A s \in Nat : (~input /\ s + served + queued <= clientFrames)
                        => s + served' + queued' <= clientFrames',
         CaughtUp'
  PROVE  PosInv'
<1>1. PosTyped' BY DEF PosInv, PosTyped
<1>2. Follows'
  <2>1. Millis(served) \in Nat /\ Millis(served') \in Nat /\ seen \in Nat
    BY MillisBounds DEF PosInv, PosTyped
  <2>2. Millis(served)' = Millis(served') BY DEF Millis
  <2>3. Wrap(seen)' = Wrap(seen) BY DEF Wrap
  <2> QED BY <2>1, <2>2, <2>3 DEF PosInv, Follows
<1>3. Behind' BY DEF PosInv, Behind, Millis
<1>4. Reports'
  <2>1. Frames(position.c64)' = Frames(position.c64) BY DEF Frames
  <2> QED BY <2>1 DEF PosInv, PosTyped, Reports
<1> QED BY <1>1, <1>2, <1>3, <1>4 DEF PosInv

LEMMA StartKeeps == ASSUME PosInv, Start PROVE PosInv'
<1>1. /\ UNCHANGED <<input, position, reported, highest, base, seen, queued, clientFrames, served>>
      /\ state' = "Started" /\ state # "Closed"
  BY DEF Start
<1>2. CaughtUp' BY <1>1 DEF CaughtUp
<1>3. Millis(served) \in Nat /\ Millis(served) - seen < Half
  BY MillisBounds DEF PosInv, PosTyped, Follows
<1> QED BY <1>1, <1>2, <1>3, PositionStays DEF PosInv, PosTyped

LEMMA CallbackKeeps == ASSUME PosInv, Callback PROVE PosInv'
<1>1. /\ UNCHANGED <<input, state, position, reported, highest, base, seen, served>>
      /\ state = "Started" /\ clientFrames' = clientFrames + FramesPerCallback
      /\ IF input THEN queued >= FramesPerCallback /\ queued' = queued - FramesPerCallback
         ELSE queued' = queued + FramesPerCallback
  BY DEF Callback
<1>2. CaughtUp' BY <1>1 DEF CaughtUp
<1>3. queued \in Nat /\ clientFrames \in Nat /\ served \in Nat /\ seen \in Nat
  BY DEF PosInv, PosTyped
<1>4. Millis(served) \in Nat /\ Millis(served) - seen < Half
  BY <1>3, MillisBounds DEF PosInv, Follows
<1>5. queued' \in Nat /\ clientFrames' \in Nat /\ clientFrames <= clientFrames'
  BY <1>1, <1>3, Rates
<1>6. \A s \in Nat : (~input /\ s + served + queued <= clientFrames)
                       => s + served' + queued' <= clientFrames'
  BY <1>1, <1>3, Rates
<1>7. Millis(served) <= Millis(served') /\ Millis(served') - seen < Half BY <1>1, <1>4
<1> QED BY <1>1, <1>2, <1>3, <1>5, <1>6, <1>7, PositionStays

LEMMA ServeKeeps == ASSUME PosInv, Serve PROVE PosInv'
<1>1. /\ UNCHANGED <<input, state, position, reported, highest, base, seen, clientFrames>>
      /\ state = "Started" /\ served' = served + 1
      /\ Millis(served + 1) - seen < Half
      /\ IF input THEN queued' = queued + 1 ELSE queued > 0 /\ queued' = queued - 1
  BY DEF Serve
<1>2. CaughtUp' BY <1>1 DEF CaughtUp
<1>3. queued \in Nat /\ clientFrames \in Nat /\ served \in Nat /\ seen \in Nat
  BY DEF PosInv, PosTyped
<1>4. queued' \in Nat /\ served' \in Nat BY <1>1, <1>3
<1>5. Millis(served) <= Millis(served') BY <1>1, <1>3, <1>4, MillisMonotonic
<1>6. \A s \in Nat : (~input /\ s + served + queued <= clientFrames)
                       => s + served' + queued' <= clientFrames'
  BY <1>1, <1>3
<1>7. Millis(served') - seen < Half
  <2>1. served' = served + 1 /\ Millis(served + 1) - seen < Half BY <1>1
  <2> QED BY <2>1
<1>8. /\ clientFrames' \in Nat /\ clientFrames <= clientFrames'
      /\ state' \in {"Open", "Started", "Paused", "Stopped"}
  BY <1>1, <1>3
<1> QED BY <1>1, <1>2, <1>4, <1>5, <1>6, <1>7, <1>8, PositionStays

LEMMA FlushKeeps == ASSUME PosInv, Flush PROVE PosInv'
<1>1. /\ UNCHANGED <<input, state, position, reported, highest, base, seen, served, clientFrames>>
      /\ state # "Closed" /\ queued' = 0
  BY DEF Flush
<1>2. CaughtUp' BY <1>1 DEF PosInv, CaughtUp, Millis
<1>3. queued \in Nat /\ clientFrames \in Nat /\ served \in Nat /\ seen \in Nat
  BY DEF PosInv, PosTyped
<1>4. Millis(served) \in Nat /\ Millis(served) - seen < Half
  BY <1>3, MillisBounds DEF PosInv, Follows
<1>5. \A s \in Nat : (~input /\ s + served + queued <= clientFrames)
                       => s + served' + queued' <= clientFrames'
  BY <1>1, <1>3
<1>6. Millis(served) <= Millis(served') /\ Millis(served') - seen < Half BY <1>1, <1>4
<1>7. state' \in {"Open", "Started", "Paused", "Stopped"} BY <1>1 DEF PosInv, PosTyped
<1> QED BY <1>1, <1>2, <1>3, <1>5, <1>6, <1>7, PositionStays
-----------------------------------------------------------------------------
(* What moves the position: it never goes back. *)

\* A report of a position that has not gone back.
LEMMA ReportKeeps ==
  ASSUME PosInv, NEW c \in Int, position.c64 <= c,
         reported' = Frames(c), position'.c64 = c,
         highest' = IF reported' > highest THEN reported' ELSE highest,
         UNCHANGED <<input, clientFrames>>,
         ~input => c <= Millis(clientFrames)
  PROVE  Reports' /\ reported' \in Int /\ highest' \in Int
<1>1. position.c64 \in Int /\ reported \in Int /\ highest \in Int /\ clientFrames \in Nat
  BY DEF PosInv, PosTyped
<1>2. /\ Frames(position.c64) \in Int /\ Frames(c) \in Int
      /\ Frames(position.c64) <= Frames(c)
  BY <1>1, FramesMonotonic
<1>3. reported = highest /\ reported <= Frames(position.c64) BY DEF PosInv, Reports
<1>4. reported' = highest' /\ reported' \in Int BY <1>1, <1>2, <1>3
<1>5. Frames(position.c64)' = Frames(c) BY DEF Frames
<1>6. ~input => reported' <= clientFrames BY <1>1, FramesWithin
<1> QED BY <1>2, <1>4, <1>5, <1>6 DEF Reports

LEMMA QueryKeeps ==
  ASSUME PosInv, NEW locked \in BOOLEAN, Query(locked) PROVE PosInv'
<1> DEFINE now == Millis(served)
           c == IF locked THEN base + now ELSE base + seen
<1>1. /\ seen \in Nat /\ base \in Nat /\ served \in Nat /\ clientFrames \in Nat
      /\ position \in [c64 : Int, c32 : Int]
  BY DEF PosInv, PosTyped
<1>2. /\ state # "Closed" /\ position.c64 = base + seen /\ position.c32 = Wrap(seen)
      /\ seen <= now /\ now - seen < Half /\ now \in Nat
  BY <1>1, MillisBounds DEF Query, PosInv, Follows
<1>3. UNCHANGED <<input, state, queued, clientFrames, served, base>> BY DEF Query
<1>4. /\ position' \in [c64 : Int, c32 : Int] /\ seen' \in Nat
      /\ position'.c64 = base + seen' /\ position'.c32 = Wrap(seen')
      /\ seen <= seen' /\ seen' <= now /\ now - seen' < Half
      /\ seen' = IF locked THEN now ELSE seen
  <2>1. CASE locked
    <3>1. position' = Update32(position, Wrap(now)) /\ seen' = now
      BY <2>1 DEF Query
    <3> HIDE DEF now
    <3>2. /\ Update32(position, Wrap(now)) \in [c64 : Int, c32 : Int]
          /\ Update32(position, Wrap(now)).c64 = position.c64 + (now - seen)
          /\ Update32(position, Wrap(now)).c32 = Wrap(now)
      BY <1>1, <1>2, UpdateFollows
    <3>3. position.c64 + (now - seen) = base + now BY <1>1, <1>2
    <3> QED BY <1>1, <1>2, <2>1, <3>1, <3>2, <3>3, HalfAssumption
  <2>2. CASE ~locked
    <3>1. position' = position /\ seen' = seen BY <2>2 DEF Query
    <3> HIDE DEF now
    <3> QED BY <1>1, <1>2, <2>2, <3>1
  <2> QED BY <2>1, <2>2
<1>5. ~input => base + seen' <= Millis(clientFrames)
  <2>1. ~input => base + now <= Millis(clientFrames) BY DeviceBehind DEF PosInv
  <2>2. Millis(clientFrames) \in Nat BY <1>1, MillisBounds
  <2> HIDE DEF now
  <2> QED BY <1>1, <1>2, <1>4, <2>1, <2>2
<1>6. base + seen' \in Int /\ position.c64 <= base + seen' BY <1>1, <1>2, <1>4
<1>7. /\ reported' = Frames(base + seen')
      /\ highest' = IF reported' > highest THEN reported' ELSE highest
  BY <1>4 DEF Query
<1>8. Reports' /\ reported' \in Int /\ highest' \in Int
  <2> DEFINE d == base + seen'
  <2>1. /\ d \in Int /\ position.c64 <= d /\ reported' = Frames(d) /\ position'.c64 = d
        /\ (~input => d <= Millis(clientFrames))
    BY <1>4, <1>5, <1>6, <1>7
  <2> HIDE DEF d
  <2> QED BY <1>3, <1>7, <2>1, ReportKeeps
<1>9. PosTyped' BY <1>3, <1>4, <1>8 DEF PosInv, PosTyped
<1>10. Follows'
  <2>1. Millis(served)' = now /\ Wrap(seen)' = Wrap(seen') BY <1>3 DEF Millis, Wrap
  <2> QED BY <1>3, <1>4, <2>1 DEF Follows
<1>11. Behind' BY <1>3 DEF PosInv, Behind, Millis
<1>12. CaughtUp'
  <2>1. CaughtUp BY DEF PosInv
  <2>2. served = 0 /\ seen = 0 => seen' = 0 BY <1>4, MillisZero
  <2> QED BY <1>3, <2>1, <2>2 DEF CaughtUp, Millis
<1> QED BY <1>8, <1>9, <1>10, <1>11, <1>12 DEF PosInv

\* How far the position has come, and what a catch-up makes of it.
LEMMA CatchUpForward ==
  ASSUME PosInv, state # "Closed"
  PROVE  /\ position \in [c64 : Int, c32 : Int] /\ Millis(clientFrames) \in Nat
         /\ ~input => position.c64 <= Millis(clientFrames)
         /\ CatchUp \in [c64 : Int, c32 : Int]
         /\ CatchUp.c64 = Millis(clientFrames) /\ CatchUp.c32 = position.c32
<1>1. /\ seen \in Nat /\ base \in Nat /\ served \in Nat /\ clientFrames \in Nat
      /\ position \in [c64 : Int, c32 : Int]
  BY DEF PosInv, PosTyped
<1>2. Millis(clientFrames) \in Nat /\ Millis(served) \in Nat BY <1>1, MillisBounds
<1>3. ~input => position.c64 <= Millis(clientFrames)
  <2>1. position.c64 = base + seen /\ seen <= Millis(served) BY DEF PosInv, Follows
  <2>2. ~input => base + Millis(served) <= Millis(clientFrames)
    BY DeviceBehind DEF PosInv
  <2> QED BY <1>1, <1>2, <2>1, <2>2
<1> DEFINE m == Millis(clientFrames)
<1>4. m \in Int /\ CatchUp = [position EXCEPT !.c64 = m] BY <1>2 DEF CatchUp, Set
<1> HIDE DEF m
<1>5. /\ CatchUp \in [c64 : Int, c32 : Int]
      /\ CatchUp.c64 = m /\ CatchUp.c32 = position.c32
  BY <1>1, <1>4
<1> QED BY <1>1, <1>2, <1>3, <1>5 DEF m

\* A stream that is not playing is paused where it is.
LEMMA PauseKeeps ==
  ASSUME PosInv, Pause, ~PausesPlayback PROVE PosInv'
<1>1. /\ ~input /\ state \in {"Open", "Stopped"} /\ state' = "Paused" /\ position' = CatchUp
      /\ UNCHANGED <<input, queued, clientFrames, served, reported, highest, base, seen>>
  BY DEF Pause, PosInv, PosTyped
<1>2. /\ seen \in Nat /\ base \in Nat /\ served \in Nat /\ clientFrames \in Nat /\ queued \in Nat
      /\ position \in [c64 : Int, c32 : Int] /\ Millis(clientFrames) \in Nat
  BY CatchUpForward, <1>1 DEF PosInv, PosTyped
<1>3. base = Millis(clientFrames) /\ seen = 0 BY <1>1 DEF PosInv, CaughtUp
<1>4. position.c64 = Millis(clientFrames) BY <1>1, <1>2, <1>3 DEF PosInv, Follows
<1> DEFINE m == Millis(clientFrames)
<1>5. CatchUp = [position EXCEPT !.c64 = m] /\ position.c64 = m BY <1>4 DEF CatchUp, Set
<1> HIDE DEF m
<1>6. CatchUp = position BY <1>2, <1>5
<1>7. CaughtUp' BY <1>1 DEF PosInv, CaughtUp, Millis
<1>8. Millis(served) \in Nat /\ Millis(served) - seen < Half
  BY <1>2, MillisBounds DEF PosInv, Follows
<1> QED BY <1>1, <1>2, <1>6, <1>7, <1>8, PositionStays

LEMMA StopKeeps == ASSUME PosInv, Stop PROVE PosInv'
<1> DEFINE c == IF input THEN position.c64 ELSE Millis(clientFrames)
<1>1. /\ state # "Closed" /\ state' = "Stopped" /\ served' = 0 /\ seen' = 0
      /\ base' = position'.c64 /\ (~input => queued' = 0) /\ (input => queued' = queued)
      /\ UNCHANGED <<input, clientFrames, reported, highest>>
      /\ position' = Reset32(IF input THEN position ELSE CatchUp)
  BY DEF Stop
<1>2. /\ position \in [c64 : Int, c32 : Int] /\ Millis(clientFrames) \in Nat
      /\ ~input => position.c64 <= Millis(clientFrames)
      /\ CatchUp \in [c64 : Int, c32 : Int] /\ CatchUp.c64 = Millis(clientFrames)
  BY <1>1, CatchUpForward
<1>3. c \in Int /\ position.c64 <= c BY <1>2
<1>4. position' \in [c64 : Int, c32 : Int] /\ position'.c64 = c /\ position'.c32 = 0
  <2> DEFINE old == IF input THEN position ELSE CatchUp
             zero == 0
  <2>1. old \in [c64 : Int, c32 : Int] /\ old.c64 = c BY <1>2
  <2>2. position' = [old EXCEPT !.c32 = zero] BY <1>1 DEF Reset32
  <2>3. zero \in Int /\ zero = 0 OBVIOUS
  <2> HIDE DEF old, c, zero
  <2>4. position' \in [c64 : Int, c32 : Int] /\ position'.c64 = c /\ position'.c32 = zero
    BY <2>1, <2>2, <2>3
  <2> QED BY <2>3, <2>4
<1>5. base' = c /\ c \in Nat
  <2>1. input => position.c64 \in Nat
    BY <1>1, <1>2 DEF PosInv, PosTyped, Follows
  <2> QED BY <1>1, <1>2, <1>4, <2>1
<1>6. PosTyped' BY <1>1, <1>4, <1>5 DEF PosInv, PosTyped
<1>7. Follows'
  <2>1. Millis(served)' = 0 /\ Wrap(seen)' = 0 BY <1>1, MillisZero DEF Millis, Wrap
  <2>2. Half > 0 /\ Half \in Nat BY HalfAssumption
  <2>3. position'.c64 = base' + seen' BY <1>1, <1>3, <1>4, <1>5
  <2> QED BY <1>1, <1>4, <2>1, <2>2, <2>3 DEF Follows
<1>8. clientFrames \in Nat /\ clientFrames' = clientFrames
  BY <1>1 DEF PosInv, PosTyped
<1>9. Behind'
  <2>1. ~input => base' = Millis(clientFrames)' /\ clientFrames' + served' + queued' = clientFrames'
    BY <1>1, <1>5, <1>8 DEF Millis
  <2>2. ~input => /\ clientFrames' \in Nat /\ base' = Millis(clientFrames')
                  /\ clientFrames' + served' + queued' <= clientFrames'
    BY <1>1, <1>5, <1>8
  <2> QED BY <1>1, <2>2 DEF Behind, Millis
<1>10. CaughtUp' BY <1>1, <1>5 DEF CaughtUp, Millis
<1>11. Reports'
  <2>1. /\ reported = highest /\ reported <= Frames(position.c64)
        /\ ~input => reported <= clientFrames
    BY DEF PosInv, Reports
  <2>2. /\ Frames(position.c64) \in Int /\ Frames(c) \in Int
        /\ Frames(position.c64) <= Frames(c)
    <3> HIDE DEF c
    <3> QED BY <1>2, <1>3, FramesMonotonic
  <2>3. Frames(position.c64)' = Frames(c) BY <1>4 DEF Frames
  <2>4. reported \in Int BY DEF PosInv, PosTyped
  <2> QED BY <1>1, <2>1, <2>2, <2>3, <2>4 DEF Reports
<1> QED BY <1>6, <1>7, <1>9, <1>10, <1>11 DEF PosInv

LEMMA CloseKeeps == ASSUME PosInv, Close PROVE PosInv'
<1> DEFINE c == IF input \/ state = "Paused" THEN position.c64 ELSE Millis(clientFrames)
<1>1. /\ state # "Closed" /\ state' = "Closed"
      /\ position' = IF input \/ state = "Paused" THEN position ELSE CatchUp
      /\ reported' = Frames(position'.c64)
      /\ highest' = IF reported' > highest THEN reported' ELSE highest
      /\ UNCHANGED <<input, queued, clientFrames, served, base, seen>>
  BY DEF Close
<1>2. /\ position \in [c64 : Int, c32 : Int] /\ Millis(clientFrames) \in Nat
      /\ ~input => position.c64 <= Millis(clientFrames)
      /\ CatchUp \in [c64 : Int, c32 : Int] /\ CatchUp.c64 = Millis(clientFrames)
  BY <1>1, CatchUpForward
<1>3. /\ c \in Int /\ position.c64 <= c /\ (~input => c <= Millis(clientFrames))
      /\ position' \in [c64 : Int, c32 : Int] /\ position'.c64 = c
  BY <1>1, <1>2
<1>4. Reports' /\ reported' \in Int /\ highest' \in Int
  <2>1. reported' = Frames(c) BY <1>1, <1>3
  <2> HIDE DEF c
  <2> QED BY <1>1, <1>3, <2>1, ReportKeeps
<1>5. PosTyped' BY <1>1, <1>3, <1>4 DEF PosInv, PosTyped
<1>6. Follows' BY <1>1 DEF PosInv, Follows, Millis
<1>7. Behind' BY <1>1 DEF PosInv, Behind, Millis
<1>8. CaughtUp' BY <1>1 DEF CaughtUp
<1> QED BY <1>4, <1>5, <1>6, <1>7, <1>8 DEF PosInv
-----------------------------------------------------------------------------
LEMMA PosInitially == PosInit => PosInv
<1> SUFFICES ASSUME PosInit PROVE PosInv
  OBVIOUS
<1>1. /\ state = "Open" /\ queued = 0 /\ clientFrames = 0 /\ served = 0 /\ reported = 0
      /\ highest = 0 /\ base = 0 /\ seen = 0
      /\ position.c64 = 0 /\ position.c32 = 0 /\ position \in [c64 : Int, c32 : Int]
  BY DEF PosInit, Zero
<1>2. input \in BOOLEAN BY Zenon DEF PosInit
<1>3. PosTyped BY <1>1, <1>2 DEF PosTyped
<1>4. Millis(served) = 0 /\ Millis(clientFrames) = 0 /\ Wrap(seen) = 0
  BY <1>1, MillisZero
<1>5. Follows BY <1>1, <1>4, HalfAssumption DEF Follows
<1>6. Behind
  <2>1. 0 \in Nat /\ base = Millis(0) /\ 0 + served + queued <= clientFrames
    BY <1>1, MillisZero
  <2> QED BY <2>1 DEF Behind
<1>7. CaughtUp BY <1>1, <1>4 DEF CaughtUp
<1>8. Reports
  <2>1. Frames(0) \in Int /\ Frames(0) >= 0
    <3>1. 0 * SampleRate = 0 /\ kMillisPerSecond * 0 = 0 BY Rates
    <3>2. 0 <= 0 \div kMillisPerSecond BY <3>1, Rates, LargestMultiple
    <3> QED BY <3>1, <3>2, Rates, Division DEF Frames
  <2> QED BY <1>1, <2>1 DEF Reports
<1> QED BY <1>3, <1>5, <1>6, <1>7, <1>8 DEF PosInv

LEMMA PosStep ==
  ASSUME ~PausesPlayback
  PROVE  PosInv /\ [PosNext]_posVars => PosInv'
<1> SUFFICES ASSUME PosInv, [PosNext]_posVars PROVE PosInv'
  OBVIOUS
<1>1. CASE UNCHANGED posVars
  BY <1>1 DEF posVars, PosInv, PosTyped, Follows, Behind, CaughtUp, Reports, Millis, Frames,
              Wrap
<1>2. CASE PosDone
  BY <1>2 DEF PosDone, posVars, PosInv, PosTyped, Follows, Behind, CaughtUp, Reports, Millis,
              Frames, Wrap
<1>3. ASSUME NEW locked \in BOOLEAN, Query(locked) PROVE PosInv'
  BY <1>3, QueryKeeps
<1>4. CASE Start \/ Callback \/ Serve \/ Flush
  BY <1>4, StartKeeps, CallbackKeeps, ServeKeeps, FlushKeeps
<1>5. CASE Pause \/ Stop \/ Close
  BY <1>5, PauseKeeps, StopKeeps, CloseKeeps
<1> QED BY <1>1, <1>2, <1>3, <1>4, <1>5 DEF PosNext

\* As long as no stream is paused while it plays, what getFramesRead() and
\* getFramesWritten() say of the device is all that it has handled, to the
\* millisecond, through any number of wraps, stops and restarts; and an output
\* stream is never said to have played what was not written.
THEOREM PositionIsHonest ==
  ASSUME ~PausesPlayback
  PROVE  PosSpec => []PositionHonest
<1>1. PosInv => PositionHonest
  BY DEF PosInv, Follows, Reports, PositionHonest, PositionTracked, NeverAhead
<1> QED BY <1>1, PosInitially, PosStep, PTL DEF PosSpec

\* "This monotonic counter will never get reset", and then it is never seen to go
\* back either: a pause of a stream that plays is all that can break it.
THEOREM NeverGoesBack ==
  ASSUME ~PausesPlayback
  PROVE  PosSpec => []FramesServedMonotonic
<1>1. PosInv => FramesServedMonotonic
  BY DEF PosInv, Reports, FramesServedMonotonic
<1> QED BY <1>1, PosInitially, PosStep, PTL DEF PosSpec
-----------------------------------------------------------------------------
(* StreamOpening *)

SoStream == [kind : {"aaudio", "opensl", "filter"}, format : {"I16", "Float"},
             rate : Nat \ {0}, channels : Nat \ {0}, frames : Nat,
             lowLatency : BOOLEAN, mmap : BOOLEAN]

\* MMAP that no quirk forbids, of a thread that opens its stream alone
SafeMMap(r, s) ==
  s.mmap /\ phone.workarounds => phone.together \/ MMapSafe(r)

\* A native stream that may be given for r
GivenFor(r, s) ==
  /\ s \in SoStream /\ s.kind = IF WillUseAAudio(r) THEN "aaudio" ELSE "opensl"
  /\ r.format \in {"Unspecified", s.format} /\ r.frames \in {0, s.frames}
  /\ s.rate = Or(r.rate, NativeRate) /\ s.channels = Or(r.channels, 2)
  /\ s.mmap => WillUseAAudio(r) /\ r.lowLatency /\ s.rate = NativeRate
  /\ SafeMMap(r, s)

\* A stream that may be handed over for r
Honoured(r, s) ==
  /\ s \in SoStream
  /\ r.format \in {"Unspecified", s.format}
  /\ r.rate \in {0, s.rate} /\ r.channels \in {0, s.channels}
  /\ r.callback => r.frames \in {0, s.frames}
  /\ SafeMMap(r, s)
  /\ s.mmap /\ phone.workarounds /\ Input(r) /\ s.kind = "aaudio" /\ s.channels = 1
       => ~phone.monoIsStereo

\* What a frame of openStream() for r is about to open: a native stream for r, or
\* the filter over a child that was given.
Opens(r, what) ==
  \/ what = Nothing /\ Child(r) = r
  \/ \E c : GivenFor(Child(r), c) /\ what = Filter(r, c)

\* The first frame, alone, with what was returned to it
First(f, s) ==
  \/ f.at = "convert" /\ f.stream = Nothing
  \/ f.at = "child" /\ f.stream = Nothing /\ (s = Nothing \/ GivenFor(Child(f.asked), s))
  \/ f.at \in {"mmap", "disable", "open", "openOff"} /\ Opens(f.asked, f.stream)
  \/ /\ f.at \in {"restore", "done"} /\ (s = Nothing \/ Honoured(f.asked, s))
     /\ f.stream = Nothing \/ Fits(f.stream)

\* The second, for the child of the first
Second(f, g, s) ==
  /\ f.at = "child" /\ f.stream = Nothing
  /\ g.asked = Child(f.asked) /\ g.stream = Nothing
  /\ g.at \in {"convert", "mmap", "disable", "open", "openOff", "restore"}
  /\ g.at = "restore" => s = Nothing \/ GivenFor(g.asked, s)

SoFrame(f) == f = [at |-> f.at, asked |-> f.asked, stream |-> f.stream] /\ f.asked \in Builder

Stack(o) ==
  \/ frames[o] = <<>>
  \/ \E f : /\ frames[o] = <<f>> /\ SoFrame(f) /\ First(f, returned[o])
  \/ \E f, g : /\ frames[o] = <<f, g>> /\ SoFrame(f) /\ SoFrame(g)
               /\ Second(f, g, returned[o])

\* MMAP is off only while it is being switched off or an open() is under way, of
\* which a thread that is alone knows that nobody else changes it.
PolicyOf(o) ==
  /\ At(o, {"disable", "openOff", "restore"}) => Enabled(phone.policy)
  /\ ~phone.together =>
       /\ At(o, {"openOff"}) => ~Enabled(policy)
       /\ At(o, {"open"}) => ~Enabled(policy) \/ MMapSafe(Top(o).asked)

PolicyKept ==
  /\ Enabled(policy) => Enabled(phone.policy)
  /\ Enabled(phone.policy) =>
       Enabled(policy) \/ \E o \in Opener : At(o, {"openOff", "restore"})

Alone ==
  ~phone.together => \A o, p \in Opener : frames[o] # <<>> /\ frames[p] # <<>> => o = p

SoTyped == /\ phone \in Device /\ policy \in {"never", "auto", "always"}
           /\ DOMAIN frames = Opener /\ DOMAIN returned = Opener

SoInv == /\ SoTyped /\ Alone /\ PolicyKept
         /\ \A o \in Opener : Stack(o) /\ PolicyOf(o)
-----------------------------------------------------------------------------
LEMMA OpeningConstants ==
  /\ Requests \subseteq Builder /\ SharedRequests \subseteq Builder /\ Phones \subseteq Device
  /\ Burst \in Nat \ {0} /\ NativeRate \in Nat \ {0}
BY OpeningAssumption

\* The child that the quirks ask for is asked for in their terms: they leave it as
\* it is, and openStream() calls itself once at most.
LEMMA ChildIs ==
  ASSUME NEW r \in Builder
  PROVE  /\ Child(r) = [api |-> r.api, direction |-> r.direction, format |-> ChildFormat(r),
                        rate |-> ChildRate(r), channels |-> ChildChannels(r),
                        lowLatency |-> r.lowLatency, frames |-> ChildFrames(r),
                        callback |-> r.callback, converts |-> r.converts,
                        resamples |-> r.resamples]
         /\ Child(r) \in Builder
<1> DEFINE a == [r EXCEPT !.frames = ChildFrames(r)]
           b == [a EXCEPT !.rate = ChildRate(r)]
           c == [b EXCEPT !.format = ChildFormat(r)]
<1>1. /\ ChildFrames(r) \in Nat /\ ChildRate(r) \in Nat /\ ChildChannels(r) \in Nat
      /\ ChildFormat(r) \in {"Unspecified", "I16", "Float"}
  BY DEF Builder, ChildFrames, ChildRate, ChildChannels, ChildFormat
<1>2. Child(r) = [c EXCEPT !.channels = ChildChannels(r)] BY DEF Child
<1> DEFINE fr == ChildFrames(r)
           ra == ChildRate(r)
           fo == ChildFormat(r)
           ch == ChildChannels(r)
<1> HIDE DEF fr, ra, fo, ch
<1>3. a = [api |-> r.api, direction |-> r.direction, format |-> r.format,
           rate |-> r.rate, channels |-> r.channels, lowLatency |-> r.lowLatency,
           frames |-> fr, callback |-> r.callback, converts |-> r.converts,
           resamples |-> r.resamples]
  BY DEF Builder, fr
<1> HIDE DEF a
<1>4. b = [api |-> r.api, direction |-> r.direction, format |-> r.format,
           rate |-> ra, channels |-> r.channels, lowLatency |-> r.lowLatency,
           frames |-> fr, callback |-> r.callback, converts |-> r.converts,
           resamples |-> r.resamples]
  BY <1>3 DEF ra
<1> HIDE DEF b
<1>5. c = [api |-> r.api, direction |-> r.direction, format |-> fo,
           rate |-> ra, channels |-> r.channels, lowLatency |-> r.lowLatency,
           frames |-> fr, callback |-> r.callback, converts |-> r.converts,
           resamples |-> r.resamples]
  BY <1>4 DEF fo
<1> HIDE DEF c
<1>6. Child(r) = [api |-> r.api, direction |-> r.direction, format |-> fo,
           rate |-> ra, channels |-> ch, lowLatency |-> r.lowLatency,
           frames |-> fr, callback |-> r.callback, converts |-> r.converts,
           resamples |-> r.resamples]
  BY <1>2, <1>5 DEF ch
<1>7. Child(r) \in Builder BY <1>1, <1>6 DEF Builder, fo, ra, ch, fr
<1> QED BY <1>6, <1>7 DEF fo, ra, ch, fr

LEMMA ChildIsFinal ==
  ASSUME NEW r \in Builder, phone \in Device
  PROVE  Child(Child(r)) = Child(r)
<1> DEFINE a == Child(r)
<1>1. /\ a \in Builder /\ a.api = r.api /\ a.direction = r.direction
      /\ a.format = ChildFormat(r) /\ a.rate = ChildRate(r) /\ a.channels = ChildChannels(r)
      /\ a.lowLatency = r.lowLatency /\ a.frames = ChildFrames(r)
      /\ a.callback = r.callback /\ a.converts = r.converts /\ a.resamples = r.resamples
  BY ChildIs
<1>2. /\ r \in Builder /\ phone.sdk \in Nat
      /\ WillUseAAudio(a) = WillUseAAudio(r) /\ Input(a) = Input(r)
  BY <1>1 DEF WillUseAAudio, Input, Device
<1> HIDE DEF a
<1>3. ChildFrames(a) = a.frames BY <1>1, <1>2 DEF ChildFrames
<1>4. ChildRate(a) = a.rate BY <1>1 DEF ChildRate
<1>5. ChildFormat(a) = a.format BY <1>1, <1>2 DEF ChildFormat
<1>6. ChildChannels(a) = a.channels
  <2>1. a.channels = r.channels => MMapPossible(a) = MMapPossible(r)
    BY <1>1 DEF MMapPossible, ChildRate
  <2>2. CASE a.channels = r.channels BY <1>1, <1>2, <2>1, <2>2 DEF ChildChannels
  <2>3. CASE a.channels # r.channels BY <1>1, <1>2, <2>3 DEF ChildChannels
  <2> QED BY <2>2, <2>3
<1>7. Child(a) = [api |-> a.api, direction |-> a.direction, format |-> a.format,
                  rate |-> a.rate, channels |-> a.channels,
                  lowLatency |-> a.lowLatency, frames |-> a.frames,
                  callback |-> a.callback, converts |-> a.converts, resamples |-> a.resamples]
  BY <1>1, <1>3, <1>4, <1>5, <1>6, ChildIs
<1>8. Child(a) = a BY <1>1, <1>7 DEF Builder
<1> QED BY <1>8 DEF a
-----------------------------------------------------------------------------
\* What either kind of native stream honours
LEMMA AAudioGiven ==
  ASSUME NEW r \in Builder, NEW s \in AAudioStreams(r), WillUseAAudio(r), SafeMMap(r, s)
  PROVE  GivenFor(r, s)
<1>1. /\ s \in [kind : {"aaudio"},
                format : IF r.format = "Unspecified" THEN {"I16", "Float"} ELSE {r.format},
                rate : {Or(r.rate, NativeRate)}, channels : {Or(r.channels, 2)},
                frames : {r.frames}, lowLatency : {r.lowLatency, FALSE}, mmap : BOOLEAN]
      /\ s.mmap => s.lowLatency /\ s.rate = NativeRate
  BY DEF AAudioStreams
<1> DEFINE formats == IF r.format = "Unspecified" THEN {"I16", "Float"} ELSE {r.format}
<1>2. /\ s.kind = "aaudio" /\ s.format \in formats /\ s.rate = Or(r.rate, NativeRate)
      /\ s.channels = Or(r.channels, 2) /\ s.frames = r.frames
      /\ s.lowLatency \in {r.lowLatency, FALSE} /\ s.mmap \in BOOLEAN
      /\ s = [kind |-> s.kind, format |-> s.format, rate |-> s.rate, channels |-> s.channels,
              frames |-> s.frames, lowLatency |-> s.lowLatency, mmap |-> s.mmap]
  BY <1>1
<1>3. /\ r.rate \in Nat /\ r.channels \in Nat /\ r.frames \in Nat /\ r.lowLatency \in BOOLEAN
      /\ r.format \in {"Unspecified", "I16", "Float"} /\ NativeRate \in Nat \ {0}
  BY OpeningConstants DEF Builder
<1>4. s.rate \in Nat \ {0} /\ s.channels \in Nat \ {0} BY <1>2, <1>3 DEF Or
<1>5. /\ s.format \in {"I16", "Float"} /\ r.format \in {"Unspecified", s.format}
      /\ s.lowLatency \in BOOLEAN
  BY <1>2, <1>3
<1>6. s \in SoStream BY <1>2, <1>3, <1>4, <1>5 DEF SoStream
<1> QED BY <1>1, <1>2, <1>5, <1>6 DEF GivenFor

LEMMA OpenSLGiven ==
  ASSUME NEW r \in Builder, NEW s \in OpenSLStreams(r), ~WillUseAAudio(r)
  PROVE  GivenFor(r, s)
<1>1. PICK l \in OpenSLLatency(r) :
        s = [kind |-> "opensl", format |-> OpenSLFormat(r), rate |-> Or(r.rate, NativeRate),
             channels |-> Or(r.channels, 2), frames |-> OpenSLFrames(r, l),
             lowLatency |-> l, mmap |-> FALSE]
  BY DEF OpenSLStreams
<1>2. /\ r.rate \in Nat /\ r.channels \in Nat /\ r.frames \in Nat /\ r.lowLatency \in BOOLEAN
      /\ r.format \in {"Unspecified", "I16", "Float"}
      /\ NativeRate \in Nat \ {0} /\ Burst \in Nat
  BY OpeningConstants DEF Builder
<1>3. Or(r.rate, NativeRate) \in Nat \ {0} /\ Or(r.channels, 2) \in Nat \ {0}
  BY <1>2 DEF Or
<1>4. OpenSLFormat(r) \in {"I16", "Float"} /\ r.format \in {"Unspecified", OpenSLFormat(r)}
  BY <1>2 DEF OpenSLFormat
<1>5. OpenSLFrames(r, l) \in Nat /\ r.frames \in {0, OpenSLFrames(r, l)}
  BY <1>2 DEF OpenSLFrames
<1>6. l \in BOOLEAN BY <1>2 DEF OpenSLLatency
<1>7. s \in SoStream BY <1>1, <1>3, <1>4, <1>5, <1>6 DEF SoStream
<1> QED BY <1>1, <1>4, <1>5, <1>7 DEF GivenFor, SafeMMap

LEMMA NotNothing ==
  /\ \A s \in SoStream : s # Nothing
  /\ \A r, c : Filter(r, c) # Nothing
<1>1. \A s \in SoStream : s # Nothing
  <2> SUFFICES ASSUME NEW s \in SoStream PROVE s # Nothing OBVIOUS
  <2>1. s.kind \in {"aaudio", "opensl", "filter"} BY DEF SoStream
  <2>2. Nothing.kind = "nothing" BY DEF Nothing
  <2> QED BY <2>1, <2>2
<1>2. \A r, c : Filter(r, c) # Nothing
  <2> SUFFICES ASSUME NEW r, NEW c PROVE Filter(r, c) # Nothing OBVIOUS
  <2>1. "sink" \in DOMAIN Filter(r, c) BY DEF Filter
  <2>2. DOMAIN Nothing = {"kind"} BY DEF Nothing
  <2> QED BY <2>1, <2>2
<1> QED BY <1>1, <1>2

\* A stream that is opened as it was asked for
LEMMA DirectHonours ==
  ASSUME NEW r \in Builder, Child(r) = r, NEW s, GivenFor(r, s), phone \in Device
  PROVE  Honoured(r, s)
<1>1. r.channels = ChildChannels(r) BY ChildIs
<1>2. r.rate \in Nat /\ r.channels \in Nat /\ NativeRate \in Nat \ {0}
  BY OpeningConstants DEF Builder
<1>3. r.rate \in {0, s.rate} /\ r.channels \in {0, s.channels} BY <1>2 DEF GivenFor, Or
<1>4. ASSUME s.mmap, phone.workarounds, Input(r), s.kind = "aaudio", s.channels = 1
      PROVE  ~phone.monoIsStereo
  <2>1. r.channels = 1 /\ WillUseAAudio(r) /\ r.lowLatency /\ r.rate \in {0, NativeRate}
    BY <1>2, <1>4 DEF GivenFor, Or
  <2>2. MMapPossible(r) BY <2>1 DEF MMapPossible
  <2> QED BY <1>1, <1>4, <2>1, <2>2 DEF ChildChannels
<1> QED BY <1>3, <1>4 DEF GivenFor, Honoured

\* A child that is handed over in place of the stream
LEMMA ChildHonours ==
  ASSUME NEW r \in Builder, NEW c, GivenFor(Child(r), c), Compatible(r, c), phone \in Device
  PROVE  Honoured(r, c)
<1> DEFINE a == Child(r)
<1>1. /\ a.api = r.api /\ a.direction = r.direction
      /\ a.rate = ChildRate(r) /\ a.channels = ChildChannels(r)
      /\ a.lowLatency = r.lowLatency
  BY ChildIs
<1>2. WillUseAAudio(a) = WillUseAAudio(r) /\ MMapSafe(a) = MMapSafe(r) /\ Input(a) = Input(r)
  BY <1>1 DEF WillUseAAudio, MMapSafe, Input
<1>3. r.rate \in Nat /\ r.channels \in Nat /\ NativeRate \in Nat \ {0}
  BY OpeningConstants DEF Builder
<1>4. SafeMMap(r, c) BY <1>2 DEF GivenFor, SafeMMap
<1>5. ASSUME c.mmap, phone.workarounds, Input(r), c.kind = "aaudio", c.channels = 1
      PROVE  ~phone.monoIsStereo
  <2> HIDE DEF a
  <2>1. GivenFor(a, c) BY DEF a
  <2>2. WillUseAAudio(r) /\ r.lowLatency /\ c.rate = NativeRate
    BY <1>1, <1>2, <1>5, <2>1 DEF GivenFor
  <2>3. a.channels = 1
    <3>1. c.channels = Or(a.channels, 2) BY <2>1 DEF GivenFor
    <3> QED BY <1>5, <3>1 DEF Or
  <2>4. r.channels = 1 BY <1>1, <1>2, <1>5, <2>2, <2>3 DEF ChildChannels
  <2>5. r.rate \in {0, NativeRate} BY <2>2 DEF Compatible
  <2>6. MMapPossible(r) BY <2>2, <2>4, <2>5 DEF MMapPossible
  <2> QED BY <1>1, <1>5, <2>2, <2>3, <2>4, <2>6 DEF ChildChannels
<1> QED BY <1>4, <1>5 DEF GivenFor, Honoured, Compatible

\* A filter over a child
LEMMA FilterHonours ==
  ASSUME NEW r \in Builder, NEW c, GivenFor(Child(r), c), phone \in Device
  PROVE  Honoured(r, Parent(r, c)) /\ Filter(r, c).stream = Parent(r, c)
<1> DEFINE p == Parent(r, c)
<1>1. /\ r.rate \in Nat /\ r.channels \in Nat /\ r.frames \in Nat
      /\ r.format \in {"Unspecified", "I16", "Float"}
  BY DEF Builder
<1>2. /\ c.rate \in Nat \ {0} /\ c.channels \in Nat \ {0} /\ c.frames \in Nat
      /\ c.format \in {"I16", "Float"} /\ c.lowLatency \in BOOLEAN /\ c.mmap \in BOOLEAN
  BY DEF GivenFor, SoStream
<1>3. /\ Or(r.rate, c.rate) \in Nat \ {0} /\ Or(r.channels, c.channels) \in Nat \ {0}
      /\ Or(r.frames, c.frames) \in Nat
      /\ r.rate \in {0, Or(r.rate, c.rate)} /\ r.channels \in {0, Or(r.channels, c.channels)}
      /\ r.frames \in {0, Or(r.frames, c.frames)}
  BY <1>1, <1>2 DEF Or
<1>4. /\ p.kind = "filter" /\ p.mmap = c.mmap
      /\ p.rate = Or(r.rate, c.rate) /\ p.channels = Or(r.channels, c.channels)
      /\ p.frames = Or(r.frames, c.frames)
      /\ p.format = IF r.format = "Unspecified" THEN c.format ELSE r.format
  BY DEF Parent
<1>5. p \in SoStream BY <1>1, <1>2, <1>3 DEF Parent, SoStream
<1>6. SafeMMap(r, p)
  <2>1. Child(r).direction = r.direction BY ChildIs
  <2>2. MMapSafe(Child(r)) = MMapSafe(r) BY <2>1 DEF MMapSafe
  <2> QED BY <1>4, <2>2 DEF GivenFor, SafeMMap
<1>7. Filter(r, c).stream = p BY DEF Filter
<1> HIDE DEF p
<1>8. Honoured(r, p) BY <1>1, <1>2, <1>3, <1>4, <1>5, <1>6 DEF Honoured
<1> QED BY <1>7, <1>8 DEF p
-----------------------------------------------------------------------------
LEMMA ShortJoins ==
  ASSUME NEW m, NEW n
  PROVE  /\ <<m>> \o <<>> \o <<>> = <<m>>
         /\ <<>> \o <<m>> \o <<>> = <<m>>
         /\ <<>> \o <<>> \o <<m>> = <<m>>
         /\ <<m>> \o <<n>> \o <<>> = <<m, n>>
         /\ <<>> \o <<m>> \o <<n>> = <<m, n>>
         /\ <<m>> \o <<n>> = <<m, n>>
<1>1. \A s \in Seq({m, n}) : s \o <<>> = s /\ <<>> \o s = s OBVIOUS
<1>2. <<m>> \in Seq({m, n}) /\ <<n>> \in Seq({m, n}) /\ <<m, n>> \in Seq({m, n})
      /\ <<>> \in Seq({m, n})
  OBVIOUS
<1>3. <<m>> \o <<n>> = <<m, n>>
  <2> DEFINE a == <<m>>
             b == <<n>>
             c == a \o b
             d == <<m, n>>
  <2>1. a \in Seq({m, n}) /\ Len(a) = 1 /\ a[1] = m OBVIOUS
  <2>2. b \in Seq({m, n}) /\ Len(b) = 1 /\ b[1] = n OBVIOUS
  <2>3. d \in Seq({m, n}) /\ Len(d) = 2 /\ d[1] = m /\ d[2] = n OBVIOUS
  <2> HIDE DEF a, b, d
  <2>4. c \in Seq({m, n}) /\ Len(c) = 2 BY <2>1, <2>2, ConcatProperties
  <2>5. c[1] = m /\ c[2] = n BY <2>1, <2>2, ConcatProperties
  <2> HIDE DEF c
  <2>6. \A i \in 1..Len(c) : c[i] = d[i] BY <2>3, <2>4, <2>5
  <2>7. c = d BY <2>3, <2>4, <2>6
  <2> QED BY <2>7 DEF a, b, c, d
<1> QED BY <1>1, <1>2, <1>3

\* The graph between two streams of any channels and rates leads from the one to
\* the other: channels are reduced first, expanded last, and the rate is converted
\* in between, of as few channels as there are.
LEMMA GraphLeads ==
  ASSUME NEW s, NEW t, s.channels \in Nat, t.channels \in Nat,
         NEW f, f.source = s, f.sink = t
  PROVE  Fits(f)
<1> DEFINE g == FlowGraph(s, t)
<1>1. CASE s.channels = t.channels /\ s.rate = t.rate
  <2>1. g = <<>> BY <1>1 DEF FlowGraph, ReducedFirst, Resampled, ExpandedLast
  <2> QED BY <1>1, <2>1 DEF Fits, FrameOf
<1>2. ASSUME NEW n, n.from = FrameOf(s), n.to = FrameOf(t), g = <<n>> PROVE Fits(f)
  <2> HIDE DEF g
  <2>1. g # <<>> /\ Len(g) = 1 /\ g[1] = n BY <1>2
  <2> QED BY <1>2, <2>1 DEF Fits, g
<1>3. ASSUME NEW m, NEW n, m.from = FrameOf(s), m.to = n.from, n.to = FrameOf(t),
             g = <<m, n>>
      PROVE  Fits(f)
  <2> HIDE DEF g
  <2>1. g # <<>> /\ Len(g) = 2 /\ g[1] = m /\ g[2] = n BY <1>3
  <2>2. 1..(Len(g) - 1) = {1} BY <2>1
  <2> QED BY <1>3, <2>1, <2>2 DEF Fits, g
<1>4. CASE s.channels = t.channels /\ s.rate # t.rate
  <2> DEFINE n == Node(t.channels, s.rate, t.channels, t.rate)
  <2>1. g = <<n>>
    <3>1. /\ ReducedFirst(s, t) = <<>> /\ Resampled(s, t) = <<n>>
          /\ ExpandedLast(s, t) = <<>>
      BY <1>4 DEF ReducedFirst, Resampled, ExpandedLast, Fewer
    <3> HIDE DEF n
    <3> QED BY <3>1, ShortJoins DEF FlowGraph
  <2>2. n.from = FrameOf(s) /\ n.to = FrameOf(t) BY <1>4 DEF Node, FrameOf
  <2> HIDE DEF g, n
  <2> QED BY <1>2, <2>1, <2>2
<1>5. CASE s.channels > t.channels /\ s.rate = t.rate
  <2> DEFINE n == Node(s.channels, s.rate, t.channels, s.rate)
  <2>1. g = <<n>>
    <3>1. /\ ReducedFirst(s, t) = <<n>> /\ Resampled(s, t) = <<>>
          /\ ExpandedLast(s, t) = <<>>
      BY <1>5 DEF ReducedFirst, Resampled, ExpandedLast, Fewer
    <3> HIDE DEF n
    <3> QED BY <3>1, ShortJoins DEF FlowGraph
  <2>2. n.from = FrameOf(s) /\ n.to = FrameOf(t) BY <1>5 DEF Node, FrameOf
  <2> HIDE DEF g, n
  <2> QED BY <1>2, <2>1, <2>2
<1>6. CASE s.channels < t.channels /\ s.rate = t.rate
  <2> DEFINE n == Node(s.channels, t.rate, t.channels, t.rate)
  <2>1. g = <<n>>
    <3>1. /\ ReducedFirst(s, t) = <<>> /\ Resampled(s, t) = <<>>
          /\ ExpandedLast(s, t) = <<n>>
      BY <1>6 DEF ReducedFirst, Resampled, ExpandedLast, Fewer
    <3> HIDE DEF n
    <3> QED BY <3>1, ShortJoins DEF FlowGraph
  <2>2. n.from = FrameOf(s) /\ n.to = FrameOf(t) BY <1>6 DEF Node, FrameOf
  <2> HIDE DEF g, n
  <2> QED BY <1>2, <2>1, <2>2
<1>7. CASE s.channels > t.channels /\ s.rate # t.rate
  <2> DEFINE m == Node(s.channels, s.rate, t.channels, s.rate)
             n == Node(t.channels, s.rate, t.channels, t.rate)
  <2>1. g = <<m, n>>
    <3>1. /\ ReducedFirst(s, t) = <<m>> /\ Resampled(s, t) = <<n>>
          /\ ExpandedLast(s, t) = <<>>
      BY <1>7 DEF ReducedFirst, Resampled, ExpandedLast, Fewer
    <3> HIDE DEF m, n
    <3> QED BY <3>1, ShortJoins DEF FlowGraph
  <2>2. m.from = FrameOf(s) /\ m.to = n.from /\ n.to = FrameOf(t) BY <1>7 DEF Node, FrameOf
  <2> HIDE DEF g, m, n
  <2> QED BY <1>3, <2>1, <2>2
<1>8. CASE s.channels < t.channels /\ s.rate # t.rate
  <2> DEFINE m == Node(s.channels, s.rate, s.channels, t.rate)
             n == Node(s.channels, t.rate, t.channels, t.rate)
  <2>1. g = <<m, n>>
    <3>1. /\ ReducedFirst(s, t) = <<>> /\ Resampled(s, t) = <<m>>
          /\ ExpandedLast(s, t) = <<n>>
      BY <1>8 DEF ReducedFirst, Resampled, ExpandedLast, Fewer
    <3> HIDE DEF m, n
    <3> QED BY <3>1, ShortJoins DEF FlowGraph
  <2>2. m.from = FrameOf(s) /\ m.to = n.from /\ n.to = FrameOf(t) BY <1>8 DEF Node, FrameOf
  <2> HIDE DEF g, m, n
  <2> QED BY <1>3, <2>1, <2>2
<1> QED BY <1>1, <1>4, <1>5, <1>6, <1>7, <1>8

LEMMA FilterFits ==
  ASSUME NEW r \in Builder, NEW c, GivenFor(Child(r), c), phone \in Device
  PROVE  Fits(Filter(r, c))
<1> DEFINE p == Parent(r, c)
           f == Filter(r, c)
<1>1. p.channels \in Nat /\ c.channels \in Nat
  BY FilterHonours DEF Honoured, GivenFor, SoStream
<1>2. /\ f.source = IF Input(r) THEN c ELSE p
      /\ f.sink = IF Input(r) THEN p ELSE c
  BY DEF Filter
<1> HIDE DEF f, p
<1>3. CASE Input(r) BY <1>1, <1>2, <1>3, GraphLeads DEF f
<1>4. CASE ~Input(r) BY <1>1, <1>2, <1>4, GraphLeads DEF f
<1> QED BY <1>3, <1>4
-----------------------------------------------------------------------------
\* The device never changes, so what is said of it means the same after a step.
LEMMA PhoneKept ==
  ASSUME phone' = phone, NEW r, NEW o
  PROVE  /\ Child(r)' = Child(r)
         /\ MMapSafe(r)' = MMapSafe(r)
         /\ \A c : GivenFor(Child(r), c)' <=> GivenFor(Child(r), c)
         /\ GivenFor(r, returned[o])' <=> GivenFor(r, returned'[o])
         /\ GivenFor(Child(r), returned[o])' <=> GivenFor(Child(r), returned'[o])
         /\ Honoured(r, returned[o])' <=> Honoured(r, returned'[o])
<1>1. Child(r)' = Child(r)
  BY DEF Child, ChildFrames, ChildRate, ChildFormat, ChildChannels, WillUseAAudio, Input,
         MMapPossible
<1>2. MMapSafe(r)' = MMapSafe(r) BY DEF MMapSafe
<1>3. ASSUME NEW c PROVE GivenFor(Child(r), c)' <=> GivenFor(Child(r), c)
  BY <1>1 DEF GivenFor, SafeMMap, MMapSafe, WillUseAAudio
<1>4. GivenFor(r, returned[o])' <=> GivenFor(r, returned'[o])
  BY DEF GivenFor, SafeMMap, MMapSafe, WillUseAAudio
<1>5. GivenFor(Child(r), returned[o])' <=> GivenFor(Child(r), returned'[o])
  BY <1>1 DEF GivenFor, SafeMMap, MMapSafe, WillUseAAudio
<1>6. Honoured(r, returned[o])' <=> Honoured(r, returned'[o])
  BY DEF Honoured, SafeMMap, MMapSafe
<1> QED BY <1>1, <1>2, <1>3, <1>4, <1>5, <1>6

LEMMA FirstKept ==
  ASSUME phone' = phone, NEW o, NEW f
  PROVE  First(f, returned[o])' <=> First(f, returned'[o])
<1>1. Opens(f.asked, f.stream)' <=> Opens(f.asked, f.stream) BY PhoneKept DEF Opens
<1> QED BY <1>1, PhoneKept DEF First

LEMMA SecondKept ==
  ASSUME phone' = phone, NEW o, NEW f, NEW g
  PROVE  Second(f, g, returned[o])' <=> Second(f, g, returned'[o])
BY PhoneKept DEF Second

LEMMA StackKept ==
  ASSUME phone' = phone, NEW o
  PROVE  Stack(o)' <=>
         \/ frames'[o] = <<>>
         \/ \E f : frames'[o] = <<f>> /\ SoFrame(f) /\ First(f, returned'[o])
         \/ \E f, g : /\ frames'[o] = <<f, g>> /\ SoFrame(f) /\ SoFrame(g)
                      /\ Second(f, g, returned'[o])
BY FirstKept, SecondKept DEF Stack
-----------------------------------------------------------------------------
LEMMA OneFrame ==
  ASSUME NEW f, NEW g
  PROVE  /\ <<f>> # <<>> /\ Len(<<f>>) = 1 /\ <<f>>[1] = f
         /\ Append(Front(<<f>>), g) = <<g>>
<1>1. <<f>> # <<>> OBVIOUS
<1>2. Front(<<f>>) = <<>> BY DEF Front
<1> QED BY <1>1, <1>2

LEMMA TwoFrames ==
  ASSUME NEW f, NEW g
  PROVE  /\ <<f, g>> # <<>> /\ Len(<<f, g>>) = 2 /\ <<f, g>>[1] = f /\ <<f, g>>[2] = g
         /\ Front(<<f, g>>) = <<f>>
<1>1. <<f, g>> # <<>> OBVIOUS
<1>2. Front(<<f, g>>) = <<f>>
  <2> DEFINE s == <<f, g>>
             t == SubSeq(s, 1, 1)
  <2>1. s \in Seq({f, g}) /\ Len(s) = 2 /\ s[1] = f OBVIOUS
  <2>2. <<f>> \in Seq({f, g}) /\ Len(<<f>>) = 1 /\ <<f>>[1] = f OBVIOUS
  <2> HIDE DEF s
  <2>3. \A i \in 1..1 : s[i] \in {f, g} BY <2>1
  <2>4. t \in Seq({f, g}) /\ Len(t) = 1 /\ t[1] = f BY <2>1, <2>3, SubSeqProperties
  <2> HIDE DEF t
  <2>5. t = <<f>> BY <2>2, <2>4, SeqEqual
  <2> QED BY <2>1, <2>5 DEF Front, s, t
<1> QED BY <1>1, <1>2

LEMMA TopReplaced ==
  ASSUME NEW f, NEW g, NEW h
  PROVE  Append(Front(<<f, g>>), h) = <<f, h>>
<1>1. <<f>> \in Seq({f, h}) /\ h \in {f, h} OBVIOUS
<1>2. Append(<<f>>, h) = <<f>> \o <<h>> BY <1>1, AppendIsConcat
<1> QED BY <1>2, ShortJoins, TwoFrames

LEMMA Pushed ==
  ASSUME NEW f, NEW g, NEW h
  PROVE  Front(<<f>>) \o <<g, h>> = <<g, h>>
<1>1. Front(<<f>>) = <<>> BY DEF Front
<1>2. <<g, h>> \in Seq({g, h}) OBVIOUS
<1> HIDE DEF Front
<1> QED BY <1>1, <1>2, ConcatEmptySeq

LEMMA TopIs ==
  ASSUME NEW o
  PROVE  /\ \A f : frames[o] = <<f>> => Top(o) = f
         /\ \A f, g : frames[o] = <<f, g>> => Top(o) = g
         /\ frames[o] = <<>> => \A places : ~At(o, places)
         /\ \A f : frames[o] = <<f>> => \A places : At(o, places) <=> f.at \in places
         /\ \A f, g : frames[o] = <<f, g>> => \A places : At(o, places) <=> g.at \in places
<1>1. ASSUME NEW f, frames[o] = <<f>>
      PROVE  Top(o) = f /\ (\A places : At(o, places) <=> f.at \in places)
  BY <1>1, OneFrame DEF Top, At
<1>2. ASSUME NEW f, NEW g, frames[o] = <<f, g>>
      PROVE  Top(o) = g /\ (\A places : At(o, places) <=> g.at \in places)
  BY <1>2, TwoFrames DEF Top, At
<1>3. ASSUME frames[o] = <<>>, NEW places PROVE ~At(o, places)
  BY <1>3 DEF At
<1> QED BY <1>1, <1>2, <1>3

LEMMA TopBecomes ==
  ASSUME NEW o
  PROVE  /\ \A f : frames'[o] = <<f>> => Top(o)' = f
         /\ \A f, g : frames'[o] = <<f, g>> => Top(o)' = g
         /\ frames'[o] = <<>> => \A places : ~At(o, places)'
         /\ \A f : frames'[o] = <<f>> => \A places : At(o, places)' <=> f.at \in places
         /\ \A f, g : frames'[o] = <<f, g>> => \A places : At(o, places)' <=> g.at \in places
<1>1. ASSUME NEW f, frames'[o] = <<f>>
      PROVE  Top(o)' = f /\ (\A places : At(o, places)' <=> f.at \in places)
  BY <1>1, OneFrame DEF Top, At
<1>2. ASSUME NEW f, NEW g, frames'[o] = <<f, g>>
      PROVE  Top(o)' = g /\ (\A places : At(o, places)' <=> g.at \in places)
  BY <1>2, TwoFrames DEF Top, At
<1>3. ASSUME frames'[o] = <<>>, NEW places PROVE ~At(o, places)'
  BY <1>3 DEF At
<1> QED BY <1>1, <1>2, <1>3

\* Only the thread o takes a step.
Alike(o) ==
  /\ phone' = phone
  /\ DOMAIN frames' = Opener /\ DOMAIN returned' = Opener
  /\ \A p \in Opener \ {o} : frames'[p] = frames[p] /\ returned'[p] = returned[p]

LEMMA OneMoves ==
  ASSUME SoInv, NEW o \in Opener, Alike(o), policy' \in {"never", "auto", "always"},
         ~phone.together => \A p \in Opener \ {o} : frames[p] = <<>>,
         Stack(o)', PolicyOf(o)',
         Enabled(policy') => Enabled(phone.policy),
         Enabled(phone.policy) =>
           \/ Enabled(policy') \/ At(o, {"openOff", "restore"})'
           \/ policy' = policy /\ ~At(o, {"openOff", "restore"})
  PROVE  SoInv'
<1>1. SoTyped' BY DEF SoInv, SoTyped, Alike
<1>2. ASSUME NEW p \in Opener \ {o}, NEW places PROVE At(p, places)' <=> At(p, places)
  BY DEF Alike, At, Top
<1>3. Alone' BY DEF Alone, Alike
<1>4. PolicyKept'
  <2>1. phone' = phone /\ PolicyKept BY DEF Alike, SoInv
  <2>2. CASE policy' = policy /\ ~At(o, {"openOff", "restore"})
    BY <1>2, <2>1, <2>2 DEF PolicyKept
  <2>3. CASE ~(policy' = policy /\ ~At(o, {"openOff", "restore"}))
    BY <2>1, <2>3 DEF PolicyKept
  <2> QED BY <2>2, <2>3
<1>5. ASSUME NEW p \in Opener PROVE Stack(p)' /\ PolicyOf(p)'
  <2>1. CASE p = o BY <2>1
  <2>2. CASE p # o
    <3>1. Stack(p)' BY <2>2, StackKept DEF SoInv, Alike, Stack
    <3>2. CASE phone.together
      <4>1. phone' = phone /\ PolicyOf(p) BY DEF SoInv, Alike
      <4>2. At(p, {"disable", "openOff", "restore"})' <=> At(p, {"disable", "openOff", "restore"})
        BY <1>2, <2>2
      <4>3. PolicyOf(p)' BY <3>2, <4>1, <4>2 DEF PolicyOf
      <4> QED BY <3>1, <4>3
    <3>3. CASE ~phone.together
      <4>1. frames'[p] = <<>> /\ phone' = phone BY <2>2, <3>3 DEF Alike
      <4> QED BY <3>1, <4>1, TopBecomes DEF PolicyOf
    <3> QED BY <3>1, <3>2, <3>3
  <2> QED BY <2>1, <2>2
<1> QED BY <1>1, <1>3, <1>4, <1>5 DEF SoInv
-----------------------------------------------------------------------------
\* A step of o from a state in which o opens a stream
LEMMA OneOpens ==
  ASSUME SoInv, NEW o \in Opener, Alike(o), policy' \in {"never", "auto", "always"},
         frames[o] # <<>>, Stack(o)', PolicyOf(o)',
         Enabled(policy') => Enabled(phone.policy),
         Enabled(phone.policy) =>
           \/ Enabled(policy') \/ At(o, {"openOff", "restore"})'
           \/ policy' = policy /\ ~At(o, {"openOff", "restore"})
  PROVE  SoInv'
<1>1. ~phone.together => \A p \in Opener \ {o} : frames[p] = <<>> BY DEF SoInv, Alone
<1> QED BY <1>1, OneMoves

LEMMA AskStep ==
  ASSUME SoInv, NEW o \in Opener, Ask(o)
  PROVE  SoInv'
<1>1. PICK r \in IF phone.together THEN SharedRequests ELSE Requests :
        frames' = [frames EXCEPT ![o] = <<Frame(r)>>]
  BY DEF Ask
<1>2. /\ frames[o] = <<>> /\ phone' = phone /\ policy' = policy /\ returned' = returned
      /\ phone.together \/ \A p \in Opener : frames[p] = <<>>
  BY DEF Ask
<1>3. Alike(o) /\ frames'[o] = <<Frame(r)>> BY <1>1, <1>2 DEF SoInv, SoTyped, Alike
<1> DEFINE f == Frame(r)
<1>4. f.at = "convert" /\ SoFrame(f) /\ f.stream = Nothing
  BY OpeningConstants DEF Frame, SoFrame
<1> HIDE DEF f
<1>5. Stack(o)' BY <1>2, <1>3, <1>4, StackKept DEF First, f
<1>6. ~At(o, {"disable", "openOff", "restore", "open"})' BY <1>3, <1>4, TopBecomes DEF f
<1>7. PolicyOf(o)' BY <1>6 DEF PolicyOf, At
<1>8. ~At(o, {"openOff", "restore"}) BY <1>2, TopIs
<1>9. /\ policy' \in {"never", "auto", "always"}
      /\ Enabled(policy') => Enabled(phone.policy)
  BY <1>2 DEF SoInv, SoTyped, PolicyKept
<1> QED BY <1>2, <1>3, <1>5, <1>7, <1>8, <1>9, OneMoves

\* Of a thread that does not touch the policy
LEMMA PolicyStays ==
  ASSUME SoInv, NEW o \in Opener, Alike(o), policy' = policy,
         frames[o] # <<>>, Stack(o)', PolicyOf(o)',
         At(o, {"openOff", "restore"}) => At(o, {"openOff", "restore"})'
  PROVE  SoInv'
<1>1. /\ policy' \in {"never", "auto", "always"}
      /\ Enabled(policy') => Enabled(phone.policy)
  BY DEF SoInv, SoTyped, PolicyKept
<1>2. Enabled(phone.policy) =>
           \/ Enabled(policy') \/ At(o, {"openOff", "restore"})'
           \/ policy' = policy /\ ~At(o, {"openOff", "restore"})
  OBVIOUS
<1> QED BY <1>1, <1>2, OneOpens

LEMMA NoPolicyAt ==
  ASSUME NEW o, ~At(o, {"disable", "open", "openOff", "restore"})'
  PROVE  PolicyOf(o)'
BY DEF PolicyOf, At

LEMMA ConvertStep ==
  ASSUME SoInv, NEW o \in Opener, Convert(o)
  PROVE  SoInv'
<1>1. /\ At(o, {"convert"}) /\ phone' = phone /\ policy' = policy /\ returned' = returned
      /\ Stack(o) /\ phone \in Device
  BY DEF Convert, SoInv, SoTyped
<1>2. frames[o] # <<>> BY <1>1 DEF At
<1>3. ~At(o, {"openOff", "restore"}) BY <1>1 DEF At
<1>4. ASSUME frames' = [frames EXCEPT ![o] = frames'[o]], Stack(o)',
             ~At(o, {"disable", "open", "openOff", "restore"})'
      PROVE  SoInv'
  <2>1. Alike(o) BY <1>1, <1>4 DEF SoInv, SoTyped, Alike
  <2> QED BY <1>1, <1>2, <1>3, <1>4, <2>1, NoPolicyAt, PolicyStays
<1> DEFINE g == Top(o)
           to == [g EXCEPT !.at = "mmap"]
<1>5. ASSUME Child(g.asked) = g.asked, SoFrame(g)
      PROVE  /\ frames' = [frames EXCEPT ![o] = Append(Front(frames[o]), to)]
             /\ SoFrame(to) /\ to.at = "mmap" /\ to.asked = g.asked /\ to.stream = g.stream
  <2>1. frames' = [frames EXCEPT ![o] = Append(Front(@), to)]
    BY <1>5 DEF Convert, GoOn, Go
  <2> HIDE DEF g
  <2>2. SoFrame(to) /\ to.at = "mmap" /\ to.asked = g.asked /\ to.stream = g.stream
    BY <1>5 DEF SoFrame
  <2> QED BY <2>1, <2>2
<1>6. CASE \E f : frames[o] = <<f>> /\ SoFrame(f) /\ First(f, returned[o])
  <2>1. PICK f : frames[o] = <<f>> /\ SoFrame(f) /\ First(f, returned[o]) BY <1>6
  <2>2. g = f /\ f.at = "convert" BY <1>1, <2>1, TopIs
  <2>3. f.stream = Nothing BY <2>1, <2>2 DEF First
  <2>4. CASE Child(f.asked) = f.asked
    <3> HIDE DEF g, to
    <3>1. /\ frames' = [frames EXCEPT ![o] = Append(Front(frames[o]), to)]
          /\ SoFrame(to) /\ to.at = "mmap" /\ to.asked = f.asked /\ to.stream = Nothing
      BY <1>5, <2>1, <2>2, <2>3, <2>4
    <3>2. Append(Front(frames[o]), to) = <<to>> BY <2>1, OneFrame
    <3>3. frames'[o] = <<to>> BY <3>1, <3>2 DEF SoInv, SoTyped
    <3>4. First(to, returned'[o]) BY <2>4, <3>1 DEF First, Opens
    <3>5. Stack(o)' BY <1>1, <3>1, <3>3, <3>4, StackKept
    <3>6. ~At(o, {"disable", "open", "openOff", "restore"})' BY <3>1, <3>3, TopBecomes
    <3> QED BY <1>4, <3>1, <3>2, <3>3, <3>5, <3>6
  <2>5. CASE Child(f.asked) # f.asked
    <3> DEFINE a == [f EXCEPT !.at = "child"]
               b == Frame(Child(f.asked))
    <3>1. frames' = [frames EXCEPT ![o] = Front(@) \o <<a, b>>]
      BY <2>2, <2>5 DEF Convert
    <3>2. SoFrame(a) /\ a.at = "child" /\ a.asked = f.asked /\ a.stream = Nothing
      BY <2>1, <2>3 DEF SoFrame
    <3>3. /\ SoFrame(b) /\ b.at = "convert" /\ b.asked = Child(f.asked)
          /\ b.stream = Nothing
      BY <2>1, ChildIs DEF SoFrame, Frame
    <3> HIDE DEF a, b
    <3>4. frames' = [frames EXCEPT ![o] = <<a, b>>]
      <4>1. Front(<<f>>) \o <<a, b>> = <<a, b>> BY Pushed
      <4> QED BY <2>1, <3>1, <4>1
    <3>5. frames'[o] = <<a, b>> BY <3>4 DEF SoInv, SoTyped
    <3>6. Second(a, b, returned'[o]) BY <3>2, <3>3 DEF Second
    <3>7. Stack(o)' BY <1>1, <3>2, <3>3, <3>5, <3>6, StackKept
    <3>8. ~At(o, {"disable", "open", "openOff", "restore"})' BY <3>3, <3>5, TopBecomes
    <3> QED BY <1>4, <3>4, <3>5, <3>7, <3>8
  <2> QED BY <2>4, <2>5
<1>7. CASE \E f, h : /\ frames[o] = <<f, h>> /\ SoFrame(f) /\ SoFrame(h)
                     /\ Second(f, h, returned[o])
  <2>1. PICK f, h : /\ frames[o] = <<f, h>> /\ SoFrame(f) /\ SoFrame(h)
                    /\ Second(f, h, returned[o])
    BY <1>7
  <2>2. g = h /\ h.at = "convert" BY <1>1, <2>1, TopIs
  <2>3. h.stream = Nothing /\ Child(h.asked) = h.asked
    BY <1>1, <2>1, ChildIsFinal DEF Second, SoFrame
  <2> HIDE DEF g, to
  <2>4. /\ frames' = [frames EXCEPT ![o] = Append(Front(frames[o]), to)]
        /\ SoFrame(to) /\ to.at = "mmap" /\ to.asked = h.asked /\ to.stream = Nothing
    BY <1>5, <2>1, <2>2, <2>3
  <2>5. Append(Front(frames[o]), to) = <<f, to>>
    <3>1. Append(Front(<<f, h>>), to) = <<f, to>> BY TopReplaced
    <3> QED BY <2>1, <3>1
  <2>6. frames'[o] = <<f, to>> BY <2>4, <2>5 DEF SoInv, SoTyped
  <2>7. Second(f, to, returned'[o]) BY <2>1, <2>4 DEF Second
  <2>8. Stack(o)' BY <1>1, <2>1, <2>4, <2>6, <2>7, StackKept
  <2>9. ~At(o, {"disable", "open", "openOff", "restore"})' BY <2>4, <2>6, TopBecomes
  <2> QED BY <1>4, <2>4, <2>5, <2>6, <2>8, <2>9
<1> QED BY <1>1, <1>2, <1>6, <1>7 DEF Stack
-----------------------------------------------------------------------------
\* t is the frame f, further on
Later(t, f, at) == SoFrame(t) /\ t.at = at /\ t.asked = f.asked /\ t.stream = f.stream

LEMMA GoesOn ==
  ASSUME SoInv, NEW o \in Opener, NEW at, GoOn(o, at)
  PROVE  /\ DOMAIN frames' = Opener /\ \A p \in Opener \ {o} : frames'[p] = frames[p]
         /\ \A f : frames[o] = <<f>> /\ SoFrame(f) =>
              \E t : frames'[o] = <<t>> /\ Later(t, f, at)
         /\ \A f, g : frames[o] = <<f, g>> /\ SoFrame(g) =>
              \E t : frames'[o] = <<f, t>> /\ Later(t, g, at)
<1> DEFINE h == Top(o)
           t == [h EXCEPT !.at = at]
<1>1. frames' = [frames EXCEPT ![o] = Append(Front(frames[o]), t)] BY DEF GoOn, Go
<1>2. DOMAIN frames = Opener BY DEF SoInv, SoTyped
<1>3. SoFrame(h) => Later(t, h, at)
  <2> HIDE DEF h
  <2> QED BY DEF SoFrame, Later
<1>4. ASSUME NEW f, frames[o] = <<f>>, SoFrame(f)
      PROVE  frames'[o] = <<t>> /\ Later(t, f, at)
  <2>1. h = f BY <1>4, TopIs
  <2> HIDE DEF h, t
  <2>2. Append(Front(frames[o]), t) = <<t>> BY <1>4, OneFrame
  <2> QED BY <1>1, <1>2, <1>3, <1>4, <2>1, <2>2
<1>5. ASSUME NEW f, NEW g, frames[o] = <<f, g>>, SoFrame(g)
      PROVE  frames'[o] = <<f, t>> /\ Later(t, g, at)
  <2>1. h = g BY <1>5, TopIs
  <2> HIDE DEF h, t
  <2>2. Append(Front(frames[o]), t) = <<f, t>> BY <1>5, TopReplaced
  <2> QED BY <1>1, <1>2, <1>3, <1>5, <2>1, <2>2
<1> HIDE DEF t
<1>6. DOMAIN frames' = Opener /\ \A p \in Opener \ {o} : frames'[p] = frames[p]
  BY <1>1, <1>2
<1> QED BY <1>4, <1>5, <1>6

\* The first frame is done, the second hands over to the first.
LEMMA Returns ==
  ASSUME SoInv, NEW o \in Opener, NEW s, Return(o, s)
  PROVE  /\ DOMAIN frames' = Opener /\ \A p \in Opener \ {o} : frames'[p] = frames[p]
         /\ DOMAIN returned' = Opener /\ \A p \in Opener \ {o} : returned'[p] = returned[p]
         /\ returned'[o] = s
         /\ \A f : frames[o] = <<f>> /\ SoFrame(f) =>
              \E t : frames'[o] = <<t>> /\ Later(t, f, "done")
         /\ \A f, g : frames[o] = <<f, g>> => frames'[o] = <<f>>
<1>1. returned' = [returned EXCEPT ![o] = s] BY DEF Return
<1>2. DOMAIN frames = Opener /\ DOMAIN returned = Opener BY DEF SoInv, SoTyped
<1>3. Len(frames[o]) = 1 => GoOn(o, "done") BY DEF Return
<1>4. Len(frames[o]) # 1 => frames' = [frames EXCEPT ![o] = Front(frames[o])] BY DEF Return
<1>5. ASSUME NEW f, frames[o] = <<f>>, SoFrame(f)
      PROVE  \E t : frames'[o] = <<t>> /\ Later(t, f, "done")
  BY <1>3, <1>5, OneFrame, GoesOn
<1>6. ASSUME NEW f, NEW g, frames[o] = <<f, g>> PROVE frames'[o] = <<f>>
  BY <1>2, <1>4, <1>6, TwoFrames
<1>7. DOMAIN frames' = Opener /\ \A p \in Opener \ {o} : frames'[p] = frames[p]
  BY <1>2, <1>3, <1>4, GoesOn
<1> QED BY <1>1, <1>2, <1>5, <1>6, <1>7

LEMMA StackIs ==
  ASSUME SoInv, NEW o \in Opener, frames[o] # <<>>
  PROVE  \/ \E f : frames[o] = <<f>> /\ SoFrame(f) /\ First(f, returned[o])
         \/ \E f, g : /\ frames[o] = <<f, g>> /\ SoFrame(f) /\ SoFrame(g)
                      /\ Second(f, g, returned[o])
BY DEF SoInv, Stack

LEMMA TakeChildStep ==
  ASSUME SoInv, NEW o \in Opener, TakeChild(o)
  PROVE  SoInv'
<1> DEFINE c == returned[o]
<1>1. At(o, {"child"}) /\ phone' = phone /\ policy' = policy /\ phone \in Device
  BY DEF TakeChild, SoInv, SoTyped
<1>2. frames[o] # <<>> BY <1>1 DEF At
<1>3. PICK f : frames[o] = <<f>> /\ SoFrame(f) /\ First(f, c) /\ f.at = "child" /\ Top(o) = f
  <2>1. ASSUME NEW f, NEW g, frames[o] = <<f, g>>, Second(f, g, c) PROVE FALSE
    BY <1>1, <2>1, TopIs DEF Second
  <2> QED BY <1>1, <1>2, <2>1, StackIs, TopIs
<1>4. f.stream = Nothing /\ (c = Nothing \/ GivenFor(Child(f.asked), c)) /\ f.asked \in Builder
  BY <1>3 DEF First, SoFrame
<1>5. ~At(o, {"openOff", "restore"}) BY <1>3, TopIs
<1>6. ASSUME NEW s, Return(o, s), s = Nothing \/ Honoured(f.asked, s)
      PROVE  SoInv'
  <2>1. PICK t : frames'[o] = <<t>> /\ Later(t, f, "done") BY <1>3, <1>6, Returns
  <2>2. Alike(o) /\ returned'[o] = s BY <1>1, <1>6, Returns DEF Alike
  <2>3. First(t, s) /\ SoFrame(t) BY <1>4, <1>6, <2>1 DEF First, Later
  <2>4. Stack(o)' BY <1>1, <2>1, <2>2, <2>3, StackKept
  <2>5. ~At(o, {"disable", "open", "openOff", "restore"})' BY <2>1, TopBecomes DEF Later
  <2> QED BY <1>1, <1>2, <1>5, <2>2, <2>4, <2>5, NoPolicyAt, PolicyStays
<1>7. CASE c = Nothing /\ Return(o, Nothing) BY <1>6, <1>7
<1>8. CASE c # Nothing /\ Compatible(f.asked, c) /\ Return(o, c)
  BY <1>1, <1>4, <1>6, <1>8, ChildHonours
<1>9. CASE /\ c # Nothing /\ ~Compatible(f.asked, c)
           /\ Go(o, [f EXCEPT !.at = "mmap", !.stream = Filter(f.asked, c)])
           /\ UNCHANGED returned
  <2> DEFINE w == Filter(f.asked, c)
             u == [f EXCEPT !.at = "mmap"]
             t == [u EXCEPT !.stream = w]
  <2>1. frames' = [frames EXCEPT ![o] = Append(Front(frames[o]), t)] BY <1>9 DEF Go
  <2>2. Opens(f.asked, w) BY <1>4, <1>9 DEF Opens
  <2> HIDE DEF w
  <2>3. SoFrame(t) /\ t.at = "mmap" /\ t.asked = f.asked /\ t.stream = w
    <3>1. SoFrame(u) /\ u.at = "mmap" /\ u.asked = f.asked BY <1>3 DEF SoFrame
    <3> HIDE DEF u
    <3> QED BY <3>1 DEF SoFrame
  <2> HIDE DEF t
  <2>4. Append(Front(frames[o]), t) = <<t>> BY <1>3, OneFrame
  <2>5. Alike(o) /\ frames'[o] = <<t>> /\ returned' = returned
    BY <1>1, <1>9, <2>1, <2>4 DEF SoInv, SoTyped, Alike
  <2>6. First(t, returned'[o]) BY <2>2, <2>3 DEF First
  <2>7. Stack(o)' BY <1>1, <2>3, <2>5, <2>6, StackKept
  <2>8. ~At(o, {"disable", "open", "openOff", "restore"})' BY <2>3, <2>5, TopBecomes
  <2> QED BY <1>1, <1>2, <1>5, <2>5, <2>7, <2>8, NoPolicyAt, PolicyStays
<1> QED BY <1>3, <1>7, <1>8, <1>9 DEF TakeChild
-----------------------------------------------------------------------------
\* A step that only moves the thread on, the policy being dealt with apart
LEMMA MovesOn ==
  ASSUME SoInv, NEW o \in Opener, NEW at, GoOn(o, at), phone' = phone, returned' = returned,
         frames[o] # <<>>,
         At(o, {"mmap", "disable"}), at \in {"disable", "open", "openOff"}
  PROVE  /\ Alike(o) /\ Stack(o)' /\ Top(o)'.asked = Top(o).asked
         /\ \A places : At(o, places)' <=> at \in places
<1>1. Alike(o) BY GoesOn DEF Alike, SoInv, SoTyped
<1>2. CASE \E f : frames[o] = <<f>> /\ SoFrame(f) /\ First(f, returned[o])
  <2>1. PICK f : frames[o] = <<f>> /\ SoFrame(f) /\ First(f, returned[o]) BY <1>2
  <2>2. f.at \in {"mmap", "disable"} /\ Top(o) = f BY <2>1, TopIs
  <2>3. PICK t : frames'[o] = <<t>> /\ Later(t, f, at) BY <2>1, GoesOn
  <2>4. First(t, returned'[o]) BY <2>1, <2>2, <2>3 DEF First, Later
  <2>5. Stack(o)' BY <2>3, <2>4, StackKept DEF Later
  <2> QED BY <1>1, <2>2, <2>3, <2>5, TopBecomes DEF Later
<1>3. CASE \E f, g : /\ frames[o] = <<f, g>> /\ SoFrame(f) /\ SoFrame(g)
                     /\ Second(f, g, returned[o])
  <2>1. PICK f, g : /\ frames[o] = <<f, g>> /\ SoFrame(f) /\ SoFrame(g)
                    /\ Second(f, g, returned[o])
    BY <1>3
  <2>2. Top(o) = g BY <2>1, TopIs
  <2>3. PICK t : frames'[o] = <<f, t>> /\ Later(t, g, at) BY <2>1, GoesOn
  <2>4. Second(f, t, returned'[o]) BY <2>1, <2>3 DEF Second, Later
  <2>5. Stack(o)' BY <2>1, <2>3, <2>4, StackKept DEF Later
  <2> QED BY <1>1, <2>2, <2>3, <2>5, TopBecomes DEF Later
<1> QED BY <1>2, <1>3, StackIs

LEMMA CheckMMapStep ==
  ASSUME SoInv, NEW o \in Opener, CheckMMap(o)
  PROVE  SoInv'
<1> DEFINE at == IF Enabled(policy) /\ ~MMapSafe(Top(o).asked) THEN "disable" ELSE "open"
<1>1. /\ At(o, {"mmap"}) /\ GoOn(o, at) /\ phone' = phone /\ policy' = policy
      /\ returned' = returned
  BY DEF CheckMMap
<1>2. /\ frames[o] # <<>> /\ At(o, {"mmap", "disable"}) /\ ~At(o, {"openOff", "restore"})
  BY <1>1 DEF At
<1>3. at \in {"disable", "open"} OBVIOUS
<1>4. at = "disable" => Enabled(policy) OBVIOUS
<1>5. at = "open" => ~Enabled(policy) \/ MMapSafe(Top(o).asked) OBVIOUS
<1> HIDE DEF at
<1>6. /\ Alike(o) /\ Stack(o)' /\ Top(o)'.asked = Top(o).asked
      /\ \A places : At(o, places)' <=> at \in places
  BY <1>1, <1>2, <1>3, MovesOn
<1>7. MMapSafe(Top(o).asked)' <=> MMapSafe(Top(o).asked)
  BY <1>1, <1>6 DEF MMapSafe
<1>8. Enabled(policy) => Enabled(phone.policy) BY DEF SoInv, PolicyKept
<1>9. PolicyOf(o)'
  BY <1>1, <1>3, <1>4, <1>5, <1>6, <1>7, <1>8 DEF PolicyOf
<1> QED BY <1>1, <1>2, <1>6, <1>9, PolicyStays

LEMMA DisableMMapStep ==
  ASSUME SoInv, NEW o \in Opener, DisableMMap(o)
  PROVE  SoInv'
<1>1. /\ At(o, {"disable"}) /\ GoOn(o, "openOff") /\ phone' = phone /\ policy' = "never"
      /\ returned' = returned
  BY DEF DisableMMap
<1>2. frames[o] # <<>> /\ At(o, {"mmap", "disable"}) /\ At(o, {"disable", "openOff", "restore"})
  BY <1>1 DEF At
<1>3. /\ Alike(o) /\ Stack(o)'
      /\ \A places : At(o, places)' <=> "openOff" \in places
  BY <1>1, <1>2, MovesOn
<1>4. Enabled(phone.policy) BY <1>2 DEF SoInv, PolicyOf
<1>5. ~Enabled(policy') /\ policy' \in {"never", "auto", "always"} BY <1>1 DEF Enabled
<1>6. Enabled(policy)' <=> Enabled(policy') BY DEF Enabled
<1>7. At(o, {"openOff", "restore"})' /\ ~At(o, {"open"})' BY <1>3
<1>8. PolicyOf(o)' BY <1>1, <1>4, <1>5, <1>6, <1>7 DEF PolicyOf
<1> QED BY <1>2, <1>3, <1>5, <1>7, <1>8, OneOpens
-----------------------------------------------------------------------------
\* What open() made of the frame f, o being alone with f on top: an unsafe stream
\* that is opened alone has no MMAP.
LEMMA NativeGiven ==
  ASSUME SoInv, NEW o \in Opener, At(o, {"open", "openOff"}), Top(o).asked \in Builder,
         NEW s \in NativeStreams(Top(o).asked)
  PROVE  GivenFor(Top(o).asked, s)
<1> DEFINE r == Top(o).asked
<1>1. CASE WillUseAAudio(r)
  <2>1. s \in AAudioStreams(r) BY <1>1 DEF NativeStreams
  <2>2. s.mmap => Enabled(policy) BY <2>1 DEF AAudioStreams
  <2>3. At(o, {"open"}) \/ At(o, {"openOff"}) BY DEF At
  <2>4. SafeMMap(r, s) BY <2>2, <2>3 DEF SafeMMap, SoInv, PolicyOf
  <2> QED BY <1>1, <2>1, <2>4, AAudioGiven
<1>2. CASE ~WillUseAAudio(r)
  <2>1. s \in OpenSLStreams(r) BY <1>2 DEF NativeStreams
  <2> QED BY <1>2, <2>1, OpenSLGiven
<1> QED BY <1>1, <1>2

\* open() returned s to a frame on top, which hands it over, or restores MMAP first.
LEMMA Opened ==
  ASSUME SoInv, NEW o \in Opener, At(o, {"open", "openOff"}), NEW s, OpenReturns(o, s),
         phone' = phone, policy' = policy,
         \A f : frames[o] = <<f>> /\ SoFrame(f) /\ First(f, returned[o]) =>
                /\ s = Nothing \/ Honoured(f.asked, s)
                /\ f.stream = Nothing \/ Fits(f.stream),
         \A f, g : frames[o] = <<f, g>> /\ SoFrame(f) /\ SoFrame(g)
                     /\ Second(f, g, returned[o]) =>
                   s = Nothing \/ GivenFor(g.asked, s)
  PROVE  SoInv'
<1>1. frames[o] # <<>> /\ (At(o, {"open"}) \/ At(o, {"openOff"})) BY DEF At
<1>2. CASE At(o, {"open"})
  <2>1. Return(o, s) BY <1>2 DEF OpenReturns, At
  <2>2. Alike(o) /\ returned'[o] = s BY <2>1, Returns DEF Alike
  <2>3. ~At(o, {"openOff", "restore"}) BY <1>2 DEF At
  <2>4. CASE \E f : frames[o] = <<f>> /\ SoFrame(f) /\ First(f, returned[o])
    <3>1. PICK f : frames[o] = <<f>> /\ SoFrame(f) /\ First(f, returned[o]) BY <2>4
    <3>2. PICK t : frames'[o] = <<t>> /\ Later(t, f, "done") BY <2>1, <3>1, Returns
    <3>3. /\ s = Nothing \/ Honoured(f.asked, s)
          /\ f.stream = Nothing \/ Fits(f.stream)
      BY <3>1
    <3>4. First(t, s) BY <3>2, <3>3 DEF First, Later
    <3>5. Stack(o)' BY <2>2, <3>2, <3>4, StackKept DEF Later
    <3>6. ~At(o, {"disable", "open", "openOff", "restore"})' BY <3>2, TopBecomes DEF Later
    <3> QED BY <1>1, <2>2, <2>3, <3>5, <3>6, NoPolicyAt, PolicyStays
  <2>5. CASE \E f, g : /\ frames[o] = <<f, g>> /\ SoFrame(f) /\ SoFrame(g)
                       /\ Second(f, g, returned[o])
    <3>1. PICK f, g : /\ frames[o] = <<f, g>> /\ SoFrame(f) /\ SoFrame(g)
                      /\ Second(f, g, returned[o])
      BY <2>5
    <3>2. frames'[o] = <<f>> BY <2>1, <3>1, Returns
    <3>3. s = Nothing \/ GivenFor(g.asked, s) BY <3>1
    <3>4. First(f, s) BY <3>1, <3>3 DEF First, Second
    <3>5. Stack(o)' BY <2>2, <3>1, <3>2, <3>4, StackKept
    <3>6. f.at = "child" BY <3>1 DEF Second
    <3>7. ~At(o, {"disable", "open", "openOff", "restore"})' BY <3>2, <3>6, TopBecomes
    <3> QED BY <1>1, <2>2, <2>3, <3>5, <3>7, NoPolicyAt, PolicyStays
  <2> QED BY <1>1, <2>4, <2>5, StackIs
<1>3. CASE At(o, {"openOff"})
  <2>1. GoOn(o, "restore") /\ returned' = [returned EXCEPT ![o] = s]
    BY <1>3 DEF OpenReturns, At
  <2>2. Alike(o) /\ returned'[o] = s BY <2>1, GoesOn DEF Alike, SoInv, SoTyped
  <2>3. At(o, {"disable", "openOff", "restore"}) BY <1>3 DEF At
  <2>4. Enabled(phone.policy) BY <2>3 DEF SoInv, PolicyOf
  <2>5. ASSUME NEW t, t.at = "restore", \A places : At(o, places)' <=> t.at \in places, Stack(o)'
        PROVE  SoInv'
    <3>1. /\ At(o, {"openOff", "restore"})' /\ ~At(o, {"openOff"})' /\ ~At(o, {"open"})'
      BY <2>5
    <3>2. PolicyOf(o)' BY <2>4, <3>1 DEF PolicyOf
    <3> QED BY <1>1, <2>2, <2>5, <3>1, <3>2, PolicyStays
  <2>6. CASE \E f : frames[o] = <<f>> /\ SoFrame(f) /\ First(f, returned[o])
    <3>1. PICK f : frames[o] = <<f>> /\ SoFrame(f) /\ First(f, returned[o]) BY <2>6
    <3>2. PICK t : frames'[o] = <<t>> /\ Later(t, f, "restore") BY <2>1, <3>1, GoesOn
    <3>3. /\ s = Nothing \/ Honoured(f.asked, s)
          /\ f.stream = Nothing \/ Fits(f.stream)
      BY <3>1
    <3>4. First(t, s) BY <3>2, <3>3 DEF First, Later
    <3>5. Stack(o)' BY <2>2, <3>2, <3>4, StackKept DEF Later
    <3> QED BY <2>5, <3>2, <3>5, TopBecomes DEF Later
  <2>7. CASE \E f, g : /\ frames[o] = <<f, g>> /\ SoFrame(f) /\ SoFrame(g)
                       /\ Second(f, g, returned[o])
    <3>1. PICK f, g : /\ frames[o] = <<f, g>> /\ SoFrame(f) /\ SoFrame(g)
                      /\ Second(f, g, returned[o])
      BY <2>7
    <3>2. PICK t : frames'[o] = <<f, t>> /\ Later(t, g, "restore") BY <2>1, <3>1, GoesOn
    <3>3. s = Nothing \/ GivenFor(g.asked, s) BY <3>1
    <3>4. Second(f, t, s) BY <3>1, <3>2, <3>3 DEF Second, Later
    <3>5. Stack(o)' BY <2>2, <3>1, <3>2, <3>4, StackKept DEF Later
    <3> QED BY <2>5, <3>2, <3>5, TopBecomes DEF Later
  <2> QED BY <1>1, <2>6, <2>7, StackIs
<1> QED BY <1>1, <1>2, <1>3

LEMMA OpenNativeStep ==
  ASSUME SoInv, NEW o \in Opener, OpenNative(o)
  PROVE  SoInv'
<1>1. PICK s \in NativeStreams(Top(o).asked) \cup {Nothing} : OpenReturns(o, s)
  BY DEF OpenNative
<1>2. /\ At(o, {"open", "openOff"}) /\ Top(o).stream = Nothing
      /\ phone' = phone /\ policy' = policy /\ phone \in Device
  BY DEF OpenNative, SoInv, SoTyped
<1>3. Top(o).asked \in Builder => s = Nothing \/ GivenFor(Top(o).asked, s)
  BY <1>1, <1>2, NativeGiven
<1>4. ASSUME NEW f, frames[o] = <<f>>, SoFrame(f), First(f, returned[o])
      PROVE  /\ s = Nothing \/ Honoured(f.asked, s)
             /\ f.stream = Nothing \/ Fits(f.stream)
  <2>1. Top(o) = f /\ f.at \in {"open", "openOff"} BY <1>2, <1>4, TopIs
  <2>2. f.stream = Nothing /\ f.asked \in Builder /\ Opens(f.asked, f.stream)
    BY <1>2, <1>4, <2>1 DEF First, SoFrame
  <2>3. Child(f.asked) = f.asked BY <2>2, NotNothing DEF Opens
  <2> QED BY <1>2, <1>3, <2>1, <2>2, <2>3, DirectHonours
<1>5. ASSUME NEW f, NEW g, frames[o] = <<f, g>>, SoFrame(g)
      PROVE  s = Nothing \/ GivenFor(g.asked, s)
  <2>1. Top(o) = g /\ g.asked \in Builder BY <1>5, TopIs DEF SoFrame
  <2> QED BY <1>3, <2>1
<1> QED BY <1>1, <1>2, <1>4, <1>5, Opened

LEMMA OpenFilterStep ==
  ASSUME SoInv, NEW o \in Opener, OpenFilter(o)
  PROVE  SoInv'
<1> DEFINE s == Top(o).stream.stream
<1>1. /\ At(o, {"open", "openOff"}) /\ Top(o).stream # Nothing /\ OpenReturns(o, s)
      /\ phone' = phone /\ policy' = policy /\ phone \in Device
  BY DEF OpenFilter, SoInv, SoTyped
<1>2. ASSUME NEW f, frames[o] = <<f>>, SoFrame(f), First(f, returned[o])
      PROVE  Honoured(f.asked, s) /\ Fits(f.stream)
  <2>1. Top(o) = f /\ f.at \in {"open", "openOff"} BY <1>1, <1>2, TopIs
  <2>2. f.stream # Nothing /\ f.asked \in Builder /\ Opens(f.asked, f.stream)
    BY <1>1, <1>2, <2>1 DEF First, SoFrame
  <2>3. PICK c : GivenFor(Child(f.asked), c) /\ f.stream = Filter(f.asked, c)
    BY <2>2 DEF Opens
  <2> QED BY <1>1, <2>1, <2>2, <2>3, FilterHonours, FilterFits
<1>3. ASSUME NEW f, NEW g, frames[o] = <<f, g>>, SoFrame(f), SoFrame(g),
             Second(f, g, returned[o])
      PROVE  FALSE
  BY <1>1, <1>3, TopIs DEF Second
<1> HIDE DEF s
<1> QED BY <1>1, <1>2, <1>3, Opened

LEMMA RestoreMMapStep ==
  ASSUME SoInv, NEW o \in Opener, RestoreMMap(o)
  PROVE  SoInv'
<1> DEFINE s == returned[o]
<1>1. At(o, {"restore"}) /\ policy' = "auto" /\ phone' = phone /\ Return(o, s)
  BY DEF RestoreMMap
<1>2. /\ frames[o] # <<>> /\ At(o, {"disable", "openOff", "restore"}) BY <1>1 DEF At
<1>3. Enabled(phone.policy) BY <1>2 DEF SoInv, PolicyOf
<1>4. Enabled(policy') /\ policy' \in {"never", "auto", "always"} BY <1>1 DEF Enabled
<1>5. Alike(o) /\ returned'[o] = s BY <1>1, Returns DEF Alike
<1>6. ASSUME Stack(o)', ~At(o, {"disable", "open", "openOff", "restore"})'
      PROVE  SoInv'
  BY <1>2, <1>3, <1>4, <1>5, <1>6, NoPolicyAt, OneOpens
<1>7. CASE \E f : frames[o] = <<f>> /\ SoFrame(f) /\ First(f, returned[o])
  <2>1. PICK f : frames[o] = <<f>> /\ SoFrame(f) /\ First(f, returned[o]) BY <1>7
  <2>2. PICK t : frames'[o] = <<t>> /\ Later(t, f, "done") BY <1>1, <2>1, Returns
  <2>3. f.at = "restore" BY <1>1, <2>1, TopIs
  <2>4. First(t, s) BY <2>1, <2>2, <2>3 DEF First, Later
  <2>5. Stack(o)' BY <1>5, <2>2, <2>4, StackKept DEF Later, Alike
  <2>6. ~At(o, {"disable", "open", "openOff", "restore"})' BY <2>2, TopBecomes DEF Later
  <2> QED BY <1>6, <2>5, <2>6
<1>8. CASE \E f, g : /\ frames[o] = <<f, g>> /\ SoFrame(f) /\ SoFrame(g)
                     /\ Second(f, g, returned[o])
  <2>1. PICK f, g : /\ frames[o] = <<f, g>> /\ SoFrame(f) /\ SoFrame(g)
                    /\ Second(f, g, returned[o])
    BY <1>8
  <2>2. frames'[o] = <<f>> BY <1>1, <2>1, Returns
  <2>3. g.at = "restore" BY <1>1, <2>1, TopIs
  <2>4. First(f, s) /\ f.at = "child" BY <2>1, <2>3 DEF First, Second
  <2>5. Stack(o)' BY <1>5, <2>1, <2>2, <2>4, StackKept DEF Alike
  <2>6. ~At(o, {"disable", "open", "openOff", "restore"})' BY <2>2, <2>4, TopBecomes
  <2> QED BY <1>6, <2>5, <2>6
<1> QED BY <1>2, <1>7, <1>8, StackIs

LEMMA OpeningStarts == SoInit => SoInv
<1> SUFFICES ASSUME SoInit PROVE SoInv OBVIOUS
<1>1. /\ phone \in Phones /\ policy = phone.policy /\ frames = [o \in Opener |-> <<>>]
      /\ returned = [o \in Opener |-> Nothing]
  BY DEF SoInit
<1>2. phone \in Device /\ phone.policy \in {"never", "auto", "always"}
  BY <1>1, OpeningConstants DEF Device
<1>3. SoTyped /\ Alone BY <1>1, <1>2 DEF SoTyped, Alone
<1>4. ASSUME NEW o \in Opener PROVE Stack(o) /\ PolicyOf(o)
  <2>1. frames[o] = <<>> BY <1>1
  <2>2. \A places : ~At(o, places) BY <2>1, TopIs
  <2> QED BY <2>1, <2>2 DEF Stack, PolicyOf
<1>5. PolicyKept BY <1>1 DEF PolicyKept
<1> QED BY <1>3, <1>4, <1>5 DEF SoInv

LEMMA OpeningStep == SoInv /\ [SoNext]_soVars => SoInv'
<1> SUFFICES ASSUME SoInv, [SoNext]_soVars PROVE SoInv' OBVIOUS
<1>1. ASSUME UNCHANGED soVars PROVE SoInv'
  <2>1. phone' = phone /\ policy' = policy /\ frames' = frames /\ returned' = returned
    BY <1>1 DEF soVars
  <2>2. ASSUME NEW o \in Opener PROVE (Stack(o) /\ PolicyOf(o))'
    <3>1. Stack(o)' BY <2>1, StackKept DEF SoInv, Stack
    <3>2. PolicyOf(o)' BY <2>1 DEF SoInv, PolicyOf, At, Top, MMapSafe
    <3> QED BY <3>1, <3>2
  <2>3. (SoTyped /\ Alone)' BY <2>1 DEF SoInv, SoTyped, Alone
  <2>4. PolicyKept' BY <2>1 DEF SoInv, PolicyKept, At, Top
  <2> QED BY <2>2, <2>3, <2>4 DEF SoInv
<1>2. ASSUME NEW o \in Opener,
             \/ Ask(o) \/ Convert(o) \/ TakeChild(o) \/ CheckMMap(o) \/ DisableMMap(o)
             \/ OpenNative(o) \/ OpenFilter(o) \/ RestoreMMap(o)
      PROVE  SoInv'
  BY <1>2, AskStep, ConvertStep, TakeChildStep, CheckMMapStep, DisableMMapStep,
     OpenNativeStep, OpenFilterStep, RestoreMMapStep
<1> QED BY <1>1, <1>2 DEF SoNext

\* Whatever the quirks make of a request, and whichever child they ask for: the stream
\* that AudioStreamBuilder::openStream hands over has every property that was
\* specified, and a filter's graph leads from the one stream to the other.
THEOREM RequestsAreHonoured == SoSpec => []RequestHonoured
<1>1. SoInv => RequestHonoured
  <2> SUFFICES ASSUME SoInv, NEW o \in Opener
               PROVE  /\ Len(frames[o]) <= 2
                      /\ \A i \in 1..Len(frames[o]) :
                           frames[o][i].stream # Nothing => i = 1 /\ Fits(frames[o][i].stream)
                      /\ Handed(o) => LET r == frames[o][1].asked
                                          s == returned[o]
                                      IN /\ r.format \in {"Unspecified", s.format}
                                         /\ r.rate \in {0, s.rate}
                                         /\ r.channels \in {0, s.channels}
                                         /\ r.callback => r.frames \in {0, s.frames}
                                         /\ s.format # "Unspecified" /\ s.rate # 0
                                         /\ s.channels # 0
    BY DEF RequestHonoured
  <2>1. CASE frames[o] = <<>> BY <2>1 DEF Handed, At
  <2>2. CASE \E f : frames[o] = <<f>> /\ SoFrame(f) /\ First(f, returned[o])
    <3>1. PICK f : frames[o] = <<f>> /\ SoFrame(f) /\ First(f, returned[o]) BY <2>2
    <3>2. f.stream # Nothing => Fits(f.stream)
      <4>1. phone \in Device /\ f.asked \in Builder BY <3>1 DEF SoInv, SoTyped, SoFrame
      <4>2. ASSUME Opens(f.asked, f.stream), f.stream # Nothing PROVE Fits(f.stream)
        BY <4>1, <4>2, FilterFits DEF Opens
      <4> QED BY <3>1, <4>2 DEF First
    <3>3. /\ Len(frames[o]) = 1 /\ frames[o][1] = f BY <3>1, OneFrame
    <3>4. \A i \in 1..Len(frames[o]) :
            frames[o][i].stream # Nothing => i = 1 /\ Fits(frames[o][i].stream)
      BY <3>2, <3>3
    <3>5. ASSUME Handed(o) PROVE Honoured(f.asked, returned[o])
      <4>1. f.at = "done" /\ returned[o] # Nothing BY <3>1, <3>5, TopIs DEF Handed
      <4> QED BY <3>1, <4>1 DEF First
    <3> QED BY <3>3, <3>4, <3>5 DEF Honoured, SoStream
  <2>3. CASE \E f, g : /\ frames[o] = <<f, g>> /\ SoFrame(f) /\ SoFrame(g)
                       /\ Second(f, g, returned[o])
    <3>1. PICK f, g : /\ frames[o] = <<f, g>> /\ SoFrame(f) /\ SoFrame(g)
                      /\ Second(f, g, returned[o])
      BY <2>3
    <3>2. /\ Len(frames[o]) = 2 /\ frames[o][1] = f /\ frames[o][2] = g BY <3>1, TwoFrames
    <3>3. f.stream = Nothing /\ g.stream = Nothing BY <3>1 DEF Second
    <3>4. ~Handed(o) BY <3>1, TopIs DEF Handed, Second
    <3> QED BY <3>2, <3>3, <3>4
  <2> QED BY <2>1, <2>2, <2>3, StackIs
<1> QED BY <1>1, OpeningStarts, OpeningStep, PTL DEF SoSpec

\* MMAP is as it was whenever no stream is being opened, also when an open() failed;
\* and a thread that opens streams alone is given no MMAP stream that is unsafe.
THEOREM MMapIsSettled == SoSpec => []MMapSettled
<1>1. SoInv => MMapSettled
  <2> SUFFICES ASSUME SoInv PROVE MMapSettled OBVIOUS
  <2>1. ASSUME \A o \in Opener : ~At(o, {"openOff", "restore"})
        PROVE  Enabled(policy) = Enabled(phone.policy)
    BY <2>1 DEF SoInv, PolicyKept, Enabled
  <2>2. ASSUME NEW o \in Opener, Handed(o), returned[o].mmap, phone.workarounds
        PROVE  LET r == frames[o][1].asked IN
                 /\ phone.together \/ MMapSafe(r)
                 /\ Input(r) /\ returned[o].kind = "aaudio" /\ returned[o].channels = 1
                      => ~phone.monoIsStereo
    <3>1. At(o, {"done"}) /\ frames[o] # <<>> /\ returned[o] # Nothing BY <2>2 DEF Handed, At
    <3>2. PICK f : frames[o] = <<f>> /\ SoFrame(f) /\ First(f, returned[o])
      BY <3>1, StackIs, TopIs DEF Second
    <3>3. f.at = "done" /\ frames[o][1] = f BY <3>1, <3>2, TopIs, OneFrame
    <3>4. Honoured(f.asked, returned[o]) BY <3>1, <3>2, <3>3 DEF First
    <3> QED BY <2>2, <3>3, <3>4 DEF Honoured, SafeMMap
  <2> QED BY <2>1, <2>2 DEF MMapSettled
<1> QED BY <1>1, OpeningStarts, OpeningStep, PTL DEF SoSpec
-----------------------------------------------------------------------------
(* AAudioLoading *)

LoadPlaces == 0..8

\* A thread in open() has been through the functions before its place.
PlacesPassed ==
  \A u \in AlUser : \A i \in 1..7 :
    i + 1 < loading[u] /\ Finds(Loads[i]) => Loads[i].to \in loaded

AllLoaded == \A i \in 1..7 : Finds(Loads[i]) => Loads[i].to \in loaded

\* What the handle promises: open() returns at once when it is set, to whichever
\* thread, and whether or not the one that set it is done.
HandleLoads == /\ mLibHandle => AllLoaded \/ \E u \in AlUser : loading[u] > 1
               /\ \A u \in AlUser : loading[u] > 1 => mLibHandle

PastLoader == {"extensions", "symbol1", "symbol2", "symbol3", "mmap", "configure", "query"}

AfterLoader(u) ==
  alPc[u] \in PastLoader => HasLibrary /\ (loading[u] = 0 => mLibHandle)

\* The symbols of MMAP are loaded in one order, and never unloaded.
SymbolsInTurn(u) ==
  /\ alPc[u] \in {"symbol2", "symbol3"} => "isMMapUsed" \in extensions
  /\ alPc[u] = "symbol3" => "setMMapPolicy" \in extensions
  /\ alPc[u] = "mmap" => {"isMMapUsed", "setMMapPolicy", "getMMapPolicy"} \subseteq extensions

LastSaysAll == "getMMapPolicy" \in extensions =>
                 {"isMMapUsed", "setMMapPolicy"} \subseteq extensions

AlTyped == /\ alDevice \in AlDevices /\ mLibHandle \in BOOLEAN
           /\ alPc \in [AlUser -> {"idle", "opensl", "done"} \cup PastLoader]
           /\ loading \in [AlUser -> LoadPlaces]

AlInv == /\ AlTyped /\ PlacesPassed /\ HandleLoads /\ LastSaysAll
         /\ \A u \in AlUser : AfterLoader(u) /\ SymbolsInTurn(u)
-----------------------------------------------------------------------------
LEMMA TheLoads ==
  /\ Len(Loads) = 7
  /\ Loads[1] = [to |-> "builder", names |-> {"builder"}, since |-> 26]
  /\ Loads[2] = [to |-> "setChannels", names |-> {"setChannelCount", "setSamplesPerFrame"},
                 since |-> 26]
  /\ Loads[5] = [to |-> "stream", names |-> {"stream"}, since |-> 26]
  /\ Loads[6] = [to |-> "getChannels", names |-> {"getChannelCount", "getSamplesPerFrame"},
                 since |-> 26]
BY DEF Loads

LEMMA TheSymbols ==
  /\ Symbols[1] = "isMMapUsed" /\ Symbols[2] = "setMMapPolicy" /\ Symbols[3] = "getMMapPolicy"
  /\ PcOf[1] = "symbol1" /\ PcOf[2] = "symbol2" /\ PcOf[3] = "symbol3" /\ PcOf[4] = "mmap"
  /\ Range(Symbols) = {"isMMapUsed", "setMMapPolicy", "getMMapPolicy"}
<1>1. DOMAIN Symbols = {1, 2, 3} BY DEF Symbols
<1>2. Symbols[1] = "isMMapUsed" /\ Symbols[2] = "setMMapPolicy" /\ Symbols[3] = "getMMapPolicy"
  BY DEF Symbols
<1>3. Range(Symbols) = {"isMMapUsed", "setMMapPolicy", "getMMapPolicy"}
  BY <1>1, <1>2 DEF Range
<1> QED BY <1>2, <1>3 DEF PcOf

\* What the loader finds does not change.
LEMMA FoundAgain ==
  ASSUME alDevice' = alDevice
  PROVE  (\A i : Finds(Loads[i])' <=> Finds(Loads[i])) /\ (HasLibrary' <=> HasLibrary)
BY DEF Finds, HasLibrary

LEMMA DlOpenStep ==
  ASSUME AlInv, NEW u \in AlUser, DlOpen(u)
  PROVE  AlInv'
<1>1. /\ loading[u] = 1 /\ mLibHandle' = TRUE /\ loading' = [loading EXCEPT ![u] = 2]
      /\ alDevice' = alDevice /\ loaded' = loaded /\ extensions' = extensions /\ alPc' = alPc
  BY DEF DlOpen
<1>2. AlTyped' BY <1>1 DEF AlInv, AlTyped, LoadPlaces
<1>3. loading'[u] = 2 /\ \A p \in AlUser \ {u} : loading'[p] = loading[p]
  BY <1>1 DEF AlInv, AlTyped
<1>4. PlacesPassed' BY <1>1, <1>3, FoundAgain DEF AlInv, PlacesPassed
<1>5. HandleLoads' BY <1>1, <1>3 DEF HandleLoads
<1>6. ASSUME NEW p \in AlUser PROVE (AfterLoader(p) /\ SymbolsInTurn(p))'
  BY <1>1, FoundAgain DEF AlInv, AfterLoader, SymbolsInTurn
<1>7. LastSaysAll' BY <1>1 DEF AlInv, LastSaysAll
<1> QED BY <1>2, <1>4, <1>5, <1>6, <1>7 DEF AlInv

\* The thread that ends open() has loaded all that there is.
LEMMA LoadNextStep ==
  ASSUME AlInv, NEW u \in AlUser, LoadNext(u)
  PROVE  AlInv'
<1> DEFINE k == loading[u]
           load == Loads[k - 1]
           next == IF k > 7 THEN 0 ELSE k + 1
<1>1. /\ k > 1 /\ k \in LoadPlaces
      /\ loaded' = IF Finds(load) THEN loaded \cup {load.to} ELSE loaded
      /\ loading' = [loading EXCEPT ![u] = next]
      /\ alDevice' = alDevice /\ mLibHandle' = mLibHandle /\ extensions' = extensions
      /\ alPc' = alPc
  BY TheLoads DEF LoadNext, AlInv, AlTyped
<1>2. k \in 2..8 /\ next \in LoadPlaces /\ next # 1 BY <1>1 DEF LoadPlaces
<1>3. loading'[u] = next /\ \A p \in AlUser \ {u} : loading'[p] = loading[p]
  BY <1>1 DEF AlInv, AlTyped
<1>4. loaded \subseteq loaded' BY <1>1
<1>5. AlTyped' BY <1>1, <1>2 DEF AlInv, AlTyped
<1>6. \A i \in 1..7 : i < k /\ Finds(Loads[i]) => Loads[i].to \in loaded'
  <2> SUFFICES ASSUME NEW i \in 1..7, i < k, Finds(Loads[i]) PROVE Loads[i].to \in loaded'
    OBVIOUS
  <2>1. CASE i = k - 1 BY <1>1, <2>1
  <2>2. CASE i # k - 1
    <3>1. i + 1 < k BY <1>2, <2>2
    <3> QED BY <1>4, <3>1 DEF AlInv, PlacesPassed
  <2> QED BY <2>1, <2>2
<1> HIDE DEF load
<1>7. PlacesPassed'
  <2> SUFFICES ASSUME NEW p \in AlUser, NEW i \in 1..7, i + 1 < loading'[p], Finds(Loads[i])
               PROVE  Loads[i].to \in loaded'
    BY <1>1, FoundAgain DEF PlacesPassed
  <2>1. CASE p = u
    <3>1. i < k BY <1>2, <1>3, <2>1
    <3> QED BY <1>6, <3>1
  <2>2. CASE p # u BY <1>3, <1>4, <2>2 DEF AlInv, PlacesPassed
  <2> QED BY <2>1, <2>2
<1>8. HandleLoads'
  <2>3. mLibHandle' BY <1>1 DEF AlInv, HandleLoads
  <2>1. CASE k = 8
    <3>1. \A i \in 1..7 : i < k BY <2>1
    <3> HIDE DEF k
    <3>2. AllLoaded' BY <1>1, <1>6, <3>1, FoundAgain DEF AllLoaded
    <3> QED BY <2>3, <3>2 DEF HandleLoads
  <2>2. CASE k # 8
    <3>1. loading'[u] > 1 BY <1>2, <1>3, <2>2
    <3> QED BY <2>3, <3>1 DEF HandleLoads
  <2> QED BY <2>1, <2>2
<1>9. ASSUME NEW p \in AlUser PROVE (AfterLoader(p) /\ SymbolsInTurn(p))'
  <2>1. AfterLoader(p)'
    <3>1. CASE p = u
      <4>1. mLibHandle BY <1>1 DEF AlInv, HandleLoads
      <4> QED BY <1>1, <1>3, <3>1, <4>1, FoundAgain DEF AlInv, AfterLoader
    <3>2. CASE p # u BY <1>1, <1>3, <3>2, FoundAgain DEF AlInv, AfterLoader
    <3> QED BY <3>1, <3>2
  <2>2. SymbolsInTurn(p)' BY <1>1 DEF AlInv, SymbolsInTurn
  <2> QED BY <2>1, <2>2
<1>10. LastSaysAll' BY <1>1 DEF AlInv, LastSaysAll
<1> QED BY <1>5, <1>7, <1>8, <1>9, <1>10 DEF AlInv

\* A step of u outside of open(), which may call it: it goes on at pc, and is in
\* open() when the handle is not set yet.
LEMMA UserMoves ==
  ASSUME AlInv, NEW u \in AlUser, NEW pc, AlGo(u, pc), loading[u] = 0,
         pc \in {"idle", "opensl", "done"} \cup PastLoader,
         alDevice' = alDevice, mLibHandle' = mLibHandle, loaded' = loaded,
         \/ loading' = loading
         \/ loading' = [loading EXCEPT ![u] = IF mLibHandle THEN 0 ELSE 1],
         pc \in PastLoader => HasLibrary /\ (loading' = loading => mLibHandle),
         extensions \subseteq extensions', LastSaysAll', SymbolsInTurn(u)'
  PROVE  AlInv'
<1> DEFINE next == loading'[u]
<1>1. alPc'[u] = pc /\ \A p \in AlUser \ {u} : alPc'[p] = alPc[p] BY DEF AlGo, AlInv, AlTyped
<1>2. /\ next \in {0, 1} /\ \A p \in AlUser \ {u} : loading'[p] = loading[p]
      /\ loading' \in [AlUser -> LoadPlaces]
  BY DEF AlInv, AlTyped, LoadPlaces
<1>3. pc \in PastLoader /\ next = 0 => mLibHandle BY DEF AlInv, AlTyped
<1>4. AlTyped' BY <1>2 DEF AlGo, AlInv, AlTyped
<1>5. PlacesPassed'
  <2> SUFFICES ASSUME NEW p \in AlUser, NEW i \in 1..7, i + 1 < loading'[p], Finds(Loads[i])
               PROVE  Loads[i].to \in loaded'
    BY FoundAgain DEF PlacesPassed
  <2>1. p # u BY <1>2
  <2> QED BY <1>2, <2>1 DEF AlInv, PlacesPassed
<1>6. HandleLoads'
  <2>1. AllLoaded' <=> AllLoaded BY FoundAgain DEF AllLoaded
  <2>2. \A p \in AlUser : loading'[p] > 1 <=> loading[p] > 1 BY <1>2
  <2> QED BY <2>1, <2>2 DEF AlInv, HandleLoads
<1>7. ASSUME NEW p \in AlUser PROVE (AfterLoader(p) /\ SymbolsInTurn(p))'
  <2>1. CASE p = u
    <3>1. AfterLoader(u)' BY <1>1, <1>3, FoundAgain DEF AfterLoader
    <3> QED BY <2>1, <3>1
  <2>2. CASE p # u
    <3>1. AfterLoader(p)' BY <1>1, <1>2, <2>2, FoundAgain DEF AlInv, AfterLoader
    <3>2. SymbolsInTurn(p)' BY <1>1, <2>2 DEF AlInv, SymbolsInTurn
    <3> QED BY <3>1, <3>2
  <2> QED BY <2>1, <2>2
<1> QED BY <1>4, <1>5, <1>6, <1>7 DEF AlInv

LEMMA OutOfOpen ==
  ASSUME AlInv, NEW u \in AlUser
  PROVE  /\ \A pc : AlGo(u, pc) => alPc'[u] = pc
         /\ \A pc : AlAt(u, pc) /\ pc \in PastLoader => HasLibrary /\ mLibHandle
BY DEF AlInv, AlTyped, AlGo, AlAt, AfterLoader

LEMMA IsSupportedStep ==
  ASSUME AlInv, NEW u \in AlUser, IsSupported(u)
  PROVE  AlInv'
<1>1. /\ AlAt(u, "idle") /\ LoaderOpen(u, "extensions", "opensl")
      /\ alDevice' = alDevice /\ mLibHandle' = mLibHandle /\ loaded' = loaded
      /\ extensions' = extensions
  BY DEF IsSupported
<1>2. loading[u] = 0 BY <1>1 DEF AlAt
<1>3. LastSaysAll' BY <1>1 DEF AlInv, LastSaysAll
<1>4. ASSUME NEW pc, AlGo(u, pc), pc \in {"extensions", "opensl"} PROVE SymbolsInTurn(u)'
  BY <1>4, OutOfOpen DEF SymbolsInTurn
<1>5. CASE HasLibrary
  <2>1. AlGo(u, "extensions") /\ loading' = [loading EXCEPT ![u] = IF mLibHandle THEN 0 ELSE 1]
    BY <1>1, <1>5 DEF LoaderOpen
  <2>2. loading' = loading => mLibHandle BY <1>2, <2>1 DEF AlInv, AlTyped
  <2> QED BY <1>1, <1>2, <1>3, <1>4, <1>5, <2>1, <2>2, UserMoves DEF PastLoader
<1>6. CASE ~HasLibrary
  <2>1. AlGo(u, "opensl") /\ loading' = loading BY <1>1, <1>6 DEF LoaderOpen
  <2>2. "opensl" \notin PastLoader BY DEF PastLoader
  <2> QED BY <1>1, <1>2, <1>3, <1>4, <2>1, <2>2, UserMoves
<1> QED BY <1>5, <1>6

LEMMA LoadSymbolsStep ==
  ASSUME AlInv, NEW u \in AlUser, LoadSymbols(u)
  PROVE  AlInv'
<1>1. /\ alDevice' = alDevice /\ mLibHandle' = mLibHandle /\ loaded' = loaded
      /\ extensions' = extensions /\ loading[u] = 0
  BY DEF LoadSymbols, AlAt
<1>2. LastSaysAll' BY <1>1 DEF AlInv, LastSaysAll
<1>3. ASSUME NEW pc, AlGo(u, pc), pc \in {"symbol1", "opensl", "done"} PROVE SymbolsInTurn(u)'
  BY <1>3, OutOfOpen DEF SymbolsInTurn
<1>4. ASSUME NEW pc, pc \in {"opensl", "done"}, LoaderOpen(u, "symbol1", pc) PROVE AlInv'
  <2>1. CASE HasLibrary
    <3>1. AlGo(u, "symbol1") /\ loading' = [loading EXCEPT ![u] = IF mLibHandle THEN 0 ELSE 1]
      BY <1>4, <2>1 DEF LoaderOpen
    <3>2. loading' = loading => mLibHandle BY <1>1, <3>1 DEF AlInv, AlTyped
    <3> QED BY <1>1, <1>2, <1>3, <2>1, <3>1, <3>2, UserMoves DEF PastLoader
  <2>2. CASE ~HasLibrary
    <3>1. AlGo(u, pc) /\ loading' = loading BY <1>4, <2>2 DEF LoaderOpen
    <3>2. pc \notin PastLoader BY <1>4 DEF PastLoader
    <3> QED BY <1>1, <1>2, <1>3, <1>4, <3>1, <3>2, UserMoves
  <2> QED BY <2>1, <2>2
<1>5. CASE AlAt(u, "extensions") /\ "getMMapPolicy" \in extensions
           /\ AlGo(u, "mmap") /\ UNCHANGED loading
  <2>1. SymbolsInTurn(u)' BY <1>1, <1>5, OutOfOpen DEF SymbolsInTurn, AlInv, LastSaysAll
  <2>2. HasLibrary /\ mLibHandle BY <1>5, OutOfOpen DEF PastLoader
  <2> QED BY <1>1, <1>2, <1>5, <2>1, <2>2, UserMoves DEF PastLoader
<1> QED BY <1>4, <1>5 DEF LoadSymbols

LEMMA LoadSymbolStep ==
  ASSUME AlInv, NEW u \in AlUser, LoadSymbol(u)
  PROVE  AlInv'
<1>1. PICK i \in 1..3 :
        /\ AlAt(u, PcOf[i])
        /\ IF Symbols[i] \in alDevice.symbols
           THEN extensions' = extensions \cup {Symbols[i]} /\ AlGo(u, PcOf[i + 1])
           ELSE (\E pc \in AfterMMap : AlGo(u, pc)) /\ UNCHANGED extensions
        /\ UNCHANGED <<alDevice, mLibHandle, loaded, loading, made>>
  BY DEF LoadSymbol
<1>2. /\ loading[u] = 0 /\ loading' = loading /\ alDevice' = alDevice
      /\ mLibHandle' = mLibHandle /\ loaded' = loaded /\ extensions \subseteq extensions'
      /\ SymbolsInTurn(u) /\ LastSaysAll /\ alPc[u] = PcOf[i]
  BY <1>1 DEF AlAt, AlInv
<1>3. i \in {1, 2, 3} BY <1>1
<1>4. HasLibrary /\ mLibHandle BY <1>1, <1>3, TheSymbols, OutOfOpen DEF PastLoader
<1>5. CASE Symbols[i] \in alDevice.symbols
  <2>1. extensions' = extensions \cup {Symbols[i]} /\ AlGo(u, PcOf[i + 1]) BY <1>1, <1>5
  <2>2. CASE i = 1
    <3>1. alPc'[u] = "symbol2" /\ AlGo(u, "symbol2") /\ extensions' = extensions \cup {"isMMapUsed"}
      BY <2>1, <2>2, TheSymbols, OutOfOpen
    <3>2. SymbolsInTurn(u)' /\ LastSaysAll' BY <1>2, <3>1 DEF SymbolsInTurn, LastSaysAll
    <3> QED BY <1>2, <1>4, <3>1, <3>2, UserMoves DEF PastLoader
  <2>3. CASE i = 2
    <3>1. /\ alPc'[u] = "symbol3" /\ AlGo(u, "symbol3") /\ alPc[u] = "symbol2"
          /\ extensions' = extensions \cup {"setMMapPolicy"}
      BY <1>2, <2>1, <2>3, TheSymbols, OutOfOpen
    <3>2. SymbolsInTurn(u)' /\ LastSaysAll' BY <1>2, <3>1 DEF SymbolsInTurn, LastSaysAll
    <3> QED BY <1>2, <1>4, <3>1, <3>2, UserMoves DEF PastLoader
  <2>4. CASE i = 3
    <3>1. /\ alPc'[u] = "mmap" /\ AlGo(u, "mmap") /\ alPc[u] = "symbol3"
          /\ extensions' = extensions \cup {"getMMapPolicy"}
      BY <1>2, <2>1, <2>4, TheSymbols, OutOfOpen
    <3>2. SymbolsInTurn(u)' /\ LastSaysAll' BY <1>2, <3>1 DEF SymbolsInTurn, LastSaysAll
    <3> QED BY <1>2, <1>4, <3>1, <3>2, UserMoves DEF PastLoader
  <2> QED BY <1>3, <2>2, <2>3, <2>4
<1>6. CASE Symbols[i] \notin alDevice.symbols
  <2>1. PICK pc \in AfterMMap : AlGo(u, pc) BY <1>1, <1>6
  <2>2. extensions' = extensions BY <1>1, <1>6
  <2>3. SymbolsInTurn(u)' BY <2>1, OutOfOpen DEF SymbolsInTurn, AfterMMap
  <2>4. LastSaysAll' BY <1>2, <2>2 DEF LastSaysAll
  <2> QED BY <1>2, <1>4, <2>1, <2>3, <2>4, UserMoves DEF AfterMMap, PastLoader
<1> QED BY <1>5, <1>6

LEMMA CallStep ==
  ASSUME AlInv, NEW u \in AlUser, Call(u) \/ AlDone(u)
  PROVE  AlInv'
<1>1. /\ alDevice' = alDevice /\ mLibHandle' = mLibHandle /\ loaded' = loaded
      /\ loading' = loading /\ extensions' = extensions /\ LastSaysAll
  BY DEF Call, AlDone, AlInv
<1>2. LastSaysAll' BY <1>1 DEF LastSaysAll
<1>3. PICK pc \in {"configure", "query", "done", "idle"} :
        AlGo(u, pc) /\ loading[u] = 0 /\ (pc \in PastLoader => HasLibrary /\ mLibHandle)
  <2>1. CASE CallMMap(u) BY <2>1, OutOfOpen DEF CallMMap, AfterMMap, AlAt, PastLoader
  <2>2. CASE Configure(u) BY <2>2, OutOfOpen DEF Configure, AlAt, PastLoader
  <2>3. CASE QueryStream(u) BY <2>3 DEF QueryStream, AlAt, PastLoader
  <2>4. CASE AlDone(u) BY <2>4 DEF AlDone, AlAt, PastLoader
  <2> QED BY <2>1, <2>2, <2>3, <2>4 DEF Call
<1>4. SymbolsInTurn(u)' BY <1>3, OutOfOpen DEF SymbolsInTurn
<1>5. pc \in {"idle", "opensl", "done"} \cup PastLoader BY <1>3 DEF PastLoader
<1> QED BY <1>1, <1>2, <1>3, <1>4, <1>5, UserMoves

LEMMA LoadingStarts == AlInit => AlInv
<1> SUFFICES ASSUME AlInit PROVE AlInv OBVIOUS
<1>1. /\ alDevice \in AlDevices /\ mLibHandle = FALSE /\ extensions = {}
      /\ alPc = [u \in AlUser |-> "idle"] /\ loading = [u \in AlUser |-> 0]
  BY DEF AlInit
<1>2. AlTyped
  <2>1. /\ alPc \in [AlUser -> {"idle", "opensl", "done"} \cup PastLoader]
        /\ loading \in [AlUser -> LoadPlaces]
    BY <1>1 DEF LoadPlaces
  <2> QED BY <1>1, <2>1 DEF AlTyped
<1>3. PlacesPassed /\ HandleLoads BY <1>1 DEF PlacesPassed, HandleLoads
<1>4. LastSaysAll /\ \A u \in AlUser : AfterLoader(u) /\ SymbolsInTurn(u)
  BY <1>1 DEF LastSaysAll, AfterLoader, SymbolsInTurn, PastLoader
<1> QED BY <1>2, <1>3, <1>4 DEF AlInv

LEMMA LoadingStep == AlInv /\ [AlNext]_alVars => AlInv'
<1> SUFFICES ASSUME AlInv, [AlNext]_alVars PROVE AlInv' OBVIOUS
<1>1. ASSUME UNCHANGED alVars PROVE AlInv'
  <2>1. /\ alDevice' = alDevice /\ mLibHandle' = mLibHandle /\ loaded' = loaded
        /\ extensions' = extensions /\ alPc' = alPc /\ loading' = loading
    BY <1>1 DEF alVars
  <2>2. AllLoaded' <=> AllLoaded BY <2>1, FoundAgain DEF AllLoaded
  <2>3. PlacesPassed' BY <2>1, FoundAgain DEF AlInv, PlacesPassed
  <2>4. (AlTyped /\ HandleLoads /\ LastSaysAll)'
    BY <2>1, <2>2 DEF AlInv, AlTyped, HandleLoads, LastSaysAll
  <2>5. ASSUME NEW u \in AlUser PROVE (AfterLoader(u) /\ SymbolsInTurn(u))'
    BY <2>1, FoundAgain DEF AlInv, AfterLoader, SymbolsInTurn
  <2> QED BY <2>3, <2>4, <2>5 DEF AlInv
<1>2. ASSUME NEW u \in AlUser,
             \/ DlOpen(u) \/ LoadNext(u) \/ IsSupported(u) \/ LoadSymbols(u)
             \/ LoadSymbol(u) \/ Call(u) \/ AlDone(u)
      PROVE  AlInv'
  BY <1>2, DlOpenStep, LoadNextStep, IsSupportedStep, LoadSymbolsStep, LoadSymbolStep, CallStep
<1> QED BY <1>1, <1>2 DEF AlNext

\* Nothing is locked, and yet no thread calls through a pointer of libaaudio that is
\* null: those of AAudioExtensions are all loaded when one of them is called, and
\* those of AAudioLoader are, unless another thread is still in its open().
THEOREM PointersAreLoaded == AlSpec => []LoadedBeforeUse
<1>1. AlInv => LoadedBeforeUse
  <2> SUFFICES ASSUME AlInv, NEW u \in AlUser
               PROVE  /\ AlAt(u, "mmap") => Range(Symbols) \subseteq extensions
                      /\ \/ Calls(u) \subseteq loaded
                         \/ \E other \in AlUser \ {u} : loading[other] > 0
                      /\ alPc[u] \in {"mmap", "configure", "query"} => HasLibrary
    BY DEF LoadedBeforeUse
  <2>1. AlAt(u, "mmap") => Range(Symbols) \subseteq extensions
    BY TheSymbols DEF AlInv, SymbolsInTurn, AlAt
  <2>2. alPc[u] \in {"mmap", "configure", "query"} => HasLibrary
    BY DEF AlInv, AfterLoader, PastLoader
  <2>3. ASSUME \A other \in AlUser \ {u} : ~(loading[other] > 0),
               AlAt(u, "configure") \/ AlAt(u, "query")
        PROVE  {"builder", "setChannels", "stream", "getChannels"} \subseteq loaded
    <3>1. mLibHandle /\ HasLibrary /\ loading[u] = 0
      BY <2>3, OutOfOpen DEF AlAt, PastLoader
    <3>2. \A p \in AlUser : ~(loading[p] > 1) BY <2>3, <3>1 DEF AlInv, AlTyped, LoadPlaces
    <3>3. AllLoaded BY <3>1, <3>2 DEF AlInv, HandleLoads
    <3>4. /\ alDevice.sdk \in Nat /\ alDevice.sdk >= 26
          /\ {"builder", "stream"} \subseteq alDevice.symbols
          /\ {"setChannelCount", "setSamplesPerFrame"} \cap alDevice.symbols # {}
          /\ {"getChannelCount", "getSamplesPerFrame"} \cap alDevice.symbols # {}
      BY <3>1, AAudioLoadingAssumption DEF HasLibrary, AlInv, AlTyped
    <3>5. Finds(Loads[1]) /\ Finds(Loads[2]) /\ Finds(Loads[5]) /\ Finds(Loads[6])
      BY <3>4, TheLoads DEF Finds
    <3> QED BY <3>3, <3>5, TheLoads DEF AllLoaded
  <2>4. CASE AlAt(u, "configure")
    <3>1. Calls(u) = {"builder", "setChannels"} \cup (loaded \cap {"usage", "packageName"})
      BY <2>4 DEF Calls, AlAt
    <3> QED BY <2>1, <2>2, <2>3, <2>4, <3>1
  <2>5. CASE AlAt(u, "query")
    <3>1. Calls(u) = {"stream", "getChannels"} \cup (loaded \cap {"getUsage"})
      BY <2>5 DEF Calls, AlAt
    <3> QED BY <2>1, <2>2, <2>3, <2>5, <3>1
  <2>6. CASE ~AlAt(u, "configure") /\ ~AlAt(u, "query")
    <3>1. Calls(u) = {} BY <2>6 DEF Calls
    <3> QED BY <2>1, <2>2, <3>1
  <2> QED BY <2>4, <2>5, <2>6
<1> QED BY <1>1, LoadingStarts, LoadingStep, PTL DEF AlSpec
-----------------------------------------------------------------------------
(* FlowGraphNodes *)

\* The nodes that n is connected to
Inputs(n) == Range(graph[n].inputs) \ {0}

\* The nodes that a pull may call, and the number of the pull
Used == Upstream(graph, Sink)
Count == mLastCallCount[reader]

\* The nodes that are being called, and have been
OnStack(n) == \E i \in DOMAIN calls : calls[i].node = n
Done(n) == mLastCallCount[n] = Count /\ ~OnStack(n)

Ran == {n \in GraphNode : Done(n)}

PullCall == [node : GraphNode, next : Nat, frames : Nat, count : Int]

FgTyped ==
  /\ graph \in Graphs /\ reader \in Sink /\ calls \in Seq(PullCall)
  /\ mLastCallCount \in [GraphNode -> Int] /\ mLastFrameCount \in [GraphNode -> Nat]
  /\ sourced \in Nat /\ refills \in Nat /\ sourced <= refills * FgFrames
  /\ DOMAIN port = GraphNode
  /\ \A n \in GraphNode :
       port[n] \in [1..FgPort * graph[n].channels -> Range(port[n])]
  /\ fgAsked \in Int /\ fgShort \in BOOLEAN

\* The calls are of a path from the reader; no node is in it twice.
Stacked ==
  /\ \A n \in Used \ Sink : mLastCallCount[n] <= Count
  /\ calls # <<>> => calls[1].node = reader
  /\ \A i \in DOMAIN calls :
       LET e == calls[i]
           inputs == graph[e.node].inputs
       IN /\ e.node \in Used /\ e.count = Count /\ mLastCallCount[e.node] = Count
          /\ i > 1 => e.node \notin Sink
          /\ e.next \in 1..(Len(inputs) + 1)
          /\ i < Len(calls) => e.next <= Len(inputs) /\ inputs[e.next] = calls[i + 1].node
  /\ \A i, j \in DOMAIN calls : calls[i].node = calls[j].node => i = j

\* Where the graph does not come back, a call is of a lower node than its caller.
Rank(n) == IF n = 1 THEN 0 ELSE IF n \in Sink THEN 3
           ELSE IF Inputs(n) \cap Middle # {} THEN 2 ELSE 1

\* Channel c of frame k from node n
Meaning(n, c, k) == IF SourceChannel(n, c) = 0 THEN Constant ELSE <<k, SourceChannel(n, c)>>

\* The frames the reader had before this pull
Before == IF calls # <<>> /\ Done(1) THEN sourced - mLastFrameCount[1] ELSE sourced

\* The first k frames of the buffer of n are those after frame `past'.
Holding(n, k, past) ==
  \A i \in 1..k, c \in 1..graph[n].channels :
    port[n][(i - 1) * graph[n].channels + c] = Meaning(n, c, past + i)

\* A node that has run has the frames that the source gave to this pull.
RanWell ==
  calls # <<>> => \A n \in Used \ Sink : Done(n) =>
    Done(1) /\ mLastFrameCount[n] = mLastFrameCount[1] /\ Holding(n, mLastFrameCount[1], Before)

SourceGave ==
  calls # <<>> /\ Done(1) =>
    /\ mLastFrameCount[1] <= FgPort /\ mLastFrameCount[1] <= sourced
    /\ mLastFrameCount[1] = 0 => sourced = refills * FgFrames

\* A call has pulled what its next says, and asks for frames until the source ran.
Pulls ==
  \A i \in DOMAIN calls :
    LET e == calls[i]
        inputs == graph[e.node].inputs
    IN /\ i > 1 => e.frames <= FgPort
       /\ \A p \in 1..(e.next - 1) :
            inputs[p] # 0 => inputs[p] \in Ran /\ e.frames = mLastFrameCount[1]
       /\ (\A p \in 1..(e.next - 1) : inputs[p] = 0) => e.frames > 0 \/ Done(1)

Descends == \A i, j \in DOMAIN calls : i < j => Rank(calls[j].node) < Rank(calls[i].node)

Received ==
  /\ received = [k \in 1..Before |-> [c \in 1..graph[reader].channels |-> Source(k, c)]]
  /\ fgShort => sourced = refills * FgFrames

Flows == Descends /\ Pulls /\ RanWell /\ SourceGave /\ Received

\* Where it comes back, no node between has a frame, and the source is called by
\* one node only, that asks it for none when it has pulled another first.
NoFrame ==
  /\ received = <<>>
  /\ \A n \in Middle : mLastFrameCount[n] = 0
  /\ \A i \in DOMAIN calls :
       LET e == calls[i]
           inputs == graph[e.node].inputs
       IN /\ \A p \in 1..(e.next - 1) : inputs[p] \in Middle => e.frames = 0
          /\ i < Len(calls) /\ e.frames = 0 => calls[i + 1].frames = 0
          /\ (\A p \in 1..(e.next - 1) : inputs[p] # 1) /\ 1 \in Inputs(e.node) =>
               mLastCallCount[1] < Count \/ OnStack(1)
  /\ mLastCallCount[1] = Count =>
       \A n \in Used : 1 \in Inputs(n) => mLastCallCount[n] = Count

FgInv == /\ FgTyped /\ Stacked
         /\ IF Acyclic(graph) THEN ~FgWraps => Flows ELSE NoFrame

\* The call at the top of the stack, and the frames that it returns
TopCall == calls[Len(calls)]
Given == IF TopCall.node = 1 THEN Left(TopCall.frames) ELSE TopCall.frames

\* The input that the top call pulls next, and the frames it asks it for
Pulling == graph[TopCall.node].inputs[TopCall.next]
Asked == Min2(FgPort, TopCall.frames)

\* It calls it, or takes what it gave before.
Enters == Pulling # 0 /\ MustRun(Pulling, Count)
Returned == IF Pulling = 0 THEN Asked ELSE mLastFrameCount[Pulling]
-----------------------------------------------------------------------------
(* The graphs: what the nodes are connected to *)

LEMMA GraphShape ==
  ASSUME graph \in Graphs
  PROVE  /\ graph[1].kind = "source" /\ graph[1].inputs = <<>> /\ graph[1].channels \in 1..2
         /\ \A n \in Middle : graph[n] \in MiddleNodes
         /\ \A n \in Sink : graph[n].kind = "sink"
         /\ graph[4] = graph[5]
         /\ \E x \in 1..3 : \A n \in Sink : /\ graph[n].inputs = <<x>>
                                            /\ graph[n].channels = graph[x].channels
         /\ \A n \in Middle : IF n \in Used THEN Connects(graph, n)
                              ELSE graph[n] = [Unused EXCEPT !.channels = 1]
<1>1. PICK c \in 1..2, a \in MiddleNodes, b \in MiddleNodes, x \in 1..3 : graph = Joined(c, a, b, x)
  BY DEF Graphs
<1> DEFINE d == <<c, a.channels, b.channels>>[x]
<1>2. graph = <<Kind("source", <<>>, c), a, b, Kind("sink", <<x>>, d), Kind("sink", <<x>>, d)>>
  BY <1>1 DEF Joined
<1>3. graph[1] = Kind("source", <<>>, c) /\ graph[2] = a /\ graph[3] = b
      /\ graph[4] = Kind("sink", <<x>>, d) /\ graph[5] = Kind("sink", <<x>>, d)
  BY <1>2
<1>4. d = graph[x].channels BY <1>3 DEF Kind
<1> HIDE DEF d
<1>5. \A n \in Sink : graph[n] = Kind("sink", <<x>>, d) BY <1>3 DEF Sink
<1>6. \A n \in Middle : graph[n] \in MiddleNodes BY <1>3 DEF Middle
<1>7. \A n \in Middle : IF n \in Used THEN Connects(graph, n)
                        ELSE graph[n] = [Unused EXCEPT !.channels = 1]
  BY DEF Graphs, Used
<1>8. graph[1].kind = "source" /\ graph[1].inputs = <<>> /\ graph[1].channels \in 1..2
  BY <1>3 DEF Kind
<1>9. \A n \in Sink : graph[n].kind = "sink" /\ graph[n].inputs = <<x>>
                      /\ graph[n].channels = graph[x].channels
  BY <1>4, <1>5 DEF Kind
<1>10. graph[4] = graph[5] BY <1>3
<1> QED BY <1>6, <1>7, <1>8, <1>9, <1>10

LEMMA MiddleShape ==
  ASSUME graph \in Graphs, NEW n \in Middle
  PROVE  LET g == graph[n]
         IN  /\ g.channels \in 1..3
             /\ g.kind \in {"filter", "monoToMulti", "multiToMono", "manyToMulti", "channelCount"}
             /\ g.kind # "manyToMulti" => \E x \in 1..3 : g.inputs = <<x>>
             /\ g.kind = "manyToMulti" => /\ g.channels = 2
                                          /\ \E x, y \in 0..3 : /\ g.inputs = <<x, y>>
                                                                /\ x # 0 \/ y # 0
<1> DEFINE g == graph[n]
<1>1. g \in MiddleNodes BY GraphShape
<1>2. ASSUME NEW x \in 1..3, NEW c \in 1..2, g = Kind("filter", <<x>>, c)
      PROVE  g.kind = "filter" /\ g.channels \in 1..3 /\ g.inputs = <<x>>
  BY <1>2 DEF Kind
<1>3. ASSUME NEW x \in 1..3, g = Kind("monoToMulti", <<x>>, 2)
      PROVE  g.kind = "monoToMulti" /\ g.channels \in 1..3 /\ g.inputs = <<x>>
  BY <1>3 DEF Kind
<1>4. ASSUME NEW x \in 1..3, g = Kind("multiToMono", <<x>>, 1)
      PROVE  g.kind = "multiToMono" /\ g.channels \in 1..3 /\ g.inputs = <<x>>
  BY <1>4 DEF Kind
<1>5. ASSUME NEW x \in 1..3, NEW c \in 1..3, g = Kind("channelCount", <<x>>, c)
      PROVE  g.kind = "channelCount" /\ g.channels \in 1..3 /\ g.inputs = <<x>>
  BY <1>5 DEF Kind
<1>6. ASSUME NEW xy \in ((0..3) \X (0..3)) \ {<<0, 0>>}, g = Kind("manyToMulti", xy, 2)
      PROVE  g.kind = "manyToMulti" /\ g.channels = 2
             /\ \E x, y \in 0..3 : g.inputs = <<x, y>> /\ (x # 0 \/ y # 0)
  <2>1. PICK x \in 0..3, y \in 0..3 : xy = <<x, y>> BY <1>6
  <2>2. x # 0 \/ y # 0 BY <1>6, <2>1
  <2> QED BY <1>6, <2>1, <2>2 DEF Kind
<1> HIDE DEF g
<1>7. \/ \E x \in 1..3, c \in 1..2 : g = Kind("filter", <<x>>, c)
      \/ \E x \in 1..3 : g = Kind("monoToMulti", <<x>>, 2)
      \/ \E x \in 1..3 : g = Kind("multiToMono", <<x>>, 1)
      \/ \E x \in 1..3, c \in 1..3 : g = Kind("channelCount", <<x>>, c)
      \/ \E xy \in ((0..3) \X (0..3)) \ {<<0, 0>>} : g = Kind("manyToMulti", xy, 2)
  BY <1>1 DEF MiddleNodes
<1>8. CASE \E x \in 1..3, c \in 1..2 : g = Kind("filter", <<x>>, c) BY <1>2, <1>8 DEF g
<1>9. CASE \E x \in 1..3 : g = Kind("monoToMulti", <<x>>, 2) BY <1>3, <1>9 DEF g
<1>10. CASE \E x \in 1..3 : g = Kind("multiToMono", <<x>>, 1) BY <1>4, <1>10 DEF g
<1>11. CASE \E x \in 1..3, c \in 1..3 : g = Kind("channelCount", <<x>>, c) BY <1>5, <1>11 DEF g
<1>12. CASE \E xy \in ((0..3) \X (0..3)) \ {<<0, 0>>} : g = Kind("manyToMulti", xy, 2)
  BY <1>6, <1>12 DEF g
<1> QED BY <1>7, <1>8, <1>9, <1>10, <1>11, <1>12

\* What a node is connected to, and of how many channels
LEMMA NodeShape ==
  ASSUME graph \in Graphs, NEW n \in GraphNode
  PROVE  LET inputs == graph[n].inputs
         IN  /\ graph[n].channels \in 1..3
             /\ Len(inputs) \in 0..2 /\ DOMAIN inputs = 1..Len(inputs)
             /\ \A p \in 1..Len(inputs) : inputs[p] \in 0..3
             /\ n = 1 <=> Len(inputs) = 0
             /\ n # 1 => \E p \in 1..Len(inputs) : inputs[p] # 0
             /\ Inputs(n) = {inputs[p] : p \in 1..Len(inputs)} \ {0}
             /\ Inputs(n) \subseteq 1..3
<1> DEFINE inputs == graph[n].inputs
<1>1. CASE n = 1
  <2>1. inputs = <<>> /\ graph[n].channels \in 1..3 BY <1>1, GraphShape
  <2>2. Len(inputs) = 0 /\ DOMAIN inputs = 1..0 BY <2>1
  <2> HIDE DEF inputs
  <2> QED BY <1>1, <2>1, <2>2 DEF Inputs, Range, inputs
<1>2. ASSUME n # 1, NEW x \in 1..3, inputs = <<x>>, graph[n].channels \in 1..3
      PROVE  /\ Len(inputs) \in 0..2 /\ DOMAIN inputs = 1..Len(inputs)
             /\ \A p \in 1..Len(inputs) : inputs[p] \in 0..3
             /\ n = 1 <=> Len(inputs) = 0
             /\ n # 1 => \E p \in 1..Len(inputs) : inputs[p] # 0
  <2>1. Len(inputs) = 1 /\ DOMAIN inputs = 1..1 /\ inputs[1] = x BY <1>2
  <2> HIDE DEF inputs
  <2> QED BY <1>2, <2>1
<1>3. ASSUME n # 1, NEW x \in 0..3, NEW y \in 0..3, inputs = <<x, y>>, x # 0 \/ y # 0
      PROVE  /\ Len(inputs) \in 0..2 /\ DOMAIN inputs = 1..Len(inputs)
             /\ \A p \in 1..Len(inputs) : inputs[p] \in 0..3
             /\ n = 1 <=> Len(inputs) = 0
             /\ n # 1 => \E p \in 1..Len(inputs) : inputs[p] # 0
  <2>1. Len(inputs) = 2 /\ DOMAIN inputs = 1..2 /\ inputs[1] = x /\ inputs[2] = y BY <1>3
  <2> HIDE DEF inputs
  <2> QED BY <1>3, <2>1
<1>4. ASSUME DOMAIN inputs = 1..Len(inputs), \A p \in 1..Len(inputs) : inputs[p] \in 0..3
      PROVE  /\ Inputs(n) = {inputs[p] : p \in 1..Len(inputs)} \ {0}
             /\ Inputs(n) \subseteq 1..3
  <2>1. Inputs(n) = {inputs[p] : p \in DOMAIN inputs} \ {0} BY DEF Inputs, Range
  <2> HIDE DEF inputs
  <2>2. Inputs(n) = {inputs[p] : p \in 1..Len(inputs)} \ {0} BY <1>4, <2>1
  <2> QED BY <1>4, <2>2
<1>5. CASE n \in Sink
  <2>1. graph[n].channels \in 1..3
    <3>1. PICK x \in 1..3 : graph[n].channels = graph[x].channels BY <1>5, GraphShape
    <3>2. x = 1 \/ x \in Middle BY DEF Middle
    <3> QED BY <3>1, <3>2, GraphShape, MiddleShape
  <2>2. n # 1 /\ \E x \in 1..3 : inputs = <<x>> BY <1>5, GraphShape DEF Sink
  <2> HIDE DEF inputs
  <2> QED BY <1>2, <1>4, <2>1, <2>2 DEF inputs
<1>6. CASE n \in Middle
  <2>1. graph[n].channels \in 1..3 /\ n # 1 BY <1>6, MiddleShape DEF Middle
  <2>2. (\E x \in 1..3 : inputs = <<x>>) \/ \E x, y \in 0..3 : inputs = <<x, y>> /\ (x # 0 \/ y # 0)
    BY <1>6, MiddleShape
  <2> HIDE DEF inputs
  <2> QED BY <1>2, <1>3, <1>4, <2>1, <2>2 DEF inputs
<1>7. n = 1 \/ n \in Sink \/ n \in Middle BY DEF GraphNode, Sink, Middle
<1> QED BY <1>1, <1>5, <1>6, <1>7

LEMMA PulledBy ==
  ASSUME graph \in Graphs, NEW ns \in SUBSET GraphNode
  PROVE  /\ ns \subseteq Pulled(graph, ns) /\ Pulled(graph, ns) \subseteq GraphNode
         /\ \A n \in ns : Inputs(n) \subseteq Pulled(graph, ns)
         /\ \A y \in Pulled(graph, ns) : y \in ns \/ \E n \in ns : y \in Inputs(n)
<1>1. \A n \in ns : Inputs(n) \subseteq GraphNode
  <2>1. \A n \in ns : Inputs(n) \subseteq 1..3 BY NodeShape
  <2> QED BY <2>1 DEF GraphNode
<1>2. 0 \notin GraphNode BY DEF GraphNode
<1>3. \A y : y \in Pulled(graph, ns) <=>
             y \in ns \/ (y \in GraphNode /\ \E n \in ns : y \in Range(graph[n].inputs))
  BY DEF Pulled
<1>4. \A n : \A y : y \in Inputs(n) <=> y \in Range(graph[n].inputs) /\ y # 0 BY DEF Inputs
<1>5. \A y : y \in Pulled(graph, ns) <=> y \in ns \/ \E n \in ns : y \in Inputs(n)
  BY <1>1, <1>2, <1>3, <1>4
<1> QED BY <1>1, <1>5

LEMMA UpstreamOf ==
  ASSUME graph \in Graphs, NEW ns \in SUBSET GraphNode
  PROVE  /\ ns \subseteq Upstream(graph, ns) /\ Upstream(graph, ns) \subseteq GraphNode
         /\ \A n \in ns : Inputs(n) \subseteq Upstream(graph, ns)
<1> DEFINE one == Pulled(graph, ns)
           two == Pulled(graph, one)
<1>1. ns \subseteq one /\ one \subseteq GraphNode /\ \A n \in ns : Inputs(n) \subseteq one
  BY PulledBy
<1> HIDE DEF one
<1>2. one \subseteq two /\ two \subseteq GraphNode BY <1>1, PulledBy
<1> HIDE DEF two
<1>3. two \subseteq Pulled(graph, two) /\ Pulled(graph, two) \subseteq GraphNode BY <1>2, PulledBy
<1>4. Upstream(graph, ns) = Pulled(graph, two) BY DEF Upstream, one, two
<1> QED BY <1>1, <1>2, <1>3, <1>4

\* No set that its own inputs do not leave is left by what is upstream of it.
LEMMA UpstreamLeast ==
  ASSUME graph \in Graphs, NEW ns \in SUBSET GraphNode, NEW S \in SUBSET GraphNode,
         ns \subseteq S, \A n \in S : Inputs(n) \subseteq S
  PROVE  Upstream(graph, ns) \subseteq S
<1> DEFINE one == Pulled(graph, ns)
           two == Pulled(graph, one)
<1>1. one \subseteq S BY PulledBy
<1> HIDE DEF one
<1>2. one \in SUBSET GraphNode BY <1>1
<1>3. two \subseteq S BY <1>1, <1>2, PulledBy
<1> HIDE DEF two
<1>4. two \in SUBSET GraphNode BY <1>3
<1>5. Pulled(graph, two) \subseteq S BY <1>3, <1>4, PulledBy
<1>6. Upstream(graph, ns) = Pulled(graph, two) BY DEF Upstream, one, two
<1> QED BY <1>5, <1>6

\* Three steps from the sinks reach all that there is.
LEMMA UsedClosed ==
  ASSUME graph \in Graphs
  PROVE  /\ Sink \subseteq Used /\ Used \subseteq GraphNode
         /\ \A n \in Used : Inputs(n) \subseteq Used
<1> DEFINE one == Pulled(graph, Sink)
           two == Pulled(graph, one)
<1>1. Sink \in SUBSET GraphNode BY DEF Sink, GraphNode
<1>2. /\ Sink \subseteq one /\ one \subseteq GraphNode
      /\ \A n \in Sink : Inputs(n) \subseteq one
      /\ \A y \in one : y \in Sink \/ \E n \in Sink : y \in Inputs(n)
  BY <1>1, PulledBy
<1> HIDE DEF one
<1>3. /\ one \subseteq two /\ two \subseteq GraphNode
      /\ \A n \in one : Inputs(n) \subseteq two
      /\ \A y \in two : y \in one \/ \E n \in one : y \in Inputs(n)
  BY <1>2, PulledBy
<1> HIDE DEF two
<1>4. /\ two \subseteq Pulled(graph, two) /\ Pulled(graph, two) \subseteq GraphNode
      /\ \A n \in two : Inputs(n) \subseteq Pulled(graph, two)
      /\ \A y \in Pulled(graph, two) : y \in two \/ \E n \in two : y \in Inputs(n)
  BY <1>3, PulledBy
<1>5. Used = Pulled(graph, two) BY DEF Used, Upstream, one, two
<1>6. PICK x \in 1..3 : \A n \in Sink : Inputs(n) = {x}
  <2>1. PICK x \in 1..3 : \A n \in Sink : graph[n].inputs = <<x>> BY GraphShape
  <2>2. \A n \in Sink : Inputs(n) = {x}
    <3>1. Range(<<x>>) = {x} BY DEF Range
    <3> QED BY <2>1, <3>1 DEF Inputs
  <2> QED BY <2>2
<1>7. x \in one BY <1>2, <1>6 DEF Sink
<1>8. Inputs(1) = {} /\ \A n \in GraphNode : Inputs(n) \subseteq 1..3
  <2>1. \A n \in GraphNode : Inputs(n) \subseteq 1..3 BY NodeShape
  <2>2. Inputs(1) = {}
    <3>1. Range(<<>>) = {} BY DEF Range
    <3> QED BY <3>1, GraphShape DEF Inputs
  <2> QED BY <2>1, <2>2
<1>9. ASSUME NEW n \in Used, n \notin two PROVE Inputs(n) = {}
  <2>1. PICK m \in two : n \in Inputs(m) BY <1>4, <1>5, <1>9
  <2>2. m \notin one BY <1>3, <1>9, <2>1
  <2>3. m \notin Sink /\ n \notin Sink /\ m # x /\ n # x /\ m # n
    BY <1>2, <1>3, <1>7, <1>9, <2>1, <2>2
  <2>4. m \in 1..3 /\ n \in 1..3 /\ m # 1
    <3>1. m \in GraphNode BY <1>3, <2>1
    <3> QED BY <1>8, <2>1, <2>3, <3>1 DEF GraphNode, Sink
  <2>5. n = 1
    <3>1. PICK o \in one : m \in Inputs(o) BY <1>3, <2>1, <2>2
    <3>2. o = x \/ o \in Sink BY <1>2, <1>6, <3>1
    <3>3. o = x BY <1>6, <2>3, <3>1, <3>2
    <3>4. x # 1 BY <1>8, <3>1, <3>3
    <3> QED BY <2>3, <2>4, <3>4
  <2> QED BY <1>8, <2>5
<1>10. ASSUME NEW n \in Used PROVE Inputs(n) \subseteq Used
  <2>1. CASE n \in two BY <1>4, <1>5, <2>1
  <2>2. CASE n \notin two BY <1>9, <2>2
  <2> QED BY <2>1, <2>2
<1> QED BY <1>2, <1>3, <1>4, <1>5, <1>10

LEMMA Connected ==
  ASSUME graph \in Graphs, NEW n \in Used, n # 1, NEW p \in 1..Len(graph[n].inputs)
  PROVE  LET x == graph[n].inputs[p]
             from == IF x = 0 THEN 1 ELSE graph[x].channels
             to == graph[n].channels
         IN  /\ graph[n].kind \in {"sink", "filter"} => x # 0 /\ from = to /\ p = 1
             /\ graph[n].kind \in {"monoToMulti", "manyToMulti"} => from = 1
             /\ graph[n].kind \in {"monoToMulti", "multiToMono", "channelCount"} => x # 0 /\ p = 1
             /\ graph[n].kind = "manyToMulti" => to = 2
             /\ graph[n].kind = "channelCount" /\ ~FgWraps => to <= from
<1>1. n \in Middle \/ n \in Sink BY UsedClosed DEF GraphNode, Middle, Sink
<1>2. CASE n \in Sink
  <2>1. PICK x \in 1..3 : graph[n].inputs = <<x>> /\ graph[n].channels = graph[x].channels
    BY <1>2, GraphShape
  <2>2. graph[n].kind = "sink" /\ p = 1 /\ graph[n].inputs[p] = x BY <1>2, <2>1, GraphShape
  <2> QED BY <2>1, <2>2
<1>3. CASE n \in Middle
  <2>1. Connects(graph, n) BY <1>3, GraphShape
  <2> DEFINE g == graph[n]
  <2>2. /\ g.kind \in {"filter", "monoToMulti", "multiToMono", "manyToMulti", "channelCount"}
        /\ g.kind # "manyToMulti" => \E x \in 1..3 : g.inputs = <<x>>
        /\ g.kind = "manyToMulti" => g.channels = 2
    BY <1>3, MiddleShape
  <2>3. g.kind # "manyToMulti" => p = 1 /\ g.inputs[1] # 0
    <3> SUFFICES ASSUME g.kind # "manyToMulti" PROVE p = 1 /\ g.inputs[1] # 0 OBVIOUS
    <3>1. PICK x \in 1..3 : g.inputs = <<x>> BY <2>2
    <3> QED BY <3>1
  <2>4. p \in DOMAIN g.inputs
    <3>1. n \in GraphNode BY UsedClosed
    <3> QED BY <3>1, NodeShape
  <2>5. CASE g.kind = "filter"
    <3>1. g.channels = IF g.inputs[1] = 0 THEN 1 ELSE graph[g.inputs[1]].channels
      BY <2>1, <2>5 DEF Connects
    <3> QED BY <2>3, <2>5, <3>1
  <2>6. CASE g.kind = "monoToMulti"
    <3>1. \A q \in DOMAIN g.inputs : (IF g.inputs[q] = 0 THEN 1 ELSE graph[g.inputs[q]].channels) = 1
      BY <2>1, <2>6 DEF Connects
    <3> QED BY <2>3, <2>4, <2>6, <3>1
  <2>7. CASE g.kind = "manyToMulti"
    <3>1. \A q \in DOMAIN g.inputs : (IF g.inputs[q] = 0 THEN 1 ELSE graph[g.inputs[q]].channels) = 1
      BY <2>1, <2>7 DEF Connects
    <3> QED BY <2>2, <2>4, <2>7, <3>1
  <2>8. CASE g.kind = "channelCount"
    <3>1. LET c == IF g.inputs[1] = 0 THEN 1 ELSE graph[g.inputs[1]].channels
          IN  g.channels <= c \/ (FgWraps /\ c > 1)
      BY <2>1, <2>8 DEF Connects
    <3> QED BY <2>3, <2>8, <3>1
  <2>9. CASE g.kind = "multiToMono" BY <2>3, <2>9
  <2> QED BY <2>2, <2>5, <2>6, <2>7, <2>8, <2>9
<1> QED BY <1>1, <1>2, <1>3
-----------------------------------------------------------------------------
(* What the nodes make of their inputs *)

LEMMA RankDown ==
  ASSUME graph \in Graphs, Acyclic(graph), NEW n \in GraphNode, NEW x \in Inputs(n)
  PROVE  x \in 1..3 /\ Rank(x) \in 0..2 /\ Rank(n) \in 1..3 /\ Rank(x) < Rank(n)
<1>1. \A m \in GraphNode : Inputs(m) \subseteq 1..3 BY NodeShape
<1>2. x \in 1..3 /\ x \in GraphNode /\ n # 1
  <2>1. x \in 1..3 /\ x \in GraphNode BY <1>1 DEF GraphNode
  <2>2. Inputs(1) = {}
    <3>1. Range(<<>>) = {} BY DEF Range
    <3> QED BY <3>1, GraphShape DEF Inputs
  <2> QED BY <2>1, <2>2
<1>3. \A m \in Middle : m \notin Upstream(graph, Inputs(m)) BY DEF Acyclic, Inputs
<1>4. \A m \in Middle : /\ m \notin Inputs(m)
                        /\ \A o \in Inputs(m) : m \notin Inputs(o)
  <2> SUFFICES ASSUME NEW m \in Middle
               PROVE  m \notin Inputs(m) /\ \A o \in Inputs(m) : m \notin Inputs(o)
    OBVIOUS
  <2>1. m \in GraphNode BY DEF Middle, GraphNode
  <2>2. Inputs(m) \in SUBSET GraphNode BY <1>1, <2>1 DEF GraphNode
  <2> QED BY <1>3, <2>2, UpstreamOf
<1>5. CASE n \in Sink
  <2>1. Rank(n) = 3 BY <1>5 DEF Rank, Sink
  <2>2. Rank(x) \in 0..2 BY <1>2 DEF Rank, Sink
  <2> QED BY <1>2, <2>1, <2>2
<1>6. CASE n \in Middle /\ x = 1
  <2>1. Rank(x) = 0 BY <1>6 DEF Rank
  <2>2. Rank(n) \in 1..2 BY <1>6 DEF Rank, Middle, Sink
  <2> QED BY <1>2, <2>1, <2>2
<1>7. CASE n \in Middle /\ x \in Middle
  <2>1. Inputs(n) \cap Middle # {} BY <1>7
  <2>2. Rank(n) = 2 BY <1>7, <2>1 DEF Rank, Middle, Sink
  <2>3. Inputs(x) \cap Middle = {}
    <3>1. x \notin Inputs(x) /\ n \notin Inputs(x) /\ x # n BY <1>4, <1>7
    <3> QED BY <1>7, <3>1 DEF Middle
  <2>4. Rank(x) = 1 BY <1>7, <2>3 DEF Rank, Middle, Sink
  <2> QED BY <1>2, <2>2, <2>4
<1>8. n \in Sink \/ (n \in Middle /\ x = 1) \/ (n \in Middle /\ x \in Middle)
  BY <1>2 DEF GraphNode, Sink, Middle
<1> QED BY <1>5, <1>6, <1>7, <1>8

\* The channel that a node reads, and of which of its inputs
LEMMA ChannelOf ==
  ASSUME graph \in Graphs, Acyclic(graph), NEW n \in Middle, n \in Used,
         NEW c \in 1..graph[n].channels
  PROVE  LET g == graph[n]
             SourceOf(p, d) == IF g.inputs[p] = 0 THEN 0 ELSE SourceChannel(g.inputs[p], d)
         IN  /\ g.kind = "filter" => SourceChannel(n, c) = SourceOf(1, c)
             /\ g.kind \in {"monoToMulti", "multiToMono"} => SourceChannel(n, c) = SourceOf(1, 1)
             /\ g.kind = "manyToMulti" => SourceChannel(n, c) = SourceOf(c, 1)
             /\ g.kind = "channelCount" =>
                  SourceChannel(n, c) = SourceOf(1, ((c - 1) % InputChannels(n)) + 1)
<1> DEFINE One(y, d) == IF y = 1 THEN d ELSE 0
           Two(y, d) == Meant(y, d, One)
           From1(m, p, d) == IF graph[m].inputs[p] = 0 THEN 0 ELSE One(graph[m].inputs[p], d)
           From2(m, p, d) == IF graph[m].inputs[p] = 0 THEN 0 ELSE Two(graph[m].inputs[p], d)
           From3(m, p, d) == IF graph[m].inputs[p] = 0 THEN 0
                             ELSE SourceChannel(graph[m].inputs[p], d)
           Mixed(m, d) == ((d - 1) % InputChannels(m)) + 1
<1>1. \A y, d : SourceChannel(y, d) = Meant(y, d, Two) BY DEF SourceChannel
<1>2. \A d : One(1, d) = d /\ Two(1, d) = d /\ SourceChannel(1, d) = d
  <2>1. \A d : Meant(1, d, One) = d BY GraphShape DEF Meant
  <2>2. \A d : Meant(1, d, Two) = d BY GraphShape DEF Meant
  <2> QED BY <1>1, <2>1, <2>2
<1>3. ASSUME NEW m \in Middle, NEW d
      PROVE  /\ graph[m].kind = "filter" => Two(m, d) = From1(m, 1, d)
             /\ graph[m].kind \in {"monoToMulti", "multiToMono"} => Two(m, d) = From1(m, 1, 1)
             /\ graph[m].kind = "manyToMulti" => Two(m, d) = From1(m, d, 1)
             /\ graph[m].kind = "channelCount" => Two(m, d) = From1(m, 1, Mixed(m, d))
  <2>1. m # 1 BY DEF Middle
  <2> QED BY <2>1 DEF Meant
<1>4. ASSUME NEW m \in Middle, NEW d
      PROVE  /\ graph[m].kind = "filter" => SourceChannel(m, d) = From2(m, 1, d)
             /\ graph[m].kind \in {"monoToMulti", "multiToMono"} =>
                  SourceChannel(m, d) = From2(m, 1, 1)
             /\ graph[m].kind = "manyToMulti" => SourceChannel(m, d) = From2(m, d, 1)
             /\ graph[m].kind = "channelCount" => SourceChannel(m, d) = From2(m, 1, Mixed(m, d))
  <2>1. m # 1 BY DEF Middle
  <2>2. SourceChannel(m, d) = Meant(m, d, Two) BY <1>1
  <2> QED BY <2>1, <2>2 DEF Meant
<1> HIDE DEF One, Two
<1>5. ASSUME NEW m \in Middle
      PROVE  /\ Len(graph[m].inputs) \in 1..2
             /\ \A p \in 1..Len(graph[m].inputs) : graph[m].inputs[p] # 0 =>
                  graph[m].inputs[p] \in Inputs(m) /\ graph[m].inputs[p] \in 1..3
             /\ graph[m].kind # "manyToMulti" => 1 \in 1..Len(graph[m].inputs)
             /\ graph[m].kind = "manyToMulti" =>
                  graph[m].channels = 2 /\ Len(graph[m].inputs) = 2
  <2>1. m \in GraphNode /\ m # 1 BY DEF Middle, GraphNode
  <2>2. graph[m].kind = "manyToMulti" => graph[m].channels = 2 /\ Len(graph[m].inputs) = 2
    <3> SUFFICES ASSUME graph[m].kind = "manyToMulti"
                 PROVE  graph[m].channels = 2 /\ Len(graph[m].inputs) = 2
      OBVIOUS
    <3>1. PICK x \in 0..3, y \in 0..3 : graph[m].inputs = <<x, y>> BY MiddleShape
    <3> QED BY <3>1, MiddleShape
  <2> QED BY <2>1, <2>2, NodeShape
<1>6. ASSUME NEW m \in Middle, m \in Used, Inputs(m) \cap Middle = {},
             NEW d \in 1..graph[m].channels
      PROVE  Two(m, d) = SourceChannel(m, d)
  <2>1. \A p \in 1..Len(graph[m].inputs) : graph[m].inputs[p] \in {0, 1}
    <3>1. \A x \in 1..3 : x = 1 \/ x \in Middle BY DEF Middle
    <3> QED BY <1>5, <1>6, <3>1
  <2>2. \A p \in 1..Len(graph[m].inputs) : \A e : From1(m, p, e) = From2(m, p, e)
    BY <1>2, <2>1
  <2> HIDE DEF From1, From2
  <2>3. /\ graph[m].kind # "manyToMulti" => 1 \in 1..Len(graph[m].inputs)
        /\ graph[m].kind = "manyToMulti" => d \in 1..Len(graph[m].inputs)
    BY <1>5
  <2>4. graph[m].kind \in {"filter", "monoToMulti", "multiToMono", "manyToMulti", "channelCount"}
    BY MiddleShape
  <2> QED BY <1>3, <1>4, <2>2, <2>3, <2>4
<1>7. ASSUME NEW y \in Inputs(n), NEW d \in 1..graph[y].channels
      PROVE  Two(y, d) = SourceChannel(y, d)
  <2>1. n \in GraphNode BY DEF Middle, GraphNode
  <2>2. Rank(y) < Rank(n) /\ y \in 1..3 /\ Rank(y) \in 0..2 /\ y \in Used
    BY <2>1, RankDown, UsedClosed
  <2>3. Rank(n) <= 2 BY DEF Rank, Middle, Sink
  <2>4. CASE y = 1 BY <1>2, <2>4
  <2>5. CASE y # 1
    <3>1. y \in Middle BY <2>2, <2>5 DEF Middle
    <3>2. Rank(y) # 2 BY <2>1, <2>2, <2>3, RankDown
    <3>3. Inputs(y) \cap Middle = {} BY <3>1, <3>2 DEF Rank, Middle, Sink
    <3> QED BY <1>6, <2>2, <3>1, <3>3
  <2> QED BY <2>4, <2>5
<1>8. ASSUME NEW p \in 1..Len(graph[n].inputs), NEW d,
             graph[n].inputs[p] # 0 => d \in 1..graph[graph[n].inputs[p]].channels
      PROVE  From2(n, p, d) = From3(n, p, d)
  BY <1>5, <1>7, <1>8
<1> HIDE DEF From2, From3
<1>9. n # 1 BY DEF Middle
<1> DEFINE in1 == graph[n].inputs[1]
<1>10. CASE graph[n].kind = "filter"
  <2>1. 1 \in 1..Len(graph[n].inputs) BY <1>5, <1>10
  <2>2. in1 # 0 /\ graph[in1].channels = graph[n].channels BY <1>9, <1>10, <2>1, Connected
  <2>3. From2(n, 1, c) = From3(n, 1, c) BY <1>8, <2>1, <2>2
  <2> QED BY <1>4, <1>10, <2>3 DEF From3
<1>11. CASE graph[n].kind \in {"monoToMulti", "multiToMono"}
  <2>1. 1 \in 1..Len(graph[n].inputs) BY <1>5, <1>11
  <2>2. in1 # 0 => 1 \in 1..graph[in1].channels
    <3> SUFFICES ASSUME in1 # 0 PROVE 1 \in 1..graph[in1].channels OBVIOUS
    <3>1. in1 \in GraphNode BY <1>5, <2>1 DEF GraphNode
    <3> QED BY <3>1, NodeShape
  <2>3. From2(n, 1, 1) = From3(n, 1, 1) BY <1>8, <2>1, <2>2
  <2> QED BY <1>4, <1>11, <2>3 DEF From3
<1>12. CASE graph[n].kind = "manyToMulti"
  <2>1. c \in 1..Len(graph[n].inputs) BY <1>5, <1>12
  <2>2. graph[n].inputs[c] # 0 => 1 \in 1..graph[graph[n].inputs[c]].channels
    <3> SUFFICES ASSUME graph[n].inputs[c] # 0
                 PROVE  1 \in 1..graph[graph[n].inputs[c]].channels
      OBVIOUS
    <3>1. graph[n].inputs[c] \in GraphNode BY <1>5, <2>1 DEF GraphNode
    <3> QED BY <3>1, NodeShape
  <2>3. From2(n, c, 1) = From3(n, c, 1) BY <1>8, <2>1, <2>2
  <2> QED BY <1>4, <1>12, <2>3 DEF From3
<1>13. CASE graph[n].kind = "channelCount"
  <2>1. 1 \in 1..Len(graph[n].inputs) BY <1>5, <1>13
  <2>2. in1 # 0 /\ in1 \in GraphNode
    <3>1. in1 # 0 BY <1>9, <1>13, <2>1, Connected
    <3> QED BY <1>5, <2>1, <3>1 DEF GraphNode
  <2>3. Mixed(n, c) \in 1..graph[in1].channels
    <3>1. graph[in1].channels \in 1..3 /\ graph[n].channels \in 1..3 BY <2>2, NodeShape, MiddleShape
    <3> DEFINE d == graph[in1].channels
    <3>2. c \in Int /\ d \in Nat \ {0} /\ InputChannels(n) = d BY <3>1 DEF InputChannels
    <3> HIDE DEF d
    <3>3. (c - 1) % d \in 0..(d - 1) BY <3>2
    <3>4. ((c - 1) % d) + 1 \in 1..d BY <3>2, <3>3
    <3> QED BY <3>2, <3>4 DEF d
  <2> HIDE DEF Mixed
  <2>4. From2(n, 1, Mixed(n, c)) = From3(n, 1, Mixed(n, c)) BY <1>8, <2>1, <2>3
  <2>5. SourceChannel(n, c) = From3(n, 1, Mixed(n, c)) BY <1>4, <1>13, <2>4
  <2> QED BY <1>13, <2>5 DEF From3, Mixed
<1>14. graph[n].kind \in {"filter", "monoToMulti", "multiToMono", "manyToMulti", "channelCount"}
  BY MiddleShape
<1> QED BY <1>10, <1>11, <1>12, <1>13, <1>14

LEMMA FirstChannel == graph \in Graphs => \A c : SourceChannel(1, c) = c
<1> SUFFICES ASSUME graph \in Graphs PROVE \A c : SourceChannel(1, c) = c OBVIOUS
<1>1. \A c : SourceChannel(1, c) = c BY GraphShape DEF SourceChannel, Meant
<1> QED BY <1>1

\* Where sample c of frame i is
LEMMA IndexOf ==
  ASSUME NEW h \in 1..3, NEW f \in Nat, NEW i \in 1..f, NEW c \in 1..h
  PROVE  LET j == (i - 1) * h + c
         IN  /\ j \in 1..f * h /\ (j - 1) \div h = i - 1 /\ (j - 1) % h = c - 1
             /\ \A k \in i..f : j <= k * h
<1>1. CASE h = 1 BY <1>1
<1>2. CASE h = 2 BY <1>2
<1>3. CASE h = 3 BY <1>3
<1> QED BY <1>1, <1>2, <1>3

LEMMA FilledIs ==
  ASSUME FgTyped, NEW n \in GraphNode, NEW k \in Nat, k <= FgPort,
         NEW i \in 1..k, NEW c \in 1..graph[n].channels
  PROVE  Filled(n, k)[(i - 1) * graph[n].channels + c] = Processed(n, i - 1, c - 1)
<1> DEFINE h == graph[n].channels
           j == (i - 1) * h + c
<1>1. h \in 1..3 /\ FgPort \in Nat BY NodeShape, FlowGraphAssumption DEF FgTyped
<1>2. DOMAIN port[n] = 1..FgPort * h BY DEF FgTyped
<1>3. i \in 1..FgPort /\ k \in i..FgPort BY <1>1
<1> HIDE DEF h
<1>4. c \in 1..h BY DEF h
<1>5. /\ j \in 1..FgPort * h /\ (j - 1) \div h = i - 1 /\ (j - 1) % h = c - 1
      /\ j <= k * h
  BY <1>1, <1>3, <1>4, IndexOf
<1>6. ~(j > k * h)
  <2>1. j \in Int /\ k * h \in Int BY <1>1, <1>3, <1>4
  <2> QED BY <1>5, <2>1
<1> HIDE DEF j
<1>7. Filled(n, k)[j] = Processed(n, (j - 1) \div h, (j - 1) % h)
  BY <1>2, <1>5, <1>6 DEF Filled, h
<1> QED BY <1>5, <1>7 DEF j, h

\* What a node makes of inputs that hold the frames after `past'
LEMMA ProcessedIs ==
  ASSUME FgTyped, Acyclic(graph), ~FgWraps, NEW n \in Middle, n \in Used,
         NEW k \in Nat, k <= FgPort, NEW past \in Nat,
         \A x \in Inputs(n) : Holding(x, k, past),
         NEW i \in 1..k, NEW c \in 1..graph[n].channels
  PROVE  Processed(n, i - 1, c - 1) = Meaning(n, c, past + i)
<1> DEFINE inputs == graph[n].inputs
           in1 == inputs[1]
           h == graph[in1].channels
<1>1. graph \in Graphs /\ n \in GraphNode /\ n # 1
  <2>1. n \in GraphNode /\ n # 1 BY DEF Middle, GraphNode
  <2> QED BY <2>1 DEF FgTyped
<1>2. graph[n].kind \in {"filter", "monoToMulti", "multiToMono", "manyToMulti", "channelCount"}
  BY <1>1, MiddleShape
<1>3. graph[n].kind # "manyToMulti" => /\ 1 \in 1..Len(inputs) /\ in1 \in Inputs(n) /\ in1 \in 1..3
                                       /\ in1 # 0 /\ h \in 1..3
  <2> SUFFICES ASSUME graph[n].kind # "manyToMulti"
               PROVE  /\ 1 \in 1..Len(inputs) /\ in1 \in Inputs(n) /\ in1 \in 1..3
                      /\ in1 # 0 /\ h \in 1..3
    OBVIOUS
  <2>1. PICK x \in 1..3 : inputs = <<x>> BY <1>1, MiddleShape
  <2>2. Len(inputs) = 1 /\ in1 = x BY <2>1
  <2>3. in1 \in Inputs(n) BY <1>1, <2>2, NodeShape
  <2>4. in1 \in GraphNode BY <2>2 DEF GraphNode
  <2>5. h \in 1..3 BY <1>1, <2>4, NodeShape
  <2> QED BY <2>2, <2>3, <2>5
<1>4. \A x \in Inputs(n) : \A d \in 1..graph[x].channels :
        port[x][(i - 1) * graph[x].channels + d] = Meaning(x, d, past + i)
  BY DEF Holding
<1>5. i \in Int /\ c \in Int /\ i \in 1..FgPort /\ FgPort \in Nat /\ graph[n].channels \in 1..3
  <2>1. graph[n].channels \in 1..3 BY <1>1, MiddleShape
  <2> QED BY <2>1, FlowGraphAssumption
<1>6. CASE graph[n].kind = "filter"
  <2>1. h = graph[n].channels BY <1>1, <1>3, <1>6, Connected
  <2>2. SourceChannel(n, c) = SourceChannel(in1, c) BY <1>1, <1>3, <1>6, ChannelOf
  <2>3. Processed(n, i - 1, c - 1) = port[in1][(i - 1) * h + (c - 1) + 1]
    BY <1>3, <1>6 DEF Processed, Same, InputBuffer, InputChannels
  <2>4. (i - 1) * h + (c - 1) + 1 = (i - 1) * h + c
    <3>1. (i - 1) * h \in Int
      <4>1. h \in Int BY <1>3, <1>6
      <4>2. i - 1 \in Int BY <1>5
      <4> HIDE DEF h
      <4> QED BY ONLY <4>1, <4>2
    <3> DEFINE m == (i - 1) * h
    <3> HIDE DEF m
    <3>2. m + (c - 1) + 1 = m + c BY <1>5, <3>1 DEF m
    <3> QED BY <3>2 DEF m
  <2>5. port[in1][(i - 1) * h + c] = Meaning(in1, c, past + i) BY <1>3, <1>4, <1>6, <2>1
  <2> QED BY <2>2, <2>3, <2>4, <2>5 DEF Meaning
<1>7. CASE graph[n].kind = "monoToMulti"
  <2>1. h = 1 BY <1>1, <1>3, <1>7, Connected
  <2>2. SourceChannel(n, c) = SourceChannel(in1, 1) BY <1>1, <1>3, <1>7, ChannelOf
  <2>3. Processed(n, i - 1, c - 1) = port[in1][(i - 1) + 1]
    BY <1>3, <1>7 DEF Processed, MonoToMulti, InputBuffer
  <2>4. (i - 1) + 1 = (i - 1) * 1 + 1 BY <1>5
  <2>5. port[in1][(i - 1) * 1 + 1] = Meaning(in1, 1, past + i)
    <3>1. \A d \in 1..1 : port[in1][(i - 1) * 1 + d] = Meaning(in1, d, past + i)
      BY <1>3, <1>4, <1>7, <2>1
    <3> QED BY <3>1
  <2> QED BY <2>2, <2>3, <2>4, <2>5 DEF Meaning
<1>8. CASE graph[n].kind = "multiToMono"
  <2>1. 1 \in 1..h BY <1>3, <1>8
  <2>2. SourceChannel(n, c) = SourceChannel(in1, 1) BY <1>1, <1>3, <1>8, ChannelOf
  <2>3. Processed(n, i - 1, c - 1) = port[in1][(i - 1) * h + 1]
    BY <1>3, <1>8 DEF Processed, MultiToMono, InputBuffer, InputChannels
  <2>4. port[in1][(i - 1) * h + 1] = Meaning(in1, 1, past + i) BY <1>3, <1>4, <1>8, <2>1
  <2> QED BY <2>2, <2>3, <2>4 DEF Meaning
<1>9. CASE graph[n].kind = "manyToMulti"
  <2>1. Len(inputs) = 2 /\ graph[n].channels = 2
    <3>1. PICK x \in 0..3, y \in 0..3 : inputs = <<x, y>> BY <1>1, <1>9, MiddleShape
    <3> QED BY <1>1, <1>9, <3>1, MiddleShape
  <2>2. c \in 1..Len(inputs) /\ (c - 1) + 1 = c BY <1>5, <2>1
  <2> DEFINE x == inputs[c]
  <2>3. SourceChannel(n, c) = IF x = 0 THEN 0 ELSE SourceChannel(x, 1)
    BY <1>1, <1>9, ChannelOf
  <2>4. Processed(n, i - 1, c - 1) = InputBuffer(n, c)[i]
    <3>1. (i - 1) + 1 = i BY <1>5
    <3> QED BY <1>9, <2>2, <3>1 DEF Processed, ManyToMulti
  <2>5. CASE x = 0
    <3>1. InputBuffer(n, c)[i] = Constant BY <1>5, <2>5 DEF InputBuffer
    <3> QED BY <2>3, <2>4, <2>5, <3>1 DEF Meaning
  <2>6. CASE x # 0
    <3>1. graph[x].channels = 1 BY <1>1, <1>9, <2>2, <2>6, Connected
    <3>2. x \in Inputs(n) BY <1>1, <2>2, <2>6, NodeShape
    <3>3. port[x][(i - 1) * 1 + 1] = Meaning(x, 1, past + i) BY <1>4, <3>1, <3>2
    <3>4. (i - 1) * 1 + 1 = i BY <1>5
    <3>5. InputBuffer(n, c)[i] = port[x][i] BY <2>6 DEF InputBuffer
    <3> HIDE DEF x
    <3> QED BY <2>3, <2>4, <2>6, <3>3, <3>4, <3>5 DEF Meaning
  <2> QED BY <2>5, <2>6
<1>10. CASE graph[n].kind = "channelCount"
  <2>1. graph[n].channels <= h BY <1>1, <1>3, <1>10, Connected
  <2>2. c \in 1..h /\ h \in 1..3 BY <1>3, <1>5, <1>10, <2>1
  <2>3. SourceChannel(n, c) = SourceChannel(in1, ((c - 1) % InputChannels(n)) + 1)
    BY <1>1, <1>3, <1>10, ChannelOf
  <2>4. InputChannels(n) = h BY DEF InputChannels
  <2> DEFINE j == (i - 1) * h + c
  <2>5. Processed(n, i - 1, c - 1)
          = Element(port[in1], (i - 1) * h + ((c - 1) % (h + 1)) + 1)
    BY <1>3, <1>10 DEF Processed, ChannelCount, InputBuffer, InputChannels, InputChannel
  <2>6. DOMAIN port[in1] = 1..FgPort * h
    <3>1. in1 \in GraphNode BY <1>3, <1>10 DEF GraphNode
    <3> QED BY <3>1 DEF FgTyped
  <2>7. port[in1][j] = Meaning(in1, c, past + i) BY <1>3, <1>4, <1>10, <2>2
  <2> HIDE DEF h
  <2>8. (c - 1) % h = c - 1 /\ (c - 1) % (h + 1) = c - 1 BY <2>2
  <2>9. (i - 1) * h + ((c - 1) % (h + 1)) + 1 = j
    <3>1. (i - 1) * h \in Int BY <1>5, <2>2
    <3> DEFINE m == (i - 1) * h
    <3> HIDE DEF m
    <3>2. m + (c - 1) + 1 = m + c BY <1>5, <3>1 DEF m
    <3> QED BY <2>8, <3>2 DEF m
  <2>10. j \in 1..FgPort * h BY <1>5, <2>2, IndexOf
  <2>11. SourceChannel(n, c) = SourceChannel(in1, c)
    <3>1. ((c - 1) % h) + 1 = c BY <1>5, <2>8
    <3> QED BY <2>3, <2>4, <3>1
  <2> HIDE DEF j
  <2>12. Element(port[in1], j) = port[in1][j] BY <2>6, <2>10 DEF Element
  <2> QED BY <2>5, <2>7, <2>9, <2>11, <2>12 DEF Meaning
<1> QED BY <1>2, <1>6, <1>7, <1>8, <1>9, <1>10
-----------------------------------------------------------------------------
(* The stack of the calls of pullData() *)

LEMMA FrontIs ==
  ASSUME NEW S, NEW s \in Seq(S), s # <<>>
  PROVE  /\ Len(s) \in Nat \ {0} /\ Last(s) = s[Len(s)] /\ Last(s) \in S
         /\ Front(s) \in Seq(S) /\ Len(Front(s)) = Len(s) - 1
         /\ \A i \in 1..(Len(s) - 1) : Front(s)[i] = s[i]
<1>1. Len(s) \in Nat \ {0} /\ s[Len(s)] \in S
  <2>1. Len(s) \in Nat /\ s \in [1..Len(s) -> S] /\ Len(s) # 0 BY EmptySeq
  <2> QED BY <2>1
<1>2. Last(s) = s[Len(s)] BY DEF Last
<1>3. Front(s) = SubSeq(s, 1, Len(s) - 1) BY DEF Front
<1>4. 1 \in Int /\ Len(s) - 1 \in Int /\ \A i \in 1..(Len(s) - 1) : s[i] \in S
  <2>1. s \in [1..Len(s) -> S] OBVIOUS
  <2> QED BY <1>1, <2>1
<1>6. SubSeq(s, 1, Len(s) - 1) \in Seq(S) /\ Len(SubSeq(s, 1, Len(s) - 1)) = Len(s) - 1
      /\ \A i \in 1..(Len(s) - 1) : SubSeq(s, 1, Len(s) - 1)[i] = s[i]
  <2> DEFINE m == Len(s) - 1
             t == SubSeq(s, 1, m)
  <2>1. t \in Seq(S) /\ Len(t) = (IF 1 <= m THEN m - 1 + 1 ELSE 0)
        /\ \A i \in 1..(m - 1 + 1) : t[i] = s[1 + i - 1]
    BY ONLY <1>4, SubSeqProperties
  <2>2. m \in Nat /\ m - 1 + 1 = m /\ \A i \in 1..m : 1 + i - 1 = i BY <1>1
  <2> HIDE DEF m, t
  <2>3. t \in Seq(S) /\ Len(t) = m /\ \A i \in 1..m : t[i] = s[i] BY <2>1, <2>2
  <2> QED BY <2>3 DEF m, t
<1> QED BY <1>1, <1>2, <1>3, <1>6

LEMMA PushedIs ==
  ASSUME NEW S, NEW s \in Seq(S), NEW e \in S
  PROVE  LET t == Append(s, e)
         IN  /\ t \in Seq(S) /\ Len(t) = Len(s) + 1 /\ Len(s) \in Nat /\ DOMAIN s = 1..Len(s)
             /\ DOMAIN t = 1..(Len(s) + 1) /\ t # <<>>
             /\ \A i \in 1..Len(s) : t[i] = s[i]
             /\ t[Len(s) + 1] = e
BY AppendProperties

LEMMA CallChanged ==
  ASSUME NEW v \in PullCall, NEW k \in Nat, NEW x \in Nat, x = v.next + 1
  PROVE  LET e == [v EXCEPT !.next = @ + 1, !.frames = k]
         IN e \in PullCall /\ e = [node |-> v.node, next |-> x, frames |-> k, count |-> v.count]
<1>1. [v EXCEPT !.next = @ + 1, !.frames = k] = [v EXCEPT !.next = x, !.frames = k]
  BY DEF PullCall
<1>2. [v EXCEPT !.next = x, !.frames = k] \in PullCall BY DEF PullCall
<1> DEFINE e == [v EXCEPT !.next = x, !.frames = k]
<1>3. e.node = v.node /\ e.next = x /\ e.frames = k /\ e.count = v.count BY DEF PullCall
<1>4. e \in PullCall BY <1>2
<1> HIDE DEF e
<1>5. e = [node |-> e.node, next |-> e.next, frames |-> e.frames, count |-> e.count]
  BY <1>4 DEF PullCall
<1>6. e = [node |-> v.node, next |-> x, frames |-> k, count |-> v.count] BY <1>3, <1>5
<1> QED BY <1>1, <1>4, <1>6 DEF e

LEMMA ResumedIs ==
  ASSUME NEW s \in Seq(PullCall), s # <<>>, NEW k \in Nat
  PROVE  LET r == Resumed(s, k)
             n == Len(s)
         IN  /\ n \in Nat \ {0} /\ r \in Seq(PullCall) /\ Len(r) = n /\ DOMAIN r = 1..n /\ r # <<>>
             /\ \A i \in 1..(n - 1) : r[i] = s[i]
             /\ r[n] = [node |-> s[n].node, next |-> s[n].next + 1, frames |-> k,
                        count |-> s[n].count]
<1> DEFINE n == Len(s)
           e == [s[n] EXCEPT !.next = @ + 1, !.frames = k]
           f == Front(s)
<1>1. n \in Nat \ {0} /\ Last(s) = s[n] /\ s[n] \in PullCall /\ f \in Seq(PullCall)
      /\ Len(f) = n - 1 /\ \A i \in 1..(n - 1) : f[i] = s[i]
  BY FrontIs
<1>2. Resumed(s, k) = Append(f, e) BY <1>1 DEF Resumed
<1>3. e = [node |-> s[n].node, next |-> s[n].next + 1, frames |-> k, count |-> s[n].count]
      /\ e \in PullCall
  <2>1. s[n].next + 1 \in Nat BY <1>1 DEF PullCall
  <2> QED BY <1>1, <2>1, CallChanged
<1> HIDE DEF e, f, n
<1>4. Append(f, e) \in Seq(PullCall) /\ Len(Append(f, e)) = n /\ DOMAIN Append(f, e) = 1..n
      /\ Append(f, e) # <<>> /\ (\A i \in 1..(n - 1) : Append(f, e)[i] = f[i])
      /\ Append(f, e)[n] = e
  <2>1. Len(f) + 1 = n BY <1>1
  <2> QED BY <1>1, <1>3, <2>1, PushedIs
<1> QED BY <1>1, <1>2, <1>3, <1>4 DEF n

LEMMA CallsAre ==
  ASSUME FgTyped, Stacked
  PROVE  /\ graph \in Graphs /\ reader \in Sink /\ reader \in Used
         /\ Len(calls) \in Nat /\ DOMAIN calls = 1..Len(calls)
         /\ calls # <<>> => Len(calls) \in DOMAIN calls /\ TopCall = Last(calls)
         /\ \A i \in DOMAIN calls :
              /\ calls[i] \in PullCall /\ calls[i].frames \in Nat /\ calls[i].next \in Nat
              /\ calls[i].node \in Used /\ calls[i].node \in GraphNode
              /\ calls[i].node \in Sink => i = 1 /\ calls[i].node = reader
              /\ graph[calls[i].node].kind # "source" => calls[i].node # 1
<1>1. graph \in Graphs /\ reader \in Sink /\ calls \in Seq(PullCall) BY DEF FgTyped
<1>2. Len(calls) \in Nat /\ DOMAIN calls = 1..Len(calls) /\ \A i \in 1..Len(calls) : calls[i] \in PullCall
  BY <1>1
<1>3. calls # <<>> => Len(calls) \in DOMAIN calls /\ TopCall = Last(calls)
  <2> SUFFICES ASSUME calls # <<>> PROVE Len(calls) \in DOMAIN calls /\ TopCall = Last(calls) OBVIOUS
  <2>1. Len(calls) \in Nat \ {0} /\ Last(calls) = calls[Len(calls)] BY <1>1, FrontIs
  <2> QED BY <1>2, <2>1 DEF TopCall
<1>4. reader \in Used BY <1>1, UsedClosed
<1>5. ASSUME NEW i \in DOMAIN calls
      PROVE  /\ calls[i] \in PullCall /\ calls[i].frames \in Nat /\ calls[i].next \in Nat
             /\ calls[i].node \in Used /\ calls[i].node \in GraphNode
             /\ calls[i].node \in Sink => i = 1 /\ calls[i].node = reader
             /\ graph[calls[i].node].kind # "source" => calls[i].node # 1
  <2>1. calls[i] \in PullCall BY <1>2, <1>5
  <2>2. calls[i].node \in Used /\ (i > 1 => calls[i].node \notin Sink) BY <1>5 DEF Stacked
  <2>3. calls # <<>> => calls[1].node = reader BY DEF Stacked
  <2>4. calls # <<>> BY <1>2, <1>5
  <2>5. graph[1].kind = "source" BY <1>1, GraphShape
  <2>6. i \in 1..Len(calls) BY <1>2, <1>5
  <2>7. calls[i].node \in Sink => i = 1 BY <1>2, <2>2, <2>6
  <2>8. calls[i].node \in Sink => i = 1 /\ calls[i].node = reader BY <2>3, <2>4, <2>7
  <2>9. calls[i].frames \in Nat /\ calls[i].next \in Nat /\ calls[i].node \in GraphNode
    BY <2>1 DEF PullCall
  <2> QED BY <2>1, <2>2, <2>5, <2>8, <2>9
<1> QED BY <1>1, <1>2, <1>3, <1>4, <1>5

LEMMA ProcessIs ==
  ASSUME FgTyped, Stacked, Process
  PROVE  /\ calls # <<>> /\ TopCall \in PullCall /\ TopCall.node \in Used /\ TopCall.node \in GraphNode
         /\ TopCall.next = Len(graph[TopCall.node].inputs) + 1
         /\ Given \in Nat /\ Given <= TopCall.frames /\ (TopCall.node # 1 => Given = TopCall.frames)
         /\ mLastFrameCount' = [mLastFrameCount EXCEPT ![TopCall.node] = Given]
         /\ sourced' = IF TopCall.node = 1 THEN sourced + Given ELSE sourced
         /\ sourced' \in Nat /\ sourced' <= refills * FgFrames
         /\ UNCHANGED <<fgConfig, mLastCallCount, refills, fgReads>>
         /\ TopCall.node \in Sink =>
              /\ Len(calls) = 1 /\ calls' = <<>> /\ UNCHANGED port
              /\ fgAsked' = IF Given = 0 THEN 0 ELSE fgAsked - Given
              /\ fgShort' = (Given = 0)
              /\ received' = received \o Cut(InputBuffer(TopCall.node, 1), Given, graph[TopCall.node].channels)
         /\ TopCall.node \notin Sink =>
              /\ port' = [port EXCEPT ![TopCall.node] = Filled(TopCall.node, Given)] /\ UNCHANGED readVars
              /\ LET n == Len(calls) - 1
                 IN  /\ n \in Nat \ {0} /\ calls' \in Seq(PullCall) /\ Len(calls') = n
                     /\ DOMAIN calls' = 1..n /\ calls' # <<>>
                     /\ \A i \in 1..(n - 1) : calls'[i] = calls[i]
                     /\ calls'[n] = [node |-> calls[n].node, next |-> calls[n].next + 1,
                                     frames |-> Given, count |-> calls[n].count]
<1> DEFINE top == Last(calls)
           n == top.node
           k == IF n = 1 THEN Left(top.frames) ELSE top.frames
<1>1. calls # <<>> BY DEF Process
<1>2. Len(calls) \in Nat /\ DOMAIN calls = 1..Len(calls) /\ Len(calls) \in DOMAIN calls
      /\ TopCall = top /\ top = calls[Len(calls)]
  BY <1>1, CallsAre DEF TopCall
<1>3. TopCall \in PullCall /\ TopCall.node \in Used /\ TopCall.node \in GraphNode /\ TopCall.frames \in Nat
      /\ (TopCall.node \in Sink => Len(calls) = 1)
  BY <1>2, CallsAre DEF TopCall
<1>4. k = Given BY <1>2 DEF Given
<1>5. /\ top.next > Len(graph[n].inputs)
      /\ mLastFrameCount' = [mLastFrameCount EXCEPT ![n] = k]
      /\ sourced' = IF n = 1 THEN sourced + k ELSE sourced
      /\ IF n \in Sink
         THEN /\ calls' = <<>>
              /\ fgAsked' = IF k = 0 THEN 0 ELSE fgAsked - k
              /\ fgShort' = (k = 0)
              /\ received' = received \o Cut(InputBuffer(n, 1), k, graph[n].channels)
              /\ UNCHANGED port
         ELSE /\ port' = [port EXCEPT ![n] = Filled(n, k)]
              /\ calls' = Resumed(Front(calls), k)
              /\ UNCHANGED readVars
      /\ UNCHANGED <<fgConfig, mLastCallCount, refills, fgReads>>
  BY DEF Process
<1>6. TopCall.next = Len(graph[TopCall.node].inputs) + 1
  <2>1. TopCall.next \in 1..(Len(graph[TopCall.node].inputs) + 1) BY <1>2 DEF Stacked, TopCall
  <2>2. Len(graph[TopCall.node].inputs) \in 0..2 BY <1>3, NodeShape, CallsAre
  <2> QED BY <1>2, <1>5, <2>1, <2>2
<1>7. Given \in Nat /\ Given <= TopCall.frames /\ (TopCall.node # 1 => Given = TopCall.frames)
      /\ (TopCall.node = 1 => sourced + Given <= refills * FgFrames)
  <2>1. sourced \in Nat /\ sourced <= refills * FgFrames /\ refills * FgFrames \in Int
    BY FlowGraphAssumption DEF FgTyped
  <2> DEFINE all == refills * FgFrames
  <2>2. TopCall.node = 1 => Given = Min2(TopCall.frames, all - sourced) BY DEF Given, Left
  <2>3. TopCall.node # 1 => Given = TopCall.frames BY DEF Given
  <2> HIDE DEF all
  <2>4. all \in Int /\ sourced <= all BY <2>1 DEF all
  <2>5. ASSUME NEW x, x = Min2(TopCall.frames, all - sourced)
        PROVE  x \in Nat /\ x <= TopCall.frames /\ sourced + x <= all
    BY <1>3, <2>1, <2>4, <2>5 DEF Min2
  <2>6. TopCall.node = 1 => Given \in Nat /\ Given <= TopCall.frames /\ sourced + Given <= all
    BY <2>2, <2>5
  <2> QED BY <1>3, <2>3, <2>6 DEF all
<1>8. sourced' \in Nat /\ sourced' <= refills * FgFrames
  <2>1. sourced \in Nat /\ sourced <= refills * FgFrames BY DEF FgTyped
  <2> QED BY <1>2, <1>4, <1>5, <1>7, <2>1
<1>9. ASSUME TopCall.node \notin Sink
      PROVE  LET m == Len(calls) - 1
             IN  /\ m \in Nat \ {0} /\ calls' \in Seq(PullCall) /\ Len(calls') = m
                 /\ DOMAIN calls' = 1..m /\ calls' # <<>>
                 /\ \A i \in 1..(m - 1) : calls'[i] = calls[i]
                 /\ calls'[m] = [node |-> calls[m].node, next |-> calls[m].next + 1,
                                 frames |-> Given, count |-> calls[m].count]
  <2> DEFINE m == Len(calls) - 1
             f == Front(calls)
  <2>1. Len(calls) # 1
    <3>1. reader \in Sink /\ calls[1].node = reader BY <1>1 DEF Stacked, FgTyped
    <3> QED BY <1>9, <3>1 DEF TopCall
  <2>2. m \in Nat \ {0} BY <1>2, <2>1
  <2>3. f \in Seq(PullCall) /\ Len(f) = m /\ \A i \in 1..m : f[i] = calls[i]
    <3>1. calls \in Seq(PullCall) BY DEF FgTyped
    <3> QED BY <1>1, <3>1, FrontIs
  <2>4. f # <<>> BY <2>2, <2>3, EmptySeq
  <2>5. calls' = Resumed(f, Given) BY <1>2, <1>4, <1>5, <1>9
  <2> HIDE DEF f, m
  <2>6. Len(f) = m BY <2>3
  <2>7. /\ Resumed(f, Given) \in Seq(PullCall) /\ Len(Resumed(f, Given)) = m
        /\ DOMAIN Resumed(f, Given) = 1..m /\ Resumed(f, Given) # <<>>
        /\ \A i \in 1..(m - 1) : Resumed(f, Given)[i] = f[i]
        /\ Resumed(f, Given)[m] = [node |-> f[m].node, next |-> f[m].next + 1, frames |-> Given,
                                   count |-> f[m].count]
    BY <1>7, <2>3, <2>4, <2>6, ResumedIs
  <2>8. m \in 1..m /\ \A i \in 1..(m - 1) : i \in 1..m BY <2>2
  <2>9. f[m] = calls[m] /\ \A i \in 1..(m - 1) : f[i] = calls[i] BY <2>3, <2>8
  <2> QED BY <2>2, <2>5, <2>7, <2>9 DEF m
<1> HIDE DEF top, n, k
<1>10. n = TopCall.node BY <1>2 DEF n
<1> QED BY <1>1, <1>3, <1>4, <1>5, <1>6, <1>7, <1>8, <1>9, <1>10

LEMMA PullInputIs ==
  ASSUME FgTyped, Stacked, PullInput
  PROVE  /\ calls # <<>> /\ Len(calls) \in Nat \ {0} /\ Len(calls) \in DOMAIN calls
         /\ TopCall \in PullCall /\ TopCall.node \in Used /\ TopCall.node \in GraphNode /\ TopCall.node # 1
         /\ TopCall.next \in 1..Len(graph[TopCall.node].inputs)
         /\ Asked \in Nat /\ Asked <= FgPort /\ (TopCall.frames > 0 => Asked > 0)
         /\ (TopCall.frames = 0 => Asked = 0)
         /\ Pulling \in 0..3
         /\ Pulling # 0 => Pulling \in Used /\ Pulling \in Inputs(TopCall.node)
         /\ UNCHANGED <<fgConfig, mLastFrameCount, sourced, port, refills, readVars, fgReads>>
         /\ Count' = Count
         /\ LET n == Len(calls)
                e == [node |-> Pulling, next |-> 1, frames |-> Asked, count |-> Count]
            IN  /\ Enters =>
                     /\ mLastCallCount' = [mLastCallCount EXCEPT ![Pulling] = Count]
                     /\ mLastCallCount[Pulling] < Count
                     /\ calls' \in Seq(PullCall) /\ Len(calls') = n + 1
                     /\ DOMAIN calls' = 1..(n + 1) /\ calls' # <<>>
                     /\ (\A i \in 1..n : calls'[i] = calls[i]) /\ calls'[n + 1] = e
                /\ ~Enters =>
                     /\ UNCHANGED mLastCallCount /\ Returned \in Nat
                     /\ Pulling # 0 => mLastCallCount[Pulling] = Count
                     /\ calls' \in Seq(PullCall) /\ Len(calls') = n
                     /\ DOMAIN calls' = 1..n /\ calls' # <<>>
                     /\ \A i \in 1..(n - 1) : calls'[i] = calls[i]
                     /\ calls'[n] = [node |-> calls[n].node, next |-> calls[n].next + 1,
                                     frames |-> Returned, count |-> calls[n].count]
<1> DEFINE top == Last(calls)
           inputs == graph[top.node].inputs
           k == Min2(FgPort, top.frames)
           x == inputs[top.next]
           n == Len(calls)
<1>1. calls # <<>> BY DEF PullInput
<1>2. n \in Nat \ {0} /\ DOMAIN calls = 1..n /\ n \in DOMAIN calls
      /\ TopCall = top /\ top = calls[n] /\ calls \in Seq(PullCall)
  <2>1. calls \in Seq(PullCall) BY DEF FgTyped
  <2>2. n \in Nat \ {0} BY <1>1, <2>1, FrontIs
  <2> QED BY <1>1, <2>1, <2>2, CallsAre DEF TopCall
<1>3. TopCall \in PullCall /\ TopCall.node \in Used /\ TopCall.node \in GraphNode /\ TopCall.frames \in Nat
      /\ graph \in Graphs /\ TopCall.next \in Nat /\ TopCall.count = Count
  <2>1. TopCall.count = Count BY <1>2 DEF Stacked, TopCall
  <2> QED BY <1>2, <2>1, CallsAre DEF TopCall
<1>4. /\ top.next <= Len(inputs)
      /\ IF x # 0 /\ MustRun(x, top.count)
         THEN Enter(x, k, top.count)
         ELSE /\ calls' = Resumed(calls, IF x = 0 THEN k ELSE mLastFrameCount[x])
              /\ UNCHANGED mLastCallCount
      /\ UNCHANGED <<fgConfig, mLastFrameCount, sourced, port, refills, readVars, fgReads>>
  BY DEF PullInput
<1>5. TopCall.next \in 1..Len(graph[TopCall.node].inputs)
  <2>1. TopCall.next \in 1..(Len(graph[TopCall.node].inputs) + 1) BY <1>2 DEF Stacked, TopCall
  <2>2. Len(graph[TopCall.node].inputs) \in 0..2 BY <1>3, NodeShape
  <2>3. TopCall.next <= Len(graph[TopCall.node].inputs) BY <1>2, <1>4
  <2> HIDE DEF top, inputs, k, x, n
  <2> QED BY <1>3, <2>1, <2>2, <2>3
<1>6. Pulling = x /\ Asked = k BY <1>2 DEF Pulling, Asked
<1>7. Pulling \in 0..3 /\ TopCall.node # 1 /\ (Pulling # 0 => Pulling \in Used /\ Pulling \in Inputs(TopCall.node))
  <2>1. Pulling \in 0..3 /\ (Pulling # 0 => Pulling \in Inputs(TopCall.node))
    BY <1>3, <1>5, NodeShape DEF Pulling
  <2>2. Inputs(TopCall.node) \subseteq Used BY <1>3, UsedClosed
  <2>3. Len(graph[TopCall.node].inputs) # 0
    <3>1. Len(graph[TopCall.node].inputs) \in 0..2 BY <1>3, NodeShape
    <3> QED BY <1>5, <3>1
  <2> HIDE DEF top, inputs, k, x, n
  <2> QED BY <1>3, <2>1, <2>2, <2>3, NodeShape
<1>8. Asked \in Nat /\ Asked <= FgPort /\ (TopCall.frames > 0 => Asked > 0)
      /\ (TopCall.frames = 0 => Asked = 0)
  BY <1>3, FlowGraphAssumption DEF Asked, Min2
<1>9. Pulling # 0 => Pulling \in GraphNode /\ Pulling \notin Sink /\ mLastCallCount[Pulling] <= Count
  <2>1. Pulling # 0 => Pulling \in GraphNode /\ Pulling \notin Sink BY <1>7 DEF GraphNode, Sink
  <2> QED BY <1>7, <2>1 DEF Stacked
<1>10. Count \in Int /\ \A m \in GraphNode : mLastCallCount[m] \in Int
  <2>1. reader \in GraphNode /\ mLastCallCount \in [GraphNode -> Int] BY DEF FgTyped, Sink, GraphNode
  <2> QED BY <2>1 DEF Count
<1>11. Enters <=> x # 0 /\ MustRun(x, top.count)
  BY <1>2, <1>3, <1>6 DEF Enters
<1> HIDE DEF x, k
<1> DEFINE e == [node |-> Pulling, next |-> 1, frames |-> Asked, count |-> Count]
<1>12. ASSUME Enters
       PROVE  /\ mLastCallCount' = [mLastCallCount EXCEPT ![Pulling] = Count]
              /\ mLastCallCount[Pulling] < Count
              /\ calls' \in Seq(PullCall) /\ Len(calls') = n + 1
              /\ DOMAIN calls' = 1..(n + 1) /\ calls' # <<>>
              /\ (\A i \in 1..n : calls'[i] = calls[i]) /\ calls'[n + 1] = e
  <2>1. Enter(Pulling, Asked, Count) BY <1>2, <1>3, <1>4, <1>6, <1>11, <1>12
  <2>2. e \in PullCall
    <3>1. Pulling \in GraphNode BY <1>9, <1>12 DEF Enters
    <3> QED BY <1>8, <1>10, <3>1 DEF PullCall
  <2>3. calls' = Append(calls, e) /\ mLastCallCount' = [mLastCallCount EXCEPT ![Pulling] = Count]
    BY <2>1 DEF Enter
  <2>4. mLastCallCount[Pulling] < Count BY <1>9, <1>10, <1>12 DEF Enters, MustRun
  <2> HIDE DEF e
  <2>5. /\ Append(calls, e) \in Seq(PullCall) /\ Len(Append(calls, e)) = n + 1
        /\ DOMAIN Append(calls, e) = 1..(n + 1) /\ Append(calls, e) # <<>>
        /\ (\A i \in 1..n : Append(calls, e)[i] = calls[i]) /\ Append(calls, e)[n + 1] = e
    BY <1>2, <2>2, PushedIs
  <2> QED BY <2>3, <2>4, <2>5
<1>13. ASSUME ~Enters
       PROVE  /\ UNCHANGED mLastCallCount /\ Returned \in Nat
              /\ Pulling # 0 => mLastCallCount[Pulling] = Count
              /\ calls' \in Seq(PullCall) /\ Len(calls') = n
              /\ DOMAIN calls' = 1..n /\ calls' # <<>>
              /\ \A i \in 1..(n - 1) : calls'[i] = calls[i]
              /\ calls'[n] = [node |-> calls[n].node, next |-> calls[n].next + 1,
                              frames |-> Returned, count |-> calls[n].count]
  <2>1. calls' = Resumed(calls, Returned) /\ UNCHANGED mLastCallCount
    BY <1>4, <1>6, <1>11, <1>13 DEF Returned
  <2>2. Returned \in Nat
    <3>1. mLastFrameCount \in [GraphNode -> Nat] BY DEF FgTyped
    <3> QED BY <1>8, <1>9, <3>1 DEF Returned
  <2>3. Pulling # 0 => mLastCallCount[Pulling] = Count
    BY <1>9, <1>10, <1>13 DEF Enters, MustRun
  <2>4. /\ Resumed(calls, Returned) \in Seq(PullCall) /\ Len(Resumed(calls, Returned)) = n
        /\ DOMAIN Resumed(calls, Returned) = 1..n /\ Resumed(calls, Returned) # <<>>
        /\ \A i \in 1..(n - 1) : Resumed(calls, Returned)[i] = calls[i]
        /\ Resumed(calls, Returned)[n]
             = [node |-> calls[n].node, next |-> calls[n].next + 1, frames |-> Returned,
                count |-> calls[n].count]
    BY <1>1, <1>2, <2>2, ResumedIs
  <2> QED BY <2>1, <2>2, <2>3, <2>4
<1>14. Count' = Count
  <2>1. reader' = reader /\ reader \in Sink BY <1>4 DEF fgConfig, FgTyped
  <2>2. CASE Enters
    <3>1. mLastCallCount'[reader] = mLastCallCount[reader]
      <4>1. mLastCallCount \in [GraphNode -> Int] /\ reader \in GraphNode
        BY <2>1 DEF FgTyped, Sink, GraphNode
      <4>2. Pulling # reader BY <1>9, <2>1, <2>2 DEF Enters
      <4>3. mLastCallCount' = [mLastCallCount EXCEPT ![Pulling] = Count] BY <1>12, <2>2
      <4> QED BY <4>1, <4>2, <4>3
    <3> QED BY <2>1, <3>1 DEF Count
  <2>3. CASE ~Enters BY <1>13, <2>1, <2>3 DEF Count
  <2> QED BY <2>2, <2>3
<1> HIDE DEF top, inputs, n
<1> QED BY <1>1, <1>2, <1>3, <1>4, <1>5, <1>7, <1>8, <1>12, <1>13, <1>14 DEF n

LEMMA FgInitGeneral == FgInit => FgTyped /\ Stacked
<1> SUFFICES ASSUME FgInit PROVE FgTyped /\ Stacked OBVIOUS
<1> USE DEF FgInit
<1>1. FgTyped
  <2>1. calls \in Seq(PullCall) BY EmptySeq
  <2>2. mLastCallCount \in [GraphNode -> Int] /\ mLastFrameCount \in [GraphNode -> Nat]
    BY DEF kInitialCallCount
  <2>3. 0 \in Nat /\ 1 \in Nat /\ 0 <= 1 * FgFrames /\ reader \in Sink
    BY FlowGraphAssumption DEF Sink
  <2>4. DOMAIN port = GraphNode
        /\ \A n \in GraphNode : port[n] \in [1..FgPort * graph[n].channels -> Range(port[n])]
    <3> SUFFICES ASSUME NEW n \in GraphNode
                 PROVE  port[n] \in [1..FgPort * graph[n].channels -> Range(port[n])]
      OBVIOUS
    <3>1. port[n] = [i \in 1..FgPort * graph[n].channels |-> Constant] OBVIOUS
    <3>2. DOMAIN port[n] = 1..FgPort * graph[n].channels BY <3>1
    <3> QED BY <3>1, <3>2 DEF Range
  <2>5. sourced \in Nat /\ refills \in Nat /\ sourced <= refills * FgFrames BY <2>3
  <2>6. graph \in Graphs /\ fgAsked \in Int
    <3>1. fgAsked = 0 /\ graph \in Graphs OBVIOUS
    <3> QED BY ONLY <3>1
  <2>7. fgShort \in BOOLEAN
    <3>1. fgShort = FALSE OBVIOUS
    <3> QED BY ONLY <3>1
  <2> QED BY ONLY <2>1, <2>2, <2>3, <2>4, <2>5, <2>6, <2>7 DEF FgTyped
<1>2. Stacked
  <2>1. DOMAIN calls = {} OBVIOUS
  <2>2. \A n \in Used \ Sink : mLastCallCount[n] <= Count
    <3>1. Used \subseteq GraphNode BY UsedClosed
    <3> QED BY <3>1 DEF Count, GraphNode, kInitialCallCount
  <2> QED BY <2>1, <2>2 DEF Stacked
<1> QED BY <1>1, <1>2

LEMMA FgReadGeneral ==
  ASSUME FgTyped, Stacked, \E n \in FgReads : FgRead(n)
  PROVE  FgTyped' /\ Stacked'
<1>1. PICK n \in FgReads : FgRead(n) OBVIOUS
<1>2. UNCHANGED <<fgConfig, nodeVars, refills, calls, received>> /\ fgAsked' = n /\ fgShort' = FALSE
  BY <1>1 DEF FgRead
<1>3. n \in Int BY FlowGraphAssumption
<1>4. FgTyped' BY <1>2, <1>3 DEF FgTyped, fgConfig, nodeVars
<1>5. Stacked' BY <1>2 DEF Stacked, Used, Count, fgConfig, nodeVars
<1> QED BY <1>4, <1>5

LEMMA SetDataGeneral ==
  ASSUME FgTyped, Stacked, SetData
  PROVE  FgTyped' /\ Stacked'
<1>1. UNCHANGED <<fgConfig, nodeVars, calls, fgAsked, received, fgReads>> /\ refills' = refills + 1
      /\ fgShort' = FALSE
  BY DEF SetData
<1>2. refills' \in Nat /\ sourced <= refills' * FgFrames
  <2>1. refills \in Nat /\ FgFrames \in Nat /\ sourced \in Nat /\ sourced <= refills * FgFrames
    BY FlowGraphAssumption DEF FgTyped
  <2>2. (refills + 1) * FgFrames = refills * FgFrames + FgFrames /\ refills * FgFrames \in Int
    BY <2>1
  <2> QED BY <1>1, <2>1, <2>2
<1>3. FgTyped' BY <1>1, <1>2 DEF FgTyped, fgConfig, nodeVars
<1>4. Stacked' BY <1>1 DEF Stacked, Used, Count, fgConfig, nodeVars
<1> QED BY <1>3, <1>4

LEMMA ChangeSinkGeneral ==
  ASSUME FgTyped, Stacked, ChangeSink
  PROVE  FgTyped' /\ Stacked'
<1>1. /\ calls = <<>> /\ reader' \in Sink
      /\ mLastCallCount' = [n \in GraphNode |-> IF n \in Used THEN kInitialCallCount
                                                ELSE mLastCallCount[n]]
      /\ mLastFrameCount' = [n \in GraphNode |-> IF n \in Used THEN 0 ELSE mLastFrameCount[n]]
      /\ UNCHANGED <<graph, sourced, port, refills, calls, readVars, fgReads>>
  BY DEF ChangeSink, PullReset, ResetOf, Used
<1>2. mLastCallCount' \in [GraphNode -> Int] /\ mLastFrameCount' \in [GraphNode -> Nat]
  <2>1. mLastCallCount \in [GraphNode -> Int] /\ mLastFrameCount \in [GraphNode -> Nat]
    BY DEF FgTyped
  <2> QED BY <1>1, <2>1 DEF kInitialCallCount
<1>3. FgTyped' BY <1>1, <1>2 DEF FgTyped, readVars
<1>4. Stacked'
  <2>1. Used' = Used /\ Used \subseteq GraphNode /\ Sink \subseteq Used
    <3>1. graph \in Graphs BY DEF FgTyped
    <3>2. graph' = graph BY <1>1
    <3> QED BY <3>1, <3>2, UsedClosed DEF Used
  <2>2. \A n \in Used : mLastCallCount'[n] = -1 BY <1>1, <2>1 DEF kInitialCallCount
  <2>3. Count' = -1 BY <1>1, <2>1, <2>2 DEF Count
  <2>4. calls' = <<>> /\ DOMAIN calls' = {} BY <1>1
  <2> QED BY <2>1, <2>2, <2>3, <2>4 DEF Stacked
<1> QED BY <1>3, <1>4

LEMMA SinkPullsGeneral ==
  ASSUME FgTyped, Stacked, SinkPulls
  PROVE  FgTyped' /\ Stacked'
         /\ calls' # <<>> /\ Len(calls') = 1 /\ DOMAIN calls' = {1} /\ Count' = Count + 1
         /\ calls'[1] = [node |-> reader, next |-> 1, frames |-> fgAsked, count |-> Count + 1]
         /\ mLastCallCount' = [mLastCallCount EXCEPT ![reader] = Count + 1]
         /\ reader \in GraphNode /\ Count \in Int
<1> DEFINE e == [node |-> reader, next |-> 1, frames |-> fgAsked, count |-> Count + 1]
<1>1. /\ calls = <<>> /\ fgAsked > 0 /\ calls' = Append(calls, e)
      /\ mLastCallCount' = [mLastCallCount EXCEPT ![reader] = Count + 1]
      /\ UNCHANGED <<fgConfig, mLastFrameCount, sourced, port, refills, readVars, fgReads>>
  BY DEF SinkPulls, Enter, Count
<1>2. graph \in Graphs /\ reader \in Sink /\ reader \in GraphNode /\ fgAsked \in Nat
      /\ mLastCallCount \in [GraphNode -> Int] /\ Count \in Int
  <2>1. graph \in Graphs /\ reader \in Sink /\ fgAsked \in Int /\ mLastCallCount \in [GraphNode -> Int]
    BY DEF FgTyped
  <2>2. reader \in GraphNode BY <2>1 DEF Sink, GraphNode
  <2>3. fgAsked \in Nat BY <1>1, <2>1
  <2> QED BY <2>1, <2>2, <2>3 DEF Count
<1>3. e \in PullCall BY <1>2 DEF PullCall
<1>4. <<>> \in Seq(PullCall) /\ Len(<<>>) = 0 BY EmptySeq
<1> HIDE DEF e
<1>5. calls' \in Seq(PullCall) /\ Len(calls') = 1 /\ DOMAIN calls' = 1..1 /\ calls' # <<>>
      /\ calls'[1] = e
  <2>1. Append(<<>>, e) \in Seq(PullCall) /\ Len(Append(<<>>, e)) = 0 + 1
        /\ DOMAIN Append(<<>>, e) = 1..(0 + 1) /\ Append(<<>>, e) # <<>>
        /\ Append(<<>>, e)[0 + 1] = e
    BY <1>3, <1>4, PushedIs
  <2> QED BY <1>1, <2>1
<1>6. mLastCallCount' \in [GraphNode -> Int] BY <1>1, <1>2
<1>7. FgTyped' BY <1>1, <1>5, <1>6 DEF FgTyped, fgConfig, readVars
<1>8. Count' = Count + 1 BY <1>1, <1>2 DEF Count, fgConfig
<1>9. Stacked'
  <2>1. Used' = Used /\ graph' = graph /\ reader' = reader BY <1>1 DEF Used, fgConfig
  <2>2. \A n \in Used \ Sink : mLastCallCount'[n] <= Count + 1
    <3> SUFFICES ASSUME NEW n \in Used \ Sink PROVE mLastCallCount'[n] <= Count + 1 OBVIOUS
    <3>1. n \in GraphNode /\ n # reader BY <1>2, UsedClosed
    <3>2. mLastCallCount'[n] = mLastCallCount[n] /\ mLastCallCount[n] \in Int BY <1>1, <1>2, <3>1
    <3>3. mLastCallCount[n] <= Count BY DEF Stacked
    <3> QED BY <1>2, <3>2, <3>3
  <2>3. reader \in Used BY <1>2, UsedClosed
  <2>4. mLastCallCount'[reader] = Count + 1 BY <1>1, <1>2
  <2>5. e.node = reader /\ e.next = 1 /\ e.count = Count + 1 BY DEF e
  <2>6. 1 \in 1..(Len(graph[reader].inputs) + 1)
    <3>1. Len(graph[reader].inputs) \in 0..2 BY <1>2, NodeShape
    <3> QED BY <3>1
  <2>7. DOMAIN calls' = {1} BY <1>5
  <2> QED BY <1>5, <1>8, <2>1, <2>2, <2>3, <2>4, <2>5, <2>6, <2>7 DEF Stacked
<1>10. DOMAIN calls' = {1} BY <1>5
<1> QED BY <1>1, <1>2, <1>5, <1>7, <1>8, <1>9, <1>10 DEF e

LEMMA PullInputGeneral ==
  ASSUME FgTyped, Stacked, PullInput,
         Enters => ~OnStack(Pulling)
  PROVE  FgTyped' /\ Stacked'
<1> DEFINE n == Len(calls)
<1>1. n \in Nat \ {0} /\ DOMAIN calls = 1..n /\ n \in DOMAIN calls /\ calls # <<>> /\ TopCall = calls[n]
  BY PullInputIs, CallsAre DEF TopCall
<1> HIDE DEF n
<1>2. UNCHANGED <<fgConfig, mLastFrameCount, sourced, port, refills, readVars, fgReads>>
      /\ Count' = Count
  BY PullInputIs
<1>3. Used' = Used /\ graph' = graph /\ reader' = reader BY <1>2 DEF Used, fgConfig
<1>4. \A i \in 1..n :
        LET inputs == graph[calls[i].node].inputs
        IN /\ calls[i].node \in Used /\ calls[i].count = Count /\ mLastCallCount[calls[i].node] = Count
           /\ i > 1 => calls[i].node \notin Sink
           /\ calls[i].next \in 1..(Len(inputs) + 1)
           /\ i < n => calls[i].next <= Len(inputs) /\ inputs[calls[i].next] = calls[i + 1].node
  BY <1>1 DEF Stacked
<1>5. \A i, j \in 1..n : calls[i].node = calls[j].node => i = j BY <1>1 DEF Stacked
<1>6. mLastCallCount \in [GraphNode -> Int] /\ graph \in Graphs /\ Count \in Int /\ reader \in Sink
  <2>1. reader \in GraphNode BY DEF FgTyped, Sink, GraphNode
  <2> QED BY <2>1 DEF FgTyped, Count
<1>7. \A m \in Used \ Sink : mLastCallCount[m] <= Count BY DEF Stacked
<1>8. calls[1].node = reader BY <1>1 DEF Stacked
<1>9. TopCall.next \in 1..Len(graph[TopCall.node].inputs) /\ Pulling = graph[TopCall.node].inputs[TopCall.next]
      /\ TopCall.node \in GraphNode /\ Len(graph[TopCall.node].inputs) \in 0..2
  BY <1>6, PullInputIs, NodeShape DEF Pulling
<1>10. ASSUME Enters PROVE FgTyped' /\ Stacked'
  <2> DEFINE e == [node |-> Pulling, next |-> 1, frames |-> Asked, count |-> Count]
  <2>1. /\ mLastCallCount' = [mLastCallCount EXCEPT ![Pulling] = Count]
        /\ calls' \in Seq(PullCall) /\ Len(calls') = n + 1
        /\ DOMAIN calls' = 1..(n + 1) /\ calls' # <<>>
        /\ (\A i \in 1..n : calls'[i] = calls[i]) /\ calls'[n + 1] = e
    BY <1>10, PullInputIs DEF n
  <2>2. Pulling \in 1..3 /\ Pulling \in Used BY <1>10, PullInputIs DEF Enters
  <2>3. e.node = Pulling /\ e.next = 1 /\ e.count = Count OBVIOUS
  <2> HIDE DEF e
  <2>4. Pulling \in GraphNode /\ Pulling \notin Sink BY <2>2 DEF GraphNode, Sink
  <2>5. mLastCallCount' \in [GraphNode -> Int] BY <1>6, <2>1
  <2>6. FgTyped' BY <1>2, <2>1, <2>5 DEF FgTyped, fgConfig, readVars
  <2>7. \A m \in GraphNode : mLastCallCount'[m] = IF m = Pulling THEN Count ELSE mLastCallCount[m]
    BY <1>6, <2>1
  <2>8. \A m \in Used \ Sink : mLastCallCount'[m] <= Count
    BY <1>6, <1>7, <2>7, UsedClosed
  <2>9. \A i \in 1..n : calls'[i] = calls[i] BY <2>1
  <2>10. calls'[1].node = reader BY <1>1, <1>8, <2>9
  <2>11. ASSUME NEW i \in 1..(n + 1)
         PROVE  LET f == calls'[i]
                    inputs == graph[f.node].inputs
                IN  /\ f.node \in Used /\ f.count = Count /\ mLastCallCount'[f.node] = Count
                    /\ i > 1 => f.node \notin Sink
                    /\ f.next \in 1..(Len(inputs) + 1)
                    /\ i < n + 1 => f.next <= Len(inputs) /\ inputs[f.next] = calls'[i + 1].node
    <3>1. CASE i = n + 1
      <4>1. calls'[i] = e /\ mLastCallCount'[Pulling] = Count BY <2>1, <2>4, <2>7, <3>1
      <4>2. Len(graph[Pulling].inputs) \in 0..2 BY <1>6, <2>4, NodeShape
      <4>3. 1 \in 1..(Len(graph[Pulling].inputs) + 1) /\ ~(i < n + 1) BY <1>1, <3>1, <4>2
      <4> QED BY <2>2, <2>3, <2>4, <4>1, <4>3
    <3>2. CASE i \in 1..(n - 1)
      <4>1. i \in 1..n /\ i + 1 \in 1..n /\ i < n BY <1>1, <3>2
      <4>2. calls'[i] = calls[i] /\ calls'[i + 1] = calls[i + 1] BY <2>9, <4>1
      <4>3. mLastCallCount'[calls[i].node] = Count
        <5>1. calls[i].node \in GraphNode BY <1>4, <1>6, <4>1, UsedClosed
        <5> QED BY <1>4, <2>7, <4>1, <5>1
      <4> QED BY <1>4, <4>1, <4>2, <4>3
    <3>3. CASE i = n
      <4>1. calls'[i] = TopCall /\ calls'[i + 1].node = Pulling BY <1>1, <2>1, <2>3, <2>9, <3>3
      <4>2. mLastCallCount'[TopCall.node] = Count BY <1>1, <1>4, <1>9, <2>7
      <4>3. n \in 1..n /\ TopCall = calls[n] BY <1>1
      <4>4. TopCall.node \in Used /\ TopCall.count = Count /\ (n > 1 => TopCall.node \notin Sink)
        BY <1>4, <4>3
      <4>5. TopCall.next \in 1..(Len(graph[TopCall.node].inputs) + 1)
            /\ TopCall.next <= Len(graph[TopCall.node].inputs)
        BY <1>9
      <4>6. graph[TopCall.node].inputs[TopCall.next] = calls'[i + 1].node BY <1>9, <4>1
      <4>7. i > 1 => TopCall.node \notin Sink BY <3>3, <4>4
      <4>8. calls'[i].node \in Used /\ calls'[i].count = Count /\ mLastCallCount'[calls'[i].node] = Count
        BY <4>1, <4>2, <4>4
      <4>9. i > 1 => calls'[i].node \notin Sink BY <4>1, <4>7
      <4>10. calls'[i].next \in 1..(Len(graph[calls'[i].node].inputs) + 1)
             /\ calls'[i].next <= Len(graph[calls'[i].node].inputs)
        BY <4>1, <4>5
      <4>11. graph[calls'[i].node].inputs[calls'[i].next] = calls'[i + 1].node BY <4>1, <4>6
      <4> QED BY ONLY <4>8, <4>9, <4>10, <4>11
    <3>4. i = n + 1 \/ i = n \/ i \in 1..(n - 1) BY <1>1
    <3> QED BY <3>1, <3>2, <3>3, <3>4
  <2>12. \A i, j \in 1..(n + 1) : calls'[i].node = calls'[j].node => i = j
    <3>1. \A i \in 1..n : calls[i].node # Pulling BY <1>1, <1>10 DEF OnStack
    <3>2. \A i \in 1..(n + 1) : i = n + 1 \/ i \in 1..n BY <1>1
    <3>3. calls'[n + 1].node = Pulling BY <2>1, <2>3
    <3> QED BY <1>5, <2>9, <3>1, <3>2, <3>3
  <2>13. \A i \in DOMAIN calls' : i \in 1..(n + 1) BY <2>1
  <2>14. Stacked'
    <3>1. Count' = Count /\ DOMAIN calls' = 1..(n + 1) /\ Len(calls') = n + 1 BY <1>2, <2>1
    <3>2. \A m \in Used' \ Sink : mLastCallCount'[m] <= Count' BY <1>3, <2>8, <3>1
    <3>3. calls'[1].node = reader' BY <1>3, <2>10
    <3>4. \A i \in DOMAIN calls' :
            LET f == calls'[i]
                inputs == graph'[f.node].inputs
            IN  /\ f.node \in Used' /\ f.count = Count' /\ mLastCallCount'[f.node] = Count'
                /\ i > 1 => f.node \notin Sink
                /\ f.next \in 1..(Len(inputs) + 1)
                /\ i < Len(calls') => f.next <= Len(inputs) /\ inputs[f.next] = calls'[i + 1].node
      BY <1>3, <2>11, <3>1
    <3>5. \A i, j \in DOMAIN calls' : calls'[i].node = calls'[j].node => i = j BY <2>12, <3>1
    <3> QED BY <3>2, <3>3, <3>4, <3>5 DEF Stacked
  <2> QED BY <2>6, <2>14
<1>11. ASSUME ~Enters PROVE FgTyped' /\ Stacked'
  <2> DEFINE e == [node |-> calls[n].node, next |-> calls[n].next + 1,
                   frames |-> Returned, count |-> calls[n].count]
  <2>1. /\ mLastCallCount' = mLastCallCount
        /\ calls' \in Seq(PullCall) /\ Len(calls') = n /\ DOMAIN calls' = 1..n /\ calls' # <<>>
        /\ (\A i \in 1..(n - 1) : calls'[i] = calls[i]) /\ calls'[n] = e
    BY <1>11, PullInputIs DEF n
  <2>2. e.node = TopCall.node /\ e.next = TopCall.next + 1 /\ e.count = calls[n].count BY <1>1
  <2> HIDE DEF e
  <2>3. FgTyped' BY <1>2, <1>6, <2>1 DEF FgTyped, fgConfig, readVars
  <2>4. \A i \in 1..n : calls'[i].node = calls[i].node /\ calls'[i].count = calls[i].count
    <3>1. \A i \in 1..n : i = n \/ i \in 1..(n - 1) BY <1>1
    <3> QED BY <1>1, <2>1, <2>2, <3>1
  <2>5. ASSUME NEW i \in 1..n
        PROVE  LET f == calls'[i]
                   inputs == graph[f.node].inputs
               IN  /\ f.node \in Used /\ f.count = Count /\ mLastCallCount'[f.node] = Count
                   /\ i > 1 => f.node \notin Sink
                   /\ f.next \in 1..(Len(inputs) + 1)
                   /\ i < n => f.next <= Len(inputs) /\ inputs[f.next] = calls'[i + 1].node
    <3>1. CASE i = n
      <4>1. calls'[i].next \in 1..(Len(graph[TopCall.node].inputs) + 1) BY <1>9, <2>1, <2>2, <3>1
      <4>2. ~(i < n) /\ calls'[i].node = TopCall.node BY <1>1, <2>1, <2>2, <3>1
      <4> QED BY <1>1, <1>4, <2>1, <2>4, <4>1, <4>2
    <3>2. CASE i \in 1..(n - 1)
      <4>1. i \in 1..n /\ i + 1 \in 1..n /\ i < n BY <1>1, <3>2
      <4>2. calls'[i] = calls[i] /\ calls'[i + 1].node = calls[i + 1].node BY <2>1, <2>4, <3>2, <4>1
      <4> QED BY <1>4, <2>1, <4>1, <4>2
    <3>3. i = n \/ i \in 1..(n - 1) BY <1>1
    <3> QED BY <3>1, <3>2, <3>3
  <2>6. calls'[1].node = reader BY <1>1, <1>8, <2>4
  <2>7. \A i, j \in 1..n : calls'[i].node = calls'[j].node => i = j BY <1>5, <2>4
  <2>8. Stacked'
    <3> QED BY <1>2, <1>3, <1>7, <2>1, <2>5, <2>6, <2>7 DEF Stacked
  <2> QED BY <2>3, <2>8
<1> QED BY <1>10, <1>11

LEMMA ProcessGeneral ==
  ASSUME FgTyped, Stacked, Process
  PROVE  FgTyped' /\ Stacked' /\ Count' = Count
<1> DEFINE n == Len(calls) - 1
<1>1. UNCHANGED <<fgConfig, mLastCallCount, refills, fgReads>> BY ProcessIs
<1>2. Count' = Count /\ Used' = Used /\ graph' = graph /\ reader' = reader
  BY <1>1 DEF Count, Used, fgConfig
<1>3. TopCall.node \in GraphNode /\ Given \in Nat /\ sourced' \in Nat /\ sourced' <= refills * FgFrames
      /\ mLastFrameCount' = [mLastFrameCount EXCEPT ![TopCall.node] = Given]
  BY ProcessIs
<1>4. mLastFrameCount' \in [GraphNode -> Nat] /\ mLastFrameCount \in [GraphNode -> Nat]
  BY <1>3 DEF FgTyped
<1>5. CASE TopCall.node \in Sink
  <2>1. calls' = <<>> /\ port' = port /\ fgAsked' \in Int /\ fgShort' \in BOOLEAN
    <3>1. fgAsked' = (IF Given = 0 THEN 0 ELSE fgAsked - Given) /\ fgAsked \in Int
      BY <1>5, ProcessIs DEF FgTyped
    <3>2. fgAsked' \in Int BY <1>3, <3>1
    <3>3. fgShort' = (Given = 0) BY <1>5, ProcessIs
    <3>4. fgShort' \in BOOLEAN BY ONLY <3>3, Zenon
    <3> QED BY <1>5, <3>2, <3>4, ProcessIs
  <2>2. calls' \in Seq(PullCall) /\ DOMAIN calls' = {} BY <2>1, EmptySeq
  <2>3. FgTyped' BY <1>1, <1>3, <1>4, <2>1, <2>2 DEF FgTyped, fgConfig
  <2>4. Stacked' BY <1>1, <1>2, <2>1, <2>2 DEF Stacked
  <2> QED BY <1>2, <2>3, <2>4
<1>6. CASE TopCall.node \notin Sink
  <2>1. /\ port' = [port EXCEPT ![TopCall.node] = Filled(TopCall.node, Given)] /\ UNCHANGED readVars
        /\ n \in Nat \ {0} /\ calls' \in Seq(PullCall) /\ Len(calls') = n
        /\ DOMAIN calls' = 1..n /\ calls' # <<>>
        /\ (\A i \in 1..(n - 1) : calls'[i] = calls[i])
        /\ calls'[n] = [node |-> calls[n].node, next |-> calls[n].next + 1,
                        frames |-> Given, count |-> calls[n].count]
    BY <1>6, ProcessIs
  <2>2. DOMAIN port' = GraphNode
        /\ \A m \in GraphNode : port'[m] \in [1..FgPort * graph[m].channels -> Range(port'[m])]
    <3>1. DOMAIN port = GraphNode
          /\ \A m \in GraphNode : port[m] \in [1..FgPort * graph[m].channels -> Range(port[m])]
      BY DEF FgTyped
    <3>2. DOMAIN port' = GraphNode
          /\ \A m \in GraphNode : port'[m] = IF m = TopCall.node THEN Filled(m, Given) ELSE port[m]
      BY <1>3, <2>1, <3>1
    <3>3. Filled(TopCall.node, Given)
            \in [1..FgPort * graph[TopCall.node].channels -> Range(Filled(TopCall.node, Given))]
      <4>1. DOMAIN port[TopCall.node] = 1..FgPort * graph[TopCall.node].channels BY <1>3, <3>1
      <4> DEFINE f == Filled(TopCall.node, Given)
      <4>2. f = [j \in 1..FgPort * graph[TopCall.node].channels |-> f[j]] BY <4>1 DEF Filled
      <4> HIDE DEF f
      <4>3. DOMAIN f = 1..FgPort * graph[TopCall.node].channels BY <4>2
      <4>4. \A j \in DOMAIN f : f[j] \in Range(f) BY DEF Range
      <4>5. f \in [1..FgPort * graph[TopCall.node].channels -> Range(f)] BY <4>2, <4>3, <4>4
      <4> QED BY <4>5 DEF f
    <3> QED BY <3>1, <3>2, <3>3
  <2>3. FgTyped' BY <1>1, <1>3, <1>4, <2>1, <2>2 DEF FgTyped, fgConfig, readVars
  <2>4. DOMAIN calls = 1..(n + 1) /\ Len(calls) = n + 1 /\ calls # <<>>
    <3>1. Len(calls) \in Nat /\ DOMAIN calls = 1..Len(calls) BY CallsAre
    <3>2. n + 1 = Len(calls) BY <3>1
    <3> QED BY <3>1, <3>2, ProcessIs
  <2> HIDE DEF n
  <2>5. \A i \in 1..n : calls'[i].node = calls[i].node /\ calls'[i].count = calls[i].count
    <3>1. \A i \in 1..n : i = n \/ i \in 1..(n - 1) BY <2>1
    <3> QED BY <2>1, <3>1
  <2>6. \A i \in 1..(n + 1) :
        LET inputs == graph[calls[i].node].inputs
        IN /\ calls[i].node \in Used /\ calls[i].count = Count /\ mLastCallCount[calls[i].node] = Count
           /\ i > 1 => calls[i].node \notin Sink
           /\ calls[i].next \in 1..(Len(inputs) + 1)
           /\ i < n + 1 => calls[i].next <= Len(inputs) /\ inputs[calls[i].next] = calls[i + 1].node
    BY <2>4 DEF Stacked
  <2>7. ASSUME NEW i \in 1..n
        PROVE  LET f == calls'[i]
                   inputs == graph[f.node].inputs
               IN  /\ f.node \in Used /\ f.count = Count /\ mLastCallCount[f.node] = Count
                   /\ i > 1 => f.node \notin Sink
                   /\ f.next \in 1..(Len(inputs) + 1)
                   /\ i < n => f.next <= Len(inputs) /\ inputs[f.next] = calls'[i + 1].node
    <3>1. CASE i = n
      <4>1. i \in 1..(n + 1) /\ i < n + 1 /\ ~(i < n) BY <2>1, <3>1
      <4>2. calls'[i].next = calls[i].next + 1 /\ calls'[i].node = calls[i].node BY <2>1, <3>1
      <4>3. Len(graph[calls[i].node].inputs) \in 0..2
        <5>1. graph \in Graphs /\ calls[i].node \in GraphNode BY <2>6, <4>1, UsedClosed DEF FgTyped
        <5> QED BY <5>1, NodeShape
      <4>4. calls'[i].next \in 1..(Len(graph[calls[i].node].inputs) + 1)
        BY <2>6, <4>1, <4>2, <4>3
      <4> QED BY <2>5, <2>6, <4>1, <4>2, <4>4
    <3>2. CASE i \in 1..(n - 1)
      <4>1. i \in 1..(n + 1) /\ i + 1 \in 1..n /\ i < n + 1 /\ i < n BY <2>1, <3>2
      <4>2. calls'[i] = calls[i] /\ calls'[i + 1].node = calls[i + 1].node BY <2>1, <2>5, <3>2, <4>1
      <4> QED BY <2>6, <4>1, <4>2
    <3>3. i = n \/ i \in 1..(n - 1) BY <2>1
    <3> QED BY <3>1, <3>2, <3>3
  <2>8. calls'[1].node = reader
    <3>1. calls[1].node = reader /\ 1 \in 1..n BY <2>1, <2>4 DEF Stacked
    <3> QED BY <2>5, <3>1
  <2>9. \A i, j \in 1..n : calls'[i].node = calls'[j].node => i = j
    <3>1. \A i, j \in 1..(n + 1) : calls[i].node = calls[j].node => i = j BY <2>4 DEF Stacked
    <3>2. \A i \in 1..n : i \in 1..(n + 1) BY <2>1
    <3> QED BY <2>5, <3>1, <3>2
  <2>10. \A m \in Used \ Sink : mLastCallCount[m] <= Count BY DEF Stacked
  <2>11. Stacked' BY <1>1, <1>2, <2>1, <2>7, <2>8, <2>9, <2>10 DEF Stacked
  <2> QED BY <1>2, <2>3, <2>11
<1> QED BY <1>5, <1>6
-----------------------------------------------------------------------------
(* Without a way back: the frames of the source *)

\* All that is pulled leads to the source.
LEMMA SourceUsed ==
  ASSUME graph \in Graphs, Acyclic(graph)
  PROVE  1 \in Used
<1>1. Sink \subseteq Used /\ Used \subseteq GraphNode /\ \A n \in Used : Inputs(n) \subseteq Used
  BY UsedClosed
<1>2. \A n \in Used : n # 1 => \E x \in Inputs(n) : x \in Used /\ x \in GraphNode /\ Rank(x) \in 0..2
                                                   /\ Rank(n) \in 1..3 /\ Rank(x) < Rank(n)
  <2> SUFFICES ASSUME NEW n \in Used, n # 1
               PROVE  \E x \in Inputs(n) : x \in Used /\ x \in GraphNode /\ Rank(x) \in 0..2
                                           /\ Rank(n) \in 1..3 /\ Rank(x) < Rank(n)
    OBVIOUS
  <2>1. n \in GraphNode BY <1>1
  <2>2. PICK p \in 1..Len(graph[n].inputs) : graph[n].inputs[p] # 0 BY <2>1, NodeShape
  <2>3. graph[n].inputs[p] \in Inputs(n) BY <2>1, <2>2, NodeShape
  <2> QED BY <1>1, <2>1, <2>3, RankDown
<1>3. PICK n \in Used : n # 1 /\ Rank(n) = 3 BY <1>1 DEF Sink, Rank
<1>4. PICK x \in Used : x = 1 \/ Rank(x) \in 0..2
  BY <1>2, <1>3
<1>5. PICK y \in Used : y = 1 \/ Rank(y) \in 0..1 BY <1>2, <1>4
<1>6. PICK z \in Used : z = 1 \/ Rank(z) = 0 BY <1>2, <1>5
<1>7. z = 1 BY <1>1, <1>2, <1>6
<1> QED BY <1>6, <1>7

LEMMA Joining ==
  ASSUME NEW f, NEW b \in Nat, NEW k \in Nat
  PROVE  [j \in 1..b |-> f[j]] \o [i \in 1..k |-> f[b + i]] = [j \in 1..(b + k) |-> f[j]]
<1> DEFINE S == {f[j] : j \in Nat}
           s == [j \in 1..b |-> f[j]]
           t == [i \in 1..k |-> f[b + i]]
           u == [j \in 1..(b + k) |-> f[j]]
<1>1. \A j \in Nat : f[j] \in S OBVIOUS
<1> HIDE DEF S
<1>2. s \in Seq(S) /\ Len(s) = b /\ \A j \in 1..b : s[j] = f[j]
  <2>1. s \in [1..b -> S] BY <1>1
  <2> QED BY <2>1
<1>3. t \in Seq(S) /\ Len(t) = k /\ \A j \in 1..k : t[j] = f[b + j]
  <2>1. t \in [1..k -> S] BY <1>1
  <2> QED BY <2>1
<1>4. u \in Seq(S) /\ Len(u) = b + k /\ \A j \in 1..(b + k) : u[j] = f[j]
  <2>1. u \in [1..(b + k) -> S] BY <1>1
  <2>2. b + k \in Nat OBVIOUS
  <2> QED BY <2>1, <2>2
<1> HIDE DEF s, t, u
<1>5. s \o t \in Seq(S) /\ Len(s \o t) = Len(s) + Len(t)
      /\ \A i \in 1..(Len(s) + Len(t)) : (s \o t)[i] = IF i <= Len(s) THEN s[i] ELSE t[i - Len(s)]
  BY ONLY <1>2, <1>3, ConcatProperties
<1>6. \A i \in 1..(b + k) : (s \o t)[i] = u[i]
  <2> SUFFICES ASSUME NEW i \in 1..(b + k) PROVE (s \o t)[i] = u[i] OBVIOUS
  <2>1. (s \o t)[i] = IF i <= b THEN s[i] ELSE t[i - b] BY <1>2, <1>3, <1>5
  <2>2. CASE i <= b BY <1>2, <1>4, <2>1, <2>2
  <2>3. CASE ~(i <= b)
    <3>1. i - b \in 1..k /\ b + (i - b) = i BY <2>3
    <3> QED BY <1>3, <1>4, <2>1, <2>3, <3>1
  <2> QED BY <2>2, <2>3
<1>7. s \o t = u
  <2>1. Len(s \o t) = Len(u) BY <1>2, <1>3, <1>4, <1>5
  <2> QED BY <1>4, <1>5, <1>6, <2>1, SeqEqual
<1> QED BY <1>7 DEF s, t, u

\* What the sink copies
LEMMA CutIs ==
  ASSUME FgTyped, NEW k \in Nat, k <= FgPort, NEW past \in Nat,
         Holding(graph[reader].inputs[1], k, past)
  PROVE  Cut(InputBuffer(reader, 1), k, graph[reader].channels)
           = [i \in 1..k |-> [c \in 1..graph[reader].channels |-> Source(past + i, c)]]
<1>1. PICK x \in 1..3 : /\ graph[reader].inputs = <<x>>
                        /\ graph[reader].channels = graph[x].channels
  BY GraphShape DEF FgTyped
<1> DEFINE h == graph[reader].channels
           buffer == port[x]
           S == Range(buffer)
<1>2. InputBuffer(reader, 1) = buffer /\ graph[reader].inputs[1] = x BY <1>1 DEF InputBuffer
<1>3. x \in GraphNode /\ h \in 1..3 /\ FgPort \in Nat /\ DOMAIN buffer = 1..FgPort * h
      /\ h = graph[x].channels
  <2>1. x \in GraphNode BY DEF GraphNode
  <2>2. h = graph[x].channels BY <1>1
  <2>3. graph[x].channels \in 1..3 BY <2>1, NodeShape DEF FgTyped
  <2>4. DOMAIN buffer = 1..FgPort * graph[x].channels BY <2>1 DEF FgTyped
  <2> QED BY <2>1, <2>2, <2>3, <2>4, FlowGraphAssumption
<1>4. \A i \in 1..k, c \in 1..h : buffer[(i - 1) * h + c] = Meaning(x, c, past + i)
  BY <1>2, <1>3 DEF Holding
<1>5. \A j, c : Source(j, c) = Meaning(x, c, j) BY <1>2 DEF Source, Meaning
<1> HIDE DEF h, buffer
<1>6. \A j \in DOMAIN buffer : buffer[j] \in S BY DEF Range
<1> HIDE DEF S
<1>7. ASSUME NEW i \in 1..k
      PROVE  SubSeq(buffer, (i - 1) * h + 1, i * h) = [c \in 1..h |-> Source(past + i, c)]
  <2> DEFINE m == (i - 1) * h + 1
             n == i * h
             t == SubSeq(buffer, m, n)
  <2>1. m \in Int /\ n \in Int /\ n - m + 1 = h /\ m <= n
        /\ \A c \in 1..h : m + c - 1 = (i - 1) * h + c
    <3>1. CASE h = 1 BY <3>1
    <3>2. CASE h = 2 BY <3>2
    <3>3. CASE h = 3 BY <3>3
    <3> QED BY <1>3, <3>1, <3>2, <3>3
  <2>2. \A j \in m..n : j \in 1..FgPort * h
    <3>1. i \in 1..FgPort BY <1>3
    <3>2. CASE h = 1 BY <1>3, <3>1, <3>2
    <3>3. CASE h = 2 BY <1>3, <3>1, <3>3
    <3>4. CASE h = 3 BY <1>3, <3>1, <3>4
    <3> QED BY <1>3, <3>2, <3>3, <3>4
  <2> HIDE DEF m, n
  <2>3. \A j \in m..n : buffer[j] \in S BY <1>3, <1>6, <2>2
  <2>4. t \in Seq(S) /\ Len(t) = (IF m <= n THEN n - m + 1 ELSE 0)
        /\ \A c \in 1..(n - m + 1) : t[c] = buffer[m + c - 1]
    BY ONLY <2>1, <2>3, SubSeqProperties
  <2>5. t \in Seq(S) /\ Len(t) = h /\ \A c \in 1..h : t[c] = buffer[m + c - 1] BY <2>1, <2>4
  <2> HIDE DEF t
  <2>6. t = [c \in 1..h |-> t[c]]
    <3>1. t \in [1..h -> S] BY <2>5
    <3> QED BY <3>1
  <2>7. \A c \in 1..h : t[c] = Source(past + i, c) BY <1>4, <1>5, <2>1, <2>5
  <2>8. t = [c \in 1..h |-> Source(past + i, c)] BY <2>6, <2>7
  <2> QED BY <2>8 DEF t, m, n
<1>8. Cut(buffer, k, h) = [i \in 1..k |-> SubSeq(buffer, (i - 1) * h + 1, i * h)] BY DEF Cut
<1>9. Cut(buffer, k, h) = [i \in 1..k |-> [c \in 1..h |-> Source(past + i, c)]] BY <1>7, <1>8
<1> QED BY <1>2, <1>9 DEF h

\* Where no call is made, only what was received matters.
LEMMA FgInitFlows == FgInit /\ Acyclic(graph) => Flows
<1> SUFFICES ASSUME FgInit, Acyclic(graph) PROVE Flows OBVIOUS
<1>1. calls = <<>> /\ DOMAIN calls = {} /\ sourced = 0 /\ fgShort = FALSE /\ received = <<>>
  BY DEF FgInit
<1>2. Before = 0 BY <1>1 DEF Before
<1>3. received = [k \in 1..Before |-> [c \in 1..graph[reader].channels |-> Source(k, c)]]
  <2>1. 1..Before = {} BY <1>2
  <2> QED BY <1>1, <2>1
<1>4. Received BY <1>1, <1>3 DEF Received
<1> QED BY <1>1, <1>4 DEF Flows, Descends, Pulls, RanWell, SourceGave

LEMMA FgReadFlows ==
  ASSUME FgTyped, Flows, \E n \in FgReads : FgRead(n)
  PROVE  Flows'
<1>1. calls = <<>> /\ UNCHANGED <<fgConfig, nodeVars, refills, calls, received>> /\ fgShort' = FALSE
  BY DEF FgRead
<1>2. calls' = <<>> /\ DOMAIN calls' = {} BY <1>1
<1>3. Before' = Before BY <1>1 DEF Before, nodeVars
<1>4. Received'
  <2>1. \A k, c : Source(k, c)' = Source(k, c)
    BY <1>1 DEF Source, SourceChannel, Meant, InputChannels, fgConfig
  <2>2. received = [k \in 1..Before |-> [c \in 1..graph[reader].channels |-> Source(k, c)]]
    BY DEF Flows, Received
  <2>3. received' = received /\ graph' = graph /\ reader' = reader BY <1>1 DEF fgConfig
  <2> QED BY <1>1, <1>3, <2>1, <2>2, <2>3 DEF Received
<1> QED BY <1>2, <1>4 DEF Flows, Descends, Pulls, RanWell, SourceGave

LEMMA SetDataFlows ==
  ASSUME FgTyped, Flows, SetData
  PROVE  Flows'
<1>1. calls = <<>> /\ UNCHANGED <<fgConfig, nodeVars, calls, fgAsked, received, fgReads>>
      /\ fgShort' = FALSE
  BY DEF SetData
<1>2. calls' = <<>> /\ DOMAIN calls' = {} BY <1>1
<1>3. Before' = Before BY <1>1 DEF Before, nodeVars
<1>4. Received'
  <2>1. \A k, c : Source(k, c)' = Source(k, c)
    BY <1>1 DEF Source, SourceChannel, Meant, InputChannels, fgConfig
  <2>2. received = [k \in 1..Before |-> [c \in 1..graph[reader].channels |-> Source(k, c)]]
    BY DEF Flows, Received
  <2>3. received' = received /\ graph' = graph /\ reader' = reader BY <1>1 DEF fgConfig
  <2> QED BY <1>1, <1>3, <2>1, <2>2, <2>3 DEF Received
<1> QED BY <1>2, <1>4 DEF Flows, Descends, Pulls, RanWell, SourceGave

LEMMA ChangeSinkFlows ==
  ASSUME FgTyped, Flows, ChangeSink
  PROVE  Flows'
<1>1. calls = <<>> /\ reader' \in Sink
      /\ UNCHANGED <<graph, sourced, port, refills, calls, readVars, fgReads>>
  BY DEF ChangeSink
<1>2. calls' = <<>> /\ DOMAIN calls' = {} BY <1>1
<1>3. Before' = Before /\ Before = sourced BY <1>1 DEF Before
<1>4. graph[reader'] = graph[reader]
  <2>1. graph[4] = graph[5] /\ reader \in Sink BY GraphShape DEF FgTyped
  <2> QED BY <1>1, <2>1 DEF Sink
<1>5. Received'
  <2>1. \A y, c : SourceChannel(y, c)' = SourceChannel(y, c)
    BY <1>1 DEF SourceChannel, Meant, InputChannels
  <2>2. \A k, c : Source(k, c)' = Source(k, c) BY <1>1, <1>4, <2>1 DEF Source
  <2>3. received = [k \in 1..Before |-> [c \in 1..graph[reader].channels |-> Source(k, c)]]
        /\ (fgShort => sourced = refills * FgFrames)
    BY DEF Flows, Received
  <2>4. received' = received /\ graph' = graph /\ fgShort' = fgShort BY <1>1 DEF readVars
  <2> QED BY <1>1, <1>3, <1>4, <2>2, <2>3, <2>4 DEF Received
<1> QED BY <1>2, <1>5 DEF Flows, Descends, Pulls, RanWell, SourceGave

\* A pull begins with no node that has run in it.
LEMMA SinkPullsFlows ==
  ASSUME FgTyped, Stacked, Acyclic(graph), Flows, SinkPulls
  PROVE  Flows'
<1>1. /\ calls = <<>> /\ fgAsked > 0
      /\ UNCHANGED <<fgConfig, mLastFrameCount, sourced, port, refills, readVars, fgReads>>
  BY DEF SinkPulls
<1>2. /\ DOMAIN calls' = {1} /\ Count' = Count + 1 /\ calls' # <<>>
      /\ calls'[1] = [node |-> reader, next |-> 1, frames |-> fgAsked, count |-> Count + 1]
      /\ mLastCallCount' = [mLastCallCount EXCEPT ![reader] = Count + 1]
      /\ reader \in GraphNode /\ Count \in Int
  BY SinkPullsGeneral
<1>3. graph \in Graphs /\ reader \in Sink /\ mLastCallCount \in [GraphNode -> Int] BY DEF FgTyped
<1>4. Used' = Used BY <1>1 DEF Used, fgConfig
<1>5. \A n \in Used \ Sink : ~Done(n)'
  <2> SUFFICES ASSUME NEW n \in Used \ Sink PROVE ~Done(n)' OBVIOUS
  <2>1. n \in GraphNode /\ n # reader BY <1>3, UsedClosed
  <2>2. mLastCallCount'[n] = mLastCallCount[n] /\ mLastCallCount[n] \in Int BY <1>2, <1>3, <2>1
  <2>3. mLastCallCount[n] <= Count BY DEF Stacked
  <2> QED BY <1>2, <2>2, <2>3 DEF Done
<1>6. ~Done(1)'
  <2>1. 1 \in Used \ Sink BY <1>3, SourceUsed DEF Sink
  <2> QED BY <1>5, <2>1
<1>7. Before' = Before /\ Before = sourced BY <1>1, <1>6 DEF Before
<1>8. Received'
  <2>1. \A k, c : Source(k, c)' = Source(k, c)
    BY <1>1 DEF Source, SourceChannel, Meant, InputChannels, fgConfig
  <2>2. received = [k \in 1..Before |-> [c \in 1..graph[reader].channels |-> Source(k, c)]]
        /\ (fgShort => sourced = refills * FgFrames)
    BY DEF Flows, Received
  <2>3. received' = received /\ graph' = graph /\ reader' = reader /\ fgShort' = fgShort
    BY <1>1 DEF fgConfig, readVars
  <2> QED BY <1>1, <1>7, <2>1, <2>2, <2>3 DEF Received
<1>9. Pulls'
  <2>1. calls'[1].next = 1 /\ calls'[1].frames = fgAsked BY <1>2
  <2>2. 1..(1 - 1) = {} /\ ~(1 > 1) OBVIOUS
  <2> QED BY <1>1, <1>2, <2>1, <2>2 DEF Pulls
<1>10. Descends' BY <1>2 DEF Descends
<1>11. RanWell' BY <1>4, <1>5 DEF RanWell
<1>12. SourceGave' BY <1>6 DEF SourceGave
<1> QED BY <1>8, <1>9, <1>10, <1>11, <1>12 DEF Flows

\* Nothing on the stack is below its top.
LEMMA NotOnStack ==
  ASSUME FgTyped, Stacked, Acyclic(graph), Descends, calls # <<>>, NEW x \in Inputs(TopCall.node)
  PROVE  ~OnStack(x)
<1>1. Len(calls) \in DOMAIN calls /\ DOMAIN calls = 1..Len(calls) /\ TopCall = calls[Len(calls)]
      /\ graph \in Graphs /\ \A i \in DOMAIN calls : calls[i].node \in GraphNode
  BY CallsAre DEF TopCall
<1>2. Rank(x) < Rank(TopCall.node) /\ Rank(x) \in 0..2 /\ Rank(TopCall.node) \in 1..3
  BY <1>1, RankDown
<1>3. ASSUME NEW i \in DOMAIN calls PROVE calls[i].node # x
  <2>1. CASE i = Len(calls) BY <1>1, <1>2, <2>1
  <2>2. CASE i < Len(calls)
    <3>1. Rank(TopCall.node) < Rank(calls[i].node) BY <1>1, <2>2 DEF Descends
    <3>2. Rank(calls[i].node) \in 0..3 BY DEF Rank
    <3> QED BY <1>2, <3>1, <3>2
  <2> QED BY <1>1, <2>1, <2>2
<1> QED BY <1>3 DEF OnStack

LEMMA PullInputFlows ==
  ASSUME FgTyped, Stacked, Acyclic(graph), Flows, PullInput
  PROVE  Flows'
<1> DEFINE n == Len(calls)
<1>1. n \in Nat \ {0} /\ DOMAIN calls = 1..n /\ n \in DOMAIN calls /\ calls # <<>> /\ TopCall = calls[n]
  BY PullInputIs, CallsAre DEF TopCall
<1> HIDE DEF n
<1>2. UNCHANGED <<fgConfig, mLastFrameCount, sourced, port, refills, readVars, fgReads>>
      /\ Count' = Count
  BY PullInputIs
<1>3. graph' = graph /\ reader' = reader /\ Used' = Used /\ graph \in Graphs
      /\ \A m, c, k : Meaning(m, c, k)' = Meaning(m, c, k)
  BY <1>2 DEF Used, fgConfig, FgTyped, Meaning, SourceChannel, Meant, InputChannels
<1>4. mLastCallCount \in [GraphNode -> Int] /\ Count \in Int
      /\ \A m \in GraphNode : mLastFrameCount[m] \in Nat
  <2>1. reader \in GraphNode BY DEF FgTyped, Sink, GraphNode
  <2> QED BY <2>1 DEF FgTyped, Count
<1>5. 1 \in Used /\ 1 \in GraphNode /\ 1 \notin Sink BY <1>3, SourceUsed DEF GraphNode, Sink
<1>6. /\ TopCall.next \in 1..Len(graph[TopCall.node].inputs) /\ Pulling = graph[TopCall.node].inputs[TopCall.next]
      /\ TopCall.node \in GraphNode /\ Len(graph[TopCall.node].inputs) \in 0..2
      /\ Pulling \in 0..3 /\ Asked \in Nat /\ Asked <= FgPort /\ FgPort \in Nat
      /\ (TopCall.frames > 0 => Asked > 0)
      /\ Pulling # 0 => Pulling \in Inputs(TopCall.node) /\ Pulling \in Used /\ Pulling \in GraphNode
                        /\ Pulling \notin Sink
      /\ TopCall.frames \in Nat
  <2>1. Len(graph[TopCall.node].inputs) \in 0..2 BY <1>3, PullInputIs, NodeShape
  <2>2. \A x \in 1..3 : x \in GraphNode /\ x \notin Sink BY DEF GraphNode, Sink
  <2>3. \A x \in 0..3 : x # 0 => x \in 1..3 OBVIOUS
  <2>4. TopCall.frames \in Nat BY <1>1, CallsAre
  <2> QED BY <2>1, <2>2, <2>3, <2>4, PullInputIs, FlowGraphAssumption DEF Pulling
<1>7. \A i \in 1..n :
        /\ i > 1 => calls[i].frames <= FgPort
        /\ \A p \in 1..(calls[i].next - 1) : graph[calls[i].node].inputs[p] # 0 =>
             /\ graph[calls[i].node].inputs[p] \in Ran
             /\ calls[i].frames = mLastFrameCount[1]
        /\ (\A p \in 1..(calls[i].next - 1) : graph[calls[i].node].inputs[p] = 0) =>
             calls[i].frames > 0 \/ Done(1)
  BY <1>1 DEF Flows, Pulls
<1>8. \A m \in Used \ Sink : Done(m) => Done(1) /\ mLastFrameCount[m] = mLastFrameCount[1]
                                       /\ Holding(m, mLastFrameCount[1], Before)
  BY <1>1 DEF Flows, RanWell
<1>9. Done(1) => /\ mLastFrameCount[1] <= FgPort /\ mLastFrameCount[1] <= sourced
                 /\ mLastFrameCount[1] = 0 => sourced = refills * FgFrames
  BY <1>1 DEF Flows, SourceGave
\* What has been pulled was done, and by the source too.
<1>10. ASSUME NEW p \in 1..(TopCall.next - 1), graph[TopCall.node].inputs[p] # 0
       PROVE  Done(1) /\ TopCall.frames = mLastFrameCount[1]
  <2> DEFINE x == graph[TopCall.node].inputs[p]
  <2>1. p \in 1..Len(graph[TopCall.node].inputs) BY <1>6
  <2>2. x \in Inputs(TopCall.node) /\ x \in 1..3 BY <1>3, <1>6, <1>10, <2>1, NodeShape
  <2>3. x \in Used \ Sink
    <3>1. TopCall.node \in Used BY <1>1, CallsAre
    <3> QED BY <1>3, <2>2, <3>1, UsedClosed DEF Sink
  <2>4. Done(x) /\ TopCall.frames = mLastFrameCount[1] BY <1>1, <1>7, <1>10 DEF Ran
  <2> QED BY <1>8, <2>3, <2>4
<1>11. TopCall.frames > 0 \/ Done(1)
  <2>1. CASE \A p \in 1..(TopCall.next - 1) : graph[TopCall.node].inputs[p] = 0 BY <1>1, <1>7, <2>1
  <2>2. CASE \E p \in 1..(TopCall.next - 1) : graph[TopCall.node].inputs[p] # 0 BY <1>10, <2>2
  <2> QED BY <2>1, <2>2
\* Nodes that have run stay so, and no other becomes one.
<1>12. \A m \in GraphNode : Done(m)' <=> Done(m)
  <2>1. CASE Enters
    <3>1. /\ mLastCallCount' = [mLastCallCount EXCEPT ![Pulling] = Count]
          /\ mLastCallCount[Pulling] < Count
          /\ DOMAIN calls' = 1..(n + 1)
          /\ (\A i \in 1..n : calls'[i] = calls[i])
          /\ calls'[n + 1] = [node |-> Pulling, next |-> 1, frames |-> Asked, count |-> Count]
      BY <2>1, PullInputIs DEF n
    <3>2. Pulling \in GraphNode BY <1>6, <2>1 DEF Enters
    <3>3. \A m : OnStack(m)' <=> OnStack(m) \/ m = Pulling
      <4>1. \A i : i \in 1..(n + 1) <=> i \in 1..n \/ i = n + 1 BY <1>1
      <4>2. calls'[n + 1].node = Pulling BY <3>1
      <4> QED BY <1>1, <3>1, <4>1, <4>2 DEF OnStack
    <3>4. \A m : m = Pulling => ~Done(m) /\ ~Done(m)'
      <4>1. mLastCallCount[Pulling] # Count BY <1>4, <3>1, <3>2
      <4> QED BY <3>3, <4>1 DEF Done
    <3>5. \A m \in GraphNode : m # Pulling => mLastCallCount'[m] = mLastCallCount[m]
      BY <1>4, <3>1
    <3> QED BY <1>2, <3>3, <3>4, <3>5 DEF Done
  <2>2. CASE ~Enters
    <3>1. /\ mLastCallCount' = mLastCallCount /\ DOMAIN calls' = 1..n
          /\ (\A i \in 1..(n - 1) : calls'[i] = calls[i])
          /\ calls'[n] = [node |-> calls[n].node, next |-> calls[n].next + 1, frames |-> Returned,
                          count |-> calls[n].count]
      BY <2>2, PullInputIs DEF n
    <3>2. \A i \in 1..n : calls'[i].node = calls[i].node
      <4>1. \A i \in 1..n : i = n \/ i \in 1..(n - 1) BY <1>1
      <4>2. calls'[n].node = calls[n].node BY <3>1
      <4> QED BY <3>1, <4>1, <4>2
    <3>3. \A m : OnStack(m)' <=> OnStack(m) BY <1>1, <3>1, <3>2 DEF OnStack
    <3> QED BY <1>2, <3>1, <3>3 DEF Done
  <2> QED BY <2>1, <2>2
<1>13. calls' # <<>> BY PullInputIs
<1>14. (Done(1)' <=> Done(1)) /\ Ran' = Ran BY <1>5, <1>12 DEF Ran
<1>15. Before' = Before BY <1>1, <1>2, <1>13, <1>14 DEF Before
<1>16. Received'
  <2>1. \A k, c : Source(k, c)' = Source(k, c)
    BY <1>3 DEF Source, SourceChannel, Meant, InputChannels
  <2>2. received = [k \in 1..Before |-> [c \in 1..graph[reader].channels |-> Source(k, c)]]
        /\ (fgShort => sourced = refills * FgFrames)
    BY DEF Flows, Received
  <2>3. received' = received /\ fgShort' = fgShort BY <1>2 DEF readVars
  <2> QED BY <1>2, <1>3, <1>15, <2>1, <2>2, <2>3 DEF Received
<1>17. RanWell'
  <2>1. \A m \in Used \ Sink : Done(m)' => Done(1)'
          /\ mLastFrameCount'[m] = mLastFrameCount'[1]
    <3>1. \A m \in Used \ Sink : m \in GraphNode BY <1>3, UsedClosed
    <3> QED BY <1>2, <1>8, <1>12, <1>14, <3>1
  <2>2. \A m \in Used \ Sink : Done(m)' => Holding(m, mLastFrameCount[1], Before)'
    <3> SUFFICES ASSUME NEW m \in Used \ Sink, Done(m)'
                 PROVE  Holding(m, mLastFrameCount[1], Before)'
      OBVIOUS
    <3>1. m \in GraphNode BY <1>3, UsedClosed
    <3>2. Holding(m, mLastFrameCount[1], Before) BY <1>8, <1>12, <3>1
    <3>3. port' = port /\ mLastFrameCount' = mLastFrameCount BY <1>2
    <3> QED BY <1>3, <1>15, <3>2, <3>3 DEF Holding
  <2> QED BY <1>3, <2>1, <2>2 DEF RanWell
<1>18. SourceGave' BY <1>2, <1>9, <1>14 DEF SourceGave
<1>19. CASE Enters
  <2>1. /\ DOMAIN calls' = 1..(n + 1)
        /\ (\A i \in 1..n : calls'[i] = calls[i])
        /\ calls'[n + 1] = [node |-> Pulling, next |-> 1, frames |-> Asked, count |-> Count]
    BY <1>19, PullInputIs DEF n
  <2>2. \A i \in 1..(n + 1) : i = n + 1 \/ i \in 1..n BY <1>1
  <2>3. Pulling \in Inputs(TopCall.node) BY <1>6, <1>19 DEF Enters
  <2>4. Descends'
    <3>1. Rank(Pulling) < Rank(TopCall.node) /\ Rank(Pulling) \in 0..2 /\ Rank(TopCall.node) \in 1..3
      BY <1>3, <1>6, <2>3, RankDown
    <3>2. \A m : Rank(m)' = Rank(m) BY <1>3 DEF Rank, Inputs
    <3>3. \A m : Rank(m) \in 0..3 BY DEF Rank
    <3>4. \A i, j \in 1..n : i < j => Rank(calls[j].node) < Rank(calls[i].node)
      BY <1>1 DEF Flows, Descends
    <3>5. ASSUME NEW i \in 1..(n + 1), NEW j \in 1..(n + 1), i < j
          PROVE  Rank(calls'[j].node) < Rank(calls'[i].node)
      <4>1. CASE j \in 1..n
        <5>1. i \in 1..n BY <1>1, <3>5, <4>1
        <5> QED BY <2>1, <3>4, <3>5, <4>1, <5>1
      <4>2. CASE j = n + 1
        <5>1. i \in 1..n BY <1>1, <3>5, <4>2
        <5>2. Rank(calls'[j].node) = Rank(Pulling) BY <2>1, <4>2
        <5>3. i = n \/ i < n BY <1>1, <5>1
        <5>4. i < n => Rank(TopCall.node) < Rank(calls[i].node) BY <1>1, <3>4, <5>1
        <5>5. Rank(Pulling) < Rank(calls[i].node) BY <1>1, <3>1, <3>3, <5>3, <5>4
        <5> QED BY <2>1, <5>1, <5>2, <5>5
      <4> QED BY <2>2, <4>1, <4>2
    <3> QED BY <2>1, <3>2, <3>5 DEF Descends
  <2>5. ASSUME NEW i \in 1..(n + 1)
        PROVE  LET f == calls'[i]
                   inputs == graph[f.node].inputs
               IN  /\ i > 1 => f.frames <= FgPort
                   /\ \A p \in 1..(f.next - 1) :
                        inputs[p] # 0 => inputs[p] \in Ran /\ f.frames = mLastFrameCount[1]
                   /\ (\A p \in 1..(f.next - 1) : inputs[p] = 0) => f.frames > 0 \/ Done(1)
    <3>1. CASE i = n + 1
      <4>1. calls'[i].frames = Asked /\ calls'[i].next = 1 BY <2>1, <3>1
      <4>2. 1..(1 - 1) = {} OBVIOUS
      <4> QED BY <1>6, <1>11, <4>1, <4>2
    <3>2. CASE i \in 1..n
      <4>1. calls'[i] = calls[i] BY <2>1, <3>2
      <4> QED BY <1>7, <3>2, <4>1
    <3> QED BY <2>2, <3>1, <3>2
  <2>6. Pulls' BY <1>2, <1>3, <1>14, <2>1, <2>5 DEF Pulls
  <2> QED BY <1>16, <1>17, <1>18, <2>4, <2>6 DEF Flows
<1>20. CASE ~Enters
  <2>1. /\ DOMAIN calls' = 1..n /\ (\A i \in 1..(n - 1) : calls'[i] = calls[i])
        /\ calls'[n] = [node |-> calls[n].node, next |-> calls[n].next + 1, frames |-> Returned,
                        count |-> calls[n].count]
        /\ Returned \in Nat /\ (Pulling # 0 => mLastCallCount[Pulling] = Count)
    BY <1>20, PullInputIs DEF n
  <2>2. \A i \in 1..n : i = n \/ i \in 1..(n - 1) BY <1>1
  <2>3. \A i \in 1..n : calls'[i].node = calls[i].node BY <2>1, <2>2
  <2>4. Descends'
    <3>1. \A m : Rank(m)' = Rank(m) BY <1>3 DEF Rank, Inputs
    <3>2. \A i, j \in 1..n : i < j => Rank(calls[j].node) < Rank(calls[i].node)
      BY <1>1 DEF Flows, Descends
    <3> QED BY <2>1, <2>3, <3>1, <3>2 DEF Descends
  <2>5. Pulling # 0 => Done(Pulling) /\ Done(1) /\ Returned = mLastFrameCount[1]
    <3> SUFFICES ASSUME Pulling # 0
                 PROVE  Done(Pulling) /\ Done(1) /\ Returned = mLastFrameCount[1]
      OBVIOUS
    <3>1. ~OnStack(Pulling) BY <1>1, <1>6, NotOnStack DEF Flows
    <3>2. Done(Pulling) BY <2>1, <3>1 DEF Done
    <3>3. Done(1) /\ mLastFrameCount[Pulling] = mLastFrameCount[1] BY <1>6, <1>8, <3>2
    <3> QED BY <3>2, <3>3 DEF Returned
  <2>6. Pulling = 0 => Returned = Asked BY DEF Returned
  <2>7. Returned <= FgPort BY <1>6, <1>9, <2>5, <2>6
  <2>8. Done(1) \/ Returned > 0 BY <1>6, <1>11, <2>5, <2>6
  <2>9. ASSUME NEW p \in 1..TopCall.next, graph[TopCall.node].inputs[p] # 0
        PROVE  graph[TopCall.node].inputs[p] \in Ran /\ Returned = mLastFrameCount[1]
    <3> DEFINE x == graph[TopCall.node].inputs[p]
    <3>1. p \in 1..Len(graph[TopCall.node].inputs) BY <1>6
    <3>2. x \in GraphNode
      <4>1. x \in 0..3 BY <1>3, <1>6, <3>1, NodeShape
      <4> QED BY <2>9, <4>1 DEF GraphNode
    <3>3. CASE p = TopCall.next
      <4>1. x = Pulling BY <1>6, <3>3
      <4> QED BY <2>5, <2>9, <3>2, <4>1 DEF Ran
    <3>4. CASE p \in 1..(TopCall.next - 1)
      <4>1. x \in Ran BY <1>1, <1>7, <2>9, <3>4
      <4>2. Done(1) /\ TopCall.frames = mLastFrameCount[1] BY <1>10, <2>9, <3>4
      <4>3. Pulling = 0 => Returned = mLastFrameCount[1]
        <5> SUFFICES ASSUME Pulling = 0 PROVE Returned = mLastFrameCount[1] OBVIOUS
        <5>1. mLastFrameCount[1] <= FgPort /\ mLastFrameCount[1] \in Nat BY <1>4, <1>5, <1>9, <4>2
        <5>2. Asked = mLastFrameCount[1] BY <1>6, <4>2, <5>1 DEF Asked, Min2
        <5> QED BY <2>6, <5>2
      <4> QED BY <2>5, <4>1, <4>3
    <3>5. p = TopCall.next \/ p \in 1..(TopCall.next - 1) BY <1>6
    <3> QED BY <3>3, <3>4, <3>5
  <2>10. ASSUME NEW i \in 1..n
         PROVE  LET f == calls'[i]
                    inputs == graph[f.node].inputs
                IN  /\ i > 1 => f.frames <= FgPort
                    /\ \A p \in 1..(f.next - 1) :
                         inputs[p] # 0 => inputs[p] \in Ran /\ f.frames = mLastFrameCount[1]
                    /\ (\A p \in 1..(f.next - 1) : inputs[p] = 0) => f.frames > 0 \/ Done(1)
    <3>1. CASE i = n
      <4>1. calls'[i].frames = Returned /\ calls'[i].next = TopCall.next + 1 /\ calls'[i].node = TopCall.node
        BY <1>1, <2>1, <3>1
      <4>2. (TopCall.next + 1) - 1 = TopCall.next BY <1>6
      <4> QED BY <2>7, <2>8, <2>9, <4>1, <4>2
    <3>2. CASE i \in 1..(n - 1)
      <4>1. calls'[i] = calls[i] /\ i \in 1..n BY <1>1, <2>1, <3>2
      <4> QED BY <1>7, <4>1
    <3> QED BY <2>2, <3>1, <3>2
  <2>11. Pulls' BY <1>2, <1>3, <1>14, <2>1, <2>10 DEF Pulls
  <2> QED BY <1>16, <1>17, <1>18, <2>4, <2>11 DEF Flows
<1> QED BY <1>19, <1>20

\* What the top call has pulled has run, or it is the source and nothing has.
LEMMA ProcessFinds ==
  ASSUME FgTyped, Stacked, Acyclic(graph), Flows, Process
  PROVE  /\ TopCall.node # 1 =>
              /\ Done(1) /\ Given = mLastFrameCount[1] /\ Given <= FgPort
              /\ \A x \in Inputs(TopCall.node) : Holding(x, Given, Before)
         /\ TopCall.node = 1 => TopCall.frames > 0 /\ \A m \in Used \ Sink : ~Done(m)
<1> DEFINE n == Len(calls)
           inputs == graph[TopCall.node].inputs
<1>1. calls # <<>> /\ n \in DOMAIN calls /\ TopCall = calls[n] /\ graph \in Graphs
      /\ TopCall.node \in GraphNode /\ TopCall.node \in Used /\ TopCall.next = Len(inputs) + 1
      /\ (TopCall.node # 1 => Given = TopCall.frames)
  BY ProcessIs, CallsAre DEF TopCall
<1> HIDE DEF n
<1>2. Len(inputs) \in 0..2 /\ (TopCall.node = 1 <=> Len(inputs) = 0)
      /\ (TopCall.node # 1 => \E p \in 1..Len(inputs) : inputs[p] # 0)
      /\ Inputs(TopCall.node) = {inputs[p] : p \in 1..Len(inputs)} \ {0}
      /\ Inputs(TopCall.node) \subseteq 1..3
  BY <1>1, NodeShape
<1>3. TopCall.next - 1 = Len(inputs) BY <1>1, <1>2
<1>4. /\ \A p \in 1..Len(inputs) :
           inputs[p] # 0 => inputs[p] \in Ran /\ TopCall.frames = mLastFrameCount[1]
      /\ (\A p \in 1..Len(inputs) : inputs[p] = 0) => TopCall.frames > 0 \/ Done(1)
  BY <1>1, <1>3 DEF Flows, Pulls
<1>5. \A m \in Used \ Sink : Done(m) => Done(1) /\ mLastFrameCount[m] = mLastFrameCount[1]
                                       /\ Holding(m, mLastFrameCount[1], Before)
  BY <1>1 DEF Flows, RanWell
<1>6. \A x \in Inputs(TopCall.node) : x \in Used \ Sink
  <2>1. \A x \in 1..3 : x \notin Sink BY DEF Sink
  <2> QED BY <1>1, <1>2, <2>1, UsedClosed
<1>7. CASE TopCall.node # 1
  <2>1. PICK q \in 1..Len(inputs) : inputs[q] # 0 BY <1>2, <1>7
  <2>2. inputs[q] \in Inputs(TopCall.node) BY <1>2, <2>1
  <2>3. Done(1) /\ TopCall.frames = mLastFrameCount[1]
    <3>1. Done(inputs[q]) /\ TopCall.frames = mLastFrameCount[1] BY <1>4, <2>1 DEF Ran
    <3> QED BY <1>5, <1>6, <2>2, <3>1
  <2>4. mLastFrameCount[1] <= FgPort BY <1>1, <2>3 DEF Flows, SourceGave
  <2>5. ASSUME NEW x \in Inputs(TopCall.node) PROVE Holding(x, Given, Before)
    <3>1. PICK p \in 1..Len(inputs) : x = inputs[p] /\ x # 0 BY <1>2, <2>5
    <3>2. Done(x) BY <1>4, <3>1 DEF Ran
    <3> QED BY <1>1, <1>5, <1>6, <1>7, <2>3, <3>2
  <2> QED BY <1>1, <1>7, <2>3, <2>4, <2>5
<1>8. CASE TopCall.node = 1
  <2>1. ~Done(1) BY <1>1, <1>8 DEF Done, OnStack
  <2>2. \A p \in 1..Len(inputs) : inputs[p] = 0 BY <1>2, <1>8
  <2> QED BY <1>4, <1>5, <1>8, <2>1, <2>2
<1> QED BY <1>7, <1>8

LEMMA SinkProcessFlows ==
  ASSUME FgTyped, Stacked, Acyclic(graph), Flows, Process, TopCall.node \in Sink
  PROVE  Flows'
<1>1. /\ calls # <<>> /\ calls' = <<>> /\ sourced' = sourced
      /\ fgShort' = (Given = 0) /\ Given \in Nat
      /\ received' = received \o Cut(InputBuffer(reader, 1), Given, graph[reader].channels)
      /\ UNCHANGED <<fgConfig, refills>> /\ TopCall.node # 1 /\ TopCall.node = reader
  <2>1. TopCall.node # 1 BY DEF Sink
  <2>2. TopCall.node = reader BY CallsAre, ProcessIs DEF TopCall
  <2> QED BY <2>1, <2>2, ProcessIs
<1>2. Done(1) /\ Given = mLastFrameCount[1] /\ Given <= FgPort
      /\ \A x \in Inputs(reader) : Holding(x, Given, Before)
  BY <1>1, ProcessFinds
<1>3. Given <= sourced /\ (Given = 0 => sourced = refills * FgFrames)
  BY <1>1, <1>2 DEF Flows, SourceGave
<1>4. Before = sourced - Given /\ Before \in Nat /\ Before + Given = sourced
  <2>1. Before = sourced - Given BY <1>1, <1>2 DEF Before
  <2>2. sourced \in Nat BY DEF FgTyped
  <2> QED BY <1>1, <1>3, <2>1, <2>2
<1>5. Before' = sourced BY <1>1 DEF Before
<1>6. Holding(graph[reader].inputs[1], Given, Before)
  <2>1. PICK x \in 1..3 : graph[reader].inputs = <<x>> BY GraphShape DEF FgTyped
  <2>2. Inputs(reader) = {x}
    <3>1. Range(<<x>>) = {x} BY DEF Range
    <3> QED BY <2>1, <3>1 DEF Inputs
  <2> QED BY <1>2, <2>1, <2>2
<1> DEFINE SourceFrame(k) == [c \in 1..graph[reader].channels |-> Source(k, c)]
<1>7. Cut(InputBuffer(reader, 1), Given, graph[reader].channels)
        = [i \in 1..Given |-> SourceFrame(Before + i)]
  BY <1>1, <1>2, <1>4, <1>6, CutIs
<1>8. received = [k \in 1..Before |-> SourceFrame(k)] BY DEF Flows, Received
<1>9. received' = [k \in 1..sourced |-> SourceFrame(k)]
  <2> HIDE DEF SourceFrame
  <2> DEFINE f == [k \in Nat |-> SourceFrame(k)]
  <2>1. [k \in 1..Before |-> f[k]] \o [i \in 1..Given |-> f[Before + i]]
          = [k \in 1..(Before + Given) |-> f[k]]
    <3>1. Before \in Nat /\ Given \in Nat BY <1>1, <1>4
    <3> HIDE DEF f
    <3> QED BY ONLY <3>1, Joining
  <2>2. [k \in 1..Before |-> f[k]] = [k \in 1..Before |-> SourceFrame(k)] BY <1>4
  <2>3. [i \in 1..Given |-> f[Before + i]] = [i \in 1..Given |-> SourceFrame(Before + i)] BY <1>1, <1>4
  <2>4. [k \in 1..(Before + Given) |-> f[k]] = [k \in 1..(Before + Given) |-> SourceFrame(k)]
    BY <1>1, <1>4
  <2> HIDE DEF f
  <2>5. received \o [i \in 1..Given |-> SourceFrame(Before + i)]
          = [k \in 1..sourced |-> SourceFrame(k)]
    BY <1>4, <1>8, <2>1, <2>2, <2>3, <2>4
  <2>6. received' = received \o [i \in 1..Given |-> SourceFrame(Before + i)] BY <1>1, <1>7
  <2> QED BY <2>5, <2>6
<1>10. \A k, c : Source(k, c)' = Source(k, c)
  BY <1>1 DEF Source, SourceChannel, Meant, InputChannels, fgConfig
<1>11. Received'
  <2>1. graph' = graph /\ reader' = reader /\ refills' = refills BY <1>1 DEF fgConfig
  <2>2. fgShort' => sourced' = refills' * FgFrames BY <1>1, <1>3, <2>1
  <2>3. received' = [k \in 1..Before' |-> [c \in 1..graph'[reader'].channels |-> Source(k, c)']]
    BY <1>5, <1>9, <1>10, <2>1
  <2> QED BY <2>2, <2>3 DEF Received
<1>12. DOMAIN calls' = {} BY <1>1
<1> QED BY <1>1, <1>11, <1>12 DEF Flows, Descends, Pulls, RanWell, SourceGave

\* The node that returns has run from now on, with the frames of this pull.
LEMMA ReturnIs ==
  ASSUME FgTyped, Stacked, Acyclic(graph), ~FgWraps, Flows, Process, TopCall.node \notin Sink
  PROVE  /\ \A m \in GraphNode : Done(m)' <=> Done(m) \/ m = TopCall.node
         /\ Done(1)' /\ Before' = Before
         /\ mLastFrameCount'[1] = Given /\ mLastFrameCount'[TopCall.node] = Given
         /\ Given <= FgPort
         /\ \A i \in 1..Given, c \in 1..graph[TopCall.node].channels :
              Filled(TopCall.node, Given)[(i - 1) * graph[TopCall.node].channels + c]
                = Meaning(TopCall.node, c, Before + i)
<1> DEFINE n == Len(calls) - 1
           t == TopCall.node
           h == graph[t].channels
<1>1. /\ calls # <<>> /\ calls' # <<>> /\ n \in Nat \ {0} /\ DOMAIN calls' = 1..n
      /\ (\A i \in 1..(n - 1) : calls'[i] = calls[i])
      /\ calls'[n] = [node |-> calls[n].node, next |-> calls[n].next + 1, frames |-> Given,
                      count |-> calls[n].count]
      /\ t \in GraphNode /\ t \in Used /\ Given \in Nat
      /\ mLastFrameCount' = [mLastFrameCount EXCEPT ![t] = Given]
      /\ sourced' = IF t = 1 THEN sourced + Given ELSE sourced
      /\ UNCHANGED <<fgConfig, mLastCallCount, refills, fgReads>>
  BY ProcessIs
<1>2. DOMAIN calls = 1..(n + 1) /\ TopCall = calls[n + 1] /\ graph \in Graphs
  <2>1. Len(calls) \in Nat /\ DOMAIN calls = 1..Len(calls) /\ n + 1 = Len(calls) BY CallsAre
  <2> QED BY <2>1, CallsAre DEF TopCall
<1> HIDE DEF n
<1>3. Count' = Count BY ProcessGeneral
<1>4. /\ t # 1 => /\ Done(1) /\ Given = mLastFrameCount[1] /\ Given <= FgPort
                  /\ \A x \in Inputs(t) : Holding(x, Given, Before)
      /\ t = 1 => TopCall.frames > 0 /\ \A m \in Used \ Sink : ~Done(m)
  BY ProcessFinds
<1>5. mLastFrameCount \in [GraphNode -> Nat] /\ sourced \in Nat /\ 1 \in GraphNode
  BY DEF FgTyped, GraphNode
<1>6. mLastCallCount[t] = Count /\ \A i \in 1..n : calls[i].node # t
  <2>1. n + 1 \in 1..(n + 1) /\ \A i \in 1..n : i \in 1..(n + 1) /\ i # n + 1 BY <1>1
  <2> QED BY <1>2, <2>1 DEF Stacked
<1>7. \A i \in 1..n : calls'[i].node = calls[i].node
  <2>1. \A i \in 1..n : i = n \/ i \in 1..(n - 1) BY <1>1
  <2>2. calls'[n].node = calls[n].node BY <1>1
  <2> QED BY <1>1, <2>1, <2>2
<1>8. \A m : OnStack(m) <=> OnStack(m)' \/ m = t
  <2>1. \A i : i \in 1..(n + 1) <=> i \in 1..n \/ i = n + 1 BY <1>1
  <2> QED BY <1>1, <1>2, <1>7, <2>1 DEF OnStack
<1> HIDE DEF t
<1>10. \A m \in GraphNode : Done(m)' <=> Done(m) \/ m = t
  <2>1. \A m : m = t => ~OnStack(m)' BY <1>1, <1>6, <1>7 DEF OnStack
  <2> QED BY <1>1, <1>3, <1>6, <1>8, <2>1 DEF Done
<1>11. Done(1)' BY <1>4, <1>5, <1>10
<1>12. mLastFrameCount'[t] = Given /\ mLastFrameCount'[1] = Given
       /\ (t # 1 => mLastFrameCount'[1] = mLastFrameCount[1])
  BY <1>1, <1>4, <1>5
<1>13. Before' = Before /\ (t = 1 => Before = sourced) /\ Before \in Nat
  <2>1. Before' = sourced' - Given BY <1>1, <1>11, <1>12 DEF Before
  <2>2. CASE t = 1
    <3>1. ~Done(1)
      <4>1. 1 \in Used \ Sink BY <1>2, SourceUsed DEF Sink
      <4> QED BY <1>4, <2>2, <4>1
    <3> QED BY <1>1, <1>5, <2>1, <2>2, <3>1 DEF Before
  <2>3. CASE t # 1
    <3>1. Before = sourced - mLastFrameCount[1] BY <1>1, <1>4, <2>3 DEF Before
    <3>2. mLastFrameCount[1] <= sourced BY <1>1, <1>4, <2>3 DEF Flows, SourceGave
    <3> QED BY <1>1, <1>4, <1>5, <2>1, <2>3, <3>1, <3>2
  <2> QED BY <2>2, <2>3
<1>14. Given <= FgPort
  <2>1. CASE t = 1
    <3>1. TopCall.frames <= FgPort
      <4>1. n + 1 \in 1..(n + 1) /\ n + 1 > 1 BY <1>1
      <4> QED BY <1>2, <4>1 DEF Flows, Pulls
    <3>2. Given <= TopCall.frames /\ TopCall.frames \in Nat BY ProcessIs DEF PullCall
    <3> QED BY <1>1, <3>1, <3>2, FlowGraphAssumption
  <2> QED BY <1>4, <2>1
<1>15. ASSUME NEW i \in 1..Given, NEW c \in 1..h
       PROVE  Filled(t, Given)[(i - 1) * h + c] = Meaning(t, c, Before + i)
  <2>1. Filled(t, Given)[(i - 1) * h + c] = Processed(t, i - 1, c - 1)
    BY <1>1, <1>14, FilledIs
  <2>2. CASE t = 1
    <3>1. Processed(1, i - 1, c - 1) = <<sourced + (i - 1) + 1, (c - 1) + 1>>
      BY <1>2, GraphShape DEF Processed, Sourced
    <3>2. h \in 1..3 BY <1>1, <1>2, NodeShape
    <3> HIDE DEF h
    <3>3. sourced + (i - 1) + 1 = Before + i /\ (c - 1) + 1 = c /\ c # 0
      BY <1>1, <1>5, <1>13, <2>2, <3>2
    <3>4. Meaning(1, c, Before + i) = <<Before + i, c>>
      BY <1>2, <3>3, FirstChannel DEF Meaning
    <3> QED BY <2>1, <2>2, <3>1, <3>3, <3>4 DEF h
  <2>3. CASE t # 1
    <3>1. t \in Middle BY <1>1, <2>3 DEF t, GraphNode, Middle, Sink
    <3>2. \A x \in Inputs(t) : Holding(x, Given, Before) BY <1>4, <2>3
    <3>3. Processed(t, i - 1, c - 1) = Meaning(t, c, Before + i)
      BY <1>1, <1>13, <1>14, <3>1, <3>2, ProcessedIs
    <3> QED BY <2>1, <3>3
  <2> QED BY <2>2, <2>3
<1> QED BY <1>10, <1>11, <1>12, <1>13, <1>14, <1>15 DEF t

LEMMA ReturnFlows ==
  ASSUME FgTyped, Stacked, Acyclic(graph), ~FgWraps, Flows, Process, TopCall.node \notin Sink
  PROVE  Flows'
<1> DEFINE n == Len(calls) - 1
           t == TopCall.node
<1>1. /\ calls # <<>> /\ calls' # <<>> /\ n \in Nat \ {0} /\ DOMAIN calls' = 1..n
      /\ (\A i \in 1..(n - 1) : calls'[i] = calls[i])
      /\ calls'[n] = [node |-> calls[n].node, next |-> calls[n].next + 1, frames |-> Given,
                      count |-> calls[n].count]
      /\ t \in GraphNode /\ t \in Used /\ Given \in Nat
      /\ mLastFrameCount' = [mLastFrameCount EXCEPT ![t] = Given]
      /\ sourced' = (IF t = 1 THEN sourced + Given ELSE sourced)
      /\ port' = [port EXCEPT ![t] = Filled(t, Given)]
      /\ sourced' \in Nat /\ sourced' <= refills * FgFrames
      /\ UNCHANGED <<fgConfig, mLastCallCount, refills, fgReads>> /\ UNCHANGED readVars
  BY ProcessIs
<1>2. DOMAIN calls = 1..(n + 1) /\ TopCall = calls[n + 1] /\ graph \in Graphs
  <2>1. Len(calls) \in Nat /\ DOMAIN calls = 1..Len(calls) /\ n + 1 = Len(calls) BY CallsAre
  <2> QED BY <2>1, CallsAre DEF TopCall
<1> HIDE DEF n
<1>3. graph' = graph /\ reader' = reader /\ refills' = refills /\ Used' = Used
      /\ (\A m, c, k : Meaning(m, c, k)' = Meaning(m, c, k)) /\ \A m : Rank(m)' = Rank(m)
  BY <1>1 DEF fgConfig, Used, Meaning, SourceChannel, Meant, InputChannels, Rank, Inputs
<1>4. /\ \A m \in GraphNode : Done(m)' <=> Done(m) \/ m = t
      /\ Done(1)' /\ Before' = Before /\ Given <= FgPort
      /\ mLastFrameCount'[1] = Given /\ mLastFrameCount'[t] = Given
      /\ \A i \in 1..Given, c \in 1..graph[t].channels :
           Filled(t, Given)[(i - 1) * graph[t].channels + c] = Meaning(t, c, Before + i)
  BY ReturnIs
<1>5. /\ t # 1 => Done(1) /\ Given = mLastFrameCount[1]
      /\ t = 1 => TopCall.frames > 0 /\ \A m \in Used \ Sink : ~Done(m)
  BY ProcessFinds
<1>6. mLastFrameCount \in [GraphNode -> Nat] /\ sourced \in Nat /\ 1 \in GraphNode
      /\ sourced <= refills * FgFrames /\ DOMAIN port = GraphNode
  BY DEF FgTyped, GraphNode
<1>7. \A i \in 1..n : i = n \/ i \in 1..(n - 1) BY <1>1
<1>8. \A i \in 1..n : calls'[i].node = calls[i].node
  <2>1. calls'[n].node = calls[n].node BY <1>1
  <2> QED BY <1>1, <1>7, <2>1
<1>9. t \notin Sink OBVIOUS
<1> HIDE DEF t
<1>10. Descends'
  <2>1. \A i, j \in 1..(n + 1) : i < j => Rank(calls[j].node) < Rank(calls[i].node)
    BY <1>2 DEF Flows, Descends
  <2>2. \A i \in 1..n : i \in 1..(n + 1) BY <1>1
  <2> QED BY <1>1, <1>3, <1>8, <2>1, <2>2 DEF Descends
<1>11. Received'
  <2>1. \A k, c : Source(k, c)' = Source(k, c)
    BY <1>3 DEF Source, SourceChannel, Meant, InputChannels
  <2>2. received = [k \in 1..Before |-> [c \in 1..graph[reader].channels |-> Source(k, c)]]
        /\ (fgShort => sourced = refills * FgFrames)
    BY DEF Flows, Received
  <2>3. received' = received /\ fgShort' = fgShort BY <1>1 DEF readVars
  <2>4. fgShort' => sourced' = refills' * FgFrames
    <3> SUFFICES ASSUME fgShort PROVE sourced' = refills * FgFrames BY <1>3, <2>3
    <3>1. sourced = refills * FgFrames BY <2>2
    <3> DEFINE all == refills * FgFrames
    <3>2. all = sourced /\ sourced' <= all BY <1>1, <3>1
    <3> HIDE DEF all
    <3>3. sourced' >= sourced BY <1>1, <1>6 DEF t
    <3>4. sourced' = all BY <1>1, <1>6, <3>2, <3>3
    <3> QED BY <3>4 DEF all
  <2>5. received' = [k \in 1..Before' |-> [c \in 1..graph'[reader'].channels |-> Source(k, c)']]
    BY <1>3, <1>4, <2>1, <2>2, <2>3
  <2> QED BY <2>4, <2>5 DEF Received
<1>12. SourceGave'
  <2>1. Given <= sourced' /\ (Given = 0 => sourced' = refills * FgFrames)
    <3>1. CASE t = 1
      <4>1. Given <= sourced' BY <1>1, <1>6, <3>1 DEF t
      <4>2. ASSUME Given = 0 PROVE sourced' = refills * FgFrames
        <5> DEFINE all == refills * FgFrames
        <5>1. Given = Min2(TopCall.frames, all - sourced) /\ TopCall.frames > 0
          BY <1>5, <3>1 DEF Given, Left, t
        <5>2. sourced' = sourced BY <1>1, <1>6, <3>1, <4>2 DEF t
        <5>3. all - sourced = 0 BY <4>2, <5>1 DEF Min2
        <5>4. all \in Int BY <1>3, FlowGraphAssumption DEF FgTyped
        <5> HIDE DEF all
        <5>5. all = sourced BY <1>6, <5>3, <5>4
        <5> QED BY <5>2, <5>5 DEF all
      <4> QED BY <4>1, <4>2
    <3>2. CASE t # 1
      <4>1. Done(1) /\ Given = mLastFrameCount[1] /\ sourced' = sourced BY <1>1, <1>5, <3>2 DEF t
      <4> QED BY <1>1, <4>1 DEF Flows, SourceGave
    <3> QED BY <3>1, <3>2
  <2> QED BY <1>3, <1>4, <2>1 DEF SourceGave
<1>13. \A m \in GraphNode : m # t => mLastFrameCount'[m] = mLastFrameCount[m] /\ port'[m] = port[m]
  BY <1>1, <1>6 DEF t
<1>14. RanWell'
  <2> SUFFICES ASSUME NEW m \in Used \ Sink, Done(m)'
               PROVE  /\ mLastFrameCount'[m] = Given
                      /\ \A i \in 1..Given, c \in 1..graph[m].channels :
                           port'[m][(i - 1) * graph[m].channels + c] = Meaning(m, c, Before + i)
    BY <1>3, <1>4 DEF RanWell, Holding
  <2>1. m \in GraphNode BY <1>2, UsedClosed
  <2>2. CASE m = t
    <3>1. port'[t] = Filled(t, Given) BY <1>1, <1>6 DEF t
    <3> QED BY <1>3, <1>4, <2>2, <3>1 DEF Holding
  <2>3. CASE m # t
    <3>1. Done(m) BY <1>4, <2>1, <2>3
    <3>2. t # 1 BY <1>5, <3>1
    <3>3. mLastFrameCount[m] = mLastFrameCount[1] /\ Holding(m, mLastFrameCount[1], Before)
      BY <1>1, <3>1 DEF Flows, RanWell
    <3>4. mLastFrameCount[1] = Given BY <1>5, <3>2
    <3>5. port'[m] = port[m] /\ mLastFrameCount'[m] = mLastFrameCount[m] BY <1>13, <2>1, <2>3
    <3> QED BY <1>3, <1>4, <3>3, <3>4, <3>5 DEF Holding
  <2> QED BY <2>2, <2>3
<1>15. \A m \in GraphNode : m \in Ran' <=> m \in Ran \/ m = t BY <1>4 DEF Ran
<1>16. ASSUME NEW i \in 1..n, NEW p \in 1..(calls[i].next - 1), graph[calls[i].node].inputs[p] # 0
       PROVE  graph[calls[i].node].inputs[p] \in Ran' /\ calls[i].frames = Given
  <2> DEFINE x == graph[calls[i].node].inputs[p]
  <2>1. i \in 1..(n + 1) BY <1>1
  <2>2. x \in Ran /\ calls[i].frames = mLastFrameCount[1] BY <1>2, <1>16, <2>1 DEF Flows, Pulls
  <2>3. x \in GraphNode /\ Done(x) BY <2>2 DEF Ran
  <2>4. x \in Used \ Sink
    <3>1. calls[i].node \in Used /\ calls[i].node \in GraphNode
          /\ calls[i].next \in 1..(Len(graph[calls[i].node].inputs) + 1)
      BY <1>2, <2>1, CallsAre DEF Stacked
    <3>2. Len(graph[calls[i].node].inputs) \in 0..2 BY <1>2, <3>1, NodeShape
    <3>3. p \in 1..Len(graph[calls[i].node].inputs) BY <3>1, <3>2
    <3>4. x \in Inputs(calls[i].node) /\ x \in 1..3 BY <1>2, <1>16, <3>1, <3>3, NodeShape
    <3> QED BY <1>2, <3>1, <3>4, UsedClosed DEF Sink
  <2>5. t # 1 BY <1>5, <2>3, <2>4
  <2> QED BY <1>5, <1>15, <2>2, <2>3, <2>5
<1>17. ASSUME NEW i \in 1..n
       PROVE  LET f == calls'[i]
                  inputs == graph[f.node].inputs
              IN  /\ i > 1 => f.frames <= FgPort
                  /\ \A p \in 1..(f.next - 1) : inputs[p] # 0 => inputs[p] \in Ran' /\ f.frames = Given
  <2>1. CASE i = n
    <3>1. calls'[i].frames = Given /\ calls'[i].node = calls[n].node
          /\ calls'[i].next = calls[n].next + 1
      BY <1>1, <2>1
    <3>2. calls[n].next \in Nat \ {0} /\ graph[calls[n].node].inputs[calls[n].next] = t
      <4>1. n \in 1..(n + 1) /\ n < n + 1 /\ Len(calls) = n + 1
        <5>1. n + 1 = Len(calls) BY CallsAre DEF n
        <5> QED BY <1>1, <5>1
      <4>2. calls[n].next \in 1..(Len(graph[calls[n].node].inputs) + 1)
            /\ graph[calls[n].node].inputs[calls[n].next] = calls[n + 1].node
        BY <1>2, <4>1 DEF Stacked
      <4>3. calls[n].next \in Nat BY <1>2, <4>1, CallsAre
      <4>4. Len(graph[calls[n].node].inputs) \in 0..2
        BY <1>2, <4>1, CallsAre, NodeShape
      <4> QED BY <1>2, <4>2, <4>3, <4>4 DEF t
    <3>3. (calls[n].next + 1) - 1 = calls[n].next
          /\ \A p \in 1..calls[n].next : p = calls[n].next \/ p \in 1..(calls[n].next - 1)
      BY <3>2
    <3>4. t \in Ran' BY <1>1, <1>15 DEF t
    <3> QED BY <1>4, <1>16, <2>1, <3>1, <3>2, <3>3, <3>4
  <2>2. CASE i \in 1..(n - 1)
    <3>1. calls'[i] = calls[i] /\ i \in 1..(n + 1) BY <1>1, <2>2
    <3>2. i > 1 => calls[i].frames <= FgPort BY <1>2, <3>1 DEF Flows, Pulls
    <3> QED BY <1>16, <3>1, <3>2
  <2> QED BY <1>7, <2>1, <2>2
<1>18. Pulls' BY <1>1, <1>3, <1>4, <1>17 DEF Pulls
<1> QED BY <1>10, <1>11, <1>12, <1>14, <1>18 DEF Flows

\* What is on the stack has been called by this pull, and is not called again.
LEMMA EntersOnce ==
  ASSUME FgTyped, Stacked, PullInput, Enters
  PROVE  ~OnStack(Pulling)
<1>1. mLastCallCount[Pulling] < Count BY PullInputIs
<1>2. \A i \in DOMAIN calls : mLastCallCount[calls[i].node] = Count BY DEF Stacked
<1>3. Count \in Int
  <2>1. reader \in GraphNode BY DEF FgTyped, Sink, GraphNode
  <2> QED BY <2>1 DEF FgTyped, Count
<1> QED BY <1>1, <1>2, <1>3 DEF OnStack

\* What is on the stack, whatever the graph
LEMMA FgNextGeneral ==
  FgTyped /\ Stacked /\ [FgNext]_fgVars => FgTyped' /\ Stacked'
<1> SUFFICES ASSUME FgTyped, Stacked, [FgNext]_fgVars PROVE FgTyped' /\ Stacked' OBVIOUS
<1>1. CASE \E n \in FgReads : FgRead(n) BY <1>1, FgReadGeneral
<1>2. CASE SinkPulls BY <1>2, SinkPullsGeneral
<1>3. CASE PullInput BY <1>3, EntersOnce, PullInputGeneral
<1>4. CASE Process BY <1>4, ProcessGeneral
<1>5. CASE SetData BY <1>5, SetDataGeneral
<1>6. CASE ChangeSink BY <1>6, ChangeSinkGeneral
<1>7. CASE UNCHANGED fgVars
  BY <1>7 DEF FgTyped, Stacked, Used, Count, fgVars, fgConfig, nodeVars, readVars
<1> QED BY <1>1, <1>2, <1>3, <1>4, <1>5, <1>6, <1>7 DEF FgNext

LEMMA GraphStays == [FgNext]_fgVars => graph' = graph
BY DEF FgNext, FgRead, SinkPulls, PullInput, Process, SetData, ChangeSink, fgVars, fgConfig

LEMMA FgNextFlows ==
  ~FgWraps /\ FgTyped /\ Stacked /\ Acyclic(graph) /\ Flows /\ [FgNext]_fgVars => Flows'
<1> SUFFICES ASSUME ~FgWraps, FgTyped, Stacked, Acyclic(graph), Flows, [FgNext]_fgVars
             PROVE  Flows'
  OBVIOUS
<1>1. CASE \E n \in FgReads : FgRead(n) BY <1>1, FgReadFlows
<1>2. CASE SinkPulls BY <1>2, SinkPullsFlows
<1>3. CASE PullInput BY <1>3, PullInputFlows
<1>4. CASE Process BY <1>4, SinkProcessFlows, ReturnFlows
<1>5. CASE SetData BY <1>5, SetDataFlows
<1>6. CASE ChangeSink BY <1>6, ChangeSinkFlows
<1>7. CASE UNCHANGED fgVars
  <2>1. UNCHANGED <<graph, reader, mLastCallCount, mLastFrameCount, sourced, port, refills, calls,
                    fgAsked, fgShort, received>>
    BY <1>7 DEF fgVars, fgConfig, nodeVars, readVars
  <2>2. \A m, c, k : Meaning(m, c, k)' = Meaning(m, c, k)
    BY <2>1 DEF Meaning, SourceChannel, Meant, InputChannels
  <2>3. \A k, c : Source(k, c)' = Source(k, c)
    BY <2>1 DEF Source, SourceChannel, Meant, InputChannels
  <2>4. (\A m : Done(m)' <=> Done(m)) /\ Ran' = Ran /\ Before' = Before /\ Used' = Used
        /\ \A m : Rank(m)' = Rank(m)
    BY <2>1 DEF Done, Ran, OnStack, Count, Before, Used, Rank, Inputs
  <2>5. Descends' BY <2>1, <2>4 DEF Flows, Descends
  <2>6. Pulls' BY <2>1, <2>4 DEF Flows, Pulls
  <2>7. SourceGave' BY <2>1, <2>4 DEF Flows, SourceGave
  <2>8. RanWell'
    <3> SUFFICES ASSUME calls # <<>>, NEW m \in Used \ Sink, Done(m)
                 PROVE  Done(1) /\ mLastFrameCount[m] = mLastFrameCount[1]
                        /\ Holding(m, mLastFrameCount[1], Before)'
      BY <2>1, <2>4 DEF RanWell
    <3>1. Done(1) /\ mLastFrameCount[m] = mLastFrameCount[1]
          /\ Holding(m, mLastFrameCount[1], Before)
      BY DEF Flows, RanWell
    <3> QED BY <2>1, <2>2, <2>4, <3>1 DEF Holding
  <2>9. Received' BY <2>1, <2>3, <2>4 DEF Flows, Received
  <2> QED BY <2>5, <2>6, <2>7, <2>8, <2>9 DEF Flows
<1> QED BY <1>1, <1>2, <1>3, <1>4, <1>5, <1>6, <1>7 DEF FgNext
-----------------------------------------------------------------------------
(* With a way back: no frame *)

\* A node with two inputs takes a single channel from each, and makes two.
LEMMA TwoInputs ==
  ASSUME graph \in Graphs, NEW n \in Used, NEW p \in 1..Len(graph[n].inputs),
         NEW q \in 1..Len(graph[n].inputs), p # q
  PROVE  /\ n \in Middle /\ Len(graph[n].inputs) = 2 /\ graph[n].channels = 2
         /\ \A o \in 1..Len(graph[n].inputs) :
              graph[n].inputs[o] # 0 => graph[graph[n].inputs[o]].channels = 1
<1> DEFINE inputs == graph[n].inputs
<1>1. n \in GraphNode BY UsedClosed
<1>2. Len(inputs) \in 0..2 /\ (n = 1 <=> Len(inputs) = 0) BY <1>1, NodeShape
<1>3. Len(inputs) = 2 /\ n # 1
  <2> DEFINE k == Len(inputs)
  <2>1. k \in 0..2 /\ (n = 1 <=> k = 0) /\ p \in 1..k /\ q \in 1..k BY <1>2
  <2> HIDE DEF k
  <2>2. k = 2 /\ n # 1 BY <2>1
  <2> QED BY <2>2 DEF k
<1>4. n \in Middle
  <2>1. n \in Sink => Len(inputs) = 1
    <3> SUFFICES ASSUME n \in Sink PROVE Len(inputs) = 1 OBVIOUS
    <3>1. PICK x \in 1..3 : inputs = <<x>> BY GraphShape
    <3> QED BY <3>1
  <2> QED BY <1>1, <1>3, <2>1 DEF GraphNode, Middle, Sink
<1>5. graph[n].kind = "manyToMulti"
  <2>1. graph[n].kind # "manyToMulti" => Len(inputs) = 1
    <3> SUFFICES ASSUME graph[n].kind # "manyToMulti" PROVE Len(inputs) = 1 OBVIOUS
    <3>1. PICK x \in 1..3 : inputs = <<x>> BY <1>4, MiddleShape
    <3> QED BY <3>1
  <2> QED BY <1>3, <2>1
<1>6. graph[n].channels = 2 BY <1>4, <1>5, MiddleShape
<1>7. ASSUME NEW o \in 1..Len(inputs), inputs[o] # 0 PROVE graph[inputs[o]].channels = 1
  BY <1>3, <1>5, <1>7, Connected
<1> QED BY <1>3, <1>4, <1>6, <1>7

\* Where the graph comes back, every node but the source has an input from a
\* node between, and one at most is connected to the source.
LEMMA ComesBack ==
  ASSUME graph \in Graphs, ~Acyclic(graph)
  PROVE  /\ \A n \in Used : n # 1 => \E p \in 1..Len(graph[n].inputs) : graph[n].inputs[p] \in Middle
         /\ \A m, n \in Used : 1 \in Inputs(m) /\ 1 \in Inputs(n) => m = n
         /\ \A n \in Used : \A p, q \in 1..Len(graph[n].inputs) :
              graph[n].inputs[p] = 1 /\ graph[n].inputs[q] = 1 => p = q
<1>1. PICK b \in Middle : b \in Upstream(graph, Inputs(b)) BY DEF Acyclic, Inputs
<1>2. PICK x \in 1..3 : \A n \in Sink : graph[n].inputs = <<x>> BY GraphShape
<1>3. \A n \in Sink : Inputs(n) = {x} /\ Len(graph[n].inputs) = 1 /\ graph[n].inputs[1] = x
  <2>1. Range(<<x>>) = {x} /\ Len(<<x>>) = 1 BY DEF Range
  <2> QED BY <1>2, <2>1 DEF Inputs
<1>4. \A n \in GraphNode : Inputs(n) \subseteq 1..3
        /\ Inputs(n) = {graph[n].inputs[p] : p \in 1..Len(graph[n].inputs)} \ {0}
        /\ Len(graph[n].inputs) \in 0..2 /\ (n = 1 <=> Len(graph[n].inputs) = 0)
  BY NodeShape
<1>5. Inputs(1) = {} BY <1>4 DEF GraphNode
<1>6. Used \subseteq GraphNode /\ Sink \subseteq Used BY UsedClosed
<1>7. \A S \in SUBSET GraphNode : \A T \in SUBSET GraphNode :
        T \subseteq S /\ (\A n \in S : Inputs(n) \subseteq S) => Upstream(graph, T) \subseteq S
  BY UpstreamLeast
<1>8. \A S \in SUBSET GraphNode : Sink \subseteq S /\ (\A n \in S : Inputs(n) \subseteq S) => Used \subseteq S
  BY <1>7 DEF Used, Sink, GraphNode
<1>9. b \in Used
  <2> SUFFICES ASSUME b \notin Used PROVE FALSE OBVIOUS
  <2>1. graph[b] = [Unused EXCEPT !.channels = 1] BY GraphShape
  <2>2. graph[b].inputs = <<1>> BY <2>1 DEF Unused, Kind
  <2>3. Inputs(b) = {1}
    <3>1. Range(<<1>>) = {1} BY DEF Range
    <3> QED BY <2>2, <3>1 DEF Inputs
  <2>4. Upstream(graph, {1}) \subseteq {1}
    <3>1. {1} \in SUBSET GraphNode BY DEF GraphNode
    <3> QED BY <1>5, <1>7, <3>1
  <2> QED BY <1>1, <2>3, <2>4 DEF Middle
<1>10. x \in Middle
  <2>1. x # 1
    <3> SUFFICES ASSUME x = 1 PROVE FALSE OBVIOUS
    <3>1. Sink \cup {1} \in SUBSET GraphNode BY DEF Sink, GraphNode
    <3>2. Used \subseteq Sink \cup {1} BY <1>3, <1>5, <1>8, <3>1
    <3> QED BY <1>9, <3>2 DEF Middle, Sink
  <2> QED BY <2>1 DEF Middle
<1>11. ASSUME NEW n \in Middle, n \in Used PROVE \E y \in Inputs(n) : y \in Middle
  <2> SUFFICES ASSUME \A y \in Inputs(n) : y \notin Middle PROVE FALSE OBVIOUS
  <2>1. PICK m \in Middle : m # n /\ Middle = {m, n}
    <3>1. CASE n = 2 BY <3>1 DEF Middle
    <3>2. CASE n = 3 BY <3>2 DEF Middle
    <3> QED BY <3>1, <3>2 DEF Middle
  <2>2. m \in GraphNode /\ n \in GraphNode /\ m # 1 /\ n # 1 /\ 1 \in GraphNode
        /\ (\A y \in 1..3 : y = 1 \/ y \in Middle) /\ Sink \subseteq GraphNode
        /\ m \notin Sink /\ n \notin Sink
    BY DEF Middle, GraphNode, Sink
  <2>3. Inputs(n) \subseteq {1} BY <1>4, <2>2
  <2>4. b = m
    <3>1. Upstream(graph, Inputs(n)) \subseteq {1} BY <1>5, <1>7, <2>2, <2>3
    <3>2. b # n BY <1>1, <2>2, <3>1
    <3> QED BY <2>1, <3>2
  <2>5. x = m
    <3> SUFFICES ASSUME x = n PROVE FALSE BY <1>10, <2>1
    <3> DEFINE S == Sink \cup {n, 1}
    <3>1. S \in SUBSET GraphNode /\ Sink \subseteq S /\ \A y \in S : Inputs(y) \subseteq S
      BY <1>3, <1>5, <2>2, <2>3
    <3>2. Used \subseteq S BY <1>8, <3>1
    <3> QED BY <1>9, <2>1, <2>2, <2>4, <3>2
  <2>6. Inputs(m) \subseteq {1, m, n} BY <1>4, <2>1, <2>2
  <2>7. n \in Inputs(m)
    <3> SUFFICES ASSUME n \notin Inputs(m) PROVE FALSE OBVIOUS
    <3> DEFINE S == Sink \cup {m, 1}
    <3>1. S \in SUBSET GraphNode /\ Sink \subseteq S /\ \A y \in S : Inputs(y) \subseteq S
      BY <1>3, <1>5, <2>2, <2>5, <2>6
    <3>2. Used \subseteq S BY <1>8, <3>1
    <3> QED BY <1>11, <2>1, <2>2, <3>2
  <2>8. m \in Inputs(m)
    <3> SUFFICES ASSUME m \notin Inputs(m) PROVE FALSE OBVIOUS
    <3> DEFINE S == {n, 1}
    <3>1. S \in SUBSET GraphNode /\ Inputs(m) \subseteq S /\ \A y \in S : Inputs(y) \subseteq S
      BY <1>5, <2>2, <2>3, <2>6
    <3>2. Upstream(graph, Inputs(m)) \subseteq S BY <1>7, <3>1
    <3> QED BY <1>1, <2>1, <2>2, <2>4, <3>2
  <2>9. PICK p \in 1..Len(graph[m].inputs), q \in 1..Len(graph[m].inputs) :
          graph[m].inputs[p] = n /\ graph[m].inputs[q] = m
    BY <1>4, <2>2, <2>7, <2>8
  <2>10. p # q /\ m # 0 BY <2>1, <2>9 DEF Middle
  <2>11. m \in Used BY <1>9, <2>4
  <2>12. graph[m].channels = 2 /\ graph[m].channels = 1 BY <2>9, <2>10, <2>11, TwoInputs
  <2> QED BY <2>12
<1>12. ASSUME NEW n \in Used, n # 1
       PROVE  \E p \in 1..Len(graph[n].inputs) : graph[n].inputs[p] \in Middle
  <2>1. n \in GraphNode BY <1>6
  <2>2. CASE n \in Sink BY <1>3, <1>10, <2>2
  <2>3. CASE n \in Middle
    <3>1. PICK y \in Inputs(n) : y \in Middle BY <1>11, <2>3
    <3> QED BY <1>4, <2>1, <3>1
  <2> QED BY <1>12, <2>1, <2>2, <2>3 DEF GraphNode, Sink, Middle
<1>13. ASSUME NEW n \in Used, NEW p \in 1..Len(graph[n].inputs), graph[n].inputs[p] = 1
       PROVE  /\ n \in Middle /\ Len(graph[n].inputs) = 2 /\ graph[n].channels = 2
              /\ \E y \in Middle : graph[y].channels = 1
              /\ \A q \in 1..Len(graph[n].inputs) : q # p => graph[n].inputs[q] # 1
  <2>1. n # 1 BY <1>4, <1>6, <1>13
  <2>2. PICK q \in 1..Len(graph[n].inputs) : graph[n].inputs[q] \in Middle BY <1>12, <2>1
  <2>3. graph[n].inputs[q] # 1 /\ graph[n].inputs[q] # 0 /\ p # q BY <1>13, <2>2 DEF Middle
  <2>4. /\ n \in Middle /\ Len(graph[n].inputs) = 2 /\ graph[n].channels = 2
        /\ graph[graph[n].inputs[q]].channels = 1
    BY <2>3, TwoInputs
  <2>5. \A o \in 1..Len(graph[n].inputs) : o # p => o = q BY <2>3, <2>4
  <2> QED BY <2>2, <2>3, <2>4, <2>5
<1>14. ASSUME NEW m \in Used, NEW n \in Used, 1 \in Inputs(m), 1 \in Inputs(n) PROVE m = n
  <2>1. PICK p \in 1..Len(graph[m].inputs) : graph[m].inputs[p] = 1 BY <1>4, <1>6, <1>14
  <2>2. PICK q \in 1..Len(graph[n].inputs) : graph[n].inputs[q] = 1 BY <1>4, <1>6, <1>14
  <2>3. m \in Middle /\ n \in Middle /\ graph[m].channels = 2 /\ graph[n].channels = 2
        /\ \E y \in Middle : graph[y].channels = 1
    BY <1>13, <2>1, <2>2
  <2> QED BY <2>3 DEF Middle
<1> QED BY <1>12, <1>13, <1>14

\* Where no call is made
LEMMA FgInitNoFrame == FgInit => NoFrame
<1> SUFFICES ASSUME FgInit PROVE NoFrame OBVIOUS
<1>1. /\ calls = <<>> /\ DOMAIN calls = {} /\ received = <<>>
      /\ mLastCallCount = [n \in GraphNode |-> -1] /\ mLastFrameCount = [n \in GraphNode |-> 0]
      /\ reader = 4 /\ graph \in Graphs
  BY DEF FgInit, kInitialCallCount
<1>2. \A n \in Middle : mLastFrameCount[n] = 0 BY <1>1 DEF Middle, GraphNode
<1>3. \A n \in GraphNode : mLastCallCount[n] = -1 BY <1>1
<1>4. Count = -1 BY <1>1, <1>3 DEF Count, GraphNode
<1>5. \A n \in Used : mLastCallCount[n] = Count BY <1>1, <1>3, <1>4, UsedClosed
<1> QED BY <1>1, <1>2, <1>5 DEF NoFrame

LEMMA IdleNoFrame ==
  ASSUME FgTyped, NoFrame, (\E n \in FgReads : FgRead(n)) \/ SetData \/ ChangeSink
  PROVE  NoFrame'
<1>1. CASE (\E n \in FgReads : FgRead(n)) \/ SetData
  <2>1. UNCHANGED <<graph, reader, mLastCallCount, mLastFrameCount, calls, received>>
    BY <1>1 DEF FgRead, SetData, fgConfig, nodeVars
  <2> QED BY <2>1 DEF NoFrame, Count, OnStack, Used, Inputs
<1>2. CASE ChangeSink
  <2>1. /\ calls = <<>> /\ reader' \in Sink
        /\ mLastCallCount' = [n \in GraphNode |-> IF n \in Used THEN -1 ELSE mLastCallCount[n]]
        /\ mLastFrameCount' = [n \in GraphNode |-> IF n \in Used THEN 0 ELSE mLastFrameCount[n]]
        /\ UNCHANGED <<graph, sourced, port, refills, calls, readVars, fgReads>>
    BY <1>2 DEF ChangeSink, PullReset, ResetOf, Used, kInitialCallCount
  <2>2. Used \subseteq GraphNode /\ Sink \subseteq Used /\ Used' = Used /\ graph' = graph
    BY <2>1, UsedClosed DEF FgTyped, Used
  <2>3. \A n \in Used : mLastCallCount'[n] = -1 BY <2>1, <2>2
  <2>4. Count' = -1 BY <2>1, <2>2, <2>3 DEF Count
  <2>5. \A n \in Middle : mLastFrameCount'[n] = 0
    <3>1. \A n \in Middle : n \in GraphNode /\ mLastFrameCount[n] = 0
      BY DEF NoFrame, Middle, GraphNode
    <3> QED BY <2>1, <3>1
  <2>6. received' = <<>> /\ DOMAIN calls' = {} BY <2>1 DEF NoFrame, readVars
  <2> QED BY <2>2, <2>3, <2>4, <2>5, <2>6 DEF NoFrame
<1> QED BY <1>1, <1>2

LEMMA SinkPullsNoFrame ==
  ASSUME FgTyped, Stacked, NoFrame, SinkPulls
  PROVE  NoFrame'
<1>1. UNCHANGED <<fgConfig, mLastFrameCount, sourced, port, refills, readVars, fgReads>>
  BY DEF SinkPulls
<1>2. /\ DOMAIN calls' = {1} /\ Count' = Count + 1 /\ calls' # <<>> /\ Len(calls') = 1
      /\ calls'[1] = [node |-> reader, next |-> 1, frames |-> fgAsked, count |-> Count + 1]
      /\ mLastCallCount' = [mLastCallCount EXCEPT ![reader] = Count + 1]
      /\ reader \in GraphNode /\ Count \in Int
  BY SinkPullsGeneral
<1>3. graph \in Graphs /\ reader \in Sink /\ mLastCallCount \in [GraphNode -> Int] BY DEF FgTyped
<1>4. graph' = graph /\ reader' = reader /\ Used' = Used BY <1>1 DEF fgConfig, Used
<1>5. ASSUME NEW n \in Used, 1 \in Inputs(n) PROVE mLastCallCount'[1] < Count + 1
  <2>1. 1 \in Used \ Sink BY <1>3, <1>5, UsedClosed DEF Sink
  <2>2. mLastCallCount[1] <= Count BY <2>1 DEF Stacked
  <2>3. 1 # reader /\ 1 \in GraphNode BY <1>3 DEF Sink, GraphNode
  <2>4. mLastCallCount'[1] = mLastCallCount[1] /\ mLastCallCount[1] \in Int BY <1>2, <1>3, <2>3
  <2> QED BY <1>2, <2>2, <2>4
<1>6. received' = <<>> /\ \A n \in Middle : mLastFrameCount'[n] = 0 BY <1>1 DEF NoFrame, readVars
<1>7. calls'[1].node = reader /\ calls'[1].next = 1 /\ reader \in Used /\ 1..(1 - 1) = {}
  BY <1>2, <1>3, UsedClosed
<1>8. \A n : Inputs(n)' = Inputs(n) BY <1>4 DEF Inputs
<1>9. ~(1 < 1) OBVIOUS
<1>10. \A i \in DOMAIN calls' :
         LET e == calls'[i]
             inputs == graph[e.node].inputs
         IN /\ \A p \in 1..(e.next - 1) : inputs[p] \in Middle => e.frames = 0
            /\ i < Len(calls') /\ e.frames = 0 => calls'[i + 1].frames = 0
            /\ (\A p \in 1..(e.next - 1) : inputs[p] # 1) /\ 1 \in Inputs(e.node) =>
                 mLastCallCount'[1] < Count + 1
  BY <1>2, <1>5, <1>7, <1>9
<1>11. mLastCallCount'[1] = Count + 1 => \A n \in Used : 1 \notin Inputs(n)
  BY <1>2, <1>5
<1> QED BY <1>2, <1>4, <1>6, <1>8, <1>10, <1>11 DEF NoFrame

\* The source is called where the node that it is connected to comes to it.
LEMMA SourceEnters ==
  ASSUME FgTyped, Stacked, ~Acyclic(graph), NoFrame, PullInput, Pulling = 1
  PROVE  Enters
<1> SUFFICES ASSUME ~Enters PROVE FALSE OBVIOUS
<1> DEFINE n == Len(calls)
           inputs == graph[TopCall.node].inputs
<1>1. n \in Nat \ {0} /\ DOMAIN calls = 1..n /\ n \in DOMAIN calls /\ TopCall = calls[n]
  BY PullInputIs, CallsAre DEF TopCall
<1> HIDE DEF n
<1>2. mLastCallCount[1] = Count /\ TopCall.node \in Used /\ TopCall.node \in GraphNode /\ TopCall.node # 1
      /\ TopCall.next \in 1..Len(inputs) /\ inputs[TopCall.next] = 1 /\ 1 \in Inputs(TopCall.node)
  <2>1. Pulling # 0 OBVIOUS
  <2>2. /\ Pulling \in Inputs(TopCall.node) /\ mLastCallCount[Pulling] = Count
        /\ TopCall.node \in Used /\ TopCall.node \in GraphNode /\ TopCall.node # 1
        /\ TopCall.next \in 1..Len(graph[TopCall.node].inputs)
    BY <2>1, PullInputIs
  <2>3. inputs[TopCall.next] = Pulling BY DEF Pulling
  <2> QED BY <2>2, <2>3
<1>3. graph \in Graphs /\ Count \in Int
  <2>1. reader \in GraphNode BY DEF FgTyped, Sink, GraphNode
  <2> QED BY <2>1 DEF FgTyped, Count
<1>4. Len(inputs) \in 0..2 BY <1>2, <1>3, NodeShape
<1>5. \A p \in 1..(TopCall.next - 1) : inputs[p] # 1
  <2>1. \A p \in 1..(TopCall.next - 1) : p \in 1..Len(inputs) /\ p # TopCall.next BY <1>2, <1>4
  <2> QED BY <1>2, <1>3, <2>1, ComesBack
<1>6. OnStack(1)
  <2>1. ~(mLastCallCount[1] < Count) BY <1>2, <1>3
  <2> QED BY <1>1, <1>2, <1>5, <2>1 DEF NoFrame
<1>7. PICK i \in DOMAIN calls : calls[i].node = 1 BY <1>6 DEF OnStack
<1>8. i < n BY <1>1, <1>2, <1>7
<1>9. Len(graph[1].inputs) = 0 BY <1>3, NodeShape DEF GraphNode
<1>10. calls[i].next \in 1..(Len(graph[1].inputs) + 1) /\ calls[i].next <= Len(graph[1].inputs)
  BY <1>1, <1>7, <1>8 DEF Stacked, n
<1> QED BY <1>9, <1>10

LEMMA PullInputNoFrame ==
  ASSUME FgTyped, Stacked, ~Acyclic(graph), NoFrame, PullInput
  PROVE  NoFrame'
<1> DEFINE n == Len(calls)
<1>1. n \in Nat \ {0} /\ DOMAIN calls = 1..n /\ n \in DOMAIN calls /\ calls # <<>> /\ TopCall = calls[n]
  BY PullInputIs, CallsAre DEF TopCall
<1>2. UNCHANGED <<fgConfig, mLastFrameCount, sourced, port, refills, readVars, fgReads>>
      /\ Count' = Count
  BY PullInputIs
<1>3. graph' = graph /\ reader' = reader /\ Used' = Used /\ graph \in Graphs
      /\ \A m : Inputs(m)' = Inputs(m)
  BY <1>2 DEF Used, fgConfig, FgTyped, Inputs
<1>4. mLastCallCount \in [GraphNode -> Int] /\ Count \in Int
  <2>1. reader \in GraphNode BY DEF FgTyped, Sink, GraphNode
  <2> QED BY <2>1 DEF FgTyped, Count
<1>5. /\ TopCall.next \in 1..Len(graph[TopCall.node].inputs) /\ Pulling = graph[TopCall.node].inputs[TopCall.next]
      /\ TopCall.node \in Used /\ TopCall.node \in GraphNode /\ Asked \in Nat /\ TopCall.frames \in Nat
      /\ (TopCall.frames = 0 => Asked = 0) /\ Pulling \in 0..3
      /\ (Pulling # 0 => Pulling \in Inputs(TopCall.node) /\ Pulling \in Used)
      /\ Len(graph[TopCall.node].inputs) \in 0..2
  <2>1. Len(graph[TopCall.node].inputs) \in 0..2 BY <1>3, PullInputIs, NodeShape
  <2>2. TopCall.frames \in Nat BY <1>1, CallsAre
  <2> QED BY <2>1, <2>2, PullInputIs DEF Pulling
<1>6. received' = <<>> /\ \A m \in Middle : mLastFrameCount'[m] = 0 /\ mLastFrameCount[m] = 0
  BY <1>2 DEF NoFrame, readVars
<1>7. \A i \in 1..n :
        LET e == calls[i]
            inputs == graph[e.node].inputs
        IN /\ \A p \in 1..(e.next - 1) : inputs[p] \in Middle => e.frames = 0
           /\ i < n /\ e.frames = 0 => calls[i + 1].frames = 0
           /\ (\A p \in 1..(e.next - 1) : inputs[p] # 1) /\ 1 \in Inputs(e.node) =>
                mLastCallCount[1] < Count \/ OnStack(1)
  BY <1>1 DEF NoFrame
<1>8. mLastCallCount[1] = Count => \A m \in Used : 1 \in Inputs(m) => mLastCallCount[m] = Count
  BY DEF NoFrame
<1>9. mLastCallCount[TopCall.node] = Count /\ \A i \in 1..n : mLastCallCount[calls[i].node] = Count
  BY <1>1 DEF Stacked
<1>10. CASE Enters
  <2>1. /\ mLastCallCount' = [mLastCallCount EXCEPT ![Pulling] = Count]
        /\ mLastCallCount[Pulling] < Count
        /\ Len(calls') = n + 1 /\ DOMAIN calls' = 1..(n + 1)
        /\ (\A i \in 1..n : calls'[i] = calls[i])
        /\ calls'[n + 1] = [node |-> Pulling, next |-> 1, frames |-> Asked, count |-> Count]
    BY <1>10, PullInputIs
  <2> HIDE DEF n
  <2>2. \A i : i \in 1..(n + 1) <=> i = n + 1 \/ i \in 1..n BY <1>1
  <2>3. Pulling \in GraphNode /\ Pulling # 0 BY <1>5, <1>10 DEF Enters, GraphNode
  <2>4. \A m \in GraphNode : mLastCallCount'[m] = IF m = Pulling THEN Count ELSE mLastCallCount[m]
    BY <1>4, <2>1
  <2>5. 1 \in GraphNode BY DEF GraphNode
  <2>6. calls'[n + 1].node = Pulling /\ calls'[n + 1].next = 1 /\ calls'[n + 1].frames = Asked
    BY <2>1
  <2>7. (OnStack(1) => OnStack(1)') /\ (Pulling = 1 => OnStack(1)')
    <3>1. n + 1 \in 1..(n + 1) BY <1>1
    <3> QED BY <1>1, <2>1, <2>2, <2>6, <3>1 DEF OnStack
  <2>8. mLastCallCount[1] < Count => mLastCallCount'[1] < Count \/ OnStack(1)' BY <2>4, <2>5, <2>7
  <2>9. ASSUME NEW i \in 1..(n + 1)
        PROVE  LET e == calls'[i]
                   inputs == graph[e.node].inputs
               IN /\ \A p \in 1..(e.next - 1) : inputs[p] \in Middle => e.frames = 0
                  /\ i < n + 1 /\ e.frames = 0 => calls'[i + 1].frames = 0
                  /\ (\A p \in 1..(e.next - 1) : inputs[p] # 1) /\ 1 \in Inputs(e.node) =>
                       mLastCallCount'[1] < Count \/ OnStack(1)'
    <3>1. CASE i = n + 1
      <4>1. 1..(1 - 1) = {} /\ ~(i < n + 1) BY <1>1, <3>1
      <4>2. 1 \in Inputs(Pulling) => mLastCallCount'[1] < Count
        <5> SUFFICES ASSUME 1 \in Inputs(Pulling) PROVE mLastCallCount'[1] < Count OBVIOUS
        <5>1. mLastCallCount[Pulling] # Count BY <1>4, <2>1, <2>3
        <5>2. mLastCallCount[1] # Count BY <1>5, <1>8, <2>3, <5>1
        <5>3. 1 \in Used \ Sink BY <1>3, <1>5, <2>3, UsedClosed DEF Sink
        <5>4. mLastCallCount[1] <= Count BY <5>3 DEF Stacked
        <5>5. Pulling # 1
          <6>1. Inputs(1) = {} BY <1>3, <2>5, NodeShape
          <6> QED BY <6>1
        <5> QED BY <1>4, <2>4, <2>5, <5>2, <5>4, <5>5
      <4> QED BY <2>6, <3>1, <4>1, <4>2
    <3>2. CASE i \in 1..n
      <4>1. calls'[i] = calls[i] BY <2>1, <3>2
      <4>2. i < n + 1 /\ calls[i].frames = 0 => calls'[i + 1].frames = 0
        <5>1. CASE i = n BY <1>1, <1>5, <2>6, <5>1
        <5>2. CASE i # n
          <6>1. i < n /\ i + 1 \in 1..n BY <1>1, <3>2, <5>2
          <6> QED BY <1>7, <2>1, <3>2, <6>1
        <5> QED BY <5>1, <5>2
      <4>3. (\A p \in 1..(calls[i].next - 1) : graph[calls[i].node].inputs[p] # 1)
              /\ 1 \in Inputs(calls[i].node) => mLastCallCount'[1] < Count \/ OnStack(1)'
        BY <1>7, <2>7, <2>8, <3>2
      <4> QED BY <1>7, <3>2, <4>1, <4>2, <4>3
    <3> QED BY <2>2, <3>1, <3>2
  <2>10. mLastCallCount'[1] = Count => \A m \in Used : 1 \in Inputs(m) => mLastCallCount'[m] = Count
    <3> SUFFICES ASSUME mLastCallCount'[1] = Count, NEW m \in Used, 1 \in Inputs(m)
                 PROVE  mLastCallCount'[m] = Count
      OBVIOUS
    <3>1. m \in GraphNode BY <1>3, UsedClosed
    <3>2. CASE Pulling = 1
      <4>1. m = TopCall.node BY <1>3, <1>5, <3>2, ComesBack
      <4> QED BY <1>9, <2>4, <3>1, <4>1
    <3>3. CASE Pulling # 1
      <4>1. mLastCallCount[1] = Count BY <2>4, <2>5, <3>3
      <4> QED BY <1>8, <2>4, <3>1, <4>1
    <3> QED BY <3>2, <3>3
  <2> QED BY <1>2, <1>3, <1>6, <2>1, <2>9, <2>10 DEF NoFrame
<1>11. CASE ~Enters
  <2>1. /\ mLastCallCount' = mLastCallCount /\ Len(calls') = n /\ DOMAIN calls' = 1..n
        /\ (\A i \in 1..(n - 1) : calls'[i] = calls[i])
        /\ calls'[n] = [node |-> calls[n].node, next |-> calls[n].next + 1, frames |-> Returned,
                        count |-> calls[n].count]
    BY <1>11, PullInputIs
  <2> HIDE DEF n
  <2>2. \A i \in 1..n : i = n \/ i \in 1..(n - 1) BY <1>1
  <2>3. calls'[n].node = TopCall.node /\ calls'[n].next = TopCall.next + 1 /\ calls'[n].frames = Returned
    BY <1>1, <2>1
  <2>4. \A i \in 1..n : calls'[i].node = calls[i].node BY <1>1, <2>1, <2>2, <2>3
  <2>5. OnStack(1)' <=> OnStack(1) BY <1>1, <2>1, <2>4 DEF OnStack
  <2>6. Pulling # 1 BY <1>11, SourceEnters
  <2>7. Pulling = 0 \/ Pulling \in Middle BY <1>5, <2>6 DEF Middle
  <2>8. (Pulling = 0 => Returned = Asked) /\ (Pulling \in Middle => Returned = 0)
    BY <1>6 DEF Returned, Middle
  <2>9. TopCall.frames = 0 => Returned = 0 BY <1>5, <2>7, <2>8
  <2>10. ASSUME NEW i \in 1..n
         PROVE  LET e == calls'[i]
                    inputs == graph[e.node].inputs
                IN /\ \A p \in 1..(e.next - 1) : inputs[p] \in Middle => e.frames = 0
                   /\ i < n /\ e.frames = 0 => calls'[i + 1].frames = 0
                   /\ (\A p \in 1..(e.next - 1) : inputs[p] # 1) /\ 1 \in Inputs(e.node) =>
                        mLastCallCount[1] < Count \/ OnStack(1)
    <3>1. CASE i = n
      <4>1. /\ (TopCall.next + 1) - 1 = TopCall.next /\ ~(i < n)
            /\ \A p \in 1..TopCall.next : p = TopCall.next \/ p \in 1..(TopCall.next - 1)
            /\ \A p \in 1..(TopCall.next - 1) : p \in 1..TopCall.next
        BY <1>1, <1>5, <3>1
      <4>2. \A p \in 1..TopCall.next : graph[TopCall.node].inputs[p] \in Middle => Returned = 0
        <5> SUFFICES ASSUME NEW p \in 1..TopCall.next, graph[TopCall.node].inputs[p] \in Middle
                     PROVE  Returned = 0
          OBVIOUS
        <5>1. CASE p = TopCall.next BY <1>5, <2>8, <5>1
        <5>2. CASE p \in 1..(TopCall.next - 1)
          <6>1. TopCall.frames = 0 BY <1>1, <1>7, <5>2
          <6> QED BY <2>9, <6>1
        <5> QED BY <4>1, <5>1, <5>2
      <4>3. (\A p \in 1..TopCall.next : graph[TopCall.node].inputs[p] # 1) /\ 1 \in Inputs(TopCall.node) =>
              mLastCallCount[1] < Count \/ OnStack(1)
        BY <1>1, <1>7, <4>1
      <4> QED BY <2>3, <3>1, <4>1, <4>2, <4>3
    <3>2. CASE i \in 1..(n - 1)
      <4>1. calls'[i] = calls[i] BY <2>1, <3>2
      <4>2. calls[i].frames = 0 => calls'[i + 1].frames = 0
        <5>1. i < n /\ i \in 1..n /\ (i + 1 = n \/ i + 1 \in 1..(n - 1)) BY <1>1, <3>2
        <5>2. CASE i + 1 = n BY <1>1, <1>7, <2>3, <2>9, <5>1, <5>2
        <5>3. CASE i + 1 \in 1..(n - 1) BY <1>7, <2>1, <5>1, <5>3
        <5> QED BY <5>1, <5>2, <5>3
      <4>3. i \in 1..n OBVIOUS
      <4> QED BY <1>7, <4>1, <4>2, <4>3
    <3> QED BY <2>2, <3>1, <3>2
  <2> QED BY <1>2, <1>3, <1>6, <1>8, <2>1, <2>5, <2>10 DEF NoFrame
<1> QED BY <1>10, <1>11

\* A node between asks its inputs for none of its frames, and gives none.
LEMMA GivesNoFrame ==
  ASSUME FgTyped, Stacked, ~Acyclic(graph), NoFrame, Process, TopCall.node # 1
  PROVE  Given = 0
<1> DEFINE n == Len(calls)
           inputs == graph[TopCall.node].inputs
<1>1. /\ n \in DOMAIN calls /\ TopCall = calls[n] /\ TopCall.node \in Used /\ TopCall.node \in GraphNode
      /\ TopCall.next = Len(inputs) + 1 /\ Given = TopCall.frames /\ graph \in Graphs
  BY ProcessIs, CallsAre DEF TopCall
<1>2. TopCall.next - 1 = Len(inputs)
  <2>1. Len(inputs) \in 0..2 BY <1>1, NodeShape
  <2> QED BY <1>1, <2>1
<1>3. PICK p \in 1..Len(inputs) : inputs[p] \in Middle BY <1>1, ComesBack
<1>4. TopCall.frames = 0 BY <1>1, <1>2, <1>3 DEF NoFrame
<1> QED BY <1>1, <1>4

LEMMA ProcessNoFrame ==
  ASSUME FgTyped, Stacked, ~Acyclic(graph), NoFrame, Process
  PROVE  NoFrame'
<1> DEFINE n == Len(calls) - 1
           t == TopCall.node
<1>1. /\ calls # <<>> /\ t \in GraphNode /\ t \in Used /\ Given \in Nat /\ Given <= TopCall.frames
      /\ mLastFrameCount' = [mLastFrameCount EXCEPT ![t] = Given]
      /\ UNCHANGED <<fgConfig, mLastCallCount, refills, fgReads>>
  BY ProcessIs
<1>2. graph' = graph /\ reader' = reader /\ Used' = Used /\ Count' = Count /\ graph \in Graphs
      /\ \A m : Inputs(m)' = Inputs(m)
  BY <1>1 DEF Used, Count, fgConfig, FgTyped, Inputs
<1>3. \A m \in Middle : mLastFrameCount'[m] = 0
  <2>1. \A m \in Middle : mLastFrameCount[m] = 0 /\ m \in GraphNode
    BY DEF NoFrame, Middle, GraphNode
  <2>2. mLastFrameCount \in [GraphNode -> Nat] BY DEF FgTyped
  <2>3. t # 1 => Given = 0 BY GivesNoFrame
  <2> HIDE DEF t
  <2> QED BY <1>1, <2>1, <2>2, <2>3 DEF Middle
<1>4. mLastCallCount'[1] = Count => \A m \in Used : 1 \in Inputs(m) => mLastCallCount'[m] = Count
  BY <1>1 DEF NoFrame
<1>5. CASE t \in Sink
  <2>1. t # 1 BY <1>5 DEF Sink
  <2>2. calls' = <<>> /\ received' = received \o Cut(InputBuffer(t, 1), Given, graph[t].channels)
    BY <1>5, ProcessIs
  <2>3. received' = <<>>
    <3>1. Given = 0 BY <2>1, GivesNoFrame
    <3> DEFINE h == graph[t].channels
               buffer == InputBuffer(t, 1)
    <3> HIDE DEF h, buffer
    <3>2. Cut(buffer, 0, h) = [i \in 1..0 |-> SubSeq(buffer, (i - 1) * h + 1, i * h)] BY DEF Cut
    <3>3. 1..0 = {} OBVIOUS
    <3>4. Cut(buffer, 0, h) = <<>> BY <3>2, <3>3
    <3>5. received = <<>> BY DEF NoFrame
    <3>6. received' = <<>> \o <<>> BY <2>2, <3>1, <3>4, <3>5 DEF h, buffer
    <3> QED BY <3>6
  <2>4. DOMAIN calls' = {} BY <2>2
  <2> QED BY <1>2, <1>3, <1>4, <2>3, <2>4 DEF NoFrame
<1>6. CASE t \notin Sink
  <2>1. /\ UNCHANGED readVars /\ n \in Nat \ {0} /\ Len(calls') = n /\ DOMAIN calls' = 1..n
        /\ (\A i \in 1..(n - 1) : calls'[i] = calls[i])
        /\ calls'[n] = [node |-> calls[n].node, next |-> calls[n].next + 1, frames |-> Given,
                        count |-> calls[n].count]
    BY <1>6, ProcessIs
  <2>2. DOMAIN calls = 1..(n + 1) /\ Len(calls) = n + 1 /\ TopCall = calls[n + 1]
    <3>1. Len(calls) \in Nat /\ DOMAIN calls = 1..Len(calls) /\ n + 1 = Len(calls) BY CallsAre
    <3> QED BY <3>1 DEF TopCall
  <2> HIDE DEF n
  <2>3. \A i \in 1..n : i = n \/ i \in 1..(n - 1) BY <2>1
  <2>4. n \in 1..(n + 1) /\ n < n + 1 /\ \A i \in 1..n : i \in 1..(n + 1) BY <2>1
  <2>5. calls'[n].node = calls[n].node /\ calls'[n].next = calls[n].next + 1
        /\ calls'[n].frames = Given
    BY <2>1
  <2>6. \A i \in 1..n : calls'[i].node = calls[i].node BY <2>1, <2>3, <2>5
  <2>7. \A i \in 1..(n + 1) :
          LET e == calls[i]
              inputs == graph[e.node].inputs
          IN /\ \A p \in 1..(e.next - 1) : inputs[p] \in Middle => e.frames = 0
             /\ i < n + 1 /\ e.frames = 0 => calls[i + 1].frames = 0
             /\ (\A p \in 1..(e.next - 1) : inputs[p] # 1) /\ 1 \in Inputs(e.node) =>
                  mLastCallCount[1] < Count \/ OnStack(1)
    BY <2>2 DEF NoFrame
  <2>8. graph[calls[n].node].inputs[calls[n].next] = t /\ calls[n].next \in Nat \ {0}
        /\ calls[n].node \in Used
    <3>1. calls[n].next \in 1..(Len(graph[calls[n].node].inputs) + 1)
          /\ graph[calls[n].node].inputs[calls[n].next] = calls[n + 1].node
      BY <2>2, <2>4 DEF Stacked
    <3>2. calls[n].node \in GraphNode /\ calls[n].node \in Used BY <2>2, <2>4, CallsAre
    <3>3. Len(graph[calls[n].node].inputs) \in 0..2 BY <1>2, <3>2, NodeShape
    <3> QED BY <2>2, <3>1, <3>2, <3>3
  <2>9. t # 1 => (OnStack(1)' <=> OnStack(1))
    <3>1. \A i : i \in 1..(n + 1) <=> i \in 1..n \/ i = n + 1 BY <2>1
    <3> QED BY <2>1, <2>2, <2>6, <3>1 DEF OnStack
  <2>10. calls[n].frames = 0 => Given = 0
    <3>1. calls[n].frames = 0 => TopCall.frames = 0 BY <2>2, <2>4, <2>7
    <3> QED BY <1>1, <3>1
  <2>11. (calls[n].next + 1) - 1 = calls[n].next
         /\ \A p \in 1..calls[n].next : p = calls[n].next \/ p \in 1..(calls[n].next - 1)
    BY <2>8
  <2>12. ASSUME NEW p \in 1..calls[n].next, graph[calls[n].node].inputs[p] \in Middle
         PROVE  Given = 0
    <3>1. CASE p = calls[n].next
      <4>1. t # 1 BY <2>8, <2>12, <3>1 DEF Middle
      <4> QED BY <4>1, GivesNoFrame
    <3>2. CASE p \in 1..(calls[n].next - 1) BY <2>4, <2>7, <2>10, <2>12, <3>2
    <3> QED BY <2>11, <3>1, <3>2
  <2>13. ASSUME NEW i \in 1..n, \A p \in 1..(calls'[i].next - 1) : graph[calls[i].node].inputs[p] # 1,
                1 \in Inputs(calls[i].node)
         PROVE  mLastCallCount[1] < Count \/ OnStack(1)'
    <3>1. CASE i = n
      <4>1. \A p \in 1..calls[n].next : graph[calls[n].node].inputs[p] # 1
        BY <2>5, <2>11, <2>13, <3>1
      <4>2. calls[n].next \in 1..calls[n].next
            /\ \A p \in 1..(calls[n].next - 1) : p \in 1..calls[n].next
        BY <2>8
      <4>3. t # 1 BY <2>8, <4>1, <4>2
      <4> QED BY <2>4, <2>7, <2>9, <2>13, <3>1, <4>1, <4>2, <4>3
    <3>2. CASE i \in 1..(n - 1)
      <4>1. calls'[i] = calls[i] /\ i # n /\ i \in 1..(n + 1) BY <2>1, <3>2
      <4>2. t # 1
        <5> SUFFICES ASSUME t = 1 PROVE FALSE OBVIOUS
        <5>1. 1 \in Inputs(calls[n].node)
          <6>1. calls[n].node \in GraphNode BY <2>2, <2>4, CallsAre
          <6>2. calls[n].next \in 1..Len(graph[calls[n].node].inputs)
            <7>1. calls[n].next <= Len(graph[calls[n].node].inputs) BY <2>2, <2>4 DEF Stacked
            <7>2. Len(graph[calls[n].node].inputs) \in 0..2 BY <1>2, <6>1, NodeShape
            <7> QED BY <2>8, <7>1, <7>2
          <6> QED BY <1>2, <2>8, <6>1, <6>2, NodeShape
        <5>2. calls[i].node \in Used BY <2>2, <4>1, CallsAre
        <5>3. calls[i].node = calls[n].node BY <1>2, <2>8, <2>13, <5>1, <5>2, ComesBack
        <5> QED BY <2>2, <2>4, <4>1, <5>3 DEF Stacked
      <4> QED BY <2>7, <2>9, <2>13, <4>1, <4>2
    <3> QED BY <2>3, <3>1, <3>2
  <2>14. ASSUME NEW i \in 1..n
         PROVE  LET e == calls'[i]
                    inputs == graph[e.node].inputs
                IN /\ \A p \in 1..(e.next - 1) : inputs[p] \in Middle => e.frames = 0
                   /\ i < n /\ e.frames = 0 => calls'[i + 1].frames = 0
                   /\ (\A p \in 1..(e.next - 1) : inputs[p] # 1) /\ 1 \in Inputs(e.node) =>
                        mLastCallCount[1] < Count \/ OnStack(1)'
    <3>1. CASE i = n
      <4>1. ~(i < n) BY <2>1, <3>1
      <4> QED BY <2>5, <2>11, <2>12, <2>13, <3>1, <4>1
    <3>2. CASE i \in 1..(n - 1)
      <4>1. calls'[i] = calls[i] /\ i \in 1..(n + 1) BY <2>1, <2>4, <3>2
      <4>2. calls[i].frames = 0 => calls'[i + 1].frames = 0
        <5>1. i < n + 1 /\ (i + 1 = n \/ i + 1 \in 1..(n - 1)) BY <2>1, <3>2
        <5>2. calls[i].frames = 0 => calls[i + 1].frames = 0 BY <2>7, <4>1, <5>1
        <5>3. CASE i + 1 = n BY <2>5, <2>10, <5>2, <5>3
        <5>4. CASE i + 1 \in 1..(n - 1) BY <2>1, <5>2, <5>4
        <5> QED BY <5>1, <5>3, <5>4
      <4> QED BY <2>7, <2>13, <4>1, <4>2
    <3> QED BY <2>3, <3>1, <3>2
  <2>15. received' = <<>> BY <2>1 DEF NoFrame, readVars
  <2> QED BY <1>1, <1>2, <1>3, <1>4, <2>1, <2>14, <2>15 DEF NoFrame
<1> QED BY <1>5, <1>6

LEMMA FgNextNoFrame ==
  FgTyped /\ Stacked /\ ~Acyclic(graph) /\ NoFrame /\ [FgNext]_fgVars => NoFrame'
<1> SUFFICES ASSUME FgTyped, Stacked, ~Acyclic(graph), NoFrame, [FgNext]_fgVars PROVE NoFrame'
  OBVIOUS
<1>1. CASE \E n \in FgReads : FgRead(n) BY <1>1, IdleNoFrame
<1>2. CASE SinkPulls BY <1>2, SinkPullsNoFrame
<1>3. CASE PullInput BY <1>3, PullInputNoFrame
<1>4. CASE Process BY <1>4, ProcessNoFrame
<1>5. CASE SetData BY <1>5, IdleNoFrame
<1>6. CASE ChangeSink BY <1>6, IdleNoFrame
<1>7. CASE UNCHANGED fgVars
  BY <1>7 DEF NoFrame, Used, Count, OnStack, Inputs, fgVars, fgConfig, nodeVars, readVars
<1> QED BY <1>1, <1>2, <1>3, <1>4, <1>5, <1>6, <1>7 DEF FgNext
-----------------------------------------------------------------------------
LEMMA FgInvInit == FgInit => FgInv
BY FgInitGeneral, FgInitFlows, FgInitNoFrame DEF FgInv

LEMMA FgInvNext == FgInv /\ [FgNext]_fgVars => FgInv'
<1> SUFFICES ASSUME FgInv, [FgNext]_fgVars PROVE FgInv' OBVIOUS
<1>1. graph' = graph BY GraphStays
<1>2. Acyclic(graph)' <=> Acyclic(graph) BY <1>1
<1>3. FgTyped' /\ Stacked' BY FgNextGeneral DEF FgInv
<1>4. CASE Acyclic(graph) BY <1>2, <1>3, <1>4, FgNextFlows DEF FgInv
<1>5. CASE ~Acyclic(graph) BY <1>2, <1>3, <1>5, FgNextNoFrame DEF FgInv
<1> QED BY <1>4, <1>5

LEMMA FgInvImplies == FgInv => (~FgWraps => FramesPulled) /\ PullEnds
<1> SUFFICES ASSUME FgInv PROVE (~FgWraps => FramesPulled) /\ PullEnds OBVIOUS
<1>1. FgTyped /\ Stacked BY DEF FgInv
<1>2. PullEnds
  <2>1. \A i, j \in DOMAIN calls : calls[i].node = calls[j].node => i = j BY <1>1 DEF Stacked
  <2>2. ~Acyclic(graph) => received = <<>> BY DEF FgInv, NoFrame
  <2> QED BY <2>1, <2>2 DEF PullEnds
<1>3. ASSUME ~FgWraps PROVE FramesPulled
  <2> SUFFICES ASSUME Acyclic(graph) PROVE FramesPulled BY DEF FramesPulled
  <2>1. /\ received = [k \in 1..Before |-> [c \in 1..graph[reader].channels |-> Source(k, c)]]
        /\ fgShort => sourced = refills * FgFrames
    BY <1>3 DEF FgInv, Flows, Received
  <2>2. ASSUME calls = <<>> PROVE Len(received) = sourced
    <3>1. Before = sourced /\ sourced \in Nat BY <1>1, <2>2 DEF Before, FgTyped
    <3> DEFINE S == {[c \in 1..graph[reader].channels |-> Source(k, c)] : k \in Nat}
               f == [k \in 1..sourced |-> [c \in 1..graph[reader].channels |-> Source(k, c)]]
    <3>2. f \in [1..sourced -> S] BY <3>1
    <3> HIDE DEF S, f
    <3>3. Len(f) = sourced BY <3>1, <3>2
    <3> QED BY <2>1, <3>1, <3>3 DEF f
  <2>3. \A k \in DOMAIN received :
          received[k] = [c \in 1..graph[reader].channels |-> Source(k, c)]
    BY <2>1
  <2> QED BY <2>1, <2>2, <2>3 DEF FramesPulled
<1> QED BY <1>2, <1>3

\* For every buffer of the source and of the nodes, and reads and refills of any
\* number, through every graph of Graphs: what a sink gives is each frame of the
\* source once and in order, whatever the paths that join and the resets between
\* (FlowGraphNode::pullData), where no converter makes channels of its own.
THEOREM GraphIsPulled == ~FgWraps => (FgSpec => []FramesPulled)
<1> SUFFICES ASSUME ~FgWraps PROVE FgSpec => []FramesPulled OBVIOUS
<1>1. FgInv => FramesPulled BY FgInvImplies
<1> QED BY <1>1, FgInvInit, FgInvNext, PTL DEF FgSpec

\* In every graph, also one that comes back to itself: no node is called while it
\* is being called, and nothing comes of such a graph (mLastCallCount, callCount).
THEOREM PullsEnd == FgSpec => []PullEnds
<1>1. FgInv => PullEnds BY FgInvImplies
<1> QED BY <1>1, FgInvInit, FgInvNext, PTL DEF FgSpec
-----------------------------------------------------------------------------
(* RampLinear *)

RlTyped ==
  /\ mTarget \in RlTargets /\ mLevelTo \in RlTargets \cup {0}
  /\ mRemaining \in 0..RlLength /\ mScaler \in Int /\ ramped \in BOOLEAN
  /\ setting \in [at : {"idle", "look", "force"}, target : RlTargets \cup {0}]
  /\ changes \in 0..RlChanges /\ rlPc \in {"idle", "load", "new", "frames"}
  /\ target \in RlTargets \cup {0} /\ since \in Nat
  /\ \E a, b \in Int : levels = <<a, b>>

\* The level that the next frame has
NextLevel == InterpolateCurrent

\* The levels of a ramp that n others are above of are parts of a unit, and can
\* be parted again.
Exact(n) == n \in 0..(RlChanges + 1) /\ \E q \in Int : mScaler = q * Divisor(RlChanges + 1 - n)

\* A target that was not loaded yet is a call of setTarget() that made no ramp yet.
ExactForNext ==
  /\ Exact(changes + 1)
  /\ mTarget # mLevelTo => Exact(changes)
  /\ rlPc = "new" => IF mTarget = target THEN Exact(changes)
                     ELSE changes > 0 /\ Exact(changes - 1)

\* No ramp leaves the range, or is steeper than one over all of it.
Gentle == /\ NextLevel \in 0..Highest
          /\ mScaler <= Highest \div RlLength /\ -mScaler <= Highest \div RlLength
          /\ levels[2] # -1 => levels[2] >= 0 /\ Far(levels[2], NextLevel) <= Highest \div RlLength
          /\ levels[1] # -1 => Far(levels[1], levels[2]) <= Highest \div RlLength
          /\ levels[2] = -1 => levels[1] = -1 /\ since = 0

\* A ramp ends after its length, at the target that was loaded for it.
Arrives == /\ mRemaining > 0 => since + mRemaining <= RlLength
           /\ rlPc = "frames" \/ (since > 0 /\ rlPc # "new") => target = mLevelTo
           /\ since > RlLength => levels[2] = mLevelTo

\* setTarget() forces the level of a node that had not run when it looked, and
\* that has found the new target if it has run since.
Forces ==
  /\ setting.at # "idle" => setting.target = mTarget
  /\ setting.at = "force" =>
       /\ rlPc = "new" => target = mTarget
       /\ mLevelTo = mTarget \/ (mRemaining = 0 /\ levels[2] = -1 /\ rlPc # "frames")
  /\ ~ramped => rlPc = "idle" /\ mRemaining = 0 /\ levels[2] = -1

RlInv == RlTyped /\ ExactForNext /\ Gentle /\ Arrives /\ Forces
-----------------------------------------------------------------------------
LEMMA Targets ==
  /\ Highest \in RlTargets /\ Highest \in Nat /\ RlLength \in Nat \ {0} /\ RlChanges \in Nat
  /\ \A t \in RlTargets \cup {0} : t \in 0..Highest
  /\ Highest \div RlLength \in Nat
<1>1. Highest \in RlTargets /\ \A u \in RlTargets : u <= Highest BY RampAssumption DEF Highest
<1>2. Highest \in Nat /\ RlLength \in Nat \ {0} /\ RlChanges \in Nat BY <1>1, RampAssumption
<1>3. ASSUME NEW t \in RlTargets \cup {0} PROVE t \in 0..Highest
  <2>1. RlTargets \subseteq Nat BY RampAssumption
  <2> QED BY <1>1, <1>2, <2>1
<1>4. Highest \div RlLength \in Nat
  <2>1. \A h \in Nat, d \in Nat \ {0} : h \div d \in Nat OBVIOUS
  <2> QED BY <1>2, <2>1
<1> QED BY <1>1, <1>2, <1>3, <1>4

LEMMA PartsOf ==
  ASSUME NEW n \in 0..(RlChanges + 1)
  PROVE  /\ Divisor(n) \in Nat \ {0}
         /\ n > 0 => Divisor(n) = RlLength * Divisor(n - 1)
         /\ \A t \in RlTargets \cup {0} : \E q \in Int : t = q * Divisor(n)
<1> USE Targets
<1>1. Divisor(n) \in Nat \ {0} /\ \A t \in RlTargets : t % Divisor(n) = 0 BY RampAssumption
<1>2. ASSUME n > 0 PROVE Divisor(n) = RlLength * Divisor(n - 1)
  <2>1. n - 1 \in 0..(RlChanges + 1) /\ (n - 1) + 1 = n BY <1>2
  <2> QED BY <2>1, RampAssumption
<1>3. ASSUME NEW t \in RlTargets \cup {0} PROVE \E q \in Int : t = q * Divisor(n)
  <2>1. CASE t = 0
    <3>1. 0 = 0 * Divisor(n) BY <1>1
    <3> QED BY <2>1, <3>1
  <2>2. CASE t \in RlTargets
    <3> DEFINE d == Divisor(n)
    <3>1. t \in Int /\ d \in Nat \ {0} /\ t % d = 0 BY <1>1, <2>2, RampAssumption
    <3> HIDE DEF d
    <3>2. t = d * (t \div d) + (t % d) /\ t \div d \in Int BY <3>1, Division
    <3>3. t = (t \div d) * d BY <3>1, <3>2
    <3> QED BY <3>2, <3>3 DEF d
  <2> QED BY <1>3, <2>1, <2>2
<1> QED BY <1>1, <1>2, <1>3

\* A part can be parted once more.
LEMMA ExactMore ==
  ASSUME NEW n, Exact(n), n + 1 \in 0..(RlChanges + 1)
  PROVE  Exact(n + 1)
<1>1. n \in 0..(RlChanges + 1) BY DEF Exact
<1>2. PICK q \in Int : mScaler = q * Divisor(RlChanges + 1 - n) BY DEF Exact
<1> DEFINE k == RlChanges + 1 - n
<1>3. k \in 0..(RlChanges + 1) /\ k > 0 /\ k - 1 \in 0..(RlChanges + 1)
      /\ k - 1 = RlChanges + 1 - (n + 1)
  BY <1>1, Targets
<1> HIDE DEF k
<1>4. Divisor(k) = RlLength * Divisor(k - 1) /\ Divisor(k - 1) \in Nat BY <1>3, PartsOf
<1>5. q * (RlLength * Divisor(k - 1)) = (q * RlLength) * Divisor(k - 1) /\ q * RlLength \in Int
  BY <1>4, Targets
<1>6. mScaler = (q * RlLength) * Divisor(k - 1) BY <1>2, <1>4, <1>5 DEF k
<1> QED BY <1>3, <1>5, <1>6 DEF Exact

\* A ramp divides the way to its target exactly.
LEMMA ExactRamp ==
  ASSUME RlTyped, NEW n \in 0..RlChanges, Exact(n)
  PROVE  LET way == target - From
         IN  /\ way \in Int
             /\ RlLength * (way \div RlLength) = way
             /\ \E q \in Int : way \div RlLength = q * Divisor(RlChanges + 1 - (n + 1))
<1> DEFINE k == RlChanges + 1 - n
           way == target - From
<1>1. k \in 0..(RlChanges + 1) /\ k > 0 /\ k - 1 \in 0..(RlChanges + 1)
      /\ k - 1 = RlChanges + 1 - (n + 1)
  BY Targets
<1>2. PICK q \in Int : mScaler = q * Divisor(k) BY DEF Exact
<1> HIDE DEF k
<1>3. Divisor(k) \in Nat /\ Divisor(k) = RlLength * Divisor(k - 1) /\ Divisor(k - 1) \in Nat
  BY <1>1, PartsOf
<1>4. PICK a \in Int : mLevelTo = a * Divisor(k) BY <1>1, PartsOf DEF RlTyped
<1>5. PICK b \in Int : target = b * Divisor(k) BY <1>1, PartsOf DEF RlTyped
<1>6. mRemaining \in Int /\ mRemaining * q \in Int BY <1>2, Targets DEF RlTyped
<1>7. mRemaining * (q * Divisor(k)) = (mRemaining * q) * Divisor(k) BY <1>3, <1>6
<1>8. way = (b - a + mRemaining * q) * Divisor(k)
  <2>1. way = b * Divisor(k) - (a * Divisor(k) - mRemaining * (q * Divisor(k)))
    BY <1>2, <1>4, <1>5 DEF From, InterpolateCurrent
  <2> DEFINE m == mRemaining * q
             p == Divisor(k)
  <2>2. way = b * p - (a * p - m * p) /\ m \in Int /\ p \in Int BY <1>3, <1>6, <1>7, <2>1
  <2> HIDE DEF m, p
  <2>3. way = (b - a + m) * p BY <2>2
  <2> QED BY <2>3 DEF m, p
<1>9. PICK e \in Int : way = e * Divisor(k) BY <1>6, <1>8
<1> HIDE DEF way
<1>10. way = RlLength * (e * Divisor(k - 1)) /\ e * Divisor(k - 1) \in Int
  BY <1>3, <1>9, Targets
<1>11. way \div RlLength = e * Divisor(k - 1)
  <2> DEFINE x == e * Divisor(k - 1)
  <2>1. x \in Int /\ RlLength \in Nat \ {0} /\ way = RlLength * x BY <1>10, Targets
  <2> HIDE DEF x
  <2>2. \A d \in Nat \ {0}, y \in Int : (d * y) \div d = y
    <3> SUFFICES ASSUME NEW d \in Nat \ {0}, NEW y \in Int PROVE (d * y) \div d = y OBVIOUS
    <3> DEFINE w == d * y
               v == w \div d
    <3>1. w \in Int OBVIOUS
    <3>2. v \in Int /\ w = d * v + (w % d) /\ 0 <= w % d /\ w % d < d
      BY <3>1, Division
    <3>3. w % d \in Int BY <3>1, Division
    <3> DEFINE r == w % d
    <3>4. d * (y - v) = r /\ 0 <= r /\ r < d /\ r \in Int
      BY <3>2, <3>3
    <3> HIDE DEF r, v, w
    <3>5. y - v \in Int /\ -d < d * (y - v) /\ d * (y - v) < d BY <3>2, <3>4
    <3>6. d * (y - v) = 0 BY <3>5, NoMultipleWithin
    <3>7. y = v BY <3>2, <3>6
    <3> QED BY <3>7 DEF v, w
  <2>3. way \div RlLength = x BY <2>1, <2>2
  <2> QED BY <2>3 DEF x
<1>12. way \in Int /\ RlLength * (way \div RlLength) = way BY <1>10, <1>11
<1>13. \E u \in Int : way \div RlLength = u * Divisor(RlChanges + 1 - (n + 1))
  <2>1. way \div RlLength = e * Divisor(RlChanges + 1 - (n + 1)) BY <1>1, <1>11
  <2> QED BY <2>1
<1> QED BY <1>12, <1>13 DEF way
-----------------------------------------------------------------------------
\* A level on the way from a to b, when n steps of s are left
LEMMA OnTheWay ==
  ASSUME NEW h \in Nat, NEW b \in 0..h, NEW n \in Nat, n > 0, NEW s \in Int,
         b - n * s \in 0..h
  PROVE  b - (n - 1) * s \in 0..h
<1> DEFINE x == n * s
           y == (n - 1) * s
<1>1. x \in Int /\ y \in Int /\ y = x - s OBVIOUS
<1>2. CASE s >= 0
  <2>1. y >= 0 BY <1>2
  <2> HIDE DEF x, y
  <2> QED BY <1>1, <1>2, <2>1 DEF x, y
<1>3. CASE s < 0
  <2>1. y <= 0
    <3>1. (n - 1) * (-s) >= 0 BY <1>3
    <3>2. (n - 1) * s = -((n - 1) * (-s)) OBVIOUS
    <3> QED BY <3>1, <3>2
  <2> HIDE DEF x, y
  <2> QED BY <1>1, <1>3, <2>1 DEF x, y
<1> QED BY <1>2, <1>3

\* A ramp is no steeper than one over the whole range.
LEMMA NotSteeper ==
  ASSUME NEW h \in Nat, NEW d \in Nat \ {0}, NEW s \in Int, d * s <= h
  PROVE  s <= h \div d
<1> DEFINE q == h \div d
           r == h % d
<1>1. q \in Int /\ r \in Int /\ h = d * q + r /\ r < d BY Division
<1> HIDE DEF q, r
<1>2. SUFFICES ASSUME s >= q + 1 PROVE FALSE BY <1>1 DEF q
<1>3. d * (s - (q + 1)) >= 0 BY <1>1, <1>2
<1>4. d * (s - (q + 1)) = d * s - (d * q + d) BY <1>1
<1> QED BY <1>1, <1>3, <1>4

LEMMA NextLevelIs ==
  ASSUME RlTyped
  PROVE  NextLevel \in Int /\ (mRemaining = 0 => NextLevel = mLevelTo)
         /\ mLevelTo \in 0..Highest /\ mTarget \in 0..Highest /\ target \in 0..Highest
<1>1. mRemaining \in Int BY Targets DEF RlTyped
<1>2. mLevelTo \in 0..Highest /\ mTarget \in 0..Highest /\ target \in 0..Highest
  BY Targets DEF RlTyped
<1>3. \A s \in Int : mRemaining * s \in Int /\ (mRemaining = 0 => mRemaining * s = 0) BY <1>1
<1>4. mScaler \in Int BY DEF RlTyped
<1>5. mRemaining * mScaler \in Int /\ (mRemaining = 0 => mRemaining * mScaler = 0) BY <1>3, <1>4
<1>6. mLevelTo \in Int BY <1>2
<1> DEFINE x == mRemaining * mScaler
<1> HIDE DEF x
<1>7. mLevelTo - x \in Int /\ (mRemaining = 0 => mLevelTo - x = mLevelTo) BY <1>5, <1>6 DEF x
<1> QED BY <1>2, <1>7 DEF NextLevel, InterpolateCurrent, x

LEMMA RlInitInv == RlInit => RlInv
<1> SUFFICES ASSUME RlInit PROVE RlInv OBVIOUS
<1> USE DEF RlInit
<1>1. RlTyped
  <2>1. \E a, b \in Int : levels = <<a, b>> BY -1 \in Int
  <2>2. 0 \in Nat /\ 0 \in 0..RlLength /\ 0 \in 0..RlChanges BY Targets
  <2>3. mTarget \in RlTargets /\ mLevelTo \in RlTargets \cup {0} /\ target \in RlTargets \cup {0}
    BY Targets
  <2>4. setting \in [at : {"idle", "look", "force"}, target : RlTargets \cup {0}] OBVIOUS
  <2>5. mRemaining \in 0..RlLength /\ mScaler \in Int /\ changes \in 0..RlChanges /\ since \in Nat
    BY <2>2
  <2> QED BY <2>1, <2>3, <2>4, <2>5 DEF RlTyped
<1>2. NextLevel = 0 BY <1>1, NextLevelIs
<1>3. Exact(0) /\ Exact(1)
  <2>1. 0 \in 0..(RlChanges + 1) /\ 0 + 1 \in 0..(RlChanges + 1) /\ RlChanges + 1 - 0 \in 0..(RlChanges + 1)
    BY Targets
  <2>2. Divisor(RlChanges + 1 - 0) \in Nat BY <2>1, PartsOf
  <2>3. mScaler = 0 * Divisor(RlChanges + 1 - 0) BY <2>2
  <2>4. Exact(0) BY <2>1, <2>3 DEF Exact
  <2> QED BY <2>1, <2>4, ExactMore
<1>4. ExactForNext BY <1>3 DEF ExactForNext
<1>5. Gentle BY <1>2, Targets DEF Gentle
<1>6. Arrives /\ Forces BY Targets DEF Arrives, Forces
<1> QED BY <1>1, <1>4, <1>5, <1>6 DEF RlInv
-----------------------------------------------------------------------------
\* An action that leaves the ramp alone leaves its next level alone.
LEMMA SameNextLevel ==
  ASSUME UNCHANGED <<mLevelTo, mRemaining, mScaler, levels, since>>, Gentle
  PROVE  Gentle'
BY DEF Gentle, NextLevel, InterpolateCurrent

LEMMA RlStore ==
  ASSUME RlInv, NEW t \in RlTargets, Store(t)
  PROVE  RlInv'
<1> USE DEF RlInv
<1>1. RlTyped'
  <2>1. changes' \in 0..RlChanges BY Targets DEF RlTyped, Store
  <2>2. setting' \in [at : {"idle", "look", "force"}, target : RlTargets \cup {0}] BY DEF Store
  <2> QED BY <2>1, <2>2 DEF RlTyped, Store, audio
<1>2. Gentle' BY SameNextLevel DEF Store, audio
<1>3. ExactForNext'
  <2>1. changes \in 0..RlChanges /\ changes < RlChanges /\ changes' = changes + 1
        /\ RlChanges \in Nat /\ mScaler' = mScaler /\ rlPc' = rlPc /\ target' = target
        /\ mTarget' = t /\ mLevelTo' = mLevelTo
    BY Targets DEF RlTyped, Store, audio
  <2>2. Exact(changes + 1) BY DEF ExactForNext
  <2>3. Exact((changes + 1) + 1) BY <2>1, <2>2, ExactMore
  <2>4. ASSUME rlPc = "new", t # target PROVE Exact(changes)
    <3>1. CASE mTarget = target BY <2>4, <3>1 DEF ExactForNext
    <3>2. CASE mTarget # target
      <4>1. changes > 0 /\ Exact(changes - 1) BY <2>4, <3>2 DEF ExactForNext
      <4>2. (changes - 1) + 1 = changes /\ changes \in 0..(RlChanges + 1) BY <2>1
      <4> QED BY <4>1, <4>2, ExactMore
    <3> QED BY <3>1, <3>2
  <2>5. changes' + 1 = (changes + 1) + 1 /\ changes' > 0 /\ changes' - 1 = changes BY <2>1
  <2> QED BY <2>1, <2>2, <2>3, <2>4, <2>5 DEF ExactForNext, Exact
<1>4. Arrives' BY DEF Arrives, Store, audio
<1>5. Forces' BY DEF Forces, Store, audio
<1> QED BY <1>1, <1>2, <1>3, <1>4, <1>5

LEMMA RlLook ==
  ASSUME RlInv, Look
  PROVE  RlInv'
<1> USE DEF RlInv
<1>1. UNCHANGED <<audio, mTarget, mLevelTo, changes>> BY DEF Look
<1>2. RlTyped'
  <2>1. setting' \in [at : {"idle", "look", "force"}, target : RlTargets \cup {0}]
    BY DEF Look, RlTyped
  <2> QED BY <1>1, <2>1 DEF RlTyped, audio
<1>3. Gentle' BY <1>1, SameNextLevel DEF audio
<1>4. ExactForNext' BY <1>1 DEF ExactForNext, Exact, audio
<1>5. Arrives' BY <1>1 DEF Arrives, audio
<1>6. Forces'
  <2>1. setting.at = "look" /\ setting'.target = setting.target
        /\ setting'.at = IF ramped THEN "idle" ELSE "force"
    BY DEF Look, RlTyped
  <2>2. setting.target = mTarget BY <2>1 DEF Forces
  <2>3. ~ramped => rlPc = "idle" /\ mRemaining = 0 /\ levels[2] = -1 BY DEF Forces
  <2> QED BY <1>1, <2>1, <2>2, <2>3 DEF Forces, audio
<1> QED BY <1>2, <1>3, <1>4, <1>5, <1>6

LEMMA RlForceCurrent ==
  ASSUME RlInv, ForceCurrent
  PROVE  RlInv'
<1> USE DEF RlInv
<1>1. UNCHANGED <<audio, mTarget, changes>> /\ setting.at = "force" /\ mLevelTo' = mTarget
      /\ setting'.at = "idle"
  BY DEF ForceCurrent, Forces, RlTyped
<1>2. RlTyped'
  <2>1. setting' \in [at : {"idle", "look", "force"}, target : RlTargets \cup {0}]
    BY DEF ForceCurrent, RlTyped
  <2> QED BY <1>1, <2>1 DEF RlTyped, audio
<1>3. mLevelTo = mTarget \/ (mRemaining = 0 /\ levels[2] = -1 /\ rlPc # "frames")
  BY <1>1 DEF Forces
<1>4. Gentle'
  <2>1. CASE mLevelTo = mTarget BY <1>1, <2>1, SameNextLevel DEF audio
  <2>2. CASE mRemaining = 0 /\ levels[2] = -1
    <3>1. NextLevel' \in 0..Highest
      <4>1. mRemaining' = 0 /\ mLevelTo' \in 0..Highest /\ mScaler' \in Int
        BY <1>1, <2>2, NextLevelIs DEF RlTyped, audio
      <4>2. \A l \in 0..Highest, s \in Int : l - 0 * s = l BY Targets
      <4>3. mLevelTo' - mRemaining' * mScaler' = mLevelTo' BY <4>1, <4>2
      <4> QED BY <4>1, <4>3 DEF NextLevel, InterpolateCurrent
    <3>2. UNCHANGED <<mScaler, levels, since>> BY <1>1 DEF audio
    <3> QED BY <2>2, <3>1, <3>2 DEF Gentle
  <2> QED BY <1>3, <2>1, <2>2
<1>5. ExactForNext' BY <1>1 DEF ExactForNext, Exact, Forces, audio
<1>6. Arrives'
  <2>1. CASE mLevelTo = mTarget BY <1>1, <2>1 DEF Arrives, audio
  <2>2. CASE mRemaining = 0 /\ levels[2] = -1 /\ rlPc # "frames"
    <3>1. since = 0 BY <2>2 DEF Gentle
    <3> QED BY <1>1, <2>2, <3>1, Targets DEF Arrives, audio
  <2> QED BY <1>3, <2>1, <2>2
<1>7. Forces' BY <1>1 DEF Forces, audio
<1> QED BY <1>2, <1>4, <1>5, <1>6, <1>7

LEMMA RlRun ==
  ASSUME RlInv, Run
  PROVE  RlInv'
<1> USE DEF RlInv
<1>1. RlTyped' BY DEF Run, RlTyped
<1>2. Gentle' BY SameNextLevel DEF Run
<1>3. ExactForNext' BY DEF ExactForNext, Exact, Run
<1>4. Arrives' BY DEF Arrives, Run
<1>5. Forces' BY DEF Forces, Run
<1> QED BY <1>1, <1>2, <1>3, <1>4, <1>5

LEMMA RlLoad ==
  ASSUME RlInv, Load
  PROVE  RlInv'
<1> USE DEF RlInv
<1>1. RlTyped' BY DEF Load, RlTyped
<1>2. Gentle' BY SameNextLevel DEF Load
<1>3. ExactForNext' BY DEF ExactForNext, Exact, Load
<1>4. Arrives' BY DEF Arrives, Load
<1>5. Forces' BY DEF Forces, Load
<1> QED BY <1>1, <1>2, <1>3, <1>4, <1>5
-----------------------------------------------------------------------------
LEMMA RlNewRamp ==
  ASSUME RlInv, NewRamp
  PROVE  RlInv'
<1> USE DEF RlInv
<1> DEFINE way == target - From
           n == IF mTarget = target THEN changes ELSE changes - 1
<1>1. rlPc = "new" /\ rlPc' = "frames" /\ mScaler' = way \div RlLength /\ mLevelTo' = target
      /\ mRemaining' = RlLength /\ since' = 0
      /\ UNCHANGED <<mTarget, ramped, setting, changes, target, levels>>
  BY DEF NewRamp
<1>2. n \in 0..RlChanges /\ Exact(n) BY <1>1, Targets DEF ExactForNext, RlTyped
<1>3. /\ way \in Int /\ RlLength * (way \div RlLength) = way
      /\ \E q \in Int : way \div RlLength = q * Divisor(RlChanges + 1 - (n + 1))
  BY <1>2, ExactRamp
<1>4. mScaler' \in Int
  <2>1. \A w \in Int, d \in Nat \ {0} : w \div d \in Int OBVIOUS
  <2> QED BY <1>1, <1>3, <2>1, Targets
<1>5. RlLength * mScaler' = way BY <1>1, <1>3
<1>6. Exact(n + 1)'
  <2>1. (n + 1) \in 0..(RlChanges + 1) BY <1>2, Targets
  <2>2. n' = n BY <1>1
  <2>3. \E q \in Int : mScaler' = q * Divisor(RlChanges + 1 - (n + 1)) BY <1>1, <1>3
  <2> HIDE DEF n
  <2> QED BY <2>1, <2>2, <2>3 DEF Exact
<1> DEFINE before == NextLevel
<1>7. before \in 0..Highest /\ target \in 0..Highest /\ way = target - before
  BY NextLevelIs DEF Gentle, From, NextLevel
<1>8. NextLevel' = before
  <2>1. NextLevel' = target - RlLength * mScaler' BY <1>1 DEF NextLevel, InterpolateCurrent
  <2> HIDE DEF way, before
  <2>2. NextLevel' = target - way BY <1>5, <2>1
  <2> QED BY <1>7, <2>2, Targets
<1>9. mScaler' <= Highest \div RlLength /\ -mScaler' <= Highest \div RlLength
  <2>1. way <= Highest /\ -way <= Highest /\ way \in Int
    <3> HIDE DEF way, before
    <3> QED BY <1>3, <1>7, Targets
  <2> HIDE DEF way
  <2>2. RlLength * mScaler' <= Highest BY <1>5, <2>1
  <2>3. RlLength * (-mScaler') <= Highest
    <3>1. \A d, s \in Int : d * (-s) = -(d * s) OBVIOUS
    <3>2. RlLength * (-mScaler') = -way BY <1>4, <1>5, <3>1, Targets
    <3> QED BY <2>1, <3>2
  <2> DEFINE s == mScaler'
             m == -s
  <2>4. s \in Int /\ m \in Int /\ RlLength * s <= Highest /\ RlLength * m <= Highest
    BY <1>4, <2>2, <2>3
  <2> HIDE DEF s, m
  <2>5. s <= Highest \div RlLength /\ m <= Highest \div RlLength BY <2>4, NotSteeper, Targets
  <2> QED BY <2>5 DEF s, m
<1>10. RlTyped'
  <2>1. mRemaining' \in 0..RlLength /\ since' \in Nat BY <1>1, Targets
  <2> HIDE DEF way, n
  <2> QED BY <1>1, <1>4, <2>1 DEF RlTyped
<1>11. Gentle'
  <2>1. NextLevel' = NextLevel BY <1>8
  <2> HIDE DEF way, n, before
  <2>2. NextLevel' \in 0..Highest BY <2>1 DEF Gentle
  <2>3. levels[2] # -1 => levels[2] >= 0 /\ Far(levels[2], NextLevel') <= Highest \div RlLength
    BY <2>1 DEF Gentle
  <2>4. /\ levels[1] # -1 => Far(levels[1], levels[2]) <= Highest \div RlLength
        /\ levels[2] = -1 => levels[1] = -1
    BY DEF Gentle
  <2>5. levels' = levels /\ since' = 0 BY <1>1
  <2> QED BY <1>9, <2>2, <2>3, <2>4, <2>5 DEF Gentle, Far
<1>12. ExactForNext'
  <2>1. Exact(changes + 1)'
    <3>1. CASE mTarget = target
      <4>1. n + 1 = changes + 1 /\ (n + 1)' = n + 1 /\ changes' = changes BY <1>1, <3>1
      <4> HIDE DEF n
      <4> QED BY <1>6, <4>1 DEF Exact
    <3>2. CASE mTarget # target
      <4>1. changes \in 0..RlChanges /\ changes' = changes BY <1>1 DEF RlTyped
      <4>2. (changes - 1) + 1 = changes /\ changes \in 0..(RlChanges + 1)
            /\ changes + 1 \in 0..(RlChanges + 1)
        BY <4>1, Targets
      <4>3. PICK q \in Int : mScaler' = q * Divisor(RlChanges + 1 - changes)
        <5>1. n + 1 = changes BY <3>2, <4>2
        <5>2. (n + 1)' = n + 1 BY <1>1
        <5> HIDE DEF n
        <5> QED BY <1>6, <5>1, <5>2 DEF Exact
      <4> DEFINE k == RlChanges + 1 - changes
      <4>4. k \in 0..(RlChanges + 1) /\ k > 0 /\ k - 1 = RlChanges + 1 - (changes + 1)
            /\ k - 1 \in 0..(RlChanges + 1)
        BY <4>1, Targets
      <4> HIDE DEF k
      <4>5. Divisor(k) = RlLength * Divisor(k - 1) /\ Divisor(k - 1) \in Nat BY <4>4, PartsOf
      <4>6. q * (RlLength * Divisor(k - 1)) = (q * RlLength) * Divisor(k - 1) /\ q * RlLength \in Int
        BY <4>5, Targets
      <4>7. mScaler' = (q * RlLength) * Divisor(RlChanges + 1 - (changes + 1))
        BY <4>3, <4>4, <4>5, <4>6 DEF k
      <4> QED BY <4>1, <4>2, <4>6, <4>7 DEF Exact
    <3> QED BY <3>1, <3>2
  <2>2. mTarget' # mLevelTo' => Exact(changes)'
    <3> SUFFICES ASSUME mTarget # target PROVE Exact(changes)' BY <1>1
    <3>1. changes \in 0..RlChanges /\ changes' = changes BY <1>1 DEF RlTyped
    <3>2. n + 1 = changes /\ (n + 1)' = n + 1 BY <1>1, <3>1
    <3> HIDE DEF n
    <3> QED BY <1>6, <3>1, <3>2 DEF Exact
  <2>3. rlPc' # "new" BY <1>1
  <2> HIDE DEF way, n, before
  <2> QED BY <2>1, <2>2, <2>3 DEF ExactForNext
<1>13. Arrives'
  <2> HIDE DEF way, n, before
  <2> QED BY <1>1, Targets DEF Arrives
<1>14. Forces'
  <2>1. setting.at = "force" => target = mTarget BY <1>1 DEF Forces
  <2>2. setting.at # "idle" => setting.target = mTarget BY DEF Forces
  <2>3. ramped BY <1>1 DEF Forces, RlTyped
  <2> HIDE DEF way, n, before
  <2> QED BY <1>1, <2>1, <2>2, <2>3 DEF Forces
<1> HIDE DEF way, n, before
<1> QED BY <1>10, <1>11, <1>12, <1>13, <1>14

LEMMA FarStep ==
  ASSUME NEW a \in Int, NEW s \in Int, NEW h \in Int, s <= h, -s <= h
  PROVE  Far(a, a + s) <= h
BY DEF Far

LEMMA RlProcessFrame ==
  ASSUME RlInv, ProcessFrame
  PROVE  RlInv'
<1> USE DEF RlInv
<1> DEFINE steep == Highest \div RlLength
<1>1. /\ rlPc = "frames" /\ rlPc' \in {"frames", "idle"}
      /\ levels' = <<levels[2], IF mRemaining > 0 THEN NextLevel ELSE mLevelTo>>
      /\ mRemaining' = IF mRemaining > 0 THEN mRemaining - 1 ELSE 0
      /\ since' = IF since < RlFrames THEN since + 1 ELSE since
      /\ UNCHANGED <<mTarget, mLevelTo, mScaler, ramped, setting, changes, target>>
  BY DEF ProcessFrame, NextLevel
<1>2. mRemaining \in 0..RlLength /\ mRemaining \in Int /\ mScaler \in Int /\ mLevelTo \in 0..Highest
      /\ mLevelTo \in Int /\ Highest \in Nat /\ since \in Nat /\ steep \in Nat
  BY Targets DEF RlTyped
<1>3. NextLevel \in Int /\ NextLevel \in 0..Highest BY NextLevelIs DEF Gentle
<1>4. levels' = <<levels[2], NextLevel>>
  <2>1. mRemaining > 0 \/ NextLevel = mLevelTo BY <1>2, NextLevelIs
  <2> QED BY <1>1, <2>1
<1>5. \E a, b \in Int : levels = <<a, b>> BY DEF RlTyped
<1>6. levels[2] \in Int BY <1>5
<1>7. RlTyped'
  <2>1. mRemaining' \in 0..RlLength /\ since' \in Nat BY <1>1, <1>2, Targets
  <2>2. \E a, b \in Int : levels' = <<a, b>> BY <1>3, <1>4, <1>6
  <2> QED BY <1>1, <2>1, <2>2 DEF RlTyped
<1>8. NextLevel' \in 0..Highest /\ NextLevel' \in Int
      /\ (NextLevel' = NextLevel \/ NextLevel' = NextLevel + mScaler)
  <2>1. CASE mRemaining > 0
    <3>1. NextLevel' = mLevelTo - (mRemaining - 1) * mScaler
      BY <1>1, <2>1 DEF NextLevel, InterpolateCurrent
    <3>2. mLevelTo - mRemaining * mScaler \in 0..Highest BY <1>3 DEF NextLevel, InterpolateCurrent
    <3>3. mRemaining \in Nat BY <1>2
    <3>4. NextLevel' \in 0..Highest BY <1>2, <2>1, <3>1, <3>2, <3>3, OnTheWay
    <3>5. \A l, r, s \in Int : l - (r - 1) * s = (l - r * s) + s OBVIOUS
    <3>6. NextLevel' = NextLevel + mScaler BY <1>2, <3>1, <3>5 DEF NextLevel, InterpolateCurrent
    <3> QED BY <1>2, <3>4, <3>6
  <2>2. CASE ~(mRemaining > 0)
    <3>1. mRemaining = 0 /\ mRemaining' = 0 BY <1>1, <1>2, <2>2
    <3>2. NextLevel' = NextLevel BY <1>1, <3>1 DEF NextLevel, InterpolateCurrent
    <3> QED BY <1>3, <3>2
  <2> QED BY <2>1, <2>2
<1>9. Far(NextLevel, NextLevel') <= steep
  <2>1. mScaler <= steep /\ -mScaler <= steep BY DEF Gentle
  <2>3. \A a \in Int, h \in Nat : Far(a, a) <= h BY DEF Far
  <2> HIDE DEF steep
  <2>4. CASE NextLevel' = NextLevel BY <1>2, <1>3, <2>3, <2>4
  <2>5. CASE NextLevel' = NextLevel + mScaler
    <3>1. NextLevel \in Int /\ mScaler \in Int /\ steep \in Int BY <1>2, <1>3
    <3>2. Far(NextLevel, NextLevel + mScaler) <= steep BY ONLY <2>1, <3>1, FarStep
    <3> QED BY <2>5, <3>2
  <2> QED BY <1>8, <2>4, <2>5
<1>10. Gentle'
  <2>1. levels'[1] = levels[2] /\ levels'[2] = NextLevel BY <1>4
  <2>2. levels[2] # -1 => Far(levels[2], NextLevel) <= steep BY DEF Gentle
  <2>3. mScaler' <= steep /\ -mScaler' <= steep BY <1>1 DEF Gentle
  <2>4. NextLevel >= 0 /\ NextLevel # -1 BY <1>3
  <2>5. Far(levels'[2], NextLevel') <= steep BY <1>9, <2>1
  <2>6. levels'[1] # -1 => Far(levels'[1], levels'[2]) <= steep BY <2>1, <2>2
  <2>7. levels'[2] >= 0 /\ levels'[2] # -1 BY <2>1, <2>4
  <2> QED BY <1>8, <2>3, <2>5, <2>6, <2>7 DEF Gentle, Far
<1>11. ExactForNext' BY <1>1 DEF ExactForNext, Exact
<1>12. Arrives'
  <2>1. target = mLevelTo BY <1>1 DEF Arrives
  <2>2. mRemaining > 0 => since + mRemaining <= RlLength BY DEF Arrives
  <2>3. since > RlLength => levels[2] = mLevelTo BY DEF Arrives
  <2>4. mRemaining' > 0 => since' + mRemaining' <= RlLength BY <1>1, <1>2, <2>2, Targets
  <2>5. since' > RlLength => levels'[2] = mLevelTo'
    <3>1. CASE mRemaining > 0
      <4>1. since' <= RlLength BY <1>1, <1>2, <2>2, <3>1, Targets
      <4> QED BY <1>1, <1>2, <4>1, Targets
    <3>2. CASE ~(mRemaining > 0) BY <1>1, <3>2
    <3> QED BY <3>1, <3>2
  <2>6. target' = mLevelTo' BY <1>1, <2>1
  <2> QED BY <2>4, <2>5, <2>6 DEF Arrives
<1>13. Forces'
  <2>1. ramped BY <1>1 DEF Forces, RlTyped
  <2>2. setting.at = "force" => mLevelTo = mTarget BY <1>1 DEF Forces
  <2>3. setting.at # "idle" => setting.target = mTarget BY DEF Forces
  <2> QED BY <1>1, <2>1, <2>2, <2>3 DEF Forces
<1> QED BY <1>7, <1>10, <1>11, <1>12, <1>13

LEMMA RlNextInv == RlInv /\ [RlNext]_rlVars => RlInv'
<1> SUFFICES ASSUME RlInv, [RlNext]_rlVars PROVE RlInv' OBVIOUS
<1>1. ASSUME NEW t \in RlTargets, Store(t) PROVE RlInv' BY <1>1, RlStore
<1>2. CASE Look BY <1>2, RlLook
<1>3. CASE ForceCurrent BY <1>3, RlForceCurrent
<1>4. CASE Run BY <1>4, RlRun
<1>5. CASE Load BY <1>5, RlLoad
<1>6. CASE NewRamp BY <1>6, RlNewRamp
<1>7. CASE ProcessFrame BY <1>7, RlProcessFrame
<1>8. CASE UNCHANGED rlVars
  BY <1>8 DEF rlVars, audio, RlInv, RlTyped, ExactForNext, Exact, Gentle, NextLevel,
              InterpolateCurrent, Far, Arrives, Forces
<1> QED BY <1>1, <1>2, <1>3, <1>4, <1>5, <1>6, <1>7, <1>8 DEF RlNext

\* For every length of a ramp and any number of targets that are set while one runs,
\* or while setTarget() looks whether to force the level: no frame's level is further
\* from the last one than a ramp over the whole range is steep, and a ramp ends at the
\* target that was loaded (RampLinear::onProcess, forceCurrent).
THEOREM RampIsSmooth == RlSpec => []RampSmooth
<1>1. RlInv => RampSmooth
  <2> SUFFICES ASSUME RlInv PROVE RampSmooth OBVIOUS
  <2>1. ASSUME rlPc # "new", since > RlLength PROVE levels[2] = target
    <3>1. since > 0 BY <2>1, Targets DEF RlInv, RlTyped
    <3> QED BY <2>1, <3>1 DEF RlInv, Arrives
  <2>2. levels[1] # -1 => Far(levels[1], levels[2]) <= Highest \div RlLength BY DEF RlInv, Gentle
  <2> QED BY <2>1, <2>2 DEF RampSmooth
<1> QED BY <1>1, RlInitInv, RlNextInv, PTL DEF RlSpec
-----------------------------------------------------------------------------
(* What MCOboe's run checks of them together *)

\* Whatever openStream() is asked for, on any device and by any number of threads: it
\* calls AAudio through pointers that were loaded, and leaves MMAP as it found it.
THEOREM AAudioIsAsFound == AlSpec /\ SoSpec => []AAudioAsFound
<1>1. LoadedBeforeUse /\ MMapSettled => AAudioAsFound BY DEF AAudioAsFound
<1> QED BY <1>1, PointersAreLoaded, MMapIsSettled, PTL

\* With any buffers, reads and targets: what is pulled through a flowgraph is all that
\* the source gives, each pull ends, and a level that ramps does not jump.
THEOREM GraphIsPlayed == ~FgWraps => (FgSpec /\ RlSpec => []GraphPlays)
<1> SUFFICES ASSUME ~FgWraps PROVE FgSpec /\ RlSpec => []GraphPlays OBVIOUS
<1>1. FramesPulled /\ PullEnds /\ RampSmooth => GraphPlays BY DEF GraphPlays
<1>2. FgSpec => []FramesPulled BY GraphIsPulled
<1> QED BY <1>1, <1>2, PullsEnd, RampIsSmooth, PTL
=============================================================================
