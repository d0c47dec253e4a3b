------------------------ MODULE OpenSLESOutputProofs ------------------------
(***************************************************************************)
(* For any number of application threads and of calls: the state that an   *)
(* OpenSL ES output reports is its player's, and in a calm program its one *)
(* buffer in flight keeps the stream playing and alive.                    *)
(***************************************************************************)
EXTENDS OpenSLESOutput, SequenceTheorems, TLAPS
-----------------------------------------------------------------------------
(* The inductive invariant. *)

\* Where the application's threads are, and the callback's.
AppWhere == {"idle", "depth", "fire", "inApp", "enqueue", "stop", "stopped", "stuck",
             "destroying"}
CallbackWhere == AppWhere \ {"depth", "destroying"}

Where == [t \in Thread |-> IF t = "callback" THEN CallbackWhere ELSE AppWhere]

Record == [pc : AppWhere, buf : 0..1]

Typed == /\ calm \in BOOLEAN
         /\ queue \in Seq(0..1) /\ bufferIndex \in 0..1
         /\ enabled \in BOOLEAN
         /\ th \in [Thread -> Record]
         /\ \A t \in Thread : th[t].pc \in Where[t]

\* Where a thread has the buffer that is neither queued nor played.
Filling == {"depth", "fire", "inApp", "enqueue"}

\* Of a calm program only one thread calls, the callback never stops the
\* stream, and the callback is enabled when anything is played.
CalmThreads ==
  /\ \A t \in App \ {Main} : At(t, "idle")
  /\ th[Main].pc \in Filling \cup {"idle", "destroying"}
  /\ th["callback"].pc \in Filling \cup {"idle"}
  /\ enabled \/ (queue = << >> /\ \A t \in Thread : th[t].pc \notin Filling)

\* There is one buffer in flight at most: it is queued, or with the thread that
\* primes the queue, or with the callback.
OneBuffer ==
  /\ Len(queue) <= 1
  /\ th[Main].pc \in Filling => queue = << >> /\ At("callback", "idle")
  /\ th["callback"].pc \in Filling => queue = << >>

\* While the stream is started there is one.
BufferInFlight ==
  state = "Started" => /\ mLock = Nobody
                       /\ \/ queue # << >> \/ \E t \in Thread : th[t].pc \in Filling

Calm == calm => CalmThreads /\ OneBuffer /\ BufferInFlight

\* Whoever is about to use the queue of a calm program finds it: its one thread
\* does not close while it primes the queue, and Destroy joins the callback.
QueueThere ==
  calm => \A t \in Thread : th[t].pc \in {"depth", "fire", "inApp", "enqueue"}
                              => player # "Destroyed"

\* close() holds the lock until the player is gone, and the state is Closed then.
DestroyedIsClosed == player = "Destroyed" => mLock = Nobody

OutputInv == Typed /\ StateMatchesPlayer /\ DestroyedIsClosed /\ Calm /\ QueueThere
-----------------------------------------------------------------------------
(* Types, and what the steps do to the record of the thread that takes them. *)

LEMMA Threads == /\ "callback" \in Thread /\ Main \in Thread /\ App \subseteq Thread
                 /\ Main # "callback" /\ "callback" \notin App /\ Nobody \notin Thread
                 /\ \A t \in Thread : t # "callback" => t \in App
BY AppAssumption DEF Thread

LEMMA Places == /\ Where["callback"] = CallbackWhere
                /\ \A t \in App : Where[t] = AppWhere
                /\ \A t \in Thread : Where[t] \subseteq AppWhere
                /\ \A t \in Thread : CallbackWhere \subseteq Where[t]
BY Threads DEF Where, CallbackWhere

\* Only thread t moves, to pc.
Moves(t, pc) == /\ th' \in [Thread -> Record]
                /\ th'[t].pc = pc
                /\ \A u \in Thread \ {t} : th'[u] = th[u]

LEMMA GoToMoves ==
  ASSUME Typed, NEW t \in Thread, NEW pc \in AppWhere, GoTo(t, pc)
  PROVE  Moves(t, pc)
<1>1. th[t] \in Record BY DEF Typed
<1>2. [th[t] EXCEPT !.pc = pc] \in Record /\ [th[t] EXCEPT !.pc = pc].pc = pc
  BY <1>1 DEF Record
<1> QED BY <1>1, <1>2 DEF GoTo, Typed, Moves

LEMMA FireMoves ==
  ASSUME Typed, NEW t \in Thread, Fire(t)
  PROVE  Moves(t, IF enabled THEN "inApp" ELSE "stop")
<1> DEFINE new == [pc |-> IF enabled THEN "inApp" ELSE "stop", buf |-> bufferIndex]
<1>1. new \in Record /\ new.pc = IF enabled THEN "inApp" ELSE "stop"
  BY DEF Typed, Record, AppWhere
<1>2. th' = [th EXCEPT ![t] = new] BY DEF Fire
<1> HIDE DEF new
<1> QED BY <1>1, <1>2 DEF Typed, Moves

\* What a step has to leave typed, once it is known where its thread goes.
LEMMA MovedTyped ==
  ASSUME Typed, NEW t \in Thread, NEW pc \in Where[t], Moves(t, pc),
         UNCHANGED calm, queue' \in Seq(0..1), bufferIndex' \in 0..1, enabled' \in BOOLEAN
  PROVE  Typed'
<1>1. \A u \in Thread : th'[u].pc \in Where[u] BY DEF Moves, Typed
<1> QED BY <1>1 DEF Moves, Typed

LEMMA StayedTyped ==
  ASSUME Typed, UNCHANGED <<th, calm>>, queue' \in Seq(0..1), bufferIndex' \in 0..1,
         enabled' \in BOOLEAN
  PROVE  Typed'
BY DEF Typed

\* A queue of one buffer is empty when that has been taken, and not before.
LEMMA QueueOfOne ==
  ASSUME NEW q \in Seq(0..1), NEW b \in 0..1
  PROVE  /\ q # << >> => Tail(q) \in Seq(0..1) /\ Len(q) >= 1
         /\ (q # << >> /\ Len(q) <= 1) => Tail(q) = << >>
         /\ Append(q, b) \in Seq(0..1) /\ Append(q, b) # << >>
         /\ q = << >> => Len(q) = 0 /\ Len(Append(q, b)) = 1
         /\ << >> \in Seq(0..1) /\ Len(<< >>) = 0
<1>1. q # << >> => Len(q) >= 1 BY EmptySeq
<1>2. q # << >> => Tail(q) \in Seq(0..1) /\ Len(Tail(q)) = Len(q) - 1 BY HeadTailProperties
<1>3. Append(q, b) \in Seq(0..1) /\ Len(Append(q, b)) = Len(q) + 1 BY AppendProperties
<1>4. Len(q) \in Nat BY LenProperties
<1>5. << >> \in Seq(0..1) /\ Len(<< >>) = 0 BY EmptySeq
<1>6. \A s \in Seq(0..1) : Len(s) = 0 <=> s = << >> BY EmptySeq
<1>7. (q # << >> /\ Len(q) <= 1) => Tail(q) = << >>
  <2>1. (q # << >> /\ Len(q) <= 1) => Len(q) = 1 BY <1>1, <1>4
  <2>2. (q # << >> /\ Len(q) <= 1) => Len(Tail(q)) = 0 BY <1>2, <2>1
  <2> QED BY <1>2, <1>6, <2>2
<1>8. Append(q, b) # << >> BY <1>3, <1>4, <1>5
<1>9. q = << >> => Len(q) = 0 /\ Len(Append(q, b)) = 1 BY <1>3, <1>5
<1>10. q # << >> => Tail(q) \in Seq(0..1) BY <1>2
<1> QED BY <1>1, <1>3, <1>5, <1>7, <1>8, <1>9, <1>10

\* In a calm program only the thread that calls and the callback get anywhere.
LEMMA CalmMovers ==
  ASSUME Typed, Calm, calm, NEW t \in Thread, th[t].pc # "idle"
  PROVE  t \in {Main, "callback"}
BY Threads DEF Calm, CalmThreads, At
-----------------------------------------------------------------------------
(* The calls of the application.  A step of a thread that does not touch the *)
(* player leaves it as the state says.                                       *)

Device == StateMatchesPlayer /\ DestroyedIsClosed

LEMMA DeviceKept ==
  ASSUME Device, UNCHANGED <<state, player, mLock>> PROVE Device'
BY DEF Device, StateMatchesPlayer, DestroyedIsClosed

LEMMA NothingMoves ==
  ASSUME OutputInv, UNCHANGED <<calm, state, device, bufferIndex, enabled, mLock, th>>
  PROVE  OutputInv'
<1>1. UNCHANGED <<state, player, queue, mLock>> BY DEF device
<1>2. Typed' BY <1>1, StayedTyped DEF OutputInv, Typed
<1>3. Device' BY <1>1, DeviceKept DEF OutputInv, Device
<1>4. Calm'
  BY <1>1 DEF OutputInv, Calm, CalmThreads, OneBuffer, BufferInFlight, At
<1>5. QueueThere' BY <1>1 DEF OutputInv, QueueThere
<1> QED BY <1>2, <1>3, <1>4, <1>5 DEF OutputInv, Device

\* As nothing is left of an earlier run, the thread that starts a calm program's
\* stream has the one buffer.
LEMMA StartKeeps ==
  ASSUME OutputInv, NEW t \in App, At(t, "idle"), calm => t = Main,
         RequestStart(t), UNCHANGED calm
  PROVE  OutputInv'
<1>1. Typed /\ Device /\ t \in Thread /\ t # "callback"
  BY Threads DEF OutputInv, Device
<1>2. CASE UNCHANGED <<state, player, enabled, th>>
  BY <1>2, NothingMoves DEF RequestStart, device
<1>3. CASE /\ state \notin {"Started", "Closed"} /\ SetPlayState("Playing", "Started")
           /\ enabled' = TRUE
           /\ IF state' = "Started" THEN GoTo(t, "depth") ELSE UNCHANGED th
  <2>1. "depth" \in Where[t] BY Places, <1>1 DEF AppWhere
  <2>2. state' = "Started" => player' = "Playing" /\ Moves(t, "depth")
    <3>1. state' = "Started" => GoTo(t, "depth") BY <1>3
    <3>2. state' = "Started" => Moves(t, "depth")
      BY <3>1, <1>1, GoToMoves DEF AppWhere
    <3> QED BY <3>2, <1>3 DEF SetPlayState
  <2>3. state' # "Started" => ~calm /\ UNCHANGED <<state, player, th>>
    BY <1>3 DEF SetPlayState
  <2>4. mLock = Nobody /\ UNCHANGED <<queue, bufferIndex, mLock>>
    BY DEF RequestStart
  <2>5. Typed'
    <3>1. CASE state' = "Started"
      BY <3>1, <1>1, <1>3, <2>1, <2>2, <2>4, MovedTyped DEF Typed
    <3>2. CASE state' # "Started"
      BY <3>2, <1>1, <1>3, <2>3, <2>4, StayedTyped DEF Typed
    <3> QED BY <3>1, <3>2
  <2>6. Device'
    BY <1>1, <2>2, <2>3, <2>4 DEF Device, StateMatchesPlayer, DestroyedIsClosed
  <2>7. ASSUME calm PROVE CalmThreads' /\ OneBuffer' /\ BufferInFlight' /\ player' = "Playing"
    <3>1. /\ t = Main /\ state' = "Started" /\ player' = "Playing" /\ Moves(Main, "depth")
          /\ CalmThreads /\ At("callback", "idle") /\ queue = << >>
      BY <2>2, <2>3, <2>7 DEF RequestStart, OutputInv, Calm
    <3>2. \A u \in Thread \ {Main} : th'[u] = th[u] BY <3>1 DEF Moves
    <3>3. CalmThreads'
      BY <3>1, <3>2, <1>3, Threads DEF CalmThreads, At, Moves, Filling
    <3>4. OneBuffer'
      BY <3>1, <3>2, <2>4, Threads, EmptySeq DEF OneBuffer, At, Moves, Filling
    <3>5. BufferInFlight'
      BY <3>1, <2>4, Threads DEF BufferInFlight, Moves, Filling
    <3> QED BY <3>1, <3>3, <3>4, <3>5
  <2> QED BY <2>5, <2>6, <2>7 DEF OutputInv, Device, Calm, QueueThere, RequestStart
<1> QED BY <1>2, <1>3 DEF RequestStart

\* Pausing, which close() does as well, is left with the device in agreement.
LEMMA PauseKeepsDevice ==
  ASSUME Device, mLock = Nobody, Pause_l
  PROVE  /\ mLock' = mLock => Device'
         /\ player' = "Destroyed" => player = "Destroyed"
         /\ state # "Closed" => player' # "Destroyed" /\ (calm => state' # "Started")
         /\ state' = "Started" => state = "Started" /\ player' = player
BY DEF Device, Pause_l, SetPlayState, StateMatchesPlayer, DestroyedIsClosed

LEMMA PauseKeeps ==
  ASSUME OutputInv, NEW t \in App, Pause(t), UNCHANGED calm
  PROVE  OutputInv'
<1>1. Typed /\ Device /\ mLock = Nobody /\ Pause_l
  BY DEF OutputInv, Device, Pause
<1>2. UNCHANGED <<queue, bufferIndex, enabled, mLock, th, calm>> BY DEF Pause
<1>3. Typed' BY <1>1, <1>2, StayedTyped DEF Typed
<1>4. Device' BY <1>1, <1>2, PauseKeepsDevice
<1>5. QueueThere'
  BY <1>1, <1>2, PauseKeepsDevice DEF OutputInv, QueueThere
<1>6. Calm'
  <2>1. calm => CalmThreads' /\ OneBuffer'
    BY <1>2 DEF OutputInv, Calm, CalmThreads, OneBuffer, At
  <2>2. calm => BufferInFlight'
    BY <1>1, <1>2, PauseKeepsDevice DEF OutputInv, Calm, BufferInFlight
  <2> QED BY <2>1, <2>2, <1>2 DEF Calm
<1> QED BY <1>3, <1>4, <1>5, <1>6 DEF OutputInv, Device

LEMMA FlushKeeps ==
  ASSUME OutputInv, NEW t \in App, Flush(t), UNCHANGED calm
  PROVE  OutputInv'
<1>1. Typed /\ Device BY DEF OutputInv, Device
<1>2. /\ UNCHANGED <<state, player, bufferIndex, enabled, mLock, th, calm>>
      /\ queue' = << >> \/ queue' = queue
      /\ calm => state # "Started"
  BY DEF Flush
<1>3. queue' \in Seq(0..1) BY <1>1, <1>2, EmptySeq DEF Typed
<1>4. Typed' BY <1>1, <1>2, <1>3, StayedTyped DEF Typed
<1>5. Device' BY <1>1, <1>2, DeviceKept
<1>6. QueueThere' BY <1>2 DEF OutputInv, QueueThere
<1>7. Calm'
  <2>1. calm => CalmThreads' /\ OneBuffer'
    BY <1>2, EmptySeq DEF OutputInv, Calm, CalmThreads, OneBuffer, At
  <2>2. calm => BufferInFlight' BY <1>2 DEF BufferInFlight
  <2> QED BY <2>1, <2>2, <1>2 DEF Calm
<1> QED BY <1>4, <1>5, <1>6, <1>7 DEF OutputInv, Device

\* A stop that fails half way never lets go of the lock; in a calm program it
\* does not fail.
LEMMA StopKeepsDevice ==
  ASSUME Device, NEW t \in Thread, NEW next, RequestStop(t, next)
  PROVE  /\ Device'
         /\ player' = "Destroyed" => player = "Destroyed"
         /\ calm => /\ mLock' = mLock
                    /\ state' = "Started" => FALSE
BY Threads DEF Device, RequestStop, StateMatchesPlayer, DestroyedIsClosed, device

LEMMA StopMoves ==
  ASSUME Typed, NEW t \in Thread, NEW next \in Where[t], RequestStop(t, next),
         UNCHANGED <<calm, bufferIndex>>
  PROVE  /\ Typed'
         /\ calm => Moves(t, next)
         /\ queue' = << >> \/ queue' = queue
         /\ UNCHANGED enabled
<1>1. next \in AppWhere /\ "stuck" \in Where[t] /\ "stuck" \in AppWhere
  BY Places DEF AppWhere, CallbackWhere
<1>2. queue' = << >> \/ queue' = queue BY DEF RequestStop, device
<1>3. queue' \in Seq(0..1) BY <1>2, EmptySeq DEF Typed
<1>4. UNCHANGED enabled /\ enabled \in BOOLEAN /\ bufferIndex' \in 0..1
  BY DEF RequestStop, Typed
<1>5. GoTo(t, next) \/ (~calm /\ GoTo(t, "stuck")) BY DEF RequestStop
<1>6. Moves(t, next) \/ (~calm /\ Moves(t, "stuck")) BY <1>1, <1>5, GoToMoves
<1>7. Typed' BY <1>1, <1>3, <1>4, <1>6, MovedTyped
<1> QED BY <1>2, <1>4, <1>6, <1>7

LEMMA StopKeeps ==
  ASSUME OutputInv, NEW t \in App, At(t, "idle"), calm => t = Main,
         RequestStop(t, "idle"), UNCHANGED <<calm, bufferIndex>>
  PROVE  OutputInv'
<1>1. Typed /\ Device /\ t \in Thread /\ "idle" \in Where[t]
  BY Threads, Places DEF OutputInv, Device, AppWhere
<1>2. Typed' BY <1>1, StopMoves
<1>3. Device' /\ (player' = "Destroyed" => player = "Destroyed") BY <1>1, StopKeepsDevice
<1>4. calm => \A u \in Thread : th'[u].pc = th[u].pc
  BY <1>1, StopMoves DEF Moves, At
<1>5. QueueThere' BY <1>3, <1>4 DEF OutputInv, QueueThere
<1>6. Calm'
  <2>1. queue' = << >> \/ queue' = queue BY <1>1, StopMoves
  <2>2. UNCHANGED enabled BY <1>1, StopMoves
  <2>3. calm => CalmThreads'
    BY <1>4, <2>1, <2>2, Threads DEF OutputInv, Calm, CalmThreads, At
  <2>4. calm => OneBuffer'
    BY <1>4, <2>1, Threads, EmptySeq DEF OutputInv, Calm, OneBuffer, At
  <2>5. calm => BufferInFlight' BY <1>1, StopKeepsDevice DEF BufferInFlight
  <2> QED BY <2>3, <2>4, <2>5 DEF Calm
<1> QED BY <1>2, <1>3, <1>5, <1>6 DEF OutputInv, Device

\* close() has the stream paused by the time it destroys the player.
LEMMA CloseBeginKeeps ==
  ASSUME OutputInv, NEW t \in App, At(t, "idle"), calm => t = Main,
         CloseBegin(t), UNCHANGED calm
  PROVE  OutputInv'
<1>1. Typed /\ Device /\ t \in Thread /\ "destroying" \in Where[t] /\ mLock = Nobody
  BY Threads, Places DEF OutputInv, Device, AppWhere, CloseBegin
<1>2. UNCHANGED <<queue, bufferIndex, enabled>> BY DEF CloseBegin
<1>3. CASE state = "Closed"
  BY <1>2, <1>3, NothingMoves DEF CloseBegin, device
<1>4. CASE state # "Closed"
  <2>1. Pause_l /\ mLock' = t /\ GoTo(t, "destroying") BY <1>4 DEF CloseBegin
  <2>2. Moves(t, "destroying") BY <1>1, <2>1, GoToMoves DEF AppWhere
  <2>3. Typed' BY <1>1, <1>2, <2>2, MovedTyped DEF Typed
  <2>4. player' # "Destroyed" /\ (calm => state' # "Started")
    BY <1>1, <1>4, <2>1, PauseKeepsDevice
  <2>5. Device'
    BY <1>1, <2>1, <2>4, Threads DEF Device, StateMatchesPlayer, DestroyedIsClosed
  <2>6. QueueThere' BY <2>4 DEF QueueThere
  <2>7. ASSUME calm PROVE CalmThreads' /\ OneBuffer' /\ BufferInFlight'
    <3>1. t = Main /\ CalmThreads /\ OneBuffer BY <2>7 DEF OutputInv, Calm
    <3>2. th'[Main].pc = "destroying" /\ \A u \in Thread \ {Main} : th'[u] = th[u]
      BY <2>2, <3>1 DEF Moves
    <3>3. CalmThreads' BY <3>1, <3>2, <1>2, Threads DEF CalmThreads, At, Filling
    <3>4. OneBuffer' BY <3>1, <3>2, <1>2, Threads DEF OneBuffer, At, Filling
    <3>5. BufferInFlight' BY <2>4, <2>7 DEF BufferInFlight
    <3> QED BY <3>3, <3>4, <3>5
  <2> QED BY <2>3, <2>5, <2>6, <2>7 DEF OutputInv, Device, Calm
<1> QED BY <1>3, <1>4

LEMMA AppCallKeeps ==
  ASSUME OutputInv, NEW t \in App, AppCall(t)
  PROVE  OutputInv'
BY StartKeeps, PauseKeeps, FlushKeeps, CloseBeginKeeps, StopKeeps DEF AppCall

\* Destroy waits for the callback: there is nobody left to use the queue.
LEMMA CloseEndKeeps ==
  ASSUME OutputInv, NEW t \in Thread, CloseEnd(t), UNCHANGED calm
  PROVE  OutputInv'
<1>1. Typed /\ At(t, "destroying") /\ At("callback", "idle")
  BY DEF OutputInv, CloseEnd
<1>2. t \in App /\ "idle" \in Where[t]
  <2>1. t # "callback" BY <1>1 DEF At
  <2> QED BY <2>1, Threads, Places DEF AppWhere
<1>3. Moves(t, "idle") BY <1>1, GoToMoves DEF CloseEnd, AppWhere
<1>4. /\ player' = "Destroyed" /\ queue' = << >> /\ state' = "Closed" /\ mLock' = Nobody
      /\ UNCHANGED <<bufferIndex, enabled>>
  BY DEF CloseEnd
<1>5. Typed' BY <1>1, <1>2, <1>3, <1>4, MovedTyped, EmptySeq DEF Typed
<1>6. Device' BY <1>4 DEF Device, StateMatchesPlayer, DestroyedIsClosed
<1>7. ASSUME calm
      PROVE  /\ \A u \in Thread : th'[u].pc = "idle"
             /\ CalmThreads' /\ OneBuffer' /\ BufferInFlight'
  <2>1. t = Main /\ CalmThreads
    BY <1>1, <1>2, <1>7, CalmMovers, Threads DEF OutputInv, Calm, At
  <2>2. th'[Main].pc = "idle" /\ \A u \in Thread \ {Main} : th'[u] = th[u]
    BY <1>3, <2>1 DEF Moves
  <2>3. \A u \in Thread : th'[u].pc = "idle"
    BY <1>1, <2>1, <2>2, Threads DEF CalmThreads, At
  <2>4. CalmThreads' BY <1>4, <2>1, <2>3, Threads DEF CalmThreads, At, Filling
  <2>5. OneBuffer' BY <1>4, <2>3, Threads, EmptySeq DEF OneBuffer, At, Filling
  <2>6. BufferInFlight' BY <1>4 DEF BufferInFlight
  <2> QED BY <2>3, <2>4, <2>5, <2>6
<1>8. QueueThere' BY <1>7 DEF QueueThere, OutputInv, CloseEnd
<1> QED BY <1>5, <1>6, <1>7, <1>8 DEF OutputInv, Device, Calm
-----------------------------------------------------------------------------
(* What a thread does without the lock: nothing of it touches the player. *)

\* A thread of a calm program that goes on still has the buffer.
LEMMA GoingOnKeeps ==
  ASSUME OutputInv, NEW t \in Thread, NEW pc \in Where[t], Moves(t, pc),
         calm => th[t].pc \in Filling /\ pc \in Filling /\ enabled',
         enabled' \in BOOLEAN,
         UNCHANGED <<calm, state, device, bufferIndex, mLock>>
  PROVE  OutputInv'
<1>1. Typed /\ Device BY DEF OutputInv, Device
<1>2. UNCHANGED <<player, queue>> BY DEF device
<1>3. Typed' BY <1>1, <1>2, MovedTyped DEF Typed
<1>4. Device' BY <1>1, <1>2, DeviceKept
<1>5. ASSUME calm
      PROVE  CalmThreads' /\ OneBuffer' /\ BufferInFlight' /\ player # "Destroyed"
  <2>1. CalmThreads /\ OneBuffer /\ BufferInFlight /\ player # "Destroyed"
    BY <1>5 DEF OutputInv, Calm, QueueThere, Filling
  <2>2. t \in {Main, "callback"}
    BY <1>1, <1>5, CalmMovers DEF OutputInv, Filling
  <2>3. th'[t].pc \in Filling /\ (\A u \in Thread \ {t} : th'[u] = th[u]) /\ enabled'
    BY <1>5 DEF Moves
  <2>4. CalmThreads'
    BY <2>1, <2>2, <2>3, Threads DEF CalmThreads, At
  <2>5. OneBuffer'
    BY <2>1, <2>2, <2>3, <1>2, <1>5, Threads DEF OneBuffer, At, Filling
  <2>6. BufferInFlight' BY <2>1, <2>3, <1>2 DEF BufferInFlight
  <2> QED BY <2>1, <2>4, <2>5, <2>6
<1>6. QueueThere' BY <1>2, <1>5 DEF QueueThere
<1> QED BY <1>3, <1>4, <1>5, <1>6 DEF OutputInv, Device, Calm

LEMMA StartDepthKeeps ==
  ASSUME OutputInv, NEW t \in Thread, StartDepth(t), UNCHANGED calm
  PROVE  OutputInv'
<1> DEFINE pc == IF queue = << >> THEN "fire" ELSE "idle"
<1>1. Typed /\ th[t].pc = "depth" /\ GoTo(t, pc) BY DEF OutputInv, StartDepth, At
<1>2. t \in App
  <2>1. t # "callback" BY <1>1, Places DEF Typed, CallbackWhere
  <2> QED BY <2>1, Threads
<1>3. pc \in Where[t] /\ pc \in AppWhere BY <1>2, Places DEF AppWhere
<1>4. calm => queue = << >> /\ enabled
  <2>1. calm => CalmThreads /\ OneBuffer /\ t = Main
    BY <1>1, <1>2, CalmMovers, Threads DEF OutputInv, Calm
  <2> QED BY <2>1, <1>1, Threads DEF CalmThreads, OneBuffer, Filling
<1>5. calm => th[t].pc \in Filling /\ pc \in Filling /\ enabled
  BY <1>1, <1>4 DEF Filling
<1> HIDE DEF pc
<1>6. Moves(t, pc) BY <1>1, <1>3, GoToMoves
<1> QED BY <1>1, <1>3, <1>5, <1>6, GoingOnKeeps DEF StartDepth, Typed

\* A callback that was not disabled calls the app.
LEMMA FireKeeps ==
  ASSUME OutputInv, NEW t \in Thread, Fire(t), UNCHANGED calm
  PROVE  OutputInv'
<1> DEFINE pc == IF enabled THEN "inApp" ELSE "stop"
<1>1. Typed /\ th[t].pc = "fire" BY DEF OutputInv, Fire, At
<1>2. pc \in Where[t] BY Places DEF AppWhere, CallbackWhere
<1>3. calm => enabled
  BY <1>1 DEF OutputInv, Calm, CalmThreads, Filling
<1>4. calm => th[t].pc \in Filling /\ pc \in Filling /\ enabled
  BY <1>1, <1>3 DEF Filling
<1>5. Moves(t, pc) BY <1>1, FireMoves
<1> HIDE DEF pc
<1> QED BY <1>1, <1>2, <1>4, <1>5, GoingOnKeeps DEF Fire, Typed

LEMMA AppReturnKeeps ==
  ASSUME OutputInv, NEW t \in Thread, NEW result \in Results, AppReturn(t, result),
         UNCHANGED calm
  PROVE  OutputInv'
<1> DEFINE pc == IF result = "Continue" THEN "enqueue" ELSE "stop"
<1>1. Typed /\ th[t].pc = "inApp" /\ GoTo(t, pc) /\ enabled' = (result = "Continue")
  BY DEF OutputInv, AppReturn, At
<1>2. pc \in Where[t] /\ pc \in AppWhere BY Places DEF AppWhere, CallbackWhere
<1>3. calm => result = "Continue" BY DEF Results
<1>4. enabled' \in BOOLEAN BY <1>1
<1>5. calm => th[t].pc \in Filling /\ pc \in Filling /\ enabled'
  BY <1>1, <1>3 DEF Filling
<1> HIDE DEF pc
<1>6. Moves(t, pc) BY <1>1, <1>2, GoToMoves
<1> QED BY <1>2, <1>4, <1>5, <1>6, GoingOnKeeps DEF AppReturn

\* The end of a buffer that is played hands it to the callback.
LEMMA BufferPlayedKeeps ==
  ASSUME OutputInv, BufferPlayed, UNCHANGED calm
  PROVE  OutputInv'
<1>1. Typed /\ Device /\ th["callback"].pc = "idle" BY DEF OutputInv, Device, BufferPlayed, At
<1>2. /\ player = "Playing" /\ queue # << >> /\ queue' = Tail(queue)
      /\ UNCHANGED <<state, player, bufferIndex, enabled, mLock>>
  BY DEF BufferPlayed
<1>3. "callback" \in Thread /\ "fire" \in Where["callback"] /\ "fire" \in AppWhere
  BY Threads, Places DEF AppWhere, CallbackWhere
<1>4. Moves("callback", "fire") BY <1>1, <1>3, GoToMoves DEF BufferPlayed
<1>5. Tail(queue) \in Seq(0..1) /\ (Len(queue) <= 1 => Tail(queue) = << >>)
  BY <1>1, <1>2, QueueOfOne DEF Typed
<1>6. Typed' BY <1>1, <1>2, <1>3, <1>4, <1>5, MovedTyped DEF Typed
<1>7. Device' BY <1>1, <1>2, DeviceKept
<1>8. QueueThere' BY <1>2 DEF QueueThere
<1>9. ASSUME calm PROVE CalmThreads' /\ OneBuffer' /\ BufferInFlight'
  <2>1. CalmThreads /\ OneBuffer /\ BufferInFlight BY <1>9 DEF OutputInv, Calm
  <2>2. th'["callback"].pc = "fire" /\ \A u \in Thread \ {"callback"} : th'[u] = th[u]
    BY <1>4 DEF Moves
  <2>3. enabled /\ queue' = << >> /\ th[Main].pc \notin Filling
    BY <1>2, <1>5, <2>1 DEF CalmThreads, OneBuffer
  <2>4. CalmThreads'
    BY <1>2, <2>1, <2>2, <2>3, Threads DEF CalmThreads, At, Filling
  <2>5. OneBuffer' BY <2>2, <2>3, Threads, EmptySeq DEF OneBuffer, At, Filling
  <2>6. BufferInFlight'
    BY <1>2, <1>3, <2>1, <2>2 DEF BufferInFlight, Filling
  <2> QED BY <2>4, <2>5, <2>6
<1> QED BY <1>6, <1>7, <1>8, <1>9 DEF OutputInv, Device, Calm

\* In a calm program the queue always has room for the one buffer.
LEMMA EnqueueKeeps ==
  ASSUME OutputInv, NEW t \in Thread, Enqueue(t), UNCHANGED calm
  PROVE  OutputInv'
<1> DEFINE accepted == Len(queue) < kBufferQueueLength /\ player # "Destroyed"
           pc == IF accepted THEN "idle" ELSE "stop"
<1>1. Typed /\ Device /\ th[t].pc = "enqueue" BY DEF OutputInv, Device, Enqueue, At
<1>2. UNCHANGED <<state, player, enabled, mLock>> BY DEF Enqueue
<1>3. bufferIndex' \in 0..1
  BY <1>1 DEF Enqueue, Typed, kBufferQueueLength
<1>4. GoTo(t, pc) /\ queue' = IF accepted THEN Append(queue, bufferIndex) ELSE queue
  BY DEF Enqueue
<1>5. pc \in Where[t] /\ pc \in AppWhere BY Places DEF AppWhere, CallbackWhere
<1>6. Append(queue, bufferIndex) \in Seq(0..1) /\ Append(queue, bufferIndex) # << >>
      /\ (queue = << >> => Len(queue) = 0 /\ Len(Append(queue, bufferIndex)) = 1)
  BY <1>1, QueueOfOne DEF Typed
<1>7. queue' \in Seq(0..1) BY <1>1, <1>4, <1>6 DEF Typed
<1>8. ASSUME calm
      PROVE  /\ CalmThreads /\ OneBuffer /\ BufferInFlight /\ t \in {Main, "callback"}
             /\ accepted /\ queue = << >> /\ enabled
  <2>1. CalmThreads /\ OneBuffer /\ BufferInFlight BY <1>8 DEF OutputInv, Calm
  <2>2. t \in {Main, "callback"} BY <1>1, <1>8, CalmMovers DEF OutputInv
  <2>3. queue = << >> BY <1>1, <2>1, <2>2 DEF OneBuffer, Filling
  <2>4. player # "Destroyed" BY <1>1, <1>8 DEF OutputInv, QueueThere
  <2>5. enabled BY <1>1, <2>1 DEF CalmThreads, Filling
  <2> QED BY <2>1, <2>2, <2>3, <2>4, <2>5, <1>6 DEF kBufferQueueLength
<1>9. calm => pc = "idle" BY <1>8
<1> HIDE DEF pc
<1>10. Moves(t, pc) BY <1>1, <1>4, <1>5, GoToMoves
<1>11. Typed' BY <1>1, <1>2, <1>3, <1>5, <1>7, <1>10, MovedTyped DEF Typed
<1>12. Device' BY <1>1, <1>2, DeviceKept
<1>13. ASSUME calm PROVE CalmThreads' /\ OneBuffer' /\ BufferInFlight'
  <2>1. /\ CalmThreads /\ OneBuffer /\ BufferInFlight /\ t \in {Main, "callback"}
        /\ queue = << >> /\ enabled /\ queue' = Append(queue, bufferIndex)
    BY <1>4, <1>8, <1>13
  <2>2. th'[t].pc = "idle" /\ \A u \in Thread \ {t} : th'[u] = th[u]
    BY <1>9, <1>10, <1>13 DEF Moves
  <2>3. th[t].pc \in Filling BY <1>1 DEF Filling
  <2>4. CalmThreads' BY <1>2, <2>1, <2>2, Threads DEF CalmThreads, At
  <2>5. OneBuffer'
    <3>1. th'[Main].pc \notin Filling /\ th'["callback"].pc \notin Filling
      BY <2>1, <2>2, <2>3, Threads DEF OneBuffer, CalmThreads, At, Filling
    <3> QED BY <3>1, <2>1, <1>6 DEF OneBuffer
  <2>6. BufferInFlight' BY <1>2, <1>6, <2>1 DEF BufferInFlight
  <2> QED BY <2>4, <2>5, <2>6
<1>14. QueueThere'
  <2>1. calm => \A u \in Thread : th'[u].pc # "idle" => th'[u].pc = th[u].pc
    BY <1>9, <1>10 DEF Moves
  <2> QED BY <1>2, <2>1 DEF OutputInv, QueueThere, Enqueue
<1> QED BY <1>11, <1>12, <1>13, <1>14 DEF OutputInv, Device, Calm

\* No thread of a calm program comes to stop the stream from its callback.
LEMMA CalmNeverStops ==
  ASSUME OutputInv, NEW t \in Thread, th[t].pc \in {"stop", "stopped"} PROVE ~calm
<1>1. calm => t \in {Main, "callback"} BY CalmMovers DEF OutputInv
<1> QED BY <1>1 DEF OutputInv, Calm, CalmThreads, Filling

LEMMA CallbackStopKeeps ==
  ASSUME OutputInv, NEW t \in Thread, CallbackStop(t), UNCHANGED calm
  PROVE  OutputInv'
<1>1. Typed /\ Device /\ ~calm BY CalmNeverStops DEF OutputInv, Device, CallbackStop, At
<1>2. "stopped" \in Where[t] BY Places DEF AppWhere, CallbackWhere
<1>3. Typed' BY <1>1, <1>2, StopMoves DEF CallbackStop
<1>4. Device' BY <1>1, StopKeepsDevice DEF CallbackStop
<1> QED BY <1>1, <1>3, <1>4 DEF OutputInv, Device, Calm, QueueThere

LEMMA ResetIndexKeeps ==
  ASSUME OutputInv, NEW t \in Thread, ResetIndex(t), UNCHANGED calm
  PROVE  OutputInv'
<1>1. Typed /\ Device /\ ~calm BY CalmNeverStops DEF OutputInv, Device, ResetIndex, At
<1>2. "idle" \in Where[t] /\ "idle" \in AppWhere BY Places DEF AppWhere, CallbackWhere
<1>3. Moves(t, "idle") BY <1>1, <1>2, GoToMoves DEF ResetIndex
<1>4. UNCHANGED <<queue, player, state, mLock, enabled>> /\ bufferIndex' = 0
  BY DEF ResetIndex, device
<1>5. Typed' BY <1>1, <1>2, <1>3, <1>4, MovedTyped DEF Typed
<1>6. Device' BY <1>1, <1>4, DeviceKept
<1> QED BY <1>1, <1>5, <1>6 DEF OutputInv, Device, Calm, QueueThere
-----------------------------------------------------------------------------
LEMMA OutputInitially == OutputInit => OutputInv
<1> SUFFICES ASSUME OutputInit PROVE OutputInv
  OBVIOUS
<1>1. NoCall \in Record /\ NoCall.pc = "idle" /\ \A t \in Thread : "idle" \in Where[t]
  BY Places DEF NoCall, Record, AppWhere, CallbackWhere
<1>2. \A t \in Thread : th[t] = NoCall /\ th[t].pc = "idle" BY <1>1 DEF OutputInit
<1>3. Typed
  <2>1. th \in [Thread -> Record] BY <1>1 DEF OutputInit
  <2>2. \A t \in Thread : th[t].pc \in Where[t] BY <1>1, <1>2
  <2>3. queue \in Seq(0..1) BY EmptySeq DEF OutputInit
  <2>4. bufferIndex \in 0..1 BY DEF OutputInit
  <2>5. calm \in BOOLEAN /\ enabled \in BOOLEAN BY Zenon DEF OutputInit
  <2> QED BY ONLY <2>1, <2>2, <2>3, <2>4, <2>5 DEF Typed
<1>4. Device BY DEF OutputInit, Device, StateMatchesPlayer, DestroyedIsClosed
<1>5. Calm
  BY <1>2, Threads, EmptySeq
     DEF OutputInit, Calm, CalmThreads, OneBuffer, BufferInFlight, At, Filling
<1>6. QueueThere BY DEF OutputInit, QueueThere
<1> QED BY <1>3, <1>4, <1>5, <1>6 DEF OutputInv, Device

LEMMA OutputStep == OutputInv /\ [OutputNext]_outputVars => OutputInv'
<1> SUFFICES ASSUME OutputInv, [OutputNext]_outputVars PROVE OutputInv'
  OBVIOUS
<1>1. CASE UNCHANGED outputVars BY <1>1, NothingMoves DEF outputVars
<1>2. CASE Through BY <1>2, NothingMoves DEF Through, outputVars
<1>3. CASE BufferPlayed /\ UNCHANGED calm BY <1>3, BufferPlayedKeeps
<1>4. ASSUME NEW t \in App, AppCall(t) PROVE OutputInv' BY <1>4, AppCallKeeps
<1>5. ASSUME NEW t \in Thread, Stepping(t) PROVE OutputInv'
  BY <1>5, StartDepthKeeps, FireKeeps, EnqueueKeeps, ResetIndexKeeps, AppReturnKeeps,
     CallbackStopKeeps, CloseEndKeeps DEF Stepping
<1> QED BY <1>1, <1>2, <1>3, <1>4, <1>5 DEF OutputNext

\* OpenSL ES is only asked for what it can do, and the state an output reports
\* is its player's whenever nobody holds the lock, whatever calls failed half
\* way (AudioOutputStreamOpenSLES).
THEOREM StateIsPlayers == OutputSpec => []StateMatchesPlayer
<1>1. OutputInv => StateMatchesPlayer BY DEF OutputInv
<1> QED BY <1>1, OutputInitially, OutputStep, PTL DEF OutputSpec

\* The one buffer in flight of a started stream is handed on between the queue,
\* the callback and the thread that started the stream, and is never lost: when
\* all threads are through it is in the queue, and the player plays it.
THEOREM BufferStaysInFlight == OutputSpec => []StartedKeepsPlaying
<1>1. ASSUME OutputInv, calm, state = "Started", \A t \in Thread : At(t, "idle")
      PROVE  player = "Playing" /\ queue # << >>
  <2>1. BufferInFlight /\ StateMatchesPlayer BY <1>1 DEF OutputInv, Calm
  <2> QED BY <1>1, <2>1 DEF BufferInFlight, StateMatchesPlayer, At, Filling
<1>2. OutputInv => StartedKeepsPlaying BY <1>1 DEF StartedKeepsPlaying
<1> QED BY <1>2, OutputInitially, OutputStep, PTL DEF OutputSpec
=============================================================================
