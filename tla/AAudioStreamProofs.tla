------------------------- MODULE AAudioStreamProofs -------------------------
(***************************************************************************)
(* For any number of application threads, of stop threads and of calls, on *)
(* every Android version: the locks of AudioStreamAAudio keep every call   *)
(* on the AAudio stream between its opening and the one free, and the      *)
(* flags of the callbacks let each of them in only when it should be.      *)
(***************************************************************************)
EXTENDS AAudioStream, TLAPS
-----------------------------------------------------------------------------
(* The inductive invariant. *)

\* Where a thread holds mLock, where it may use the handle that it has loaded
\* under a lock, and where it has taken the handle away to close the stream.
Holding == {"locked", "both", "polling", "closeWait", "closeStop", "closeSleep",
            "closeJoin"}
Loaded == {"locked", "both", "polling", "shared"}
Closing == {"closeStop", "closeSleep", "closeJoin"}

Call == [pc : AaWhere, op : Request \cup {"none", "close"}, has : BOOLEAN,
         seen : StreamState]

Typed == /\ aaudio \in StreamState
         /\ handle \in BOOLEAN
         /\ mLock \in Thread \cup {NoThread}
         /\ th \in [Thread -> Call]
         /\ callback \in {"idle", "inApp", "queried", "stop"}
         /\ firing \in BOOLEAN /\ enabled \in BOOLEAN /\ stopAllowed \in BOOLEAN
         /\ errorCalled \in BOOLEAN /\ appStopped \in BOOLEAN
         /\ errorPhase \in {"none", "onError", "beforeClose", "close", "afterClose",
                            "done"}
         /\ owned \in BOOLEAN /\ appCalls \in Nat

\* mLock is held by the one thread that is where it holds it.
LockInHand == \A t \in Thread : mLock = t <=> th[t].pc \in Holding

\* A handle loaded under a lock is not exchanged before the lock is released.
HandleStays == \A t \in Thread : th[t].has /\ th[t].pc \in Loaded => handle

\* The stream is there until the handle is taken, and then until the thread
\* that took it has freed it.
AliveWhileHandled == /\ handle => aaudio # "Freed"
                     /\ \A t \in Thread : th[t].pc \in Closing =>
                          th[t].has /\ ~handle /\ aaudio # "Freed"
                     /\ \/ handle \/ aaudio = "Freed"
                        \/ \E t \in Thread : th[t].pc \in Closing

\* Neither a callback nor a stop thread closes the stream.
OwnersClose ==
  \A t \in Thread : th[t].pc \in Closing \cup {"closeWait"} \/ In(t, "locked", "close")
                    => t \in App \cup {"error"}

Locks == LockInHand /\ HandleStays /\ AliveWhileHandled /\ OwnersClose

\* close() stops the stream, waits until AAudio begins no more callbacks, and
\* joins the last.
Silenced ==
  /\ aaudio = "Freed" => callback = "idle" /\ ~firing
  /\ \A t \in Thread : th[t].pc \in {"closeSleep", "closeJoin"} => aaudio \notin Running
  /\ \A t \in Thread : th[t].pc = "closeJoin" => ~firing

\* onAudioReady is entered through mDataCallbackEnabled, the error thread is
\* started behind mErrorCallbackCalled.
Gates == /\ appStopped => ~enabled /\ callback \notin {"inApp", "queried"}
         /\ errorPhase # "none" => errorCalled

\* The app has let go of the stream: it was closed, and no call is left.
Released == ~owned => ~handle /\ \A t \in App : IsAt(t, "idle")
-----------------------------------------------------------------------------
(* Types, and what the steps do to the record of the thread that takes them. *)

\* The threads have names of their own.
LEMMA Threads ==
  /\ "callback" \in Thread /\ "error" \in Thread
  /\ App \subseteq Thread /\ Stoppers \subseteq Thread
  /\ NoThread \notin Thread
  /\ {"callback", "error"} \cap (App \cup Stoppers) = {} /\ App \cap Stoppers = {}
BY ThreadAssumption DEF Thread

\* What the AAudio library makes of a request, and of a transient state, is a
\* state; it frees no stream by itself.
LEMMA EnteredType ==
  ASSUME aaudio \in StreamState, NEW request
  PROVE  Entered(request) \in StreamState /\ (aaudio # "Freed" => Entered(request) # "Freed")
BY DEF Entered, StreamState, Running, Transient

LEMMA SettledType ==
  ASSUME NEW s \in Transient
  PROVE  Settled[s] \in StreamState /\ Settled[s] # "Freed"
BY DEF Settled, StreamState, Transient

LEMMA ReportedType ==
  ASSUME NEW s \in StreamState PROVE Reported(s) \in StreamState
BY DEF Reported, StreamState

\* Only thread t moves: to pc, with has as its copy of the handle.
Moves(t, pc, has) == /\ th' \in [Thread -> Call]
                     /\ th'[t].pc = pc /\ th'[t].has = has
                     /\ \A u \in Thread \ {t} : th'[u] = th[u]

\* A thread that returns is as it was at first.
LEMMA RestType == /\ Quiet \in Call /\ Quiet.pc = "idle" /\ Quiet.has = FALSE
                  /\ \A t : /\ Parked(t) \in Call /\ Parked(t).has = FALSE
                            /\ Parked(t).pc = IF t \in Stoppers THEN "none" ELSE "idle"
<1>1. "Open" \in StreamState BY DEF StreamState
<1> QED BY <1>1 DEF Quiet, Parked, Call, AaWhere

LEMMA ReturnMoves ==
  ASSUME Typed, NEW t \in Thread
  PROVE  /\ th' = [th EXCEPT ![t] = Quiet] => Moves(t, "idle", FALSE)
         /\ th' = [th EXCEPT ![t] = Parked(t)] =>
              Moves(t, IF t \in Stoppers THEN "none" ELSE "idle", FALSE)
BY RestType DEF Typed, Moves

LEMMA GoToMoves ==
  ASSUME Typed, NEW t \in Thread, NEW pc \in AaWhere
  PROVE  /\ MoveTo(t, pc) => Moves(t, pc, th[t].has) /\ th'[t].op = th[t].op
         /\ \A has \in BOOLEAN : th' = [th EXCEPT ![t].pc = pc, ![t].has = has] =>
                                   Moves(t, pc, has) /\ th'[t].op = th[t].op
         /\ \A seen \in StreamState : th' = [th EXCEPT ![t].pc = pc, ![t].seen = seen] =>
                                        Moves(t, pc, th[t].has) /\ th'[t].op = th[t].op
<1>1. th[t] \in Call BY DEF Typed
<1>2. [th[t] EXCEPT !.pc = pc] \in Call BY <1>1 DEF Call
<1>3. \A has \in BOOLEAN : [th[t] EXCEPT !.pc = pc, !.has = has] \in Call
  BY <1>1 DEF Call
<1>4. \A seen \in StreamState : [th[t] EXCEPT !.pc = pc, !.seen = seen] \in Call
  BY <1>1 DEF Call
<1>5. MoveTo(t, pc) => Moves(t, pc, th[t].has) /\ th'[t].op = th[t].op
  BY <1>1, <1>2 DEF MoveTo, Typed, Moves, Call
<1>6. ASSUME NEW has \in BOOLEAN, th' = [th EXCEPT ![t].pc = pc, ![t].has = has]
      PROVE  Moves(t, pc, has) /\ th'[t].op = th[t].op
  BY <1>1, <1>3, <1>6 DEF Typed, Moves, Call
<1>7. ASSUME NEW seen \in StreamState, th' = [th EXCEPT ![t].pc = pc, ![t].seen = seen]
      PROVE  Moves(t, pc, th[t].has) /\ th'[t].op = th[t].op
  BY <1>1, <1>4, <1>7 DEF Typed, Moves, Call
<1> QED BY <1>5, <1>6, <1>7

LEMMA LockMoves ==
  ASSUME Typed, NEW t \in Thread
  PROVE  /\ GetterLock(t) => Moves(t, "shared", handle)
         /\ \A op \in Request \cup {"close"} :
              LockForCall(t, op) => Moves(t, "locked", handle) /\ th'[t].op = op
<1>1. "Open" \in StreamState BY DEF StreamState
<1>2. ASSUME GetterLock(t) PROVE Moves(t, "shared", handle)
  <2>1. [Quiet EXCEPT !.pc = "shared", !.has = handle] \in Call
    BY <1>1 DEF Typed, Quiet, Call, AaWhere
  <2> QED BY <1>2, <2>1 DEF GetterLock, Moves, Typed, Quiet
<1>3. ASSUME NEW op \in Request \cup {"close"}, LockForCall(t, op)
      PROVE  Moves(t, "locked", handle) /\ th'[t].op = op
  <2>1. [Quiet EXCEPT !.pc = "locked", !.op = op, !.has = handle] \in Call
    BY <1>1 DEF Typed, Quiet, Call, AaWhere
  <2> QED BY <1>3, <2>1 DEF LockForCall, Moves, Typed, Quiet
<1> QED BY <1>2, <1>3

LEMMA StopThreadMoves ==
  ASSUME Typed, CallbackStop
  PROVE  \/ UNCHANGED th
         \/ \E u \in Stoppers : IsAt(u, "none") /\ Moves(u, "idle", th[u].has)
<1>1. CASE UNCHANGED th BY <1>1
<1>2. CASE \E u \in Stoppers : IsAt(u, "none") /\ MoveTo(u, "idle")
  <2>1. PICK u \in Stoppers : IsAt(u, "none") /\ MoveTo(u, "idle") BY <1>2
  <2> QED BY <2>1, GoToMoves, Threads DEF AaWhere
<1> QED BY <1>1, <1>2 DEF CallbackStop

LEMMA QueryMoves ==
  ASSUME Typed, NEW t \in Thread, QueryState(t)
  PROVE  Moves(t, "sleeping", th[t].has) \/ Moves(t, "idle", FALSE)
<1> DEFINE state == IF th[t].has THEN Reported(aaudio) ELSE "Freed"
<1>1. state \in StreamState BY ReportedType DEF Typed, StreamState
<1>2. CASE th' = [th EXCEPT ![t].pc = "sleeping", ![t].seen = state]
  <2> HIDE DEF state
  <2> QED BY <1>1, <1>2, GoToMoves DEF AaWhere
<1>3. CASE th' = [th EXCEPT ![t] = Quiet]
  BY <1>3, ReturnMoves
<1> QED BY <1>2, <1>3 DEF QueryState

LEMMA RequestMoves ==
  ASSUME Typed, NEW t \in Thread, RequestBody(t)
  PROVE  \/ Moves(t, IF t \in Stoppers THEN "none" ELSE "idle", FALSE)
         \/ t \in App /\ Moves(t, "transition", th[t].has)
<1>1. CASE th' = [th EXCEPT ![t] = Parked(t)]
  BY <1>1, ReturnMoves
<1>2. CASE t \in App /\ MoveTo(t, "transition")
  BY <1>2, GoToMoves DEF AaWhere
<1> QED BY <1>1, <1>2 DEF RequestBody

\* Types are kept by every step.
LEMMA TypeStep == ASSUME Typed, [AaNext]_aaVars PROVE Typed'
<1> USE Threads, EnteredType, SettledType
<1>1. CASE Settle
  BY <1>1 DEF Typed, flags, phases, Moves, AaWhere, Settle
<1>2. CASE Disconnect
  BY <1>2 DEF Typed, flags, phases, Moves, AaWhere, Disconnect, StreamState
<1>3. CASE CallbackBegin
  BY <1>3 DEF Typed, flags, phases, Moves, AaWhere, CallbackBegin
<1>4. CASE CallbackQuery
  <2>1. th' \in [Thread -> Call] BY <1>4, LockMoves DEF Moves, CallbackQuery
  <2> QED BY <1>4, <2>1 DEF Typed, flags, phases, CallbackQuery, GetterLock
<1>5. CASE CallbackStop
  <2>1. th' \in [Thread -> Call] BY <1>5, StopThreadMoves DEF Typed, Moves, CallbackStop
  <2> QED BY <1>5, <2>1 DEF Typed, flags, phases, CallbackStop
<1>6. CASE ErrorCallback
  BY <1>6 DEF Typed, flags, phases, Moves, AaWhere, ErrorCallback
<1>7. CASE ErrorHandled
  BY <1>7 DEF Typed, flags, phases, Moves, AaWhere, ErrorHandled
<1>8. CASE ErrorStop
  BY <1>8, LockMoves DEF Typed, flags, phases, Moves, AaWhere, ErrorStop, LockForCall, Request
<1>9. CASE ErrorBeforeClose
  BY <1>9, LockMoves DEF Typed, flags, phases, Moves, AaWhere, ErrorBeforeClose, GetterLock
<1>10. CASE ErrorClose
  BY <1>10, LockMoves DEF Typed, flags, phases, Moves, AaWhere, ErrorClose, LockForCall
<1>11. CASE ErrorAfterClose
  BY <1>11, LockMoves DEF Typed, flags, phases, Moves, AaWhere, ErrorAfterClose, GetterLock
<1>12. CASE AppRelease
  BY <1>12 DEF Typed, flags, phases, Moves, AaWhere, AppRelease
<1>13. ASSUME NEW t \in Thread, QueryLock(t) PROVE Typed'
  <2>1. th' \in [Thread -> Call] BY <1>13, GoToMoves DEF Typed, Moves, AaWhere, QueryLock
  <2> QED BY <1>13, <2>1 DEF Typed, flags, phases, QueryLock
<1>14. ASSUME NEW t \in Thread, PollLock(t) PROVE Typed'
  <2>1. th' \in [Thread -> Call] BY <1>14, GoToMoves DEF Typed, Moves, AaWhere, PollLock
  <2> QED BY <1>14, <2>1 DEF Typed, flags, phases, PollLock
<1>15. ASSUME NEW t \in Thread, RequestBody(t) PROVE Typed'
  BY <1>15, RequestMoves DEF Typed, flags, phases, Moves, AaWhere, RequestBody
<1>16. ASSUME NEW t \in Thread, QueryState(t) PROVE Typed'
  <2>1. th' \in [Thread -> Call] BY <1>16, QueryMoves DEF Moves, AaWhere, QueryState
  <2> QED BY <1>16, <2>1 DEF Typed, flags, phases, QueryState
<1>17. ASSUME NEW t \in Thread, PollAgain(t) PROVE Typed'
  <2>1. th' \in [Thread -> Call] BY <1>17, GoToMoves DEF Moves, AaWhere, PollAgain
  <2> QED BY <1>17, <2>1 DEF Typed, flags, phases, PollAgain
<1>18. ASSUME NEW t \in Thread, PollReturn(t) PROVE Typed'
  <2>1. th' \in [Thread -> Call] BY <1>18, ReturnMoves DEF Moves, AaWhere, PollReturn
  <2> QED BY <1>18, <2>1 DEF Typed, flags, phases, PollReturn
<1>19. ASSUME NEW t \in Thread, GetterReturn(t) PROVE Typed'
  <2>1. th' \in [Thread -> Call] BY <1>19, ReturnMoves DEF Moves, AaWhere, GetterReturn
  <2> QED BY <1>19, <2>1 DEF Typed, flags, phases, GetterReturn
<1>20. ASSUME NEW t \in Thread, CloseUpdate(t) PROVE Typed'
  <2>1. th' \in [Thread -> Call] BY <1>20, GoToMoves DEF Moves, AaWhere, CloseUpdate
  <2> QED BY <1>20, <2>1 DEF Typed, flags, phases, CloseUpdate
<1>21. ASSUME NEW t \in Thread, CloseExchange(t) PROVE Typed'
  <2>1. th' \in [Thread -> Call] BY <1>21, GoToMoves, ReturnMoves DEF Moves, AaWhere, CloseExchange
  <2> QED BY <1>21, <2>1 DEF Typed, flags, phases, CloseExchange
<1>22. ASSUME NEW t \in Thread, CloseStop(t) PROVE Typed'
  <2>1. th' \in [Thread -> Call] BY <1>22, GoToMoves DEF Moves, AaWhere, CloseStop
  <2> QED BY <1>22, <2>1 DEF Typed, flags, phases, CloseStop
<1>23. ASSUME NEW t \in Thread, CloseJoin(t) PROVE Typed'
  <2>1. th' \in [Thread -> Call] BY <1>23, GoToMoves DEF Moves, AaWhere, CloseJoin
  <2> QED BY <1>23, <2>1 DEF Typed, flags, phases, CloseJoin
<1>24. ASSUME NEW t \in Thread, CloseFree(t) PROVE Typed'
  BY <1>24, ReturnMoves DEF Typed, flags, phases, Moves, AaWhere, CloseFree, StreamState
<1>25. ASSUME NEW result \in {"Continue", "Stop"}, CallbackReturn(result) PROVE Typed'
  BY <1>25 DEF Typed, flags, phases, Moves, AaWhere, CallbackReturn
<1>26. ASSUME NEW u \in Stoppers, StopThread(u) PROVE Typed'
  <2>1. th' \in [Thread -> Call] BY <1>26, LockMoves DEF Moves, AaWhere, StopThread, LockForCall, Request
  <2> QED BY <1>26, <2>1 DEF Typed, flags, phases, StopThread, LockForCall, Request
<1>27. ASSUME NEW t \in App, AppCall(t) PROVE Typed'
  <2>1. /\ th' \in [Thread -> Call] /\ mLock' \in Thread \cup {NoThread}
        /\ UNCHANGED <<aaudio, handle, flags>>
    <3>1. CASE \E op \in Request \cup {"close"} : LockForCall(t, op)
      <4>1. PICK op \in Request \cup {"close"} : LockForCall(t, op) BY <3>1
      <4> QED BY <4>1, LockMoves DEF Moves, LockForCall
    <3>2. CASE GetterLock(t)
      BY <3>2, LockMoves DEF Typed, Moves, GetterLock
    <3> QED BY <1>27, <3>1, <3>2 DEF AppCall
  <2>2. appCalls' \in Nat /\ UNCHANGED <<callback, errorPhase, owned>>
    BY <1>27 DEF AppCall, Typed
  <2> QED BY <2>1, <2>2 DEF Typed, flags
<1>28. CASE UNCHANGED aaVars
  BY <1>28 DEF Typed, flags, phases, Moves, AaWhere, aaVars
<1>29. CASE Fade
  BY <1>29 DEF Typed, phases, Fade
<1> QED
  BY <1>29, <1>1, <1>2, <1>3, <1>4, <1>5, <1>6, <1>7, <1>8, <1>9, <1>10, <1>11, <1>12, <1>13, <1>14,
     <1>15, <1>16, <1>17, <1>18, <1>19, <1>20, <1>21, <1>22, <1>23, <1>24, <1>25, <1>26, <1>27,
     <1>28 DEF AaNext, Locking, Stepping, AaDone
-----------------------------------------------------------------------------
(* The lock protocol. *)

\* A step that moves no thread, takes no lock and frees nothing.
LEMMA LocksStay ==
  ASSUME Typed, Locks, UNCHANGED <<handle, mLock, th>>,
         aaudio' = "Freed" <=> aaudio = "Freed"
  PROVE  Locks'
BY DEF Locks, LockInHand, HandleStays, AliveWhileHandled, OwnersClose, IsAt, In

\* A thread takes or releases a lock, or makes a call in between, as long as it
\* neither takes the handle away nor frees the stream.
LEMMA LocksMove ==
  ASSUME Typed, Locks,
         NEW t \in Thread, NEW pc \in AaWhere, NEW has \in BOOLEAN, Moves(t, pc, has),
         handle' = handle, aaudio' = "Freed" <=> aaudio = "Freed",
         mLock' = IF pc \in Holding THEN t
                  ELSE IF th[t].pc \in Holding THEN NoThread ELSE mLock,
         pc \in Holding => mLock \in {t, NoThread},
         has /\ pc \in Loaded => handle,
         pc \in Closing <=> th[t].pc \in Closing, pc \in Closing => has,
         (pc \in Closing \cup {"closeWait"} \/ (pc = "locked" /\ th'[t].op = "close")) =>
           t \in App \cup {"error"}
  PROVE  Locks'
<1> USE Threads DEF Typed, Moves
<1>1. LockInHand' BY DEF Locks, LockInHand
<1>2. HandleStays' BY DEF Locks, HandleStays
<1>3. AliveWhileHandled'
  <2>1. handle' => aaudio' # "Freed" BY DEF Locks, AliveWhileHandled
  <2>2. ASSUME NEW u \in Thread, th'[u].pc \in Closing
        PROVE  th'[u].has /\ ~handle' /\ aaudio' # "Freed"
    <3>1. th[u].pc \in Closing BY <2>2
    <3>2. th[u].has /\ ~handle /\ aaudio # "Freed"
      BY <3>1 DEF Locks, AliveWhileHandled
    <3> QED BY <2>2, <3>2
  <2>3. ASSUME NEW u \in Thread, th[u].pc \in Closing PROVE th'[u].pc \in Closing
    BY <2>3
  <2>4. handle' \/ aaudio' = "Freed" \/ \E u \in Thread : th'[u].pc \in Closing
    BY <2>3 DEF Locks, AliveWhileHandled
  <2> QED BY <2>1, <2>2, <2>4 DEF AliveWhileHandled
<1>4. OwnersClose'
  <2>1. SUFFICES ASSUME NEW u \in Thread,
                        \/ th'[u].pc \in Closing \cup {"closeWait"}
                        \/ th'[u].pc = "locked" /\ th'[u].op = "close"
                 PROVE  u \in App \cup {"error"}
    BY DEF OwnersClose, In, IsAt
  <2>2. CASE u = t BY <2>1, <2>2
  <2>3. CASE u # t BY <2>1, <2>3 DEF Locks, OwnersClose, In, IsAt
  <2> QED BY <2>2, <2>3
<1> QED BY <1>1, <1>2, <1>3, <1>4 DEF Locks

\* The handle is taken when no thread has it loaded, so only its taker has it.
LEMMA LocksExchange ==
  ASSUME Typed, Locks, NEW t \in Thread, CloseExchange(t) PROVE Locks'
<1> USE Threads DEF Typed, Moves
<1>1. th[t].pc = "closeWait" /\ th[t].pc \notin Loaded /\ th[t].pc \in Holding
  BY DEF CloseExchange, IsAt, Loaded, Holding
<1>2. mLock = t /\ t \in App \cup {"error"}
  BY <1>1 DEF Locks, LockInHand, OwnersClose
<1>3. \A u \in Thread : th[u].pc \notin Closing /\ (th[u].pc \in Loaded => ~th[u].has)
  <2> SUFFICES ASSUME NEW u \in Thread
               PROVE  th[u].pc \notin Closing /\ (th[u].pc \in Loaded => ~th[u].has)
    OBVIOUS
  <2>1. CASE u = t BY <2>1, <1>1 DEF Closing
  <2>2. CASE u # t
    <3>1. th[u].pc \notin Holding BY <2>2, <1>2 DEF Locks, LockInHand
    <3>2. th[u].pc \notin {"shared", "both"} BY DEF CloseExchange, Readers
    <3> QED BY <3>1, <3>2 DEF Holding, Closing, Loaded
  <2> QED BY <2>1, <2>2
<1>4. CASE handle
  <2>1. Moves(t, "closeStop", TRUE) /\ mLock' = mLock
    BY <1>4, GoToMoves DEF CloseExchange, AaWhere
  <2>2. LockInHand' BY <1>1, <2>1 DEF Locks, LockInHand, Holding
  <2>3. HandleStays' BY <1>3, <2>1 DEF HandleStays, Loaded
  <2>4. AliveWhileHandled'
    BY <1>3, <1>4, <2>1 DEF Locks, AliveWhileHandled, CloseExchange, Closing
  <2>5. OwnersClose' BY <1>2, <2>1 DEF Locks, OwnersClose, In, IsAt
  <2> QED BY <2>2, <2>3, <2>4, <2>5 DEF Locks
<1>5. CASE ~handle
  <2>1. Moves(t, "idle", FALSE) /\ mLock' = NoThread
    BY <1>5, ReturnMoves DEF CloseExchange
  <2>2. aaudio' = aaudio /\ handle' = handle BY <1>5 DEF CloseExchange
  <2> QED BY <1>1, <1>2, <1>3, <2>1, <2>2, LocksMove DEF AaWhere, Holding, Loaded, Closing
<1> QED BY <1>4, <1>5

\* The stream is freed by the one thread that took the handle.
LEMMA LocksFree ==
  ASSUME Typed, Locks, NEW t \in Thread, CloseFree(t) PROVE Locks'
<1> USE Threads DEF Typed, Moves
<1>1. th[t].pc \in Holding /\ th[t].pc \in Closing BY DEF CloseFree, IsAt, Holding, Closing
<1>2. mLock = t /\ ~handle
  BY <1>1 DEF Locks, LockInHand, AliveWhileHandled
<1>3. Moves(t, "idle", FALSE) /\ mLock' = NoThread /\ aaudio' = "Freed" /\ ~handle'
  BY <1>2, ReturnMoves DEF CloseFree
<1>4. LockInHand' BY <1>2, <1>3 DEF Locks, LockInHand, Holding
<1>5. HandleStays'
  BY <1>2, <1>3 DEF Locks, HandleStays, Loaded
<1>6. AliveWhileHandled'
  <2>1. \A u \in Thread : th'[u].pc \notin Closing
    BY <1>2, <1>3 DEF Locks, LockInHand, Holding, Closing
  <2> QED BY <1>3, <2>1 DEF AliveWhileHandled
<1>7. OwnersClose' BY <1>3 DEF Locks, OwnersClose, In, IsAt, Closing
<1> QED BY <1>4, <1>5, <1>6, <1>7 DEF Locks

LEMMA LocksAcquire ==
  ASSUME Typed, Locks, NEW t \in Thread, NEW op \in Request \cup {"close"}, LockForCall(t, op),
         op = "close" => t \in App \cup {"error"}
  PROVE  Locks'
<1>1. Moves(t, "locked", handle) /\ th'[t].op = op BY LockMoves
<1>2. th[t].pc = "idle" /\ mLock = NoThread /\ mLock' = t /\ UNCHANGED <<handle, aaudio>>
  BY DEF LockForCall, IsAt
<1>3. handle \in BOOLEAN BY DEF Typed
<1> QED BY <1>1, <1>2, <1>3, LocksMove DEF AaWhere, Holding, Loaded, Closing

LEMMA LocksGetter ==
  ASSUME Typed, Locks, NEW t \in Thread, GetterLock(t)
  PROVE  Locks'
<1>1. Moves(t, "shared", handle) BY LockMoves
<1>2. th[t].pc = "idle" /\ UNCHANGED <<handle, aaudio, mLock>>
  BY DEF GetterLock, IsAt
<1>3. handle \in BOOLEAN BY DEF Typed
<1> QED BY <1>1, <1>2, <1>3, LocksMove
        DEF AaWhere, Holding, Loaded, Closing

LEMMA LocksStep == ASSUME Typed, Locks, [AaNext]_aaVars PROVE Locks'
<1> USE Threads, EnteredType, SettledType DEF Typed, flags, phases
<1>1. CASE Settle
  BY <1>1, LocksStay DEF Settle, Transient
<1>2. CASE Disconnect
  BY <1>2, LocksStay DEF Disconnect, StreamState, Transient
<1>3. CASE CallbackBegin
  BY <1>3, LocksStay DEF CallbackBegin, Running
<1>4. CASE ErrorCallback
  BY <1>4, LocksStay DEF ErrorCallback
<1>5. CASE ErrorHandled
  BY <1>5, LocksStay DEF ErrorHandled
<1>6. CASE AppRelease
  BY <1>6, LocksStay DEF AppRelease
<1>7. ASSUME NEW result \in {"Continue", "Stop"}, CallbackReturn(result) PROVE Locks'
  BY <1>7, LocksStay DEF CallbackReturn
<1>8. CASE CallbackStop
  <2>1. CASE UNCHANGED th
    BY <1>8, <2>1, LocksStay DEF CallbackStop, Running
  <2>2. CASE \E u \in Stoppers : IsAt(u, "none") /\ Moves(u, "idle", th[u].has)
    <3>1. PICK u \in Stoppers : IsAt(u, "none") /\ Moves(u, "idle", th[u].has) BY <2>2
    <3>2. th[u] \in Call BY <3>1
    <3>3. UNCHANGED <<handle, mLock>> /\ callback' = "idle"
      BY <1>8 DEF CallbackStop
    <3>4. aaudio' = "Freed" <=> aaudio = "Freed"
      BY <1>8 DEF CallbackStop, Running
    <3> HIDE DEF Typed
    <3> QED BY <3>1, <3>2, <3>3, <3>4, LocksMove DEF IsAt, AaWhere, Holding, Loaded, Closing, Call
  <2> QED BY <1>8, <2>1, <2>2, StopThreadMoves
<1>9. CASE CallbackQuery
  BY <1>9, LocksGetter DEF CallbackQuery
<1>10. CASE ErrorStop
  BY <1>10, LocksAcquire DEF ErrorStop, Request
<1>11. CASE ErrorClose
  BY <1>11, LocksAcquire DEF ErrorClose
<1>12. CASE ErrorBeforeClose
  BY <1>12, LocksGetter DEF ErrorBeforeClose
<1>13. CASE ErrorAfterClose
  BY <1>13, LocksGetter DEF ErrorAfterClose
<1>14. ASSUME NEW u \in Stoppers, StopThread(u) PROVE Locks'
  BY <1>14, LocksAcquire DEF StopThread, Request
<1>15. ASSUME NEW t \in App, AppCall(t) PROVE Locks'
  <2>2. CASE GetterLock(t)
    BY <2>2, LocksGetter
  <2>3. ASSUME NEW op \in Request \cup {"close"}, LockForCall(t, op) PROVE Locks'
    BY <2>3, LocksAcquire
  <2> QED BY <1>15, <2>2, <2>3 DEF AppCall
<1>16. ASSUME NEW t \in Thread, QueryLock(t) PROVE Locks'
  <2>1. Moves(t, "both", handle) BY <1>16, GoToMoves DEF QueryLock, AaWhere
  <2> QED BY <1>16, <2>1, LocksMove DEF AaWhere, Holding, Loaded, Closing,
     IsAt, In, QueryLock
<1>17. ASSUME NEW t \in Thread, PollLock(t) PROVE Locks'
  <2>1. Moves(t, "polling", handle) BY <1>17, GoToMoves DEF PollLock, AaWhere
  <2> QED BY <1>17, <2>1, LocksMove DEF AaWhere, Holding, Loaded, Closing,
     IsAt, In, PollLock
<1>18. ASSUME NEW t \in Thread, PollReturn(t) PROVE Locks'
  <2>1. Moves(t, "idle", FALSE) BY <1>18, ReturnMoves DEF PollReturn
  <2> QED BY <1>18, <2>1, LocksMove DEF AaWhere, Holding, Loaded, Closing,
     IsAt, In, PollReturn
<1>19. ASSUME NEW t \in Thread, GetterReturn(t) PROVE Locks'
  <2>1. Moves(t, "idle", FALSE) BY <1>19, ReturnMoves DEF GetterReturn
  <2> QED BY <1>19, <2>1, LocksMove DEF AaWhere, Holding, Loaded, Closing,
     IsAt, In, GetterReturn
<1>20. ASSUME NEW t \in Thread, CloseUpdate(t) PROVE Locks'
  <2>1. Moves(t, "closeWait", th[t].has) /\ th[t].pc = "locked" /\ th[t].op = "close"
    BY <1>20, GoToMoves DEF CloseUpdate, AaWhere, In, IsAt
  <2>2. mLock = t /\ t \in App \cup {"error"} /\ th[t].has \in BOOLEAN
    BY <2>1 DEF Locks, LockInHand, OwnersClose, Holding, In, IsAt, Call
  <2> QED BY <1>20, <2>1, <2>2, LocksMove
          DEF CloseUpdate, AaWhere, Holding, Loaded, Closing
<1>21. ASSUME NEW t \in Thread, CloseStop(t) PROVE Locks'
  <2>1. Moves(t, "closeSleep", th[t].has) /\ th[t].pc = "closeStop"
    BY <1>21, GoToMoves DEF CloseStop, AaWhere, IsAt
  <2>2. /\ mLock = t /\ mLock' = t /\ handle' = handle
        /\ t \in App \cup {"error"} /\ th[t].has = TRUE /\ aaudio # "Freed"
    BY <1>21, <2>1 DEF Locks, LockInHand, OwnersClose, AliveWhileHandled, Holding, Closing,
       CloseStop, Call
  <2>3. aaudio' # "Freed" BY <1>21, <2>2 DEF CloseStop
  <2> QED BY <2>1, <2>2, <2>3, LocksMove DEF AaWhere, Holding, Loaded, Closing
<1>22. ASSUME NEW t \in Thread, CloseJoin(t) PROVE Locks'
  <2>1. Moves(t, "closeJoin", th[t].has) /\ th[t].pc = "closeSleep"
    BY <1>22, GoToMoves DEF CloseJoin, AaWhere, IsAt
  <2>2. /\ mLock = t /\ mLock' = t /\ handle' = handle
        /\ t \in App \cup {"error"} /\ th[t].has = TRUE /\ aaudio # "Freed"
    BY <1>22, <2>1 DEF Locks, LockInHand, OwnersClose, AliveWhileHandled, Holding, Closing,
       CloseJoin, Call
  <2>3. aaudio' # "Freed" BY <1>22, <2>2 DEF CloseJoin
  <2> QED BY <2>1, <2>2, <2>3, LocksMove DEF AaWhere, Holding, Loaded, Closing
<1>23. ASSUME NEW t \in Thread, PollAgain(t) PROVE Locks'
  <2>1. Moves(t, "sleeping", th[t].has) /\ th[t].pc = "polling" /\ th[t].has \in BOOLEAN
    BY <1>23, GoToMoves DEF PollAgain, AaWhere, IsAt, Call
  <2> QED BY <1>23, <2>1, LocksMove
          DEF PollAgain, AaWhere, Holding, Loaded, Closing
<1>24. ASSUME NEW t \in Thread, QueryState(t) PROVE Locks'
  <2>1. th[t].pc = "both" /\ th[t].has \in BOOLEAN
        /\ (Moves(t, "sleeping", th[t].has) \/ Moves(t, "idle", FALSE))
    BY <1>24, QueryMoves DEF QueryState, IsAt, Call
  <2>2. mLock' = NoThread /\ UNCHANGED <<aaudio, handle>> BY <1>24 DEF QueryState
  <2>3. CASE Moves(t, "sleeping", th[t].has)
    BY <2>1, <2>2, <2>3, LocksMove DEF AaWhere, Holding, Loaded, Closing
  <2>4. CASE Moves(t, "idle", FALSE)
    BY <2>1, <2>2, <2>4, LocksMove DEF AaWhere, Holding, Loaded, Closing
  <2> QED BY <2>1, <2>3, <2>4
<1>25. ASSUME NEW t \in Thread, RequestBody(t) PROVE Locks'
  <2> DEFINE rest == IF t \in Stoppers THEN "none" ELSE "idle"
  <2>1. th[t].pc = "locked" /\ th[t].has \in BOOLEAN
        /\ (Moves(t, rest, FALSE) \/ Moves(t, "transition", th[t].has))
    BY <1>25, RequestMoves DEF RequestBody, IsAt, Call
  <2>2. mLock' = NoThread /\ handle' = handle BY <1>25 DEF RequestBody
  <2>3. th[t].has => aaudio # "Freed"
    BY <2>1 DEF Locks, HandleStays, AliveWhileHandled, Loaded
  <2>4. aaudio' = "Freed" <=> aaudio = "Freed" BY <1>25, <2>3 DEF RequestBody
  <2>5. CASE Moves(t, rest, FALSE)
    <3>1. rest \in {"none", "idle"} OBVIOUS
    <3> HIDE DEF rest
    <3> QED BY <2>1, <2>2, <2>4, <2>5, <3>1, LocksMove
            DEF AaWhere, Holding, Loaded, Closing
  <2>6. CASE Moves(t, "transition", th[t].has)
    BY <2>1, <2>2, <2>4, <2>6, LocksMove
       DEF AaWhere, Holding, Loaded, Closing
  <2> QED BY <2>1, <2>5, <2>6
<1>26. CASE UNCHANGED aaVars
  BY <1>26, LocksStay DEF aaVars
<1>28. CASE Fade
  BY <1>28, LocksStay DEF Fade
<1>27. ASSUME NEW t \in Thread, CloseExchange(t) \/ CloseFree(t) PROVE Locks'
  BY <1>27, LocksExchange, LocksFree
<1> HIDE DEF Typed, flags, phases
<1> QED
  BY <1>28, <1>1, <1>2, <1>3, <1>4, <1>5, <1>6, <1>7, <1>8, <1>9, <1>10, <1>11, <1>12, <1>13, <1>14,
     <1>15, <1>16, <1>17, <1>18, <1>19, <1>20, <1>21, <1>22, <1>23, <1>24, <1>25, <1>26, <1>27
     DEF AaNext, Locking, Stepping, AaDone
-----------------------------------------------------------------------------
(* The promise of ClosableStream, step by step. *)

\* Whoever is inside a call on the stream finds it alive.
SafeUse == \A t \in Thread : Inside(t) => aaudio # "Freed"

LEMMA LocksMakeSafe == Typed /\ Locks /\ Silenced => SafeUse
<1> SUFFICES ASSUME Typed, Locks, Silenced, NEW t \in Thread, Inside(t) PROVE aaudio # "Freed"
  BY DEF SafeUse
<1>1. CASE t = "callback" BY <1>1 DEF Silenced, Inside
<1>2. CASE t # "callback" /\ th[t].pc \in Loaded
  BY <1>2 DEF Locks, HandleStays, AliveWhileHandled, Inside
<1>3. CASE t # "callback" /\ th[t].pc \in Closing
  BY <1>3 DEF Locks, AliveWhileHandled
<1> QED BY <1>1, <1>2, <1>3 DEF Inside, Loaded, Closing

Users == {t \in Thread : Inside(t)}

\* At most one thread enters or leaves.
OneMoves == \E t \in Thread : \A u \in Thread \ {t} : Inside(u)' <=> Inside(u)

\* When one thread enters or leaves, the promise takes a step of its own.
LEMMA OneUser ==
  ASSUME SafeUse', OneMoves, aaudio' = "Freed" <=> aaudio = "Freed"
  PROVE  [Promise!CNext]_(Promise!cvars)
<1> PICK t \in Thread : \A u \in Thread \ {t} : Inside(u)' <=> Inside(u) BY DEF OneMoves
<1>1. CASE Inside(t)'
  <2>1. Users' = Users \cup {t} BY <1>1 DEF Users
  <2>2. aaudio' # "Freed" BY <1>1 DEF SafeUse
  <2>3. Promise!Enter(t) BY <2>1, <2>2 DEF Promise!Enter, Users
  <2> QED BY <2>3 DEF Promise!CNext
<1>2. CASE ~Inside(t)'
  <2>1. Users' = Users \ {t} BY <1>2 DEF Users
  <2>2. Promise!Leave(t) BY <2>1 DEF Promise!Leave, Users
  <2> QED BY <2>2 DEF Promise!CNext
<1> QED BY <1>1, <1>2

\* The free finds nobody inside, whoever waited for a lock.
LEMMA FreeAlone ==
  ASSUME Typed, Locks, NEW t \in Thread, CloseFree(t)
  PROVE  [Promise!CNext]_(Promise!cvars)
<1> USE DEF Typed, Moves
<1>1. th[t].pc = "closeJoin" /\ callback = "idle" /\ callback' = "idle" /\ aaudio' = "Freed"
  BY DEF CloseFree, IsAt, phases
<1>2. mLock = t /\ ~handle /\ aaudio # "Freed"
  BY <1>1 DEF Locks, LockInHand, AliveWhileHandled, Holding, Closing
<1>3. Moves(t, "idle", FALSE) BY ReturnMoves DEF CloseFree
<1>4. \A u \in Thread : ~Inside(u)
  <2> SUFFICES ASSUME NEW u \in Thread PROVE ~Inside(u) OBVIOUS
  <2>1. th[u].pc \in Loaded => ~th[u].has BY <1>2 DEF Locks, HandleStays
  <2>2. th[u].pc # "closeStop" BY <1>1, <1>2 DEF Locks, LockInHand, Holding
  <2> QED BY <1>1, <2>1, <2>2 DEF Inside, Loaded
<1>5. \A u \in Thread : ~Inside(u)'
  BY <1>1, <1>3, <1>4 DEF Inside
<1>6. Users = {} /\ Users' = {} BY <1>4, <1>5 DEF Users
<1> QED BY <1>1, <1>2, <1>6 DEF Promise!CNext, Promise!Free, Users

\* A thread that moves is the only one to enter or to leave.
LEMMA MoverMoves ==
  ASSUME NEW t \in Thread, NEW pc, NEW has, Moves(t, pc, has), callback' = callback
  PROVE  OneMoves
BY DEF Moves, Inside, OneMoves

LEMMA NobodyMoves ==
  ASSUME UNCHANGED <<th, callback>>
  PROVE  OneMoves
BY Threads DEF Inside, OneMoves

LEMMA CallbackMoves ==
  ASSUME \A u \in Thread \ {"callback"} : th'[u] = th[u]
  PROVE  OneMoves
BY Threads DEF Inside, OneMoves

\* Every step but the free.
LEMMA StepsMoveOne ==
  ASSUME Typed, Locks, [AaNext]_aaVars, \A t \in Thread : ~CloseFree(t)
  PROVE  OneMoves /\ (aaudio' = "Freed" <=> aaudio = "Freed")
<1> USE Threads, EnteredType, SettledType
<1> DEFINE Goal == OneMoves /\ (aaudio' = "Freed" <=> aaudio = "Freed")
<1>0. aaudio \in StreamState BY DEF Typed
<1>1. CASE Settle
  BY <1>1, NobodyMoves DEF Settle, Transient, phases
<1>2. CASE Disconnect
  BY <1>2, NobodyMoves DEF Disconnect, phases
<1>3. CASE ErrorCallback
  BY <1>3, NobodyMoves DEF ErrorCallback, phases
<1>4. CASE ErrorHandled
  BY <1>4, NobodyMoves DEF ErrorHandled, phases
<1>5. CASE AppRelease
  BY <1>5, NobodyMoves DEF AppRelease, phases
<1>6. CASE CallbackBegin
  BY <1>6, CallbackMoves DEF CallbackBegin
<1>7. ASSUME NEW result \in {"Continue", "Stop"}, CallbackReturn(result) PROVE Goal
  BY <1>7, CallbackMoves DEF CallbackReturn
<1>8. CASE CallbackQuery
  BY <1>8, CallbackMoves, LockMoves DEF CallbackQuery, GetterLock, Moves
<1>9. CASE CallbackStop
  <2>1. CASE UNCHANGED th
    BY <1>0, <1>9, <2>1, CallbackMoves DEF CallbackStop, Running
  <2>2. CASE \E u \in Stoppers : IsAt(u, "none") /\ Moves(u, "idle", th[u].has)
    <3>1. PICK u \in Stoppers : IsAt(u, "none") /\ Moves(u, "idle", th[u].has) BY <2>2
    <3>2. \A v \in Thread \ {"callback"} : Inside(v)' <=> Inside(v)
      <4> SUFFICES ASSUME NEW v \in Thread, v # "callback" PROVE Inside(v)' <=> Inside(v)
        OBVIOUS
      <4>1. CASE v = u BY <3>1, <4>1 DEF Moves, IsAt, Inside
      <4>2. CASE v # u BY <3>1, <4>2 DEF Moves, Inside
      <4> QED BY <4>1, <4>2
    <3>3. aaudio' = "Freed" <=> aaudio = "Freed" BY <1>0, <1>9 DEF CallbackStop, Running
    <3> QED BY <3>2, <3>3 DEF OneMoves
  <2> QED BY <1>9, <2>1, <2>2, StopThreadMoves
<1>10. CASE ErrorStop
  BY <1>10, LockMoves, MoverMoves DEF ErrorStop, LockForCall, Request
<1>11. CASE ErrorClose
  BY <1>11, LockMoves, MoverMoves DEF ErrorClose, LockForCall, Request
<1>12. CASE ErrorBeforeClose
  BY <1>12, LockMoves, MoverMoves DEF ErrorBeforeClose, GetterLock
<1>13. CASE ErrorAfterClose
  BY <1>13, LockMoves, MoverMoves DEF ErrorAfterClose, GetterLock
<1>14. ASSUME NEW u \in Stoppers, StopThread(u) PROVE Goal
  BY <1>14, LockMoves, MoverMoves DEF StopThread, LockForCall, Request, phases
<1>15. ASSUME NEW t \in App, AppCall(t) PROVE Goal
  <2>1. callback' = callback BY <1>15 DEF AppCall
  <2>2. CASE GetterLock(t)
    BY <2>1, <2>2, LockMoves, MoverMoves DEF GetterLock
  <2>3. ASSUME NEW op \in Request \cup {"close"}, LockForCall(t, op) PROVE Goal
    BY <2>1, <2>3, LockMoves, MoverMoves DEF LockForCall
  <2> QED BY <1>15, <2>2, <2>3 DEF AppCall
<1>16. ASSUME NEW t \in Thread, QueryLock(t) PROVE Goal
  BY <1>16, GoToMoves, MoverMoves DEF QueryLock, AaWhere, phases, Typed
<1>17. ASSUME NEW t \in Thread, PollLock(t) PROVE Goal
  BY <1>17, GoToMoves, MoverMoves DEF PollLock, AaWhere, phases, Typed
<1>18. ASSUME NEW t \in Thread, PollReturn(t) PROVE Goal
  BY <1>18, ReturnMoves, MoverMoves DEF PollReturn, AaWhere, phases, Typed
<1>19. ASSUME NEW t \in Thread, GetterReturn(t) PROVE Goal
  BY <1>19, ReturnMoves, MoverMoves DEF GetterReturn, AaWhere, phases, Typed
<1>20. ASSUME NEW t \in Thread, CloseUpdate(t) PROVE Goal
  BY <1>20, GoToMoves, MoverMoves DEF CloseUpdate, AaWhere, phases, Typed
<1>21. ASSUME NEW t \in Thread, CloseJoin(t) PROVE Goal
  BY <1>21, GoToMoves, MoverMoves DEF CloseJoin, AaWhere, phases, Typed
<1>22. ASSUME NEW t \in Thread, PollAgain(t) PROVE Goal
  BY <1>22, GoToMoves, MoverMoves DEF PollAgain, AaWhere, phases, Typed
<1>23. ASSUME NEW t \in Thread, QueryState(t) PROVE Goal
  BY <1>23, QueryMoves, MoverMoves DEF QueryState, AaWhere, phases, Typed
<1>24. ASSUME NEW t \in Thread, CloseExchange(t) PROVE Goal
  BY <1>24, GoToMoves, ReturnMoves, MoverMoves DEF CloseExchange, AaWhere, phases, Typed
<1>25. ASSUME NEW t \in Thread, CloseStop(t) PROVE Goal
  <2>1. aaudio # "Freed" BY <1>25 DEF CloseStop, IsAt, Locks, AliveWhileHandled, Closing
  <2>2. Moves(t, "closeSleep", th[t].has) BY <1>25, GoToMoves DEF CloseStop, AaWhere
  <2>3. OneMoves BY <1>25, <2>2, MoverMoves DEF CloseStop, phases
  <2>4. aaudio' # "Freed" BY <1>25, <2>1, EnteredType DEF CloseStop, Typed
  <2> QED BY <2>1, <2>3, <2>4
<1>26. ASSUME NEW t \in Thread, RequestBody(t) PROVE Goal
  <2>1. th[t].has => aaudio # "Freed"
    BY <1>26 DEF RequestBody, IsAt, Locks, HandleStays, AliveWhileHandled, Loaded
  <2>2. aaudio' = "Freed" <=> aaudio = "Freed" BY <1>26, <2>1 DEF RequestBody, Typed
  <2> QED BY <1>26, <2>2, RequestMoves, MoverMoves DEF RequestBody, phases
<1>27. CASE UNCHANGED aaVars
  BY <1>27, NobodyMoves DEF aaVars, phases
<1>28. CASE Fade
  BY <1>28, NobodyMoves DEF Fade, phases
<1> QED
  BY <1>28, <1>1, <1>2, <1>3, <1>4, <1>5, <1>6, <1>7, <1>8, <1>9, <1>10, <1>11, <1>12, <1>13, <1>14,
     <1>15, <1>16, <1>17, <1>18, <1>19, <1>20, <1>21, <1>22, <1>23, <1>24, <1>25, <1>26, <1>27
     DEF AaNext, Locking, Stepping, AaDone

\* No thread has begun when the stream is opened.
LEMMA InitLocks == AaInit => Typed /\ Locks /\ Silenced
<1> SUFFICES ASSUME AaInit PROVE Typed /\ Locks /\ Silenced OBVIOUS
<1>1. \A t \in Thread : /\ th[t] \in Call /\ th[t].pc \in {"none", "idle"}
                        /\ th[t].has = FALSE
  BY RestType DEF AaInit
<1>2. Typed BY <1>1, RestType DEF AaInit, Typed, StreamState
<1>3. LockInHand /\ HandleStays
  BY <1>1, Threads DEF AaInit, LockInHand, HandleStays, Holding, Loaded
<1>4. AliveWhileHandled /\ OwnersClose
  BY <1>1 DEF AaInit, AliveWhileHandled, OwnersClose, Closing, In, IsAt
<1>5. Locks BY <1>3, <1>4 DEF Locks
<1>6. Silenced BY <1>1 DEF AaInit, Silenced
<1> QED BY <1>2, <1>5, <1>6

\* Types are what the code declares and mLock, mAAudioStreamLock and the
\* exchange of the handle follow their protocol, in every execution.
THEOREM LockProtocol == AaSpec => [](Typed /\ Locks)
<1>1. Typed /\ Locks /\ [AaNext]_aaVars => (Typed /\ Locks)' BY TypeStep, LocksStep
<1> QED BY <1>1, InitLocks, PTL DEF AaSpec

\* No thread gets to the delay or to the join of a close().
Moved == \A u \in Thread : th'[u].pc \in {"closeSleep", "closeJoin"} => th[u].pc = th'[u].pc

\* A step that begins no callback, starts no stream and brings no thread
\* further in its close().
LEMMA SilenceStays ==
  ASSUME Silenced, Moved, firing' = firing \/ ~firing',
         aaudio' \in Running => aaudio \in Running,
         aaudio' = "Freed" <=> aaudio = "Freed", aaudio = "Freed" => callback' = "idle"
  PROVE  Silenced'
<1> USE DEF Moved
<1>1. aaudio' = "Freed" => callback' = "idle" /\ ~firing' BY DEF Silenced
<1>2. ASSUME NEW u \in Thread, th'[u].pc \in {"closeSleep", "closeJoin"}
      PROVE  aaudio' \notin Running /\ (th'[u].pc = "closeJoin" => ~firing')
  <2>1. th[u].pc = th'[u].pc BY <1>2
  <2> QED BY <1>2, <2>1 DEF Silenced
<1> QED BY <1>1, <1>2 DEF Silenced

LEMMA MoverMovedOn ==
  ASSUME NEW t \in Thread, NEW pc, NEW has, Moves(t, pc, has),
         pc \notin {"closeSleep", "closeJoin"}
  PROVE  Moved
BY DEF Moves, Moved

LEMMA SilenceRequest ==
  ASSUME Typed, Locks, Silenced, NEW t \in Thread, RequestBody(t) PROVE Silenced'
<1>1. th[t].pc = "locked" /\ mLock = t
  BY DEF RequestBody, IsAt, Locks, LockInHand, Holding
<1>2. \A u \in Thread : th[u].pc \notin {"closeSleep", "closeJoin"}
  BY <1>1 DEF Locks, LockInHand, Holding
<1>3. \A u \in Thread : th'[u].pc \notin {"closeSleep", "closeJoin"}
  BY <1>2, RequestMoves DEF Moves
<1>4. th[t].has => aaudio # "Freed"
  BY <1>1 DEF Locks, HandleStays, AliveWhileHandled, Loaded
<1>5. aaudio' = "Freed" <=> aaudio = "Freed"
  BY <1>4, EnteredType DEF RequestBody, Typed
<1>6. callback' = callback /\ firing' = (firing \/ aaudio' \in Running)
  BY DEF RequestBody, phases
<1>7. aaudio' = "Freed" => callback' = "idle" /\ ~firing'
  BY <1>5, <1>6 DEF Silenced, Running
<1> QED BY <1>3, <1>7 DEF Silenced

\* requestStop_l leaves the stream stopped, stopping or disconnected.
LEMMA SilenceStop ==
  ASSUME Workarounds, Typed, Locks, Silenced, NEW t \in Thread, CloseStop(t)
  PROVE  Silenced'
<1>1. th[t].pc = "closeStop" /\ mLock = t
  BY DEF CloseStop, IsAt, Locks, LockInHand, Holding
<1>2. Moves(t, "closeSleep", th[t].has) BY GoToMoves DEF CloseStop, AaWhere
<1>3. aaudio # "Freed" /\ aaudio' # "Freed"
  BY <1>1, EnteredType DEF Locks, AliveWhileHandled, Closing, CloseStop, Typed
<1>4. aaudio' \notin Running
  BY <1>3 DEF CloseStop, Redundant, Entered, Running
<1>5. \A u \in Thread : th'[u].pc # "closeJoin"
  BY <1>1, <1>2 DEF Moves, Locks, LockInHand, Holding
<1> QED BY <1>3, <1>4, <1>5 DEF Silenced

\* The delay is over when no callback can begin any more.
LEMMA SilenceJoin ==
  ASSUME Workarounds, Typed, Locks, Silenced, NEW t \in Thread, CloseJoin(t)
  PROVE  Silenced'
<1>1. th[t].pc = "closeSleep" BY DEF CloseJoin, IsAt
<1>2. Moves(t, "closeJoin", th[t].has) BY GoToMoves DEF CloseJoin, AaWhere
<1>3. UNCHANGED <<aaudio, callback, firing>> BY DEF CloseJoin, flags, phases
<1>4. aaudio \notin Running /\ ~firing BY <1>1 DEF Silenced, CloseJoin
<1> QED BY <1>2, <1>3, <1>4 DEF Silenced, Moves

LEMMA SilenceFree ==
  ASSUME Typed, Locks, Silenced, NEW t \in Thread, CloseFree(t) PROVE Silenced'
<1>1. th[t].pc = "closeJoin" /\ callback = "idle" /\ aaudio' = "Freed"
      /\ UNCHANGED <<callback, firing>>
  BY DEF CloseFree, IsAt, flags, phases
<1>2. ~firing BY <1>1 DEF Silenced
<1> QED BY <1>1, <1>2 DEF Silenced, Running

LEMMA SilencedStep ==
  ASSUME Workarounds, Typed, Locks, Silenced, [AaNext]_aaVars PROVE Silenced'
<1> USE Threads, EnteredType, SettledType DEF flags, phases
<1>0. aaudio \in StreamState /\ firing \in BOOLEAN BY DEF Typed
<1>1. CASE Settle
  <2>1. aaudio' \in Running => aaudio \in Running
    BY <1>1 DEF Settle, Settled, Transient, Running
  <2>2. Moved BY <1>1 DEF Settle, Moved
  <2>3. aaudio # "Freed" /\ aaudio' # "Freed" BY <1>1 DEF Settle, Transient
  <2> QED BY <1>1, <2>1, <2>2, <2>3, SilenceStays DEF Settle
<1>2. CASE Disconnect
  BY <1>2, SilenceStays DEF Disconnect, Moved, Running
<1>3. CASE Fade
  BY <1>3, SilenceStays DEF Fade, Moved, Silenced
<1>4. CASE CallbackBegin
  BY <1>4, SilenceStays DEF CallbackBegin, Moved, Silenced
<1>5. CASE ErrorCallback
  BY <1>5, SilenceStays DEF ErrorCallback, Moved, Silenced
<1>6. CASE ErrorHandled
  BY <1>6, SilenceStays DEF ErrorHandled, Moved, Silenced
<1>7. CASE AppRelease
  BY <1>7, SilenceStays DEF AppRelease, Moved, Silenced
<1>8. ASSUME NEW result \in {"Continue", "Stop"}, CallbackReturn(result) PROVE Silenced'
  BY <1>8, SilenceStays DEF CallbackReturn, Moved, Silenced
<1>9. CASE CallbackQuery
  <2>1. Moved BY <1>9, LockMoves, MoverMovedOn DEF CallbackQuery
  <2> QED BY <1>9, <2>1, SilenceStays DEF CallbackQuery, GetterLock, Silenced
<1>10. CASE CallbackStop
  <2>1. Moved
    <3>1. CASE UNCHANGED th BY <3>1 DEF Moved
    <3>2. CASE \E u \in Stoppers : IsAt(u, "none") /\ Moves(u, "idle", th[u].has)
      BY <3>2, MoverMovedOn
    <3> QED BY <1>10, <3>1, <3>2, StopThreadMoves
  <2>2. /\ aaudio' \in Running => aaudio \in Running
        /\ aaudio' = "Freed" <=> aaudio = "Freed"
    BY <1>0, <1>10 DEF CallbackStop, Entered, Running
  <2>3. callback' = "idle" /\ firing' = firing BY <1>10 DEF CallbackStop
  <2> QED BY <2>1, <2>2, <2>3, SilenceStays
<1>11. CASE ErrorStop
  <2>1. Moved BY <1>11, LockMoves, MoverMovedOn DEF ErrorStop, Request
  <2> QED BY <1>11, <2>1, SilenceStays DEF ErrorStop, LockForCall, Silenced
<1>12. CASE ErrorClose
  <2>1. Moved BY <1>12, LockMoves, MoverMovedOn DEF ErrorClose
  <2> QED BY <1>12, <2>1, SilenceStays DEF ErrorClose, LockForCall, Silenced
<1>13. CASE ErrorBeforeClose
  <2>1. Moved BY <1>13, LockMoves, MoverMovedOn DEF ErrorBeforeClose
  <2> QED BY <1>13, <2>1, SilenceStays DEF ErrorBeforeClose, GetterLock, Silenced
<1>14. CASE ErrorAfterClose
  <2>1. Moved BY <1>14, LockMoves, MoverMovedOn DEF ErrorAfterClose
  <2> QED BY <1>14, <2>1, SilenceStays DEF ErrorAfterClose, GetterLock, Silenced
<1>15. ASSUME NEW u \in Stoppers, StopThread(u) PROVE Silenced'
  <2>1. Moved BY <1>15, LockMoves, MoverMovedOn DEF StopThread, Request
  <2> QED BY <1>15, <2>1, SilenceStays DEF StopThread, LockForCall, Silenced
<1>16. ASSUME NEW t \in App, AppCall(t) PROVE Silenced'
  <2>1. callback' = callback BY <1>16 DEF AppCall
  <2>2. CASE GetterLock(t)
    <3>1. Moved BY <2>2, LockMoves, MoverMovedOn
    <3> QED BY <2>1, <2>2, <3>1, SilenceStays DEF GetterLock, Silenced
  <2>3. ASSUME NEW op \in Request \cup {"close"}, LockForCall(t, op) PROVE Silenced'
    <3>1. Moved BY <2>3, LockMoves, MoverMovedOn
    <3> QED BY <2>1, <2>3, <3>1, SilenceStays DEF LockForCall, Silenced
  <2> QED BY <1>16, <2>2, <2>3 DEF AppCall
<1>17. ASSUME NEW t \in Thread, QueryLock(t) PROVE Silenced'
  <2>1. Moved BY <1>17, GoToMoves, MoverMovedOn DEF QueryLock, AaWhere, Typed
  <2> QED BY <1>17, <2>1, SilenceStays DEF QueryLock, Silenced
<1>18. ASSUME NEW t \in Thread, PollLock(t) PROVE Silenced'
  <2>1. Moved BY <1>18, GoToMoves, MoverMovedOn DEF PollLock, AaWhere, Typed
  <2> QED BY <1>18, <2>1, SilenceStays DEF PollLock, Silenced
<1>19. ASSUME NEW t \in Thread, PollReturn(t) PROVE Silenced'
  <2>1. Moved BY <1>19, ReturnMoves, MoverMovedOn DEF PollReturn
  <2> QED BY <1>19, <2>1, SilenceStays DEF PollReturn, Silenced
<1>20. ASSUME NEW t \in Thread, GetterReturn(t) PROVE Silenced'
  <2>1. Moved BY <1>20, ReturnMoves, MoverMovedOn DEF GetterReturn
  <2> QED BY <1>20, <2>1, SilenceStays DEF GetterReturn, Silenced
<1>21. ASSUME NEW t \in Thread, CloseUpdate(t) PROVE Silenced'
  <2>1. Moved BY <1>21, GoToMoves, MoverMovedOn DEF CloseUpdate, AaWhere
  <2> QED BY <1>21, <2>1, SilenceStays DEF CloseUpdate, Silenced
<1>22. ASSUME NEW t \in Thread, PollAgain(t) PROVE Silenced'
  <2>1. Moved BY <1>22, GoToMoves, MoverMovedOn DEF PollAgain, AaWhere
  <2> QED BY <1>22, <2>1, SilenceStays DEF PollAgain, Silenced
<1>23. ASSUME NEW t \in Thread, QueryState(t) PROVE Silenced'
  <2>0. Moves(t, "sleeping", th[t].has) \/ Moves(t, "idle", FALSE) BY <1>23, QueryMoves
  <2>1. Moved BY <2>0 DEF Moves, Moved
  <2> QED BY <1>23, <2>1, SilenceStays DEF QueryState, Silenced
<1>24. ASSUME NEW t \in Thread, CloseExchange(t) PROVE Silenced'
  <2>1. Moved BY <1>24, GoToMoves, ReturnMoves, MoverMovedOn DEF CloseExchange, AaWhere
  <2> QED BY <1>24, <2>1, SilenceStays DEF CloseExchange, Silenced
<1>25. CASE UNCHANGED aaVars
  BY <1>25, SilenceStays DEF aaVars, Moved, Silenced
<1>26. ASSUME NEW t \in Thread, RequestBody(t) \/ CloseStop(t) \/ CloseJoin(t) \/ CloseFree(t)
      PROVE  Silenced'
  BY <1>26, SilenceRequest, SilenceStop, SilenceJoin, SilenceFree
<1> QED
  BY <1>1, <1>2, <1>3, <1>4, <1>5, <1>6, <1>7, <1>8, <1>9, <1>10, <1>11, <1>12, <1>13, <1>14,
     <1>15, <1>16, <1>17, <1>18, <1>19, <1>20, <1>21, <1>22, <1>23, <1>24, <1>25, <1>26 DEF AaNext, Locking, Stepping, AaDone

\* A callback may come late, even after a close() that did not wait for it; the
\* stop and the delay in close() see that none comes when the stream is freed.
THEOREM CloseSilences == ASSUME Workarounds PROVE AaSpec => []Silenced
<1>1. AaInit => Silenced BY InitLocks
<1>2. Typed /\ Locks /\ Silenced /\ [AaNext]_aaVars => Silenced' BY SilencedStep
<1> QED BY <1>1, <1>2, LockProtocol, PTL DEF AaSpec

\* AudioStreamAAudio keeps the promise of ClosableStream, as long as the
\* workarounds are on: the stream is freed at most once, with no thread inside
\* a call on it, and neither a thread nor a late callback enters afterwards.
THEOREM StreamIsClosable == ASSUME Workarounds PROVE AaSpec => StreamOutlivesCalls
<1>1. AaInit => Promise!CInit
  BY RestType DEF AaInit, Promise!CInit, Inside
<1>2. Typed /\ Locks /\ SafeUse' /\ [AaNext]_aaVars => [Promise!CNext]_(Promise!cvars)
  <2> SUFFICES ASSUME Typed, Locks, SafeUse', [AaNext]_aaVars
               PROVE  [Promise!CNext]_(Promise!cvars)
    OBVIOUS
  <2>1. CASE \E t \in Thread : CloseFree(t) BY <2>1, FreeAlone
  <2>2. CASE \A t \in Thread : ~CloseFree(t) BY <2>2, StepsMoveOne, OneUser
  <2> QED BY <2>1, <2>2
<1> QED BY <1>1, <1>2, LockProtocol, CloseSilences, LocksMakeSafe, PTL
        DEF AaSpec, StreamOutlivesCalls, Promise!CSpec
-----------------------------------------------------------------------------
(* What the flags of the callbacks guard. *)

LEMMA GatesStep == ASSUME Typed, Gates, [AaNext]_aaVars PROVE Gates'
<1> USE DEF Gates, flags, phases
<1>1. CASE Settle
  BY <1>1 DEF Settle
<1>2. CASE Disconnect
  BY <1>2 DEF Disconnect
<1>3. CASE CallbackBegin
  BY <1>3 DEF CallbackBegin
<1>4. CASE CallbackQuery
  BY <1>4 DEF CallbackQuery, GetterLock
<1>5. CASE CallbackStop
  BY <1>5 DEF CallbackStop
<1>6. CASE ErrorCallback
  BY <1>6 DEF ErrorCallback
<1>7. CASE ErrorHandled
  BY <1>7 DEF ErrorHandled
<1>8. CASE ErrorStop
  BY <1>8 DEF ErrorStop, LockForCall
<1>9. CASE ErrorBeforeClose
  BY <1>9 DEF ErrorBeforeClose, GetterLock
<1>10. CASE ErrorClose
  BY <1>10 DEF ErrorClose, LockForCall
<1>11. CASE ErrorAfterClose
  BY <1>11 DEF ErrorAfterClose, GetterLock
<1>12. CASE AppRelease
  BY <1>12 DEF AppRelease
<1>13. ASSUME NEW t \in Thread, QueryLock(t) PROVE Gates'
  BY <1>13 DEF QueryLock
<1>14. ASSUME NEW t \in Thread, PollLock(t) PROVE Gates'
  BY <1>14 DEF PollLock
<1>15. ASSUME NEW t \in Thread, RequestBody(t) PROVE Gates'
  <2> DEFINE starts == th[t].has /\ ~Redundant(th[t].op) /\ th[t].op = "start"
  <2>1. /\ enabled' = (enabled \/ starts) /\ appStopped' = (appStopped /\ ~starts)
        /\ UNCHANGED <<callback, errorPhase, errorCalled>>
    BY <1>15 DEF RequestBody
  <2> HIDE DEF starts
  <2> QED BY <2>1
<1>16. ASSUME NEW t \in Thread, QueryState(t) PROVE Gates'
  BY <1>16 DEF QueryState
<1>17. ASSUME NEW t \in Thread, PollAgain(t) PROVE Gates'
  BY <1>17 DEF PollAgain
<1>18. ASSUME NEW t \in Thread, PollReturn(t) PROVE Gates'
  BY <1>18 DEF PollReturn
<1>19. ASSUME NEW t \in Thread, GetterReturn(t) PROVE Gates'
  BY <1>19 DEF GetterReturn
<1>20. ASSUME NEW t \in Thread, CloseUpdate(t) PROVE Gates'
  BY <1>20 DEF CloseUpdate
<1>21. ASSUME NEW t \in Thread, CloseExchange(t) PROVE Gates'
  BY <1>21 DEF CloseExchange
<1>22. ASSUME NEW t \in Thread, CloseStop(t) PROVE Gates'
  BY <1>22 DEF CloseStop
<1>23. ASSUME NEW t \in Thread, CloseJoin(t) PROVE Gates'
  BY <1>23 DEF CloseJoin
<1>24. ASSUME NEW t \in Thread, CloseFree(t) PROVE Gates'
  BY <1>24 DEF CloseFree
<1>25. ASSUME NEW result \in {"Continue", "Stop"}, CallbackReturn(result) PROVE Gates'
  BY <1>25 DEF CallbackReturn, Typed
<1>26. ASSUME NEW u \in Stoppers, StopThread(u) PROVE Gates'
  BY <1>26 DEF StopThread, LockForCall
<1>27. ASSUME NEW t \in App, AppCall(t) PROVE Gates'
  <2>1. UNCHANGED flags
    BY <1>27 DEF AppCall, LockForCall, GetterLock
  <2> QED BY <1>27, <2>1 DEF AppCall
<1>28. CASE UNCHANGED aaVars
  BY <1>28 DEF aaVars
<1>29. CASE Fade
  BY <1>29 DEF Fade
<1> HIDE DEF Gates, flags, phases
<1> QED
  BY <1>29, <1>1, <1>2, <1>3, <1>4, <1>5, <1>6, <1>7, <1>8, <1>9, <1>10, <1>11, <1>12, <1>13, <1>14,
     <1>15, <1>16, <1>17, <1>18, <1>19, <1>20, <1>21, <1>22, <1>23, <1>24, <1>25, <1>26, <1>27,
     <1>28 DEF AaNext, Locking, Stepping, AaDone

\* Once onAudioReady has returned Stop it is not called before the next start,
\* and the error path starts at most once: mDataCallbackEnabled and
\* mErrorCallbackCalled close the gates before anything else can go through.
THEOREM GatesClose == AaSpec => NoCallbackAfterStop
<1>1. AaInit => Gates BY DEF AaInit, Gates
<1>2. Typed /\ Gates /\ [AaNext]_aaVars => Gates' BY GatesStep
<1>3. Gates /\ [AaNext]_aaVars =>
        [/\ callback # "inApp" /\ callback' = "inApp" => ~appStopped
         /\ errorPhase # "onError" /\ errorPhase' = "onError" => errorPhase = "none"]_aaVars
  <2> SUFFICES ASSUME Gates, [AaNext]_aaVars
               PROVE  /\ callback # "inApp" /\ callback' = "inApp" => ~appStopped
                      /\ errorPhase # "onError" /\ errorPhase' = "onError" =>
                           errorPhase = "none"
    OBVIOUS
  <2>1. ASSUME callback # "inApp", callback' = "inApp" PROVE ~appStopped
    <3>1. CASE UNCHANGED callback BY <2>1, <3>1
    <3>2. CASE CallbackBegin BY <2>1, <3>2 DEF CallbackBegin, Gates
    <3> QED
      BY <2>1, <3>1, <3>2 DEF AaNext, Locking, Stepping, AaDone, aaVars, phases, Settle, Disconnect, Fade,
         CallbackQuery, CallbackStop, ErrorCallback, ErrorHandled, ErrorStop, ErrorBeforeClose,
         ErrorClose, ErrorAfterClose, AppRelease, QueryLock, PollLock, RequestBody, QueryState,
         PollAgain, PollReturn, GetterReturn, CloseUpdate, CloseExchange, CloseStop, CloseJoin,
         CloseFree, CallbackReturn, StopThread, AppCall, LockForCall, GetterLock
  <2>2. ASSUME errorPhase # "onError", errorPhase' = "onError" PROVE errorPhase = "none"
    <3>1. CASE UNCHANGED errorPhase BY <2>2, <3>1
    <3>2. CASE ErrorCallback BY <2>2, <3>2 DEF ErrorCallback, Gates
    <3> QED
      BY <2>2, <3>1, <3>2 DEF AaNext, Locking, Stepping, AaDone, aaVars, phases, Settle, Disconnect, Fade,
         CallbackBegin, CallbackQuery, CallbackStop, ErrorHandled, ErrorStop, ErrorBeforeClose,
         ErrorClose, ErrorAfterClose, AppRelease, QueryLock, PollLock, RequestBody, QueryState,
         PollAgain, PollReturn, GetterReturn, CloseUpdate, CloseExchange, CloseStop, CloseJoin,
         CloseFree, CallbackReturn, StopThread, AppCall, LockForCall, GetterLock
  <2> QED BY <2>1, <2>2
<1> QED BY <1>1, <1>2, <1>3, LockProtocol, PTL DEF AaSpec, NoCallbackAfterStop
-----------------------------------------------------------------------------
(* The lifetime of the object. *)

\* An app thread that is idle moves only by a call of an app that owns the
\* stream.
Rested == /\ \A t \in App : IsAt(t, "idle") => th'[t] = th[t] \/ owned'
          /\ handle' => handle
          /\ ~owned' => ~owned \/ AppRelease

LEMMA MoverRests ==
  ASSUME NEW t \in Thread, \A u \in Thread \ {t} : th'[u] = th[u],
         t \notin App \/ owned' \/ th[t].pc # "idle",
         handle' => handle, ~owned' => ~owned
  PROVE  Rested
BY Threads DEF IsAt, Rested

LEMMA RestedStep == ASSUME Typed, [AaNext]_aaVars PROVE Rested
<1> USE Threads DEF phases, IsAt
<1>1. CASE Settle
  BY <1>1 DEF Rested, Settle
<1>2. CASE Disconnect
  BY <1>2 DEF Rested, Disconnect
<1>3. CASE CallbackBegin
  BY <1>3 DEF Rested, CallbackBegin
<1>4. CASE ErrorCallback
  BY <1>4 DEF Rested, ErrorCallback
<1>5. CASE ErrorHandled
  BY <1>5 DEF Rested, ErrorHandled
<1>6. CASE AppRelease
  BY <1>6 DEF Rested, AppRelease
<1>7. ASSUME NEW result \in {"Continue", "Stop"}, CallbackReturn(result) PROVE Rested
  BY <1>7 DEF Rested, CallbackReturn
<1>8. CASE CallbackQuery
  <2>1. \A u \in Thread \ {"callback"} : th'[u] = th[u]
    BY <1>8, LockMoves DEF CallbackQuery, GetterLock, Moves
  <2>2. "callback" \notin App /\ (handle' => handle) /\ owned' = owned
    BY <1>8 DEF CallbackQuery, GetterLock
  <2> QED BY <2>1, <2>2, MoverRests
<1>9. CASE CallbackStop
  <2>1. UNCHANGED <<handle, owned>> BY <1>9 DEF CallbackStop
  <2>2. CASE UNCHANGED th BY <2>1, <2>2 DEF Rested
  <2>3. CASE \E u \in Stoppers : IsAt(u, "none") /\ Moves(u, "idle", th[u].has)
    BY <2>1, <2>3 DEF Moves, Rested
  <2> QED BY <1>9, <2>2, <2>3, StopThreadMoves
<1>10. CASE ErrorStop
  <2>1. \A u \in Thread \ {"error"} : th'[u] = th[u]
    BY <1>10, LockMoves DEF ErrorStop, LockForCall, Request, Moves
  <2>2. "error" \notin App /\ (handle' => handle) /\ owned' = owned
    BY <1>10 DEF ErrorStop, LockForCall, Request
  <2> QED BY <2>1, <2>2, MoverRests
<1>11. CASE ErrorClose
  <2>1. \A u \in Thread \ {"error"} : th'[u] = th[u]
    BY <1>11, LockMoves DEF ErrorClose, LockForCall, Request, Moves
  <2>2. "error" \notin App /\ (handle' => handle) /\ owned' = owned
    BY <1>11 DEF ErrorClose, LockForCall, Request
  <2> QED BY <2>1, <2>2, MoverRests
<1>12. CASE ErrorBeforeClose
  <2>1. \A u \in Thread \ {"error"} : th'[u] = th[u]
    BY <1>12, LockMoves DEF ErrorBeforeClose, GetterLock, Moves
  <2>2. "error" \notin App /\ (handle' => handle) /\ owned' = owned
    BY <1>12 DEF ErrorBeforeClose, GetterLock
  <2> QED BY <2>1, <2>2, MoverRests
<1>13. CASE ErrorAfterClose
  <2>1. \A u \in Thread \ {"error"} : th'[u] = th[u]
    BY <1>13, LockMoves DEF ErrorAfterClose, GetterLock, Moves
  <2>2. "error" \notin App /\ (handle' => handle) /\ owned' = owned
    BY <1>13 DEF ErrorAfterClose, GetterLock
  <2> QED BY <2>1, <2>2, MoverRests
<1>14. ASSUME NEW v \in Stoppers, StopThread(v) PROVE Rested
  <2>1. \A u \in Thread \ {v} : th'[u] = th[u]
    BY <1>14, LockMoves DEF StopThread, LockForCall, Request, Moves
  <2>2. v \notin App /\ (handle' => handle) /\ owned' = owned
    BY <1>14 DEF StopThread, LockForCall
  <2> QED BY <2>1, <2>2, MoverRests
<1>15. ASSUME NEW t \in App, AppCall(t) PROVE Rested
  <2>1. owned' /\ owned BY <1>15 DEF AppCall
  <2>2. CASE GetterLock(t)
    BY <2>1, <2>2, LockMoves, MoverRests DEF GetterLock, Moves
  <2>3. ASSUME NEW op \in Request \cup {"close"}, LockForCall(t, op) PROVE Rested
    BY <2>1, <2>3, LockMoves, MoverRests DEF LockForCall, Moves
  <2> QED BY <1>15, <2>2, <2>3 DEF AppCall
<1>16. ASSUME NEW t \in Thread, QueryLock(t) PROVE Rested
  <2>1. \A u \in Thread \ {t} : th'[u] = th[u]
    BY <1>16, GoToMoves DEF QueryLock, AaWhere, Typed, In, Call, Moves
  <2>2. th[t].pc \notin {"idle", "none"} /\ (handle' => handle) /\ owned' = owned
    BY <1>16 DEF QueryLock, AaWhere, Typed, In, Call
  <2> QED BY <2>1, <2>2, MoverRests
<1>17. ASSUME NEW t \in Thread, PollLock(t) PROVE Rested
  <2>1. \A u \in Thread \ {t} : th'[u] = th[u]
    BY <1>17, GoToMoves DEF PollLock, AaWhere, Typed, In, Call, Moves
  <2>2. th[t].pc \notin {"idle", "none"} /\ (handle' => handle) /\ owned' = owned
    BY <1>17 DEF PollLock, AaWhere, Typed, In, Call
  <2> QED BY <2>1, <2>2, MoverRests
<1>18. ASSUME NEW t \in Thread, RequestBody(t) PROVE Rested
  <2>1. \A u \in Thread \ {t} : th'[u] = th[u]
    BY <1>18, RequestMoves DEF RequestBody, AaWhere, Typed, In, Call, Moves
  <2>2. th[t].pc \notin {"idle", "none"} /\ (handle' => handle) /\ owned' = owned
    BY <1>18 DEF RequestBody, AaWhere, Typed, In, Call
  <2> QED BY <2>1, <2>2, MoverRests
<1>19. ASSUME NEW t \in Thread, QueryState(t) PROVE Rested
  <2>1. \A u \in Thread \ {t} : th'[u] = th[u]
    BY <1>19, QueryMoves DEF QueryState, AaWhere, Typed, In, Call, Moves
  <2>2. th[t].pc \notin {"idle", "none"} /\ (handle' => handle) /\ owned' = owned
    BY <1>19 DEF QueryState, AaWhere, Typed, In, Call
  <2> QED BY <2>1, <2>2, MoverRests
<1>20. ASSUME NEW t \in Thread, PollAgain(t) PROVE Rested
  <2>1. \A u \in Thread \ {t} : th'[u] = th[u]
    BY <1>20, GoToMoves DEF PollAgain, AaWhere, Typed, In, Call, Moves
  <2>2. th[t].pc \notin {"idle", "none"} /\ (handle' => handle) /\ owned' = owned
    BY <1>20 DEF PollAgain, AaWhere, Typed, In, Call
  <2> QED BY <2>1, <2>2, MoverRests
<1>21. ASSUME NEW t \in Thread, PollReturn(t) PROVE Rested
  <2>1. \A u \in Thread \ {t} : th'[u] = th[u]
    BY <1>21, ReturnMoves DEF PollReturn, AaWhere, Typed, In, Call, Moves
  <2>2. th[t].pc \notin {"idle", "none"} /\ (handle' => handle) /\ owned' = owned
    BY <1>21 DEF PollReturn, AaWhere, Typed, In, Call
  <2> QED BY <2>1, <2>2, MoverRests
<1>22. ASSUME NEW t \in Thread, GetterReturn(t) PROVE Rested
  <2>1. \A u \in Thread \ {t} : th'[u] = th[u]
    BY <1>22, ReturnMoves DEF GetterReturn, AaWhere, Typed, In, Call, Moves
  <2>2. th[t].pc \notin {"idle", "none"} /\ (handle' => handle) /\ owned' = owned
    BY <1>22 DEF GetterReturn, AaWhere, Typed, In, Call
  <2> QED BY <2>1, <2>2, MoverRests
<1>23. ASSUME NEW t \in Thread, CloseUpdate(t) PROVE Rested
  <2>1. \A u \in Thread \ {t} : th'[u] = th[u]
    BY <1>23, GoToMoves DEF CloseUpdate, AaWhere, Typed, In, Call, Moves
  <2>2. th[t].pc \notin {"idle", "none"} /\ (handle' => handle) /\ owned' = owned
    BY <1>23 DEF CloseUpdate, AaWhere, Typed, In, Call
  <2> QED BY <2>1, <2>2, MoverRests
<1>24. ASSUME NEW t \in Thread, CloseExchange(t) PROVE Rested
  <2>1. \A u \in Thread \ {t} : th'[u] = th[u]
    BY <1>24, GoToMoves, ReturnMoves DEF CloseExchange, AaWhere, Typed, In, Call, Moves
  <2>2. th[t].pc \notin {"idle", "none"} /\ (handle' => handle) /\ owned' = owned
    BY <1>24 DEF CloseExchange, AaWhere, Typed, In, Call
  <2> QED BY <2>1, <2>2, MoverRests
<1>25. ASSUME NEW t \in Thread, CloseStop(t) PROVE Rested
  <2>1. \A u \in Thread \ {t} : th'[u] = th[u]
    BY <1>25, GoToMoves DEF CloseStop, AaWhere, Typed, In, Call, Moves
  <2>2. th[t].pc \notin {"idle", "none"} /\ (handle' => handle) /\ owned' = owned
    BY <1>25 DEF CloseStop, AaWhere, Typed, In, Call
  <2> QED BY <2>1, <2>2, MoverRests
<1>26. ASSUME NEW t \in Thread, CloseJoin(t) PROVE Rested
  <2>1. \A u \in Thread \ {t} : th'[u] = th[u]
    BY <1>26, GoToMoves DEF CloseJoin, AaWhere, Typed, In, Call, Moves
  <2>2. th[t].pc \notin {"idle", "none"} /\ (handle' => handle) /\ owned' = owned
    BY <1>26 DEF CloseJoin, AaWhere, Typed, In, Call
  <2> QED BY <2>1, <2>2, MoverRests
<1>27. ASSUME NEW t \in Thread, CloseFree(t) PROVE Rested
  <2>1. \A u \in Thread \ {t} : th'[u] = th[u]
    BY <1>27, ReturnMoves DEF CloseFree, AaWhere, Typed, In, Call, Moves
  <2>2. th[t].pc \notin {"idle", "none"} /\ (handle' => handle) /\ owned' = owned
    BY <1>27 DEF CloseFree, AaWhere, Typed, In, Call
  <2> QED BY <2>1, <2>2, MoverRests
<1>28. CASE UNCHANGED aaVars
  BY <1>28 DEF Rested, aaVars
<1>29. CASE Fade
  BY <1>29 DEF Rested, Fade
<1> QED
  BY <1>29, <1>1, <1>2, <1>3, <1>4, <1>5, <1>6, <1>7, <1>8, <1>9, <1>10, <1>11, <1>12, <1>13, <1>14,
     <1>15, <1>16, <1>17, <1>18, <1>19, <1>20, <1>21, <1>22, <1>23, <1>24, <1>25, <1>26, <1>27,
     <1>28 DEF AaNext, Locking, Stepping, AaDone

LEMMA ReleasedStep ==
  ASSUME Typed, Released, [AaNext]_aaVars PROVE Released'
<1>1. Rested BY RestedStep
<1> SUFFICES ASSUME ~owned' PROVE ~handle' /\ \A t \in App : th'[t].pc = "idle"
  BY DEF Released, IsAt
<1>2. CASE AppRelease BY <1>2 DEF AppRelease, IsAt
<1>3. CASE ~owned
  BY <1>1, <1>3 DEF Released, Rested, IsAt
<1> QED BY <1>1, <1>2, <1>3 DEF Rested

\* The object is deleted after the close, which has silenced the stream: no
\* data callback is in progress then and none can begin, on any version of
\* Android with the workarounds on.
THEOREM CallbackEndsFirst ==
  ASSUME Workarounds PROVE AaSpec => [](Deleted => callback = "idle" /\ ~firing)
<1>1. AaInit => Released BY DEF AaInit, Released
<1>2. Typed /\ Locks /\ Silenced /\ Released => (Deleted => callback = "idle" /\ ~firing)
  <2> SUFFICES ASSUME Typed, Locks, Silenced, Released, Deleted
               PROVE  callback = "idle" /\ ~firing
    OBVIOUS
  <2>1. ~handle /\ \A t \in App \cup {"error"} : th[t].pc = "idle"
    BY DEF Deleted, Released, IsAt
  <2>2. \A t \in Thread : th[t].pc \notin Closing
    BY <2>1 DEF Locks, OwnersClose, Closing
  <2>3. aaudio = "Freed" BY <2>1, <2>2 DEF Locks, AliveWhileHandled
  <2> QED BY <2>3 DEF Silenced
<1>3. Typed /\ Released /\ [AaNext]_aaVars => Released' BY ReleasedStep
<1> QED BY <1>1, <1>2, <1>3, LockProtocol, CloseSilences, PTL DEF AaSpec
=============================================================================
