--------------------------------- MODULE FxLab ---------------------------------
(***************************************************************************)
(* fxlab: the list of effects on its screen, and the list that its engine  *)
(* applies.  The screen's thread adds, drags, swipes and switches effects; *)
(* a slider's timer thread changes a parameter later.  Each effect is of   *)
(* another kind and has one parameter.  The list is short enough for every *)
(* effect to be on the screen, in a view (holder) that knows its place and *)
(* has a slider; the sliders of a view that is bound again are at their    *)
(* defaults.  The app may be left and its streams lost at any time: its    *)
(* screen keeps the effects, a new engine has none of them.                *)
(* A callback may run while a list changes; what it then does to the       *)
(* samples is undefined and not asked here.                                *)
(***************************************************************************)
EXTENDS Integers, Sequences, SequencesExt

CONSTANTS
  FxKinds,    \* effects that are added
  FxSpinUp,   \* mSpinUpCallbacks
  FxEngines,  \* engines created
  FxTouches,  \* what the user does to the effects and the button
  FxLate      \* BOOLEAN: the user swipes, drags or leaves while a timer is pending

ASSUME FxLabAssumption == /\ {FxSpinUp, FxEngines, FxTouches} \subseteq Nat
                          /\ FxLate \in BOOLEAN

VARIABLES
  fxActivity,        \* "resumed", "paused", "asking" for permission, "crashed"
  fxPermission,    \* "none", "denied" or "granted"
  isAudioEnabled,
  effectList,      \* the effects on the screen, from top to bottom
  enable, paramValue,  \* of each effect
  slider,          \* of each effect: what its slider shows
  index,           \* of each effect: the place its holder knows
  timer,           \* of each effect: the value its timer brings, or NoTimer
  touches,
  drag,            \* of the effect that is dragged: from, to; NoDrag
  engines,         \* all engines that were created
  enginePtr,       \* the number of the current one, 0 for null
  deleting,        \* members of it that were destroyed by delete enginePtr
  loud             \* sound was given while the screen showed that there is none

screenVars == <<isAudioEnabled, effectList, enable, paramValue, slider, index, timer, drag,
                touches>>
engineVars == <<engines, enginePtr, deleting>>
fxVars == <<fxActivity, fxPermission, screenVars, engineVars, loud>>

NoTimer == -1
NoDrag == [from |-> 0, to |-> 0]
DefaultValue == 0
Values == {0, 1}
Members == {"outStream", "mCallback", "inStream", "functionList"}

\* lacking: effects were on the screen already, that it is not told of.
\* restarted: its streams were lost and begun again, and the button not used since.
\* Streams that fail to start are as those that never call back.
NewFxEngine ==
  [members |-> Members, functionList |-> <<>>, muted |-> FALSE,
   spinUp |-> FxSpinUp, plays |-> TRUE, calling |-> FALSE,
   lacking |-> effectList # <<>>, restarted |-> FALSE]

FxInit == /\ fxActivity = "paused" /\ fxPermission \in {"none", "granted"}
          /\ isAudioEnabled = FALSE /\ effectList = <<>>
          /\ enable = [k \in FxKinds |-> TRUE] /\ paramValue = [k \in FxKinds |-> DefaultValue]
          /\ slider = paramValue
          /\ index = [k \in FxKinds |-> 0] /\ timer = [k \in FxKinds |-> NoTimer]
          /\ touches = 0 /\ drag = NoDrag
          /\ engines = <<>> /\ enginePtr = 0 /\ deleting = 0 /\ loud = FALSE

-----------------------------------------------------------------------------
(* FunctionList *)

AddEffect(list, k) == Append(list, [kind |-> k, enable |-> TRUE, value |-> DefaultValue])

RemoveEffectAt(list, i) == IF i \in DOMAIN list THEN RemoveAt(list, i) ELSE list

\* std::rotate by one place, of the elements from first to last.
RotateLeft(s, first, last) ==
  [i \in DOMAIN s |-> IF i = last THEN s[first]
                      ELSE IF i \in first..(last - 1) THEN s[i + 1] ELSE s[i]]

\* Down, or up on the reverse of the list.
RotateUnreversed(list, from, to) ==
  IF {from, to} \subseteq DOMAIN list
  THEN IF from <= to THEN RotateLeft(list, from, to) ELSE RotateLeft(list, to, from)
  ELSE list

RotateEffectAt(list, from, to) ==
  LET n == Len(list) + 1
  IN IF {from, to} \subseteq DOMAIN list
     THEN IF from <= to THEN RotateLeft(list, from, to)
          ELSE Reverse(RotateLeft(Reverse(list), n - from, n - to))
     ELSE list

\* A new effect takes the place of the old, and is on or off as that was.
ModifyEffectAt(list, i, k, v) == [list EXCEPT ![i] = [@ EXCEPT !.kind = k, !.value = v]]
EnableEffectAt(list, i, on) == [list EXCEPT ![i].enable = on]

NativeList == IF enginePtr = 0 THEN <<>> ELSE engines[enginePtr].functionList

\* What the JNI functions do with the list of the engine there is, if there is one.
SetNative(list) == engines' = IF enginePtr = 0 THEN engines
                              ELSE [engines EXCEPT ![enginePtr].functionList = list]

-----------------------------------------------------------------------------
(* MainActivity and EffectsAdapter *)

Touch == /\ fxActivity = "resumed" /\ fxPermission # "none"
         /\ touches < FxTouches /\ touches' = touches + 1
Touched == drag = NoDrag /\ Touch
NoneLate == FxLate \/ \A k \in FxKinds : timer[k] = NoTimer
Place(k) == CHOOSE i \in DOMAIN effectList : effectList[i] = k

\* The kinds are alike: which of those that are not in use is added is the same.
Free(k) == k \notin Range(effectList) /\ timer[k] = NoTimer

AddToList(k) ==
  /\ Touched /\ Free(k) /\ k = CHOOSE other \in FxKinds : Free(other)
  /\ effectList' = Append(effectList, k)
  /\ enable' = [enable EXCEPT ![k] = TRUE]
  /\ paramValue' = [paramValue EXCEPT ![k] = DefaultValue]
  /\ slider' = [slider EXCEPT ![k] = DefaultValue]
  /\ index' = [index EXCEPT ![k] = Len(effectList) + 1]
  /\ SetNative(AddEffect(NativeList, k))
  /\ UNCHANGED <<fxActivity, fxPermission, isAudioEnabled, timer, drag, enginePtr, deleting, loud>>

\* functionList[index] is not checked.
Check(k) ==
  /\ Touched /\ k \in Range(effectList)
  /\ LET on == ~enable[k]
     IN /\ enable' = [enable EXCEPT ![effectList[index[k]]] = on]
        /\ IF enginePtr = 0 \/ index[k] \in DOMAIN NativeList
           THEN /\ SetNative(IF enginePtr = 0 THEN <<>>
                             ELSE EnableEffectAt(NativeList, index[k], on))
                /\ UNCHANGED fxActivity
           ELSE fxActivity' = "crashed" /\ UNCHANGED engines
  /\ UNCHANGED <<fxPermission, isAudioEnabled, effectList, paramValue, slider, index, timer,
                 drag, enginePtr, deleting, loud>>

\* onProgressChanged() cancels the timer there is; a tenth of a second is too
\* short for another slider.
Slide(k, v) == /\ Touched /\ k \in Range(effectList)
               /\ \A other \in FxKinds \ {k} : timer[other] = NoTimer
               /\ v # slider[k] /\ slider' = [slider EXCEPT ![k] = v]
               /\ timer' = [timer EXCEPT ![k] = v]
               /\ UNCHANGED <<fxActivity, fxPermission, isAudioEnabled, effectList, enable,
                              paramValue, index, drag, engineVars, loud>>

\* updateEffectParam(), by the place that the holder knows now: the list of the
\* screen is checked by its language, the engine's is not.
UpdateEffectParam(k) ==
  /\ timer[k] # NoTimer /\ fxActivity # "crashed" /\ deleting = 0
  /\ timer' = [timer EXCEPT ![k] = NoTimer]
  /\ LET i == index[k]
     IN IF i \notin DOMAIN effectList \/ (enginePtr # 0 /\ i \notin DOMAIN NativeList)
        THEN fxActivity' = "crashed" /\ UNCHANGED <<paramValue, engines>>
        ELSE LET values == [paramValue EXCEPT ![effectList[i]] = timer[k]]
             IN /\ paramValue' = values
                /\ SetNative(IF enginePtr = 0 THEN <<>>
                             ELSE ModifyEffectAt(NativeList, i, k, values[k]))
                /\ UNCHANGED fxActivity
  /\ UNCHANGED <<fxPermission, isAudioEnabled, effectList, enable, slider, index, drag, touches,
                 enginePtr, deleting, loud>>

\* bindEffect() of the holders at these places of the list
Rebound(list, places) ==
  [k \in FxKinds |-> IF \E i \in places \cap DOMAIN list : list[i] = k
                     THEN CHOOSE i \in DOMAIN list : list[i] = k ELSE index[k]]

\* It inflates their sliders again, at their defaults.
Reinflated(list, places) ==
  [k \in FxKinds |-> IF \E i \in places \cap DOMAIN list : list[i] = k
                     THEN DefaultValue ELSE slider[k]]

\* The effect is gone, and its holder with it unless a timer has it.
OnSwiped(k) ==
  /\ Touched /\ NoneLate /\ k \in Range(effectList)
  /\ effectList' = RemoveAt(effectList, Place(k))
  /\ index' = [Rebound(effectList', Place(k)..Len(effectList))
                EXCEPT ![k] = IF timer[k] = NoTimer THEN 0 ELSE @]
  /\ enable' = [enable EXCEPT ![k] = TRUE]
  /\ paramValue' = [paramValue EXCEPT ![k] = DefaultValue]
  /\ slider' = [Reinflated(effectList', Place(k)..Len(effectList)) EXCEPT ![k] = DefaultValue]
  /\ SetNative(RemoveEffectAt(NativeList, Place(k)))
  /\ UNCHANGED <<fxActivity, fxPermission, isAudioEnabled, timer, drag, enginePtr, deleting, loud>>

\* The dragged effect is moved as it passes others.
OnMove(k, to) ==
  /\ Touch /\ NoneLate
  /\ {k, effectList[to]} \subseteq Range(effectList) /\ Place(k) # to
  /\ drag = NoDrag \/ Place(k) = drag.to
  /\ drag' = [from |-> IF drag = NoDrag THEN Place(k) ELSE drag.from, to |-> to]
  /\ effectList' = InsertAt(RemoveAt(effectList, Place(k)), to, k)
  /\ UNCHANGED <<fxActivity, fxPermission, isAudioEnabled, enable, paramValue, slider, index,
                 timer, engineVars, loud>>

\* clearView(), when it is dropped.
Drop ==
  /\ fxActivity = "resumed" /\ drag # NoDrag /\ drag' = NoDrag
  /\ IF drag.from = drag.to THEN UNCHANGED <<index, slider, engines>>
     ELSE /\ index' = Rebound(effectList, (drag.from..drag.to) \cup (drag.to..drag.from))
          /\ slider' = Reinflated(effectList, (drag.from..drag.to) \cup (drag.to..drag.from))
          /\ SetNative(RotateEffectAt(NativeList, drag.from, drag.to))
  /\ UNCHANGED <<fxActivity, fxPermission, isAudioEnabled, effectList, enable, paramValue, timer,
                 touches, enginePtr, deleting, loud>>

\* The button, and enablePassthroughNative()
ToggleMute ==
  /\ Touched /\ isAudioEnabled' = ~isAudioEnabled
  /\ engines' = IF enginePtr = 0 THEN engines
                ELSE [engines EXCEPT ![enginePtr] =
                        [@ EXCEPT !.muted = isAudioEnabled, !.restarted = FALSE]]
  /\ UNCHANGED <<fxActivity, fxPermission, effectList, enable, paramValue, slider, index, timer,
                 drag, enginePtr, deleting, loud>>

-----------------------------------------------------------------------------
(* The activity's life, and its engines *)

\* createAudioEngine(): the pointer is written over.
CreateAudioEngine(muted) ==
  /\ Len(engines) < FxEngines
  /\ engines' = Append(engines, [NewFxEngine EXCEPT !.muted = muted])
  /\ enginePtr' = Len(engines) + 1

\* enable(isAudioEnabled) follows at once, long before the callbacks have spun up.
FxOnResume ==
  /\ fxActivity = "paused" /\ deleting = 0
  /\ fxActivity' = "resumed"
  /\ IF fxPermission = "granted" THEN CreateAudioEngine(~isAudioEnabled)
                                 ELSE UNCHANGED <<engines, enginePtr>>
  /\ UNCHANGED <<fxPermission, screenVars, deleting, loud>>

\* delete enginePtr begins; or nothing, when there is none.
FxOnPause ==
  /\ fxActivity = "resumed" /\ drag = NoDrag /\ NoneLate
  /\ fxActivity' = IF fxPermission = "none" THEN "asking" ELSE "paused"
  /\ deleting' = IF enginePtr = 0 THEN 0 ELSE 1
  /\ UNCHANGED <<fxPermission, screenVars, engines, enginePtr, loud>>

\* The members are destroyed in the reverse order of their declarations; the
\* output stream is closed, and its callback has returned by then.
DeclaredBefore == <<"functionList", "inStream", "mCallback", "outStream">>
DestroyOrder == <<"outStream", "mCallback", "inStream", "functionList">>

DestroyMember ==
  /\ deleting > 0
  /\ LET member == DestroyOrder[deleting]
     IN /\ member = "outStream" => ~engines[enginePtr].calling
        /\ engines' = [engines EXCEPT ![enginePtr].members = @ \ {member}]
  /\ IF deleting = Len(DestroyOrder) THEN deleting' = 0 /\ enginePtr' = 0
                                     ELSE deleting' = deleting + 1 /\ UNCHANGED enginePtr
  /\ UNCHANGED <<fxActivity, fxPermission, screenVars, loud>>

\* onRequestPermissionsResult() comes before onResume().
FxOnRequestPermissionsResult ==
  /\ fxActivity = "asking" /\ deleting = 0 /\ fxActivity' = "paused"
  /\ \/ fxPermission' = "granted" /\ CreateAudioEngine(FALSE)
     \/ fxPermission' = "denied" /\ UNCHANGED <<engines, enginePtr>>
  /\ UNCHANGED <<screenVars, deleting, loud>>

\* onDestroy() clears the list, and another activity begins.
OnDestroy == /\ fxActivity = "paused" /\ deleting = 0 /\ effectList # <<>>
             /\ effectList' = <<>> /\ isAudioEnabled' = FALSE
             /\ enable' = [k \in FxKinds |-> TRUE]
             /\ paramValue' = [k \in FxKinds |-> DefaultValue] /\ slider' = paramValue'
             /\ index' = [k \in FxKinds |-> IF timer[k] = NoTimer THEN 0 ELSE index[k]]
             /\ fxPermission' = IF fxPermission = "denied" THEN "none" ELSE fxPermission
             /\ UNCHANGED <<fxActivity, timer, touches, drag, engineVars, loud>>

-----------------------------------------------------------------------------
(* DuplexCallback *)

CallbackBegin(e) ==
  /\ fxActivity # "crashed" /\ engines[e].plays /\ "outStream" \in engines[e].members
  /\ ~engines[e].calling
  /\ engines' = [engines EXCEPT ![e].calling = TRUE]
  /\ UNCHANGED <<fxActivity, fxPermission, screenVars, enginePtr, deleting, loud>>

\* The input cannot be read; or the first blocks are dropped; or it is heard, of
\* which the engines are left out that the activity has lost or the button not told.
CallbackEnd(e) ==
  /\ fxActivity # "crashed" /\ engines[e].calling
  /\ \/ /\ engines' = [engines EXCEPT ![e].calling = FALSE, ![e].plays = FALSE]
        /\ UNCHANGED loud
     \/ /\ engines' = [engines EXCEPT ![e].calling = FALSE,
                                      ![e].spinUp = IF @ > 0 THEN @ - 1 ELSE 0]
        /\ loud' = (loud \/ (/\ fxActivity = "resumed" /\ ~isAudioEnabled
                             /\ e = enginePtr /\ ~engines[e].restarted
                             /\ engines[e].spinUp = 0 /\ ~engines[e].muted))
  /\ UNCHANGED <<fxActivity, fxPermission, screenVars, enginePtr, deleting>>

\* onErrorAfterClose(), of a stream that is lost: beginStreams() makes another
\* list, callback and streams, in the same engine.
FxRestart(e) ==
  /\ fxActivity # "crashed" /\ deleting = 0
  /\ engines[e].members = Members /\ ~engines[e].calling /\ engines[e].plays
  /\ engines' = [engines EXCEPT ![e] = [NewFxEngine EXCEPT !.restarted = TRUE]]
  /\ UNCHANGED <<fxActivity, fxPermission, screenVars, enginePtr, deleting, loud>>

FxNext ==
  \/ \E k \in FxKinds : \/ AddToList(k) \/ Check(k) \/ OnSwiped(k) \/ UpdateEffectParam(k)
                        \/ \E v \in Values : Slide(k, v)
                        \/ \E to \in DOMAIN effectList : OnMove(k, to)
  \/ Drop \/ ToggleMute \/ FxOnResume \/ FxOnPause \/ DestroyMember
  \/ FxOnRequestPermissionsResult \/ OnDestroy
  \/ \E e \in DOMAIN engines : CallbackBegin(e) \/ CallbackEnd(e) \/ FxRestart(e)

FxSpec == FxInit /\ [][FxNext]_fxVars

-----------------------------------------------------------------------------
AtRest == /\ fxActivity = "resumed" /\ enginePtr # 0 /\ drag = NoDrag
          /\ \A k \in FxKinds : timer[k] = NoTimer

\* The effects on the screen are the effects that are applied: "The current list
\* of effects being applied to the input audio will be shown on the main screen
\* (in order from top to bottom)", fxlab/README.md:19.  It is not so once the app
\* was left, or its streams were lost, with effects on the screen.
EffectsListed ==
  AtRest => [i \in DOMAIN NativeList |-> NativeList[i].kind] = effectList

\* What is on the screen is what is applied, in this order, on or off and with
\* these parameters, whenever no effect is held and no slider has just been
\* moved: however effects were dragged over others, swiped away and switched.
\* A slider shows the parameter that is applied unless it is at its default, where
\* the sliders are put of effects that others were dragged or swiped past.  And
\* no place is used that the engine's list does not have.  All this of an engine
\* that was told of every effect that is on the screen.
EffectsShown ==
  (enginePtr # 0 => ~engines[enginePtr].lacking) =>
    /\ fxActivity # "crashed"
    /\ AtRest =>
         /\ NativeList = [i \in DOMAIN effectList |->
                            [kind |-> effectList[i], enable |-> enable[effectList[i]],
                             value |-> paramValue[effectList[i]]]]
         /\ \A k \in FxKinds : slider[k] \in {DefaultValue, paramValue[k]}

\* A callback finds all it uses while the engine is destroyed.
CallbackHasAll == \A e \in DOMAIN engines : engines[e].calling => engines[e].members = Members

\* The engine that the activity uses gives no sound while the button shows that
\* there is none, after each start, resume and press of the button.  (Not all of
\* "By default the sound output is off when you start the app", fxlab/README.md:21:
\* onRequestPermissionsResult() makes an engine that onResume() then loses, with its
\* sound on, and one that begins again after a disconnect has its sound on.)
MutedAsShown == ~loud
=============================================================================
