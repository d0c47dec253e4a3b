------------------------------ MODULE RampLinear ------------------------------
(***************************************************************************)
(* RampLinear: the target of a level is set by one thread, and the audio   *)
(* thread approaches it in steps of a frame.  The level is an integer of   *)
(* units so small that no ramp divides one.  mLevelFrom is only the start  *)
(* of the ramp that mScaler is computed from.  The graph is not reset.     *)
(***************************************************************************)
EXTENDS Integers

CONSTANTS RlTargets, RlLength, RlChanges, RlFrames

\* What n ramps, one within the other, leave of a level
Divisor(n) == RlLength ^ n

ASSUME RampAssumption ==
  /\ RlTargets \subseteq Nat /\ RlLength \in Nat \ {0} /\ RlChanges \in Nat
  /\ \E t \in RlTargets : \A u \in RlTargets : u <= t
  /\ \A n \in 0..(RlChanges + 1) : /\ Divisor(n) \in Nat \ {0}
                                   /\ Divisor(n + 1) = RlLength * Divisor(n)
                                   /\ \A t \in RlTargets : t % Divisor(n) = 0

VARIABLES
  mTarget, mLevelTo, mRemaining, mScaler,
  ramped,    \* the node has run: mLastCallCount is not kInitialCallCount
  setting,   \* where setTarget() is, and its target
  changes,   \* calls of setTarget()
  rlPc,      \* where onProcess() is
  target,    \* its local
  levels,    \* of the last two frames, -1 before the first
  since      \* frames since a new target was loaded

audio == <<mRemaining, mScaler, ramped, rlPc, target, levels, since>>
rlVars == <<audio, mTarget, mLevelTo, setting, changes>>

Highest == CHOOSE t \in RlTargets : \A u \in RlTargets : u <= t

\* The constructor: mTarget is 1.0, the highest there is, the levels are 0.0.
RlInit == /\ mTarget = Highest /\ mLevelTo = 0 /\ mRemaining = 0 /\ mScaler = 0
          /\ ramped = FALSE /\ setting = [at |-> "idle", target |-> 0] /\ changes = 0
          /\ rlPc = "idle" /\ target = 0 /\ levels = <<-1, -1>> /\ since = 0

InterpolateCurrent == mLevelTo - mRemaining * mScaler

-----------------------------------------------------------------------------
\* setTarget(): store, look, force.
Store(t) == /\ setting.at = "idle" /\ changes < RlChanges /\ changes' = changes + 1
            /\ mTarget' = t /\ setting' = [at |-> "look", target |-> t]
            /\ UNCHANGED <<audio, mLevelTo>>

Look == /\ setting.at = "look"
        /\ setting' = [setting EXCEPT !.at = IF ramped THEN "idle" ELSE "force"]
        /\ UNCHANGED <<audio, mTarget, mLevelTo, changes>>

ForceCurrent == /\ setting.at = "force" /\ mLevelTo' = setting.target
                /\ setting' = [setting EXCEPT !.at = "idle"]
                /\ UNCHANGED <<audio, mTarget, changes>>

\* pullData() has set mLastCallCount when onProcess() loads the target.
Run == /\ rlPc = "idle" /\ ramped' = TRUE /\ rlPc' = "load"
       /\ UNCHANGED <<mTarget, mLevelTo, mRemaining, mScaler, setting, changes, target, levels,
                      since>>

Load == /\ rlPc = "load" /\ target' = mTarget
        /\ rlPc' = IF mTarget # mLevelTo THEN "new" ELSE "frames"
        /\ UNCHANGED <<mTarget, mLevelTo, mRemaining, mScaler, ramped, setting, changes, levels,
                       since>>

\* A new ramp continues from the level the one before has got to.
FromTheOldTarget == mLevelTo
From == InterpolateCurrent
NewRamp == /\ rlPc = "new" /\ rlPc' = "frames"
           /\ mScaler' = (target - From) \div RlLength
           /\ mLevelTo' = target /\ mRemaining' = RlLength /\ since' = 0
           /\ UNCHANGED <<mTarget, ramped, setting, changes, target, levels>>

\* A frame, in the ramp or after it
ProcessFrame == /\ rlPc = "frames" /\ rlPc' \in {"frames", "idle"}
                /\ levels' = <<levels[2], IF mRemaining > 0 THEN InterpolateCurrent ELSE mLevelTo>>
                /\ mRemaining' = IF mRemaining > 0 THEN mRemaining - 1 ELSE 0
                /\ since' = IF since < RlFrames THEN since + 1 ELSE since
                /\ UNCHANGED <<mTarget, mLevelTo, mScaler, ramped, setting, changes, target>>

RlNext == (\E t \in RlTargets : Store(t)) \/ Look \/ ForceCurrent
            \/ Run \/ Load \/ NewRamp \/ ProcessFrame

RlSpec == RlInit /\ [][RlNext]_rlVars

-----------------------------------------------------------------------------
Far(a, b) == IF a < b THEN b - a ELSE a - b

\* "This may be safely called by another thread": whenever the target is set, also
\* while the node runs for the first time, the level never moves by more in a frame
\* than a ramp over the whole range would, and is at the last target that was
\* loaded when a ramp's length has passed.
RampSmooth ==
  /\ rlPc # "new" /\ since > RlLength => levels[2] = target
  /\ levels[1] # -1 => Far(levels[1], levels[2]) <= Highest \div RlLength
=============================================================================
