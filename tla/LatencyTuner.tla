---------------------------- MODULE LatencyTuner ----------------------------
(***************************************************************************)
(* LatencyTuner on the stream its application writes to: tune() runs on    *)
(* the writing thread before each write, requestReset() on any other.      *)
(*                                                                         *)
(* That getXRunCount() or setBufferSizeInFrames() fails, as on an OpenSL   *)
(* ES stream that has a data callback, only disables the tuner and is left *)
(* out.  MaxResets bounds the calls of requestReset().                     *)
(***************************************************************************)
EXTENDS BufferedStream

CONSTANTS MinimumBufferSize, MaxBufferSize,
          kIdleCount,     \* 8 in the code
          MaxResets

ASSUME TunerAssumption ==
  /\ MinimumBufferSize \in Burst..MaxBufferSize /\ MaxBufferSize \in Burst..Capacity
  /\ kIdleCount \in Nat \ {0} /\ MaxResets \in Nat

VARIABLES
  tuner,       \* where tune() is, its numRequests, mState and mIdleCountDown
  requests,    \* mLatencyTriggerRequests
  responses,   \* mLatencyTriggerResponses
  unserved     \* a requestReset() that no reset() has followed yet

tunerVars == <<tuner, requests, responses, unserved>>
latencyVars == <<streamVars, tunerVars>>

NewTuner == [pc |-> "none", numRequests |-> 0, state |-> "Idle",
             countDown |-> kIdleCount]

TunerInit == /\ StreamInit /\ tuner = NewTuner
             /\ requests = 0 /\ responses = 0 /\ unserved = FALSE

RequestReset == /\ requests < MaxResets
                /\ requests' = requests + 1 /\ unserved' = TRUE
                /\ UNCHANGED <<streamVars, tuner, responses>>

SetBufferSize(requested) ==
  /\ size' = Clipped(requested)
  /\ UNCHANGED <<input, run, level, phase, ranAgo, app>>

\* setBufferSizeInFrames(getMinimumBufferSize()) in reset()
ResetState == [tuner EXCEPT !.state = "Idle", !.countDown = kIdleCount, !.pc = "adjust"]

Construct == /\ tuner.pc = "none" /\ app.pc = "idle" /\ ~input
             /\ tuner' = [NewTuner EXCEPT !.pc = "done"]
             /\ SetBufferSize(MinimumBufferSize)
             /\ UNCHANGED <<glitched, requests, responses, unserved>>

TuneLoad == /\ tuner.pc = "done" /\ app.pc = "idle"
            /\ tuner' = [tuner EXCEPT !.numRequests = requests,
                           !.pc = IF requests # responses THEN "store" ELSE "adjust"]
            /\ UNCHANGED <<streamVars, requests, responses, unserved>>

\* The reset first, and then whatever requests there are count as served.
TuneResetOff ==
  /\ tuner.pc \in {"store", "reset"}
  /\ IF tuner.pc = "store"
     THEN /\ tuner' = [ResetState EXCEPT !.pc = "reset"] /\ unserved' = FALSE
          /\ SetBufferSize(MinimumBufferSize) /\ UNCHANGED responses
     ELSE /\ responses' = requests /\ tuner' = [tuner EXCEPT !.pc = "adjust"]
          /\ UNCHANGED <<unserved, streamVars>>
  /\ UNCHANGED <<glitched, requests>>

\* Store the requests that were loaded, then reset().
TuneReset ==
  /\ tuner.pc \in {"store", "reset"}
  /\ IF tuner.pc = "store"
     THEN /\ responses' = tuner.numRequests /\ tuner' = [tuner EXCEPT !.pc = "reset"]
          /\ UNCHANGED <<unserved, streamVars>>
     ELSE /\ tuner' = ResetState /\ unserved' = FALSE
          /\ SetBufferSize(MinimumBufferSize) /\ UNCHANGED responses
  /\ UNCHANGED <<glitched, requests>>

Counted == IF tuner.state = "Idle"
           THEN [tuner EXCEPT !.countDown = @ - 1,
                              !.state = IF tuner.countDown <= 1 THEN "Active" ELSE "Idle"]
           ELSE tuner

RequestedSize == Smaller(size + Burst, MaxBufferSize)

\* The size is raised when there was a glitch since it was raised last.
AdjustForever == /\ glitched' = FALSE
                 /\ SetBufferSize(RequestedSize)
                 /\ tuner' = [Counted EXCEPT !.pc = "done"]

Adjust == /\ glitched' = FALSE
          /\ SetBufferSize(RequestedSize)
          /\ tuner' = [Counted EXCEPT !.pc = "done",
                                      !.state = IF size' = size THEN "AtMax" ELSE @]

TuneAdjust == /\ tuner.pc = "adjust"
              /\ IF Counted.state = "Active" /\ glitched THEN Adjust
                 ELSE tuner' = [Counted EXCEPT !.pc = "done"] /\ UNCHANGED streamVars
              /\ UNCHANGED <<requests, responses, unserved>>

\* An application without a tuner sets the size itself.
Resize == /\ tuner.pc = "none" /\ app.pc = "idle"
          /\ \E requested \in {-1, 0, Capacity - 1, Capacity + 1} : SetBufferSize(requested)
          /\ UNCHANGED <<glitched, tunerVars>>

Write == /\ tuner.pc \in {"none", "done"}
         /\ \E n \in 1..MaxRequest, timeout \in Timeouts : Call(n, timeout)

Tuning == TuneLoad \/ TuneReset \/ TuneAdjust

TunerNext == \/ RequestReset \/ Construct \/ Tuning \/ Resize
             \/ /\ Write \/ Transferring \/ Callback \/ Start \/ Stop \/ Tick
                /\ UNCHANGED tunerVars

TunerSpec == TunerInit /\ [][TunerNext]_latencyVars
-----------------------------------------------------------------------------
\* "This may be called from another thread. Then tune() will call reset()": a
\* request that comes while tune() deals with an earlier one is not forgotten;
\* and with resets and glitches in any order the tuner keeps the latency between
\* the two limits the application set.
NoResetLost ==
  tuner.pc # "none" => /\ tuner.pc = "done" /\ unserved => requests # responses
                       /\ size \in MinimumBufferSize..MaxBufferSize

\* Tuning comes to an end: the glitches stop, or the size is at its maximum.
LatencySettles == <>[](~glitched) \/ <>[](tuner.state = "AtMax") \/ <>[](tuner.pc = "none")
=============================================================================
