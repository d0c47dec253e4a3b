------------------------------ MODULE MCDataPath ------------------------------
(***************************************************************************)
(* The ways of frames between the application and a device, and what       *)
(* threads share beneath them, one per behaviour.                          *)
(*   - The FIFO on small rings: a capacity that is not a power of two, so  *)
(*     that the indices wrap in the middle of a transfer, and enough       *)
(*     frames for the writer to go round the ring several times.           *)
(*   - The OpenSL ES output: two application threads, of which only the    *)
(*     first calls in a calm program, against the callback thread.         *)
(*   - Blocking calls on an OpenSL ES stream whose FIFO of four bursts is  *)
(*     tuned, with calls that do not block, time out before the next       *)
(*     callback, or after it.                                              *)
(*   - All the paths through a filter stream, with the rates equal, and in *)
(*     ratios above and below one.                                         *)
(***************************************************************************)
EXTENDS Fifo, OpenSLESOutput, LatencyTuner, DataConversion

VARIABLE part

vars == <<part, fifoVars, outputVars, latencyVars, dcVars>>

SomeRates == {<<1, 1>>, <<4, 6>>, <<6, 4>>, <<4, 2>>}

\* The rates that OboeTester offers (strings.xml), in Hz: each reduced to each.
OboeRates == {8000, 11025, 12000, 16000, 22050, 24000, 32000, 44100, 48000, 64000, 88200, 96000}
ASSUME ReductionAssumption == KeepsRatio /\ \A r \in OboeRates \X OboeRates : Keeps(r)

Init == /\ part \in {"fifo", "output", "blocking", "conversion"}
        /\ FifoInit
        /\ OutputInit /\ (part # "output" => calm)
        /\ TunerInit /\ (part # "blocking" => ~input)
        /\ DcInit /\ (part # "conversion" =>
                        path = "outputWrite" /\ rate = <<1, 1>> /\ block = 1)

Sharing(action) ==
  part = "fifo" /\ action /\ UNCHANGED <<part, outputVars, latencyVars, dcVars>>
Called(action) ==
  part = "output" /\ action /\ UNCHANGED <<part, fifoVars, latencyVars, dcVars>>
Blocking(action) ==
  part = "blocking" /\ action /\ UNCHANGED <<part, fifoVars, outputVars, dcVars>>
Converting(action) ==
  part = "conversion" /\ action /\ UNCHANGED <<part, fifoVars, outputVars, latencyVars>>

\* An output may stop for good with a thread that holds mLock: NoCircularWait.
Jammed == mLock # Nobody /\ UNCHANGED outputVars

Next == \/ Sharing(FifoNext) \/ Called(OutputNext) \/ Called(Jammed)
        \/ Blocking(TunerNext) \/ Converting(DcNext)

Spec == Init /\ [][Next]_vars

\* A call goes on: OpenSL ES and a caller that need not sleep run, the
\* application's callback and the child's read() and write() return, and so does
\* every thread of the output that is not waiting for mLock or for a callback.
\* The clock goes on, and an app that has a tuner goes on to call tune().
FairSpec == /\ Spec
            /\ \A t \in Thread : WF_vars(Called(Stepping(t)))
            /\ WF_vars(Blocking(Transferring /\ UNCHANGED tunerVars))
            /\ WF_vars(Blocking(Callback /\ UNCHANGED tunerVars))
            /\ WF_vars(Blocking(Tick /\ UNCHANGED tunerVars))
            /\ SF_vars(Blocking(Tuning))
            /\ WF_vars(Converting(Step))
-----------------------------------------------------------------------------
\* Every call returns: a blocking one also when the stream is not started, and
\* no loop over blocks and pieces of a conversion turns for ever.
CallReturns == app.pc # "idle" \/ pc # "idle" ~> app.pc = "idle" /\ pc = "idle"
=============================================================================
