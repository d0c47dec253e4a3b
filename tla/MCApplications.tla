---------------------------- MODULE MCApplications ----------------------------
(***************************************************************************)
(* OboeTester, fxlab or one of the samples: application says whose part    *)
(* runs.                                                                   *)
(***************************************************************************)
EXTENDS MCOboeTester, MCSamples, FxLab, FxDelays

VARIABLES
  application,
  fxLabPart    \* fxlab's list of effects and its engines, or one effect's delay line

fxLabVars == <<fxLabPart, fxVars, dlVars>>

\* The part that does not run is in one initial state.
FxLabInit == /\ fxLabPart \in {"list", "delays"}
             /\ FxInit /\ (fxLabPart = "delays" => fxPermission = "granted")
             /\ DlInit /\ (fxLabPart = "list" => dlEffect = CHOOSE e \in Effects : TRUE)

FxLabNext == /\ UNCHANGED fxLabPart
             /\ \/ fxLabPart = "list" /\ FxNext /\ UNCHANGED dlVars
                \/ fxLabPart = "delays" /\ ProcessSample /\ UNCHANGED fxVars

applicationVars == <<application, vars, sampleVars, fxLabVars>>

ApplicationsInit ==
  /\ \/ application = "tester" /\ demo = "queue" /\ fxLabPart = "delays"
     \/ application = "samples" /\ part = "recording" /\ fxLabPart = "delays"
     \/ application = "fxlab" /\ part = "recording" /\ demo = "queue"
  /\ FxLabInit /\ (application # "fxlab" => dlEffect = CHOOSE e \in Effects : TRUE)
  /\ Init /\ SamplesInit

ApplicationsNext ==
  /\ UNCHANGED application
  /\ \/ application = "tester" /\ Next /\ UNCHANGED <<sampleVars, fxLabVars>>
     \/ application = "samples" /\ SamplesNext /\ UNCHANGED <<vars, fxLabVars>>
     \/ application = "fxlab" /\ FxLabNext /\ UNCHANGED <<vars, sampleVars>>

\* The fairness is OboeTester's; of the others nothing is said but what they
\* never do.
ApplicationsSpec ==
  /\ ApplicationsInit /\ [][ApplicationsNext]_applicationVars
  /\ WF_vars(UIThread) /\ \A i \in 1..NcThreads : WF_vars(Thread(i))
  /\ WF_vars(Frames) /\ WF_vars(Volume)
-----------------------------------------------------------------------------
\* fxlab: its screen shows the effects that are applied by an engine that was
\* told of them all, its callback finds all that it uses and is silent while the
\* screen shows that it is, and a delayed sample is the right one.
EffectsApplied == EffectsShown /\ CallbackHasAll /\ MutedAsShown /\ TapsInOrder
=============================================================================
