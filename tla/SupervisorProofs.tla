-------------------------- MODULE SupervisorProofs --------------------------
(***************************************************************************)
(* Proofs about Supervisor, for any number of StopRun callers, parks and   *)
(* crashes, about the egress proxy its run is registered with, for any     *)
(* runs, tokens, policies and requests, about the requests to the forge,   *)
(* for any calls and answers, about the listings of the forge, for any     *)
(* number of items and pages, and about the containers, for any runs,      *)
(* Lexicodes and failures: SupervisorInv, EgressInv, ForgeClientInv,       *)
(* ListingInv and ContainersInv are invariant.  One lemma per action; its  *)
(* last step takes together the conjuncts that the action leaves alone.    *)
(***************************************************************************)
EXTENDS Supervisor, Egress, ForgeClient, Containers, Listing, FiniteSetTheorems, NaturalsInduction,
        WellFoundedInduction, TLAPS

USE DEF rowVars, supVars, sessionVars, clockVars

\* A transition leaves a state, refused or not.
LEMMA AfterTyped ==
  \A s \in RunState,
     to \in {"provisioning", "running", "failed", "canceled", "needs_input"} \cup Terminal :
       AfterTransition(s, to) \in RunState
  BY DEF AfterTransition, RunState, Active, Terminal, Parked

\* The supervisor's stages.
LEMMA StageNames ==
  {"none", "lookup", "mint", "prepare", "record", "start", "launch", "setHandle", "seed", "pump",
   "preserve", "teardown", "terminal", "exit"} \subseteq Stages
  BY DEF Stages, FinishStages

\* The rows of the transition table that these proofs need.
LEMMA TransitionTable ==
  \A s \in RunState :
    /\ transitionLegal(s, "provisioning") <=> s = "queued"
    /\ transitionLegal(s, "running") <=> s \in {"provisioning"} \cup Parked
    /\ transitionLegal(s, "needs_input") <=> s = "running"
    /\ \A k \in {"failed", "canceled"} : transitionLegal(s, k) <=> s \notin Terminal
    /\ \A k \in {"completed", "timed_out"} :
         transitionLegal(s, k) <=> s \in {"running"} \cup Parked
  BY DEF transitionLegal, legalTransitions, RunState, Active, Parked, Terminal

\* Admission's transition.
LEMMA AdmitKeeps ==
  ASSUME SupervisorInv, Admit
  PROVE  SupervisorInv'
  <1> USE DEF SupervisorInv, TypeOK
  <1>1. TypeOK'
    <2>1. RowTyped'
      BY AfterTyped DEF Admit, RowTyped, RowFitsStage
    <2>2. SupervisorTyped' /\ SessionTyped' /\ ClockTyped' /\ OthersTyped'
      BY DEF Admit, SupervisorTyped, SessionTyped, ClockTyped, OthersTyped
    <2> QED
      BY <2>1, <2>2
  <1>2. RowFitsStage'
    BY TransitionTable DEF Admit, RowFitsStage, Launching, Launched, FinishStages,
       AfterTransition, TransitionRefused, RunState, Active, Parked, Terminal
  <1>3. NothingLeftOver'
    BY DEF Admit, NothingLeftOver, Launching
  <1>4. LiveIsSupervised'
    BY TransitionTable DEF Admit, LiveIsSupervised, AfterTransition, TransitionRefused,
       RunState, Active, Parked, Terminal
  <1>5. ClockConsistent' /\ StopReachesHandle'
    BY DEF Admit, ClockConsistent, StopReachesHandle
  <1> QED
    BY <1>1, <1>2, <1>3, <1>4, <1>5

\* Admission hands the run to a supervisor.
LEMMA StartSupervisorKeeps ==
  ASSUME SupervisorInv, StartSupervisor
  PROVE  SupervisorInv'
  <1> USE DEF SupervisorInv, TypeOK
  <1>1. TypeOK'
    <2>1. RowTyped'
      BY DEF StartSupervisor, FreshSupervisor, RowTyped
    <2>2. SupervisorTyped'
      BY StageNames DEF StartSupervisor, FreshSupervisor, SupervisorTyped
    <2>3. ClockTyped'
      BY DEF StartSupervisor, FreshSupervisor, ClockTyped
    <2>4. SessionTyped' /\ OthersTyped'
      BY DEF StartSupervisor, FreshSupervisor, SessionTyped, OthersTyped
    <2> QED
      BY <2>1, <2>2, <2>3, <2>4
  <1>2. RowFitsStage'
    BY DEF StartSupervisor, FreshSupervisor, RowFitsStage, Launching, Launched, FinishStages
  <1>3. NothingLeftOver'
    BY DEF StartSupervisor, FreshSupervisor, NothingLeftOver, Launching
  <1>4. LiveIsSupervised'
    BY DEF StartSupervisor, FreshSupervisor, LiveIsSupervised
  <1>5. ClockConsistent'
    BY DEF StartSupervisor, FreshSupervisor, ClockConsistent
  <1>6. StopReachesHandle'
    BY DEF StartSupervisor, FreshSupervisor, StopReachesHandle
  <1> QED
    BY <1>1, <1>2, <1>3, <1>4, <1>5, <1>6

\* The agent row is read.
LEMMA LookupKeeps ==
  ASSUME SupervisorInv, Lookup
  PROVE  SupervisorInv'
  <1> USE DEF SupervisorInv, TypeOK
  <1>1. TypeOK'
    <2>1. SupervisorTyped'
      BY AfterTyped, StageNames DEF Lookup, GoTo, EnterFinish, RowTyped, SupervisorTyped,
         SessionTyped, ClockTyped, OthersTyped, RowFitsStage, FinishStages, RunState,
         Active, Parked, Terminal
    <2>2. RowTyped' /\ SessionTyped' /\ ClockTyped' /\ OthersTyped'
      BY DEF Lookup, GoTo, EnterFinish, RowTyped, SessionTyped, ClockTyped, OthersTyped
    <2> QED
      BY <2>1, <2>2
  <1>2. RowFitsStage'
    BY TransitionTable DEF Lookup, GoTo, EnterFinish, RowFitsStage, Launching, Launched,
       FinishStages, AfterTransition, TransitionRefused, RunState, Active, Parked, Terminal
  <1>3. NothingLeftOver'
    BY DEF Lookup, GoTo, EnterFinish, NothingLeftOver, Launching
  <1>4. LiveIsSupervised'
    BY DEF Lookup, GoTo, EnterFinish, LiveIsSupervised
  <1>5. ClockConsistent'
    BY DEF Lookup, GoTo, EnterFinish, ClockConsistent
  <1>6. StopReachesHandle'
    BY DEF Lookup, GoTo, EnterFinish, StopReachesHandle
  <1> QED
    BY <1>1, <1>2, <1>3, <1>4, <1>5, <1>6

\* The token is minted.
LEMMA MintKeeps ==
  ASSUME SupervisorInv, MintToken
  PROVE  SupervisorInv'
  <1> USE DEF SupervisorInv, TypeOK
  <1>1. TypeOK'
    <2>1. SupervisorTyped'
      BY StageNames DEF MintToken, GoTo, SupervisorTyped
    <2>2. SessionTyped'
      BY DEF MintToken, GoTo, SessionTyped
    <2>3. RowTyped' /\ ClockTyped' /\ OthersTyped'
      BY DEF MintToken, GoTo, RowTyped, ClockTyped, OthersTyped
    <2> QED
      BY <2>1, <2>2, <2>3
  <1>2. RowFitsStage'
    BY DEF MintToken, GoTo, RowFitsStage, Launching, Launched, FinishStages
  <1>3. NothingLeftOver'
    BY DEF MintToken, GoTo, NothingLeftOver, Launching
  <1>4. LiveIsSupervised'
    BY DEF MintToken, GoTo, LiveIsSupervised
  <1>5. ClockConsistent'
    BY DEF MintToken, GoTo, ClockConsistent
  <1>6. StopReachesHandle'
    BY DEF MintToken, GoTo, StopReachesHandle
  <1> QED
    BY <1>1, <1>2, <1>3, <1>4, <1>5, <1>6

\* Going on, or leaving, a supervisor keeps its shape.
LEMMA MovesTyped ==
  ASSUME SupervisorTyped
  PROVE  /\ \A stage \in Stages : GoTo(stage) => SupervisorTyped'
         /\ \A k \in Terminal, holds \in BOOLEAN : EnterFinish(k, holds) => SupervisorTyped'
         /\ \A holds \in BOOLEAN : ProvisionFailed(holds) => SupervisorTyped'
  <1>1. \A stage \in Stages : GoTo(stage) => SupervisorTyped'
    BY DEF GoTo, SupervisorTyped
  <1>2. \A k \in Terminal, holds \in BOOLEAN : EnterFinish(k, holds) => SupervisorTyped'
    <2>1. "preserve" \in Stages
      BY DEF Stages, FinishStages
    <2>. QED BY <2>1 DEF EnterFinish, SupervisorTyped
  <1>3. ASSUME NEW holds \in BOOLEAN, ProvisionFailed(holds) PROVE SupervisorTyped'
    <2>1. "none" \in Stages /\ "failed" \in Terminal /\ (stop # "none" => stop \in Terminal)
      BY DEF Stages, Terminal, SupervisorTyped
    <2>2. CASE AbandonRun
      BY <2>1, <2>2, <1>1 DEF AbandonRun
    <2>3. CASE EnterFinish(IF stop = "none" THEN "failed" ELSE stop, holds)
      BY <2>1, <2>3, <1>2
    <2>. QED BY <1>3, <2>2, <2>3 DEF ProvisionFailed
  <1>. QED BY <1>1, <1>2, <1>3

\* The container is made, or is not.
LEMMA PrepareKeeps ==
  ASSUME SupervisorInv, NEW ok \in BOOLEAN, Prepare(ok)
  PROVE  SupervisorInv'
  <1> USE DEF SupervisorInv, TypeOK
  <1>1. TypeOK'
    <2>1. SupervisorTyped'
      <3>1. GoTo("record") \/ \E holds \in BOOLEAN : ProvisionFailed(holds)
        BY DEF Prepare
      <3>. QED BY <3>1, StageNames, MovesTyped
    <2>2. SessionTyped'
      BY DEF Prepare, GoTo, EnterFinish, ProvisionFailed, AbandonRun, SessionTyped
    <2>3. RowTyped' /\ ClockTyped' /\ OthersTyped'
      BY DEF Prepare, GoTo, EnterFinish, ProvisionFailed, AbandonRun, RowTyped, ClockTyped,
         OthersTyped
    <2> QED
      BY <2>1, <2>2, <2>3
  <1>2. RowFitsStage'
    BY TransitionTable DEF Prepare, GoTo, EnterFinish, ProvisionFailed, AbandonRun,
       RowFitsStage, Launching, Launched, FinishStages, RowTyped, SupervisorTyped,
       SessionTyped, AfterTransition, TransitionRefused, RunState, Active, Parked, Terminal
  <1>3. NothingLeftOver'
    BY DEF Prepare, GoTo, EnterFinish, ProvisionFailed, AbandonRun, NothingLeftOver, Launching
  <1>4. LiveIsSupervised'
    BY DEF Prepare, GoTo, EnterFinish, ProvisionFailed, AbandonRun, LiveIsSupervised
  <1>5. ClockConsistent'
    BY DEF Prepare, GoTo, EnterFinish, ProvisionFailed, AbandonRun, ClockConsistent
  <1>6. StopReachesHandle'
    BY DEF Prepare, GoTo, EnterFinish, ProvisionFailed, AbandonRun, StopReachesHandle
  <1> QED
    BY <1>1, <1>2, <1>3, <1>4, <1>5, <1>6

\* The row names the container.
LEMMA SetProvisionedKeeps ==
  ASSUME SupervisorInv, SetProvisioned
  PROVE  SupervisorInv'
  <1> USE DEF SupervisorInv, TypeOK
  <1>1. TypeOK'
    <2>1. RowTyped'
      BY DEF SetProvisioned, GoTo, RowTyped
    <2>2. SupervisorTyped'
      BY StageNames DEF SetProvisioned, GoTo, SupervisorTyped
    <2>3. SessionTyped' /\ ClockTyped' /\ OthersTyped'
      BY DEF SetProvisioned, GoTo, SessionTyped, ClockTyped, OthersTyped
    <2> QED
      BY <2>1, <2>2, <2>3
  <1>2. RowFitsStage'
    BY DEF SetProvisioned, GoTo, RowFitsStage, Launching, Launched, FinishStages
  <1>3. NothingLeftOver'
    BY DEF SetProvisioned, GoTo, NothingLeftOver, Launching
  <1>4. LiveIsSupervised'
    BY DEF SetProvisioned, GoTo, LiveIsSupervised
  <1>5. ClockConsistent'
    BY DEF SetProvisioned, GoTo, ClockConsistent
  <1>6. StopReachesHandle'
    BY DEF SetProvisioned, GoTo, StopReachesHandle
  <1> QED
    BY <1>1, <1>2, <1>3, <1>4, <1>5, <1>6

\* The row is set running; refused, it is terminal already.
LEMMA StartRunningKeeps ==
  ASSUME SupervisorInv, StartRunning
  PROVE  SupervisorInv'
  <1> USE DEF SupervisorInv, TypeOK
  <1>1. TypeOK'
    <2>1. RowTyped'
      BY AfterTyped DEF StartRunning, GoTo, EnterFinish, ProvisionFailed, AbandonRun, RowTyped,
         RowFitsStage
    <2>2. SupervisorTyped'
      <3>1. GoTo("launch") \/ \E holds \in BOOLEAN : ProvisionFailed(holds)
        BY DEF StartRunning
      <3>. QED BY <3>1, StageNames, MovesTyped
    <2>3. SessionTyped' /\ ClockTyped' /\ OthersTyped'
      BY DEF StartRunning, GoTo, EnterFinish, ProvisionFailed, AbandonRun, SessionTyped,
         ClockTyped, OthersTyped
    <2> QED
      BY <2>1, <2>2, <2>3
  <1>2. RowFitsStage'
    BY TransitionTable DEF StartRunning, GoTo, EnterFinish, ProvisionFailed, AbandonRun,
       RowFitsStage, Launching, Launched, FinishStages, RowTyped, SupervisorTyped,
       SessionTyped, AfterTransition, TransitionRefused, RunState, Active, Parked, Terminal
  <1>3. NothingLeftOver'
    BY DEF StartRunning, GoTo, EnterFinish, ProvisionFailed, AbandonRun, NothingLeftOver,
       Launching
  <1>4. LiveIsSupervised'
    BY DEF StartRunning, GoTo, EnterFinish, ProvisionFailed, AbandonRun, LiveIsSupervised
  <1>5. ClockConsistent'
    BY DEF StartRunning, GoTo, EnterFinish, ProvisionFailed, AbandonRun, ClockConsistent
  <1>6. StopReachesHandle'
    BY DEF StartRunning, GoTo, EnterFinish, ProvisionFailed, AbandonRun, StopReachesHandle
  <1> QED
    BY <1>1, <1>2, <1>3, <1>4, <1>5, <1>6

\* The agent is started, or is not.
LEMMA LaunchKeeps ==
  ASSUME SupervisorInv, NEW ok \in BOOLEAN, Launch(ok)
  PROVE  SupervisorInv'
  <1> USE DEF SupervisorInv, TypeOK
  <1>1. TypeOK'
    <2>1. SupervisorTyped'
      <3>1. GoTo("setHandle") \/ GoTo("none") \/ \E holds \in BOOLEAN : EnterFinish("failed", holds)
        BY DEF Launch, AbandonRun
      <3>2. "failed" \in Terminal
        BY DEF Terminal
      <3>. QED BY <3>1, <3>2, StageNames, MovesTyped
    <2>2. SessionTyped'
      BY DEF Launch, GoTo, EnterFinish, AbandonRun, SessionTyped
    <2>3. RowTyped' /\ ClockTyped' /\ OthersTyped'
      BY DEF Launch, GoTo, EnterFinish, AbandonRun, RowTyped, ClockTyped, OthersTyped
    <2> QED
      BY <2>1, <2>2, <2>3
  <1>2. RowFitsStage'
    BY TransitionTable DEF Launch, GoTo, EnterFinish, AbandonRun, RowFitsStage, Launching,
       Launched, FinishStages, AfterTransition, TransitionRefused, RunState, Active, Parked,
       Terminal
  <1>3. NothingLeftOver'
    BY DEF Launch, GoTo, EnterFinish, AbandonRun, NothingLeftOver, Launching
  <1>4. LiveIsSupervised'
    BY DEF Launch, GoTo, EnterFinish, AbandonRun, LiveIsSupervised
  <1>5. ClockConsistent'
    BY DEF Launch, GoTo, EnterFinish, AbandonRun, ClockConsistent
  <1>6. StopReachesHandle'
    BY DEF Launch, GoTo, EnterFinish, AbandonRun, StopReachesHandle, NothingLeftOver, Launching
  <1> QED
    BY <1>1, <1>2, <1>3, <1>4, <1>5, <1>6

\* The handle is set, and a stop that came before is passed on.
LEMMA SetHandleKeeps ==
  ASSUME SupervisorInv, SetHandle
  PROVE  SupervisorInv'
  <1> USE DEF SupervisorInv, TypeOK
  <1>1. TypeOK'
    <2>1. SupervisorTyped'
      BY StageNames DEF SetHandle, Told, SupervisorTyped
    <2>2. SessionTyped'
      BY DEF SetHandle, Told, SessionTyped
    <2>3. RowTyped' /\ ClockTyped' /\ OthersTyped'
      BY DEF SetHandle, Told, RowTyped, ClockTyped, OthersTyped
    <2> QED
      BY <2>1, <2>2, <2>3
  <1>2. RowFitsStage'
    BY DEF SetHandle, Told, RowFitsStage, Launching, Launched, FinishStages
  <1>3. NothingLeftOver'
    BY DEF SetHandle, Told, NothingLeftOver, Launching
  <1>4. LiveIsSupervised'
    BY DEF SetHandle, Told, LiveIsSupervised
  <1>5. ClockConsistent'
    BY DEF SetHandle, Told, ClockConsistent
  <1>6. StopReachesHandle'
    BY DEF SetHandle, Told, StopReachesHandle
  <1> QED
    BY <1>1, <1>2, <1>3, <1>4, <1>5, <1>6

\* The timer is made.
LEMMA SeedKeeps ==
  ASSUME SupervisorInv, SeedParked
  PROVE  SupervisorInv'
  <1> USE DEF SupervisorInv, TypeOK
  <1>1. TypeOK'
    <2>1. SupervisorTyped'
      BY StageNames DEF SeedParked, SetParked, WallRemaining, GoTo, SupervisorTyped
    <2>2. ClockTyped'
      BY DEF SeedParked, SetParked, WallRemaining, GoTo, ClockTyped
    <2>3. RowTyped' /\ SessionTyped' /\ OthersTyped'
      BY DEF SeedParked, SetParked, WallRemaining, GoTo, RowTyped, SessionTyped, OthersTyped
    <2> QED
      BY <2>1, <2>2, <2>3
  <1>2. RowFitsStage'
    BY DEF SeedParked, SetParked, WallRemaining, GoTo, RowFitsStage, Launching, Launched,
       FinishStages
  <1>3. NothingLeftOver'
    BY DEF SeedParked, SetParked, WallRemaining, GoTo, NothingLeftOver, Launching
  <1>4. LiveIsSupervised'
    BY DEF SeedParked, SetParked, WallRemaining, GoTo, LiveIsSupervised
  <1>5. ClockConsistent'
    BY DEF SeedParked, SetParked, WallRemaining, GoTo, ClockConsistent
  <1>6. StopReachesHandle'
    BY DEF SeedParked, SetParked, WallRemaining, GoTo, StopReachesHandle
  <1> QED
    BY <1>1, <1>2, <1>3, <1>4, <1>5, <1>6

\* The loop ends with its context.
LEMMA ContextDoneKeeps ==
  ASSUME SupervisorInv, PumpContextDone
  PROVE  SupervisorInv'
  <1> USE DEF SupervisorInv, TypeOK
  <1>1. TypeOK'
    <2>1. SupervisorTyped'
      BY AfterTyped, StageNames DEF PumpContextDone, AbandonRun, GoTo, EnterFinish, outcomeOf,
         Ended, RowTyped, SupervisorTyped, SessionTyped, ClockTyped, OthersTyped,
         RowFitsStage, FinishStages, RunState, Active, Parked, Terminal
    <2>2. RowTyped' /\ SessionTyped' /\ ClockTyped' /\ OthersTyped'
      BY DEF PumpContextDone, AbandonRun, GoTo, EnterFinish, outcomeOf, Ended, RowTyped,
         SessionTyped, ClockTyped, OthersTyped
    <2> QED
      BY <2>1, <2>2
  <1>2. RowFitsStage'
    BY TransitionTable DEF PumpContextDone, AbandonRun, GoTo, EnterFinish, outcomeOf, Ended,
       RowFitsStage, Launching, Launched, FinishStages, RowTyped, SupervisorTyped,
       SessionTyped, AfterTransition, TransitionRefused, RunState, Active, Parked, Terminal
  <1>3. NothingLeftOver'
    BY DEF PumpContextDone, AbandonRun, GoTo, EnterFinish, outcomeOf, Ended, NothingLeftOver,
       Launching
  <1>4. LiveIsSupervised'
    BY DEF PumpContextDone, AbandonRun, GoTo, EnterFinish, outcomeOf, Ended, LiveIsSupervised
  <1>5. ClockConsistent'
    BY DEF PumpContextDone, AbandonRun, GoTo, EnterFinish, outcomeOf, Ended, ClockConsistent
  <1>6. StopReachesHandle'
    BY DEF PumpContextDone, AbandonRun, GoTo, EnterFinish, outcomeOf, Ended, StopReachesHandle
  <1> QED
    BY <1>1, <1>2, <1>3, <1>4, <1>5, <1>6

\* The loop takes a nudge.
LEMMA ParkNudgeKeeps ==
  ASSUME SupervisorInv, PumpParkNudge
  PROVE  SupervisorInv'
  <1> USE DEF SupervisorInv, TypeOK
  <1>1. TypeOK'
    <2>1. ClockTyped'
      BY DEF PumpParkNudge, WallRemaining, supVars, ClockTyped
    <2>2. RowTyped' /\ SupervisorTyped' /\ SessionTyped' /\ OthersTyped'
      BY DEF PumpParkNudge, WallRemaining, supVars, RowTyped, SupervisorTyped, SessionTyped,
         OthersTyped
    <2> QED
      BY <2>1, <2>2
  <1>2. ClockConsistent'
    BY DEF PumpParkNudge, WallRemaining, supVars, ClockConsistent
  <1>3. RowFitsStage' /\ NothingLeftOver' /\ LiveIsSupervised' /\ StopReachesHandle'
    BY DEF PumpParkNudge, WallRemaining, supVars, RowFitsStage, Launching, Launched,
       FinishStages, NothingLeftOver, LiveIsSupervised, StopReachesHandle
  <1> QED
    BY <1>1, <1>2, <1>3

\* The timer fires.
LEMMA PumpTimerKeeps ==
  ASSUME SupervisorInv, PumpTimer
  PROVE  SupervisorInv'
  <1> USE DEF SupervisorInv, TypeOK
  <1>1. TypeOK'
    <2>1. SupervisorTyped'
      BY DEF PumpTimer, RequestStop, Told, SupervisorTyped
    <2>2. SessionTyped'
      BY DEF PumpTimer, RequestStop, Told, SessionTyped
    <2>3. ClockTyped'
      BY DEF PumpTimer, RequestStop, Told, ClockTyped
    <2>4. RowTyped' /\ OthersTyped'
      BY DEF PumpTimer, RequestStop, Told, RowTyped, OthersTyped
    <2> QED
      BY <2>1, <2>2, <2>3, <2>4
  <1>2. RowFitsStage'
    BY DEF PumpTimer, RequestStop, Told, RowFitsStage, Launching, Launched, FinishStages
  <1>3. NothingLeftOver'
    BY DEF PumpTimer, RequestStop, Told, NothingLeftOver, Launching
  <1>4. ClockConsistent'
    BY DEF PumpTimer, RequestStop, Told, ClockConsistent
  <1>5. StopReachesHandle'
    BY DEF PumpTimer, RequestStop, Told, StopReachesHandle
  <1>6. LiveIsSupervised'
    BY DEF PumpTimer, RequestStop, Told, LiveIsSupervised
  <1> QED
    BY <1>1, <1>2, <1>3, <1>4, <1>5, <1>6

\* The loop ends with the session.
LEMMA PumpWaitKeeps ==
  ASSUME SupervisorInv, PumpWait
  PROVE  SupervisorInv'
  <1> USE DEF SupervisorInv, TypeOK
  <1>1. TypeOK'
    <2>1. SupervisorTyped'
      <3>1. outcomeOf \in Terminal
        BY DEF outcomeOf, SupervisorTyped, Terminal
      <3>2. CASE stopping
        BY <3>2, StageNames DEF PumpWait, AbandonRun, GoTo, SupervisorTyped
      <3>3. CASE ~stopping
        <4>1. pc' = "preserve" /\ kind' = outcomeOf /\ hasInst' = TRUE
              /\ UNCHANGED <<reattached, seed, canceled, stop, handle>>
          BY <3>3 DEF PumpWait, EnterFinish
        <4> QED
          BY <3>1, <4>1, StageNames DEF SupervisorTyped
      <3> QED
        BY <3>2, <3>3
    <2>2. RowTyped' /\ SessionTyped' /\ ClockTyped' /\ OthersTyped'
      BY DEF PumpWait, AbandonRun, GoTo, EnterFinish, outcomeOf, Ended, RowTyped, SessionTyped,
         ClockTyped, OthersTyped
    <2> QED
      BY <2>1, <2>2
  <1>2. RowFitsStage'
    BY TransitionTable DEF PumpWait, AbandonRun, GoTo, EnterFinish, outcomeOf, Ended,
       RowFitsStage, Launching, Launched, FinishStages, RowTyped, SupervisorTyped,
       SessionTyped, AfterTransition, TransitionRefused, RunState, Active, Parked, Terminal
  <1>3. NothingLeftOver'
    BY DEF PumpWait, AbandonRun, GoTo, EnterFinish, outcomeOf, Ended, NothingLeftOver,
       Launching
  <1>4. LiveIsSupervised'
    BY DEF PumpWait, AbandonRun, GoTo, EnterFinish, outcomeOf, Ended, LiveIsSupervised
  <1>5. ClockConsistent'
    BY DEF PumpWait, AbandonRun, GoTo, EnterFinish, outcomeOf, Ended, ClockConsistent
  <1>6. StopReachesHandle'
    BY DEF PumpWait, AbandonRun, GoTo, EnterFinish, outcomeOf, Ended, StopReachesHandle
  <1> QED
    BY <1>1, <1>2, <1>3, <1>4, <1>5, <1>6

\* The work is preserved.
LEMMA PreserveKeeps ==
  ASSUME SupervisorInv, PreserveAndPush
  PROVE  SupervisorInv'
  <1> USE DEF SupervisorInv, TypeOK
  <1>1. TypeOK'
    <2>1. SupervisorTyped'
      BY StageNames DEF PreserveAndPush, GoTo, SupervisorTyped
    <2>2. RowTyped' /\ SessionTyped' /\ ClockTyped' /\ OthersTyped'
      BY DEF PreserveAndPush, GoTo, RowTyped, SessionTyped, ClockTyped, OthersTyped
    <2> QED
      BY <2>1, <2>2
  <1>2. RowFitsStage'
    BY DEF PreserveAndPush, GoTo, RowFitsStage, Launching, Launched, FinishStages
  <1>3. NothingLeftOver'
    BY DEF PreserveAndPush, GoTo, NothingLeftOver, Launching
  <1>4. LiveIsSupervised'
    BY DEF PreserveAndPush, GoTo, LiveIsSupervised
  <1>5. ClockConsistent'
    BY DEF PreserveAndPush, GoTo, ClockConsistent
  <1>6. StopReachesHandle'
    BY DEF PreserveAndPush, GoTo, StopReachesHandle
  <1> QED
    BY <1>1, <1>2, <1>3, <1>4, <1>5, <1>6

\* Token and container go.
LEMMA TeardownKeeps ==
  ASSUME SupervisorInv, Teardown
  PROVE  SupervisorInv'
  <1> USE DEF SupervisorInv, TypeOK
  <1>1. TypeOK'
    <2>1. SupervisorTyped'
      BY StageNames DEF Teardown, GoTo, SupervisorTyped
    <2>2. SessionTyped'
      BY DEF Teardown, GoTo, SessionTyped
    <2>3. RowTyped' /\ ClockTyped' /\ OthersTyped'
      BY DEF Teardown, GoTo, RowTyped, ClockTyped, OthersTyped
    <2> QED
      BY <2>1, <2>2, <2>3
  <1>2. RowFitsStage'
    BY DEF Teardown, GoTo, RowFitsStage, Launching, Launched, FinishStages
  <1>3. NothingLeftOver'
    BY DEF Teardown, GoTo, NothingLeftOver, Launching
  <1>4. LiveIsSupervised'
    BY DEF Teardown, GoTo, LiveIsSupervised
  <1>5. ClockConsistent'
    BY DEF Teardown, GoTo, ClockConsistent
  <1>6. StopReachesHandle'
    BY DEF Teardown, GoTo, StopReachesHandle
  <1> QED
    BY <1>1, <1>2, <1>3, <1>4, <1>5, <1>6

\* The outcome is written.
LEMMA TerminalKeeps ==
  ASSUME SupervisorInv, TerminalTransition
  PROVE  SupervisorInv'
  <1> USE DEF SupervisorInv, TypeOK
  <1>1. TypeOK'
    <2>1. RowTyped'
      BY AfterTyped, StageNames DEF TerminalTransition, GoTo, RowTyped, SupervisorTyped,
         SessionTyped, ClockTyped, OthersTyped, RowFitsStage, FinishStages, RunState,
         Active, Parked, Terminal
    <2>2. SupervisorTyped'
      BY StageNames DEF TerminalTransition, GoTo, SupervisorTyped
    <2>3. SessionTyped' /\ ClockTyped' /\ OthersTyped'
      BY DEF TerminalTransition, GoTo, SessionTyped, ClockTyped, OthersTyped
    <2> QED
      BY <2>1, <2>2, <2>3
  <1>2. RowFitsStage'
    BY TransitionTable DEF TerminalTransition, GoTo, RowFitsStage, Launching, Launched,
       FinishStages, RowTyped, SupervisorTyped, SessionTyped, AfterTransition,
       TransitionRefused, RunState, Active, Parked, Terminal
  <1>3. NothingLeftOver'
    BY DEF TerminalTransition, GoTo, NothingLeftOver, Launching
  <1>4. LiveIsSupervised'
    BY DEF TerminalTransition, GoTo, LiveIsSupervised
  <1>5. ClockConsistent'
    BY DEF TerminalTransition, GoTo, ClockConsistent
  <1>6. StopReachesHandle'
    BY DEF TerminalTransition, GoTo, StopReachesHandle
  <1> QED
    BY <1>1, <1>2, <1>3, <1>4, <1>5, <1>6

\* The supervisor leaves the map.
LEMMA ExitKeeps ==
  ASSUME SupervisorInv, Exit
  PROVE  SupervisorInv'
  <1> USE DEF SupervisorInv, TypeOK
  <1>1. TypeOK'
    <2>1. SupervisorTyped'
      BY StageNames DEF Exit, GoTo, SupervisorTyped
    <2>2. RowTyped' /\ SessionTyped' /\ ClockTyped' /\ OthersTyped'
      BY DEF Exit, GoTo, RowTyped, SessionTyped, ClockTyped, OthersTyped
    <2> QED
      BY <2>1, <2>2
  <1>2. RowFitsStage'
    BY DEF Exit, GoTo, RowFitsStage, Launching, Launched, FinishStages
  <1>3. NothingLeftOver'
    BY DEF Exit, GoTo, NothingLeftOver, Launching
  <1>4. LiveIsSupervised'
    BY TransitionTable DEF Exit, GoTo, LiveIsSupervised, RowFitsStage, Launching, Launched,
       FinishStages, AfterTransition, TransitionRefused, RunState, Active, Parked, Terminal
  <1>5. ClockConsistent'
    BY DEF Exit, GoTo, ClockConsistent
  <1>6. StopReachesHandle'
    BY DEF Exit, GoTo, StopReachesHandle
  <1> QED
    BY <1>1, <1>2, <1>3, <1>4, <1>5, <1>6

\* The session ends.
LEMMA SessionEndsKeeps ==
  ASSUME SupervisorInv, NEW how \in {"ok", "error"}, SessionEnds(how)
  PROVE  SupervisorInv'
  <1> USE DEF SupervisorInv, TypeOK
  <1>1. TypeOK'
    <2>1. SessionTyped'
      BY DEF SessionEnds, SessionTyped
    <2>2. RowTyped' /\ SupervisorTyped' /\ ClockTyped' /\ OthersTyped'
      BY DEF SessionEnds, RowTyped, SupervisorTyped, ClockTyped, OthersTyped
    <2> QED
      BY <2>1, <2>2
  <1>2. NothingLeftOver'
    BY DEF SessionEnds, NothingLeftOver, Launching
  <1>3. StopReachesHandle'
    BY DEF SessionEnds, StopReachesHandle
  <1>4. RowFitsStage' /\ LiveIsSupervised' /\ ClockConsistent'
    BY DEF SessionEnds, RowFitsStage, Launching, Launched, FinishStages, LiveIsSupervised,
       ClockConsistent
  <1> QED
    BY <1>1, <1>2, <1>3, <1>4

\* The sink's step cap.
LEMMA StepCapKeeps ==
  ASSUME SupervisorInv, StepCap
  PROVE  SupervisorInv'
  <1> USE DEF SupervisorInv, TypeOK
  <1>1. TypeOK'
    <2>1. SupervisorTyped'
      BY DEF StepCap, RequestStop, Told, FinishStages, SupervisorTyped
    <2>2. SessionTyped'
      BY DEF StepCap, RequestStop, Told, FinishStages, SessionTyped
    <2>3. RowTyped' /\ ClockTyped' /\ OthersTyped'
      BY DEF StepCap, RequestStop, Told, FinishStages, RowTyped, ClockTyped, OthersTyped
    <2> QED
      BY <2>1, <2>2, <2>3
  <1>2. RowFitsStage'
    BY DEF StepCap, RequestStop, Told, FinishStages, RowFitsStage, Launching, Launched
  <1>3. NothingLeftOver'
    BY DEF StepCap, RequestStop, Told, FinishStages, NothingLeftOver, Launching
  <1>4. ClockConsistent'
    BY DEF StepCap, RequestStop, Told, FinishStages, ClockConsistent
  <1>5. StopReachesHandle'
    BY DEF StepCap, RequestStop, Told, FinishStages, StopReachesHandle
  <1>6. LiveIsSupervised'
    BY DEF StepCap, RequestStop, Told, FinishStages, LiveIsSupervised
  <1> QED
    BY <1>1, <1>2, <1>3, <1>4, <1>5, <1>6

\* A stop looks for a supervisor.
LEMMA StopLookupKeeps ==
  ASSUME SupervisorInv, NEW c \in Callers, StopLookup(c)
  PROVE  SupervisorInv'
  <1> USE DEF SupervisorInv, TypeOK
  <1>1. TypeOK'
    <2>1. SupervisorTyped'
      BY DEF StopLookup, RequestStop, Told, SupervisorTyped
    <2>2. SessionTyped'
      BY DEF StopLookup, RequestStop, Told, SessionTyped
    <2>3. OthersTyped'
      BY DEF StopLookup, RequestStop, Told, OthersTyped
    <2>4. RowTyped' /\ ClockTyped'
      BY DEF StopLookup, RequestStop, Told, RowTyped, ClockTyped
    <2> QED
      BY <2>1, <2>2, <2>3, <2>4
  <1>2. RowFitsStage'
    BY DEF StopLookup, RequestStop, Told, RowFitsStage, Launching, Launched, FinishStages
  <1>3. NothingLeftOver'
    BY DEF StopLookup, RequestStop, Told, NothingLeftOver, Launching
  <1>4. ClockConsistent'
    BY DEF StopLookup, RequestStop, Told, ClockConsistent
  <1>5. StopReachesHandle'
    BY DEF StopLookup, RequestStop, Told, StopReachesHandle
  <1>6. LiveIsSupervised'
    BY DEF StopLookup, RequestStop, Told, LiveIsSupervised
  <1> QED
    BY <1>1, <1>2, <1>3, <1>4, <1>5, <1>6

\* A stop that found no handle cancels the context.
LEMMA StopCheckKeeps ==
  ASSUME SupervisorInv, NEW c \in Callers, StopCheck(c)
  PROVE  SupervisorInv'
  <1> USE DEF SupervisorInv, TypeOK
  <1>1. TypeOK'
    <2>1. SupervisorTyped'
      BY DEF StopCheck, SupervisorTyped
    <2>2. OthersTyped'
      BY DEF StopCheck, OthersTyped
    <2>3. RowTyped' /\ SessionTyped' /\ ClockTyped'
      BY DEF StopCheck, RowTyped, SessionTyped, ClockTyped
    <2> QED
      BY <2>1, <2>2, <2>3
  <1>2. RowFitsStage'
    BY DEF StopCheck, RowFitsStage, Launching, Launched, FinishStages
  <1>3. NothingLeftOver' /\ LiveIsSupervised' /\ ClockConsistent' /\ StopReachesHandle'
    BY DEF StopCheck, NothingLeftOver, Launching, LiveIsSupervised, ClockConsistent,
       StopReachesHandle
  <1> QED
    BY <1>1, <1>2, <1>3

\* A stop that found no supervisor cancels the row.
LEMMA StopDirectKeeps ==
  ASSUME SupervisorInv, NEW c \in Callers, StopDirect(c)
  PROVE  SupervisorInv'
  <1> USE DEF SupervisorInv, TypeOK
  <1>1. TypeOK'
    <2>1. RowTyped'
      BY AfterTyped DEF StopDirect, RowTyped, RowFitsStage
    <2>2. OthersTyped'
      BY DEF StopDirect, OthersTyped
    <2>3. SupervisorTyped' /\ SessionTyped' /\ ClockTyped'
      BY DEF StopDirect, SupervisorTyped, SessionTyped, ClockTyped
    <2> QED
      BY <2>1, <2>2, <2>3
  <1>2. RowFitsStage'
    BY TransitionTable DEF StopDirect, RowFitsStage, Launching, Launched, FinishStages,
       AfterTransition, TransitionRefused, RunState, Active, Parked, Terminal
  <1>3. LiveIsSupervised'
    BY TransitionTable DEF StopDirect, LiveIsSupervised, AfterTransition, TransitionRefused,
       RunState, Active, Parked, Terminal
  <1>4. NothingLeftOver' /\ ClockConsistent' /\ StopReachesHandle'
    BY DEF StopDirect, NothingLeftOver, Launching, ClockConsistent, StopReachesHandle
  <1> QED
    BY <1>1, <1>2, <1>3, <1>4

\* And revokes the token.
LEMMA StopRevokeKeeps ==
  ASSUME SupervisorInv, NEW c \in Callers, StopRevoke(c)
  PROVE  SupervisorInv'
  <1> USE DEF SupervisorInv, TypeOK
  <1>1. TypeOK'
    <2>1. SessionTyped'
      BY DEF StopRevoke, SessionTyped
    <2>2. OthersTyped'
      BY DEF StopRevoke, OthersTyped
    <2>3. RowTyped' /\ SupervisorTyped' /\ ClockTyped'
      BY DEF StopRevoke, RowTyped, SupervisorTyped, ClockTyped
    <2> QED
      BY <2>1, <2>2, <2>3
  <1>2. /\ RowFitsStage'
       /\ NothingLeftOver'
       /\ LiveIsSupervised'
       /\ ClockConsistent'
       /\ StopReachesHandle'
    BY DEF StopRevoke, RowFitsStage, Launching, Launched, FinishStages, NothingLeftOver,
       LiveIsSupervised, ClockConsistent, StopReachesHandle
  <1> QED
    BY <1>1, <1>2

\* The agent asks.
LEMMA AskKeeps ==
  ASSUME SupervisorInv, Ask
  PROVE  SupervisorInv'
  <1> USE DEF SupervisorInv, TypeOK
  <1>1. TypeOK'
    <2>1. RowTyped'
      BY AfterTyped DEF Ask, RowTyped, RowFitsStage, RunState, Active, Parked, Terminal
    <2>2. OthersTyped'
      <3>1. parks' \in 0..MaxParks
        BY SupervisorConstants DEF Ask, OthersTyped
      <3> QED
        BY <3>1 DEF Ask, OthersTyped
    <2>3. SupervisorTyped' /\ SessionTyped' /\ ClockTyped'
      BY DEF Ask, SupervisorTyped, SessionTyped, ClockTyped
    <2> QED
      BY <2>1, <2>2, <2>3
  <1>2. RowFitsStage'
    BY TransitionTable DEF Ask, RowFitsStage, Launching, Launched, FinishStages, RowTyped,
       SupervisorTyped, SessionTyped, AfterTransition, TransitionRefused, RunState, Active,
       Parked, Terminal
  <1>3. LiveIsSupervised'
    BY TransitionTable DEF Ask, LiveIsSupervised, RowTyped, SupervisorTyped, SessionTyped,
       AfterTransition, TransitionRefused, RunState, Active, Parked, Terminal
  <1>4. NothingLeftOver' /\ ClockConsistent' /\ StopReachesHandle'
    BY DEF Ask, NothingLeftOver, Launching, ClockConsistent, StopReachesHandle
  <1> QED
    BY <1>1, <1>2, <1>3, <1>4

\* A human answers.
LEMMA AnswerKeeps ==
  ASSUME SupervisorInv, Answer
  PROVE  SupervisorInv'
  <1> USE DEF SupervisorInv, TypeOK
  <1>1. TypeOK'
    <2>1. RowTyped'
      BY AfterTyped DEF Answer, RowTyped, RowFitsStage, RunState, Active, Parked, Terminal
    <2>2. OthersTyped'
      BY DEF Answer, OthersTyped
    <2>3. SupervisorTyped' /\ SessionTyped' /\ ClockTyped'
      BY DEF Answer, SupervisorTyped, SessionTyped, ClockTyped
    <2> QED
      BY <2>1, <2>2, <2>3
  <1>2. RowFitsStage'
    BY TransitionTable DEF Answer, RowFitsStage, Launching, Launched, FinishStages,
       AfterTransition, TransitionRefused, RunState, Active, Parked, Terminal
  <1>3. LiveIsSupervised'
    BY DEF Answer, LiveIsSupervised
  <1>4. NothingLeftOver' /\ ClockConsistent' /\ StopReachesHandle'
    BY DEF Answer, NothingLeftOver, Launching, ClockConsistent, StopReachesHandle
  <1> QED
    BY <1>1, <1>2, <1>3, <1>4

\* The clock is told.
LEMMA NoteParkKeeps ==
  ASSUME SupervisorInv, NEW n \in {"park", "resume"}, NotePark(n)
  PROVE  SupervisorInv'
  <1> USE DEF SupervisorInv, TypeOK
  <1>1. TypeOK'
    <2>1. ClockTyped'
      BY DEF NotePark, SetParked, ClockTyped
    <2>2. OthersTyped'
      BY DEF NotePark, SetParked, OthersTyped
    <2>3. RowTyped' /\ SupervisorTyped' /\ SessionTyped'
      BY DEF NotePark, SetParked, RowTyped, SupervisorTyped, SessionTyped
    <2> QED
      BY <2>1, <2>2, <2>3
  <1>2. ClockConsistent'
    BY DEF NotePark, SetParked, ClockConsistent
  <1>3. RowFitsStage' /\ NothingLeftOver' /\ LiveIsSupervised' /\ StopReachesHandle'
    BY DEF NotePark, SetParked, RowFitsStage, Launching, Launched, FinishStages,
       NothingLeftOver, LiveIsSupervised, StopReachesHandle
  <1> QED
    BY <1>1, <1>2, <1>3

\* The sweeper.
LEMMA SweepKeeps ==
  ASSUME SupervisorInv, Sweep
  PROVE  SupervisorInv'
  <1> USE DEF SupervisorInv, TypeOK
  <1>1. TypeOK'
    <2>1. SessionTyped'
      BY DEF Sweep, SessionTyped
    <2>2. RowTyped' /\ SupervisorTyped' /\ ClockTyped' /\ OthersTyped'
      BY DEF Sweep, RowTyped, SupervisorTyped, ClockTyped, OthersTyped
    <2> QED
      BY <2>1, <2>2
  <1>2. LiveIsSupervised'
    BY DEF Sweep, LiveIsSupervised
  <1>3. RowFitsStage' /\ NothingLeftOver' /\ ClockConsistent' /\ StopReachesHandle'
    BY DEF Sweep, RowFitsStage, Launching, Launched, FinishStages, NothingLeftOver,
       ClockConsistent, StopReachesHandle
  <1> QED
    BY <1>1, <1>2, <1>3

\* Shutdown begins.
LEMMA StopKeeps ==
  ASSUME SupervisorInv, Stop
  PROVE  SupervisorInv'
  <1> USE DEF SupervisorInv, TypeOK
  <1>1. TypeOK'
    <2>1. RowTyped'
      BY DEF Stop, RowTyped
    <2>2. SupervisorTyped'
      BY DEF Stop, SupervisorTyped
    <2>3. OthersTyped'
      BY DEF Stop, OthersTyped
    <2>4. SessionTyped' /\ ClockTyped'
      BY DEF Stop, SessionTyped, ClockTyped
    <2> QED
      BY <2>1, <2>2, <2>3, <2>4
  <1>2. RowFitsStage'
    BY DEF Stop, RowFitsStage, Launching, Launched, FinishStages
  <1>3. NothingLeftOver'
    BY DEF Stop, NothingLeftOver, Launching
  <1>4. LiveIsSupervised'
    BY DEF Stop, LiveIsSupervised
  <1>5. ClockConsistent' /\ StopReachesHandle'
    BY DEF Stop, ClockConsistent, StopReachesHandle
  <1> QED
    BY <1>1, <1>2, <1>3, <1>4, <1>5

\* The process is gone.
LEMMA ProcessEndsKeeps ==
  ASSUME SupervisorInv, NEW survives \in BOOLEAN, ProcessEnds(survives)
  PROVE  SupervisorInv'
  <1> USE DEF SupervisorInv, TypeOK
  <1>1. TypeOK'
    <2>1. RowTyped'
      BY DEF ProcessEnds, FreshSupervisor, RowTyped
    <2>2. SupervisorTyped'
      BY StageNames DEF ProcessEnds, FreshSupervisor, SupervisorTyped
    <2>3. SessionTyped'
      BY DEF ProcessEnds, FreshSupervisor, SessionTyped
    <2>4. ClockTyped'
      BY DEF ProcessEnds, FreshSupervisor, ClockTyped
    <2>5. OthersTyped'
      <3>1. crashes' \in 0..MaxCrashes
        BY SupervisorConstants DEF ProcessEnds, OthersTyped
      <3>2. caller' \in [Callers -> {"idle", "check", "direct", "revoke", "done"}]
        BY DEF ProcessEnds
      <3> QED
        BY <3>1, <3>2 DEF ProcessEnds, OthersTyped
    <2> QED
      BY <2>1, <2>2, <2>3, <2>4, <2>5
  <1>2. RowFitsStage'
    BY DEF ProcessEnds, FreshSupervisor, RowFitsStage, Launching, Launched, FinishStages
  <1>3. NothingLeftOver'
    BY DEF ProcessEnds, FreshSupervisor, NothingLeftOver, Launching
  <1>4. LiveIsSupervised'
    BY DEF ProcessEnds, FreshSupervisor, LiveIsSupervised
  <1>5. ClockConsistent'
    BY DEF ProcessEnds, FreshSupervisor, ClockConsistent
  <1>6. StopReachesHandle'
    BY DEF ProcessEnds, FreshSupervisor, StopReachesHandle
  <1> QED
    BY <1>1, <1>2, <1>3, <1>4, <1>5, <1>6

\* The next one takes up what it finds.
LEMMA ReconcileKeeps ==
  ASSUME SupervisorInv, Reconcile
  PROVE  SupervisorInv'
  <1> USE DEF SupervisorInv, TypeOK
  <1>1. TypeOK'
    <2>1. RowTyped'
      BY AfterTyped DEF Reconcile, RowTyped, RowFitsStage, RunState, Active, Parked, Terminal
    <2>2. SupervisorTyped'
      <3>1. pc' \in Stages
        BY StageNames DEF Reconcile, SupervisorTyped
      <3>2. seed' \in BOOLEAN
        <4>1. CASE state \in Active /\ placed /\ container
          <5>1. seed' = (state \in Parked)
            BY <4>1 DEF Reconcile
          <5> QED
            BY <5>1
        <4>2. CASE ~(state \in Active /\ placed /\ container)
          BY <4>2 DEF Reconcile, SupervisorTyped
        <4> QED
          BY <4>1, <4>2
      <3>3. reattached' \in BOOLEAN
        BY DEF Reconcile, SupervisorTyped
      <3> QED
        BY <3>1, <3>2, <3>3 DEF Reconcile, SupervisorTyped
    <2>3. SessionTyped'
      BY DEF Reconcile, SessionTyped
    <2>4. OthersTyped'
      BY DEF Reconcile, OthersTyped
    <2>5. ClockTyped'
      BY DEF Reconcile, ClockTyped
    <2> QED
      BY <2>1, <2>2, <2>3, <2>4, <2>5
  <1>2. RowFitsStage'
    BY TransitionTable DEF Reconcile, RowFitsStage, Launching, Launched, FinishStages,
       NothingLeftOver, AfterTransition, TransitionRefused, RunState, Active, Parked,
       Terminal
  <1>3. NothingLeftOver'
    BY DEF Reconcile, NothingLeftOver, Launching
  <1>4. LiveIsSupervised'
    BY TransitionTable DEF Reconcile, LiveIsSupervised, RowFitsStage, Launching, Launched,
       FinishStages, AfterTransition, TransitionRefused, RunState, Active, Parked, Terminal
  <1>5. ClockConsistent'
    BY DEF Reconcile, ClockConsistent
  <1>6. StopReachesHandle'
    BY DEF Reconcile, StopReachesHandle
  <1> QED
    BY <1>1, <1>2, <1>3, <1>4, <1>5, <1>6

\* The first process starts with a queued run and nothing else.
LEMMA SupervisorStarts == Init => SupervisorInv
  <1> SUFFICES ASSUME Init
               PROVE  SupervisorInv
    OBVIOUS
  <1>1. RowTyped /\ SessionTyped /\ ClockTyped
    BY DEF Init, RowTyped, SessionTyped, ClockTyped, RunState
  <1>2. SupervisorTyped
    BY StageNames DEF Init, SupervisorTyped
  <1>3. OthersTyped
    <2>1. 0 \in 0..MaxParks /\ 0 \in 0..MaxCrashes
      BY SupervisorConstants
    <2>2. caller \in [Callers -> {"idle", "check", "direct", "revoke", "done"}]
      BY DEF Init
    <2> QED
      BY <2>1, <2>2 DEF Init, OthersTyped
  <1>4. RowFitsStage /\ NothingLeftOver
    BY DEF Init, RowFitsStage, NothingLeftOver, Launching, Launched, FinishStages, Parked
  <1>5. LiveIsSupervised /\ ClockConsistent /\ StopReachesHandle
    BY DEF Init, LiveIsSupervised, ClockConsistent, StopReachesHandle, Parked
  <1> QED
    BY <1>1, <1>2, <1>3, <1>4, <1>5 DEF SupervisorInv, TypeOK

\* Nothing happens.
LEMMA StutterKeeps == SupervisorInv /\ UNCHANGED vars => SupervisorInv'
  BY DEF SupervisorInv, TypeOK, vars, RowTyped, SupervisorTyped, SessionTyped, ClockTyped,
     OthersTyped, RowFitsStage, NothingLeftOver, LiveIsSupervised, ClockConsistent,
     StopReachesHandle

\* Whoever steps next, supervisor, caller, agent or process, keeps the invariant.
LEMMA SupervisorStep == SupervisorInv /\ [Next]_vars => SupervisorInv'
  <1> SUFFICES ASSUME SupervisorInv, [Next]_vars
               PROVE  SupervisorInv'
    OBVIOUS
  <1>1. CASE Supervise
    BY <1>1, LookupKeeps, MintKeeps, PrepareKeeps, SetProvisionedKeeps, StartRunningKeeps,
       LaunchKeeps, SetHandleKeeps, SeedKeeps, ContextDoneKeeps, ParkNudgeKeeps,
       PumpWaitKeeps, PreserveKeeps, TeardownKeeps, TerminalKeeps, ExitKeeps DEF Supervise
  <1>2. CASE Others
    BY <1>2, AdmitKeeps, StartSupervisorKeeps, PumpTimerKeeps, SessionEndsKeeps,
       StepCapKeeps, StopLookupKeeps, StopCheckKeeps, StopDirectKeeps, StopRevokeKeeps,
       AskKeeps, AnswerKeeps, NoteParkKeeps, SweepKeeps DEF Others
  <1>3. CASE Process
    BY <1>3, StopKeeps, ProcessEndsKeeps, ReconcileKeeps DEF Process
  <1>4. CASE UNCHANGED vars
    BY <1>4, StutterKeeps
  <1> QED
    BY <1>1, <1>2, <1>3, <1>4 DEF Next

\* At every moment of every behaviour, with any number of StopRun callers, parks and crashes,
\* the row fits the supervisor's stage, no live container goes unattended, the parked clock and
\* the timer agree, and a requested stop has reached the session (supervise, pump, requestStop,
\* setHandle, reconcileOne).
THEOREM SupervisorInvariant == Spec => []SupervisorInv
  <1> QED
    BY SupervisorStarts, SupervisorStep, PTL DEF Spec

------------------------------------------------------------------------------
(***************************************************************************)
(* Egress: the ledger of the decisions like one another.  Every step moves *)
(* decisions between three places (the activities t, the count s, the      *)
(* requests H with what each carries) and adds to or takes from what was   *)
(* made, m.                                                                *)
(***************************************************************************)
Carried(R, c) == {c} \cup R[c]
Tells(m, t, s, H, R) ==
  /\ m = t \cup s \cup {x \in Calls : \E c \in H : x \in Carried(R, c)}
  /\ t \cap s = {}
  /\ \A c \in H : /\ Carried(R, c) \cap (t \cup s) = {}
                  /\ c \notin R[c]
                  /\ \A d \in H \ {c} : Carried(R, c) \cap Carried(R, d) = {}

LEMMA Ledger ==
  ASSUME NEW m \in SUBSET Calls, NEW t \in SUBSET Calls, NEW s \in SUBSET Calls,
         NEW H \in SUBSET Calls, NEW R \in [Calls -> SUBSET Calls], NEW c \in Calls,
         Tells(m, t, s, H, R)
  PROVE  /\ Tells(m \ s, t, {}, H, R)
         /\ c \in H /\ R[c] = {} => Tells(m, t, s \cup {c}, H \ {c}, R)
         /\ c \in H => Tells(m, t \cup Carried(R, c), s, H \ {c}, R)
         /\ \A Q \in [Calls -> SUBSET Calls] : (\A x \in H : Q[x] = R[x]) => Tells(m, t, s, H, Q)
         /\ \A Q \in [Calls -> SUBSET Calls] :
              c \in H /\ R[c] = {} /\ Q[c] = s /\ (\A x \in Calls \ {c} : Q[x] = R[x])
                => Tells(m, t, {}, H, Q)
         /\ \A Q \in [Calls -> SUBSET Calls] :
              c \notin m /\ Q[c] = {} /\ (\A x \in Calls \ {c} : Q[x] = R[x])
                => Tells(m \cup {c}, t, s, H \cup {c}, Q)
  <1>1. Tells(m \ s, t, {}, H, R)
    BY DEF Tells, Carried
  <1>2. c \in H /\ R[c] = {} => Tells(m, t, s \cup {c}, H \ {c}, R)
    BY DEF Tells, Carried
  <1>3. c \in H => Tells(m, t \cup Carried(R, c), s, H \ {c}, R)
    BY DEF Tells, Carried
  <1>4. \A Q \in [Calls -> SUBSET Calls] : (\A x \in H : Q[x] = R[x]) => Tells(m, t, s, H, Q)
    BY DEF Tells, Carried
  <1>5. \A Q \in [Calls -> SUBSET Calls] :
          c \in H /\ R[c] = {} /\ Q[c] = s /\ (\A x \in Calls \ {c} : Q[x] = R[x])
            => Tells(m, t, {}, H, Q)
    BY DEF Tells, Carried
  <1>6. \A Q \in [Calls -> SUBSET Calls] :
          c \notin m /\ Q[c] = {} /\ (\A x \in Calls \ {c} : Q[x] = R[x])
            => Tells(m \cup {c}, t, s, H \cup {c}, Q)
    BY DEF Tells, Carried
  <1>. QED BY <1>1, <1>2, <1>3, <1>4, <1>5, <1>6

\* What each request reports besides itself.
Repeats == [x \in Calls |-> IF Decided(x) THEN calls[x].repeats ELSE {}]

LEMMA CallKinds ==
  ASSUME EgressTypeOK, NEW c \in Calls
  PROVE  /\ Decided(c) => /\ calls[c] \in Decisions /\ Key(calls[c]) \in Keys
                          /\ calls[c].repeats \in SUBSET Calls
                          /\ calls[c].reg \in Registrations /\ calls[c].pass \in Passes
         /\ ~Decided(c) => calls[c] = NoCall \/ calls[c] \in Refusals
         /\ calls[c] # NoCall => calls[c].pass \in Passes
  <1>1. calls[c] \in Refusals \cup Decisions \cup {NoCall}
    BY DEF EgressTypeOK
  <1>2. CASE calls[c] \in Decisions
    <2>1. Decided(c)
      BY <1>2, EgressAssumption DEF Decided, Decisions
    <2>2. calls[c].reg \in Registrations /\ calls[c].host \in Hosts /\ calls[c].allowed \in BOOLEAN
          /\ calls[c].repeats \in SUBSET Calls /\ calls[c].pass \in Passes
      BY <1>2 DEF Decisions
    <2>3. calls[c].reg.run \in Passengers
      BY <2>2 DEF Registrations
    <2>4. Key(calls[c]) \in Keys
      BY <2>2, <2>3 DEF Key, Keys
    <2>. QED BY <1>2, <2>1, <2>2, <2>4
  <1>3. CASE calls[c] \in Refusals
    BY <1>3 DEF Decided, Refusals
  <1>4. CASE calls[c] = NoCall
    BY <1>4 DEF Decided
  <1>. QED BY <1>1, <1>2, <1>3, <1>4

LEMMA RepeatsTyped ==
  ASSUME EgressTypeOK
  PROVE  /\ Repeats \in [Calls -> SUBSET Calls]
         /\ \A k \in Keys : InHand(k) \in SUBSET Calls
  BY CallKinds DEF Repeats, InHand

\* EveryDecisionIsTold, one ledger for each kind of decision.
LEMMA TellsAll ==
  EgressTypeOK =>
    (EveryDecisionIsTold <=>
       \A k \in Keys : Tells(made[k], told[k], recent[k].suppressed, InHand(k), Repeats))
  <1>1. \A k \in Keys, c \in Calls : c \in InHand(k) =>
          Repeats[c] = calls[c].repeats /\ Carried(Repeats, c) = Carries(c)
    BY DEF InHand, Repeats, Carried, Carries
  <1>2. \A k \in Keys : InHand(k) \subseteq Calls
    BY DEF InHand
  <1>3. ASSUME NEW k \in Keys
        PROVE  OnItsWay(k) = {x \in Calls : \E c \in InHand(k) : x \in Carried(Repeats, c)}
    BY <1>1, <1>2 DEF OnItsWay
  <1>. QED BY <1>1, <1>2, <1>3 DEF EveryDecisionIsTold, Tells

\* And so in the next state.
LEMMA TellsAllNext ==
  (EgressTypeOK =>
    (EveryDecisionIsTold <=>
       \A k \in Keys : Tells(made[k], told[k], recent[k].suppressed, InHand(k), Repeats)))'
  BY TellsAll, PTL

\* A request that was decided moves on: all else of the requests is as it was.
LEMMA CallMoves ==
  ASSUME EgressTypeOK, NEW c \in Calls, Decided(c), NEW new \in Decisions,
         calls' = [calls EXCEPT ![c] = new], Key(new) = Key(calls[c])
  PROVE  /\ calls' \in [Calls -> Refusals \cup Decisions \cup {NoCall}]
         /\ calls'[c] = new /\ \A x \in Calls \ {c} : calls'[x] = calls[x]
         /\ \A x \in Calls : /\ Decided(x)' <=> Decided(x)
                             /\ Key(calls[x])' = Key(calls[x]) \/ ~Decided(x)
         /\ Repeats'[c] = new.repeats /\ \A x \in Calls \ {c} : Repeats'[x] = Repeats[x]
         /\ Repeats' \in [Calls -> SUBSET Calls]
         /\ \A k \in Keys :
              InHand(k)' = IF Key(calls[c]) = k /\ new.step \in {"decided", "logging"}
                           THEN InHand(k) \cup {c} ELSE InHand(k) \ {c}
  <1>1. /\ calls' \in [Calls -> Refusals \cup Decisions \cup {NoCall}]
        /\ calls'[c] = new /\ \A x \in Calls \ {c} : calls'[x] = calls[x]
    BY DEF EgressTypeOK
  <1>2. new # NoCall /\ new.step # "refused" /\ new.repeats \in SUBSET Calls
    BY EgressAssumption DEF Decisions
  <1>3. ASSUME NEW x \in Calls
        PROVE  /\ Decided(x)' <=> Decided(x)
               /\ Key(calls[x])' = Key(calls[x]) \/ ~Decided(x)
    <2>1. CASE x = c
      BY <2>1, <1>1, <1>2 DEF Decided, Key
    <2>2. CASE x # c
      BY <2>2, <1>1 DEF Decided
    <2>. QED BY <2>1, <2>2
  <1>4. Repeats'[c] = new.repeats /\ \A x \in Calls \ {c} : Repeats'[x] = Repeats[x]
    BY <1>1, <1>3 DEF Repeats, Decided
  <1>5. Repeats \in [Calls -> SUBSET Calls]
    BY RepeatsTyped
  <1>6. Repeats' = [x \in Calls |-> IF Decided(x)' THEN calls'[x].repeats ELSE {}]
    BY DEF Repeats
  <1>7. Repeats' \in [Calls -> SUBSET Calls]
    BY <1>2, <1>4, <1>5, <1>6
  <1>8. ASSUME NEW k \in Keys
        PROVE  InHand(k)' = IF Key(calls[c]) = k /\ new.step \in {"decided", "logging"}
                            THEN InHand(k) \cup {c} ELSE InHand(k) \ {c}
    <2>1. InHand(k)' = {x \in Calls : Decided(x)' /\ calls'[x].step \in {"decided", "logging"}
                                        /\ Key(calls'[x]) = k}
      BY DEF InHand
    <2>2. \A x \in Calls \ {c} : x \in InHand(k)' <=> x \in InHand(k)
      BY <1>1, <1>3, <2>1 DEF InHand
    <2>3. c \in InHand(k)' <=> Key(calls[c]) = k /\ new.step \in {"decided", "logging"}
      BY <1>1, <1>3, <2>1
    <2>4. InHand(k)' \subseteq Calls /\ InHand(k) \subseteq Calls
      BY <2>1 DEF InHand
    <2>. QED BY <2>2, <2>3, <2>4
  <1>. QED BY <1>1, <1>3, <1>4, <1>7, <1>8

\* The ledgers keep their place when requests do.
LEMMA TokensUntouched ==
  ASSUME TokensAreCurrent, UNCHANGED <<byRun, byToken>>
  PROVE  TokensAreCurrent'
  BY DEF TokensAreCurrent, Registered

LEMMA RegistrationTyped ==
  ASSUME NEW r \in Passengers, NEW t \in Passes, NEW p \in Policies
  PROVE  [run |-> r, pass |-> t, mode |-> p.mode, patterns |-> Compiled(p)] \in Registrations
  BY EgressAssumption DEF Registrations, Compiled, Patterns

LEMMA RegistrationKinds ==
  ASSUME EgressTypeOK
  PROVE  /\ \A r \in Passengers :
              /\ Registered(r) => byRun[r] \in Registrations /\ byRun[r].pass \in Passes
              /\ ~Registered(r) => byRun[r].pass \notin Passes
         /\ \A t \in Passes : byToken[t] # NoRegistration =>
              byToken[t] \in Registrations /\ byToken[t].run \in Passengers
                /\ byToken[t].pass \in Passes
  BY EgressAssumption DEF EgressTypeOK, Registered, NoRegistration, Registrations

LEMMA RegisterKeeps ==
  ASSUME EgressInv, NEW run \in Passengers, NEW pass \in Passes, NEW policy \in Policies,
         Register(run, pass, policy)
  PROVE  EgressInv'
  <1> DEFINE reg == [run |-> run, pass |-> pass, mode |-> policy.mode,
                     patterns |-> Compiled(policy)]
  <1>1. EgressTypeOK /\ TokensAreCurrent
    BY DEF EgressInv
  <1>2. reg \in Registrations /\ reg.run = run /\ reg.pass = pass /\ reg # NoRegistration
    BY RegistrationTyped, EgressAssumption DEF NoRegistration
  <1>3. /\ \A r \in Passengers : byRun[r].pass # pass
        /\ byRun' = [byRun EXCEPT ![run] = reg] /\ byToken' = Accepting(run, pass, reg)
        /\ UNCHANGED <<recent, calls, tunnels, told, made, wallClock>>
    BY DEF Register
  <1> HIDE DEF reg
  <1>4. EgressTypeOK'
    <2>1. byRun' \in [Passengers -> Registrations \cup {NoRegistration}]
      BY <1>1, <1>2, <1>3 DEF EgressTypeOK
    <2>2. byToken' \in [Passes -> Registrations \cup {NoRegistration}]
      BY <1>1, <1>2, <1>3 DEF EgressTypeOK, Accepting
    <2>. QED BY <1>1, <1>3, <2>1, <2>2 DEF EgressTypeOK
  <1>5. /\ byRun'[run] = reg /\ byToken'[pass] = reg
        /\ \A r \in Passengers \ {run} : byRun'[r] = byRun[r]
        /\ \A t \in Passes \ {pass} :
             byToken'[t] = IF t = byRun[run].pass THEN NoRegistration ELSE byToken[t]
    BY <1>1, <1>3 DEF EgressTypeOK, Accepting
  <1>6. TokensAreCurrent'
    <2>1. ASSUME NEW r \in Passengers, byRun'[r] # NoRegistration
          PROVE  byRun'[r].run = r /\ byToken'[byRun'[r].pass] = byRun'[r]
      <3>1. CASE r = run
        BY <3>1, <1>2, <1>5
      <3>2. CASE r # run
        <4>1. Registered(r) /\ byRun'[r] = byRun[r]
          BY <3>2, <2>1, <1>5 DEF Registered
        <4>2. byRun[r].run = r /\ byToken[byRun[r].pass] = byRun[r] /\ byRun[r].pass \in Passes
          BY <4>1, <1>1, RegistrationKinds DEF TokensAreCurrent
        <4>3. byRun[r].pass # pass
          BY <1>3
        <4>4. byRun[r].pass # byRun[run].pass
          <5>1. CASE Registered(run)
            BY <5>1, <4>2, <1>1, <3>2 DEF TokensAreCurrent
          <5>2. CASE ~Registered(run)
            BY <5>2, <4>2, <1>1, RegistrationKinds
          <5>. QED BY <5>1, <5>2
        <4>. QED BY <4>1, <4>2, <4>3, <4>4, <1>5
      <3>. QED BY <3>1, <3>2
    <2>2. ASSUME NEW t \in Passes, byToken'[t] # NoRegistration
          PROVE  byToken'[t].pass = t /\ byRun'[byToken'[t].run] = byToken'[t]
      <3>1. CASE t = pass
        BY <3>1, <1>2, <1>5
      <3>2. CASE t # pass
        <4>1. byToken'[t] = byToken[t] /\ t # byRun[run].pass
          BY <3>2, <2>2, <1>5
        <4>2. byToken[t].pass = t /\ byRun[byToken[t].run] = byToken[t]
              /\ byToken[t].run \in Passengers
          BY <4>1, <2>2, <1>1, RegistrationKinds DEF TokensAreCurrent
        <4>3. byToken[t].run # run
          BY <4>1, <4>2
        <4>. QED BY <4>1, <4>2, <4>3, <1>5
      <3>. QED BY <3>1, <3>2
    <2>. QED BY <2>1, <2>2 DEF TokensAreCurrent, Registered
  <1>. QED
    BY <1>3, <1>4, <1>6
    DEF EgressInv, EveryDecisionIsTold, OnlyDecisionsAreTold, TunnelsAreVisible, OnItsWay, InHand,
        Decided, Carries, Spoken

LEMMA UnregisterKeeps ==
  ASSUME EgressInv, NEW run \in Passengers, Registered(run), Unregister(run)
  PROVE  EgressInv'
  <1>1. EgressTypeOK /\ TokensAreCurrent /\ EveryDecisionIsTold
    BY DEF EgressInv
  <1>2. /\ byRun' = [byRun EXCEPT ![run] = NoRegistration]
        /\ byToken' = [t \in Passes |-> IF t = byRun[run].pass THEN NoRegistration ELSE byToken[t]]
        /\ recent' = [k \in Keys |-> IF k.run = run THEN NoRecent ELSE recent[k]]
        /\ made' = [k \in Keys |-> IF k.run = run THEN made[k] \ recent[k].suppressed ELSE made[k]]
        /\ UNCHANGED <<calls, tunnels, told, wallClock>>
    BY DEF Unregister
  <1>3. NoRecent \in [at : Nat \cup {-1}, suppressed : SUBSET Calls] /\ NoRecent.suppressed = {}
    BY DEF NoRecent
  <1>4. EgressTypeOK'
    BY <1>1, <1>2, <1>3 DEF EgressTypeOK
  <1>5. TokensAreCurrent'
    <2>1. ASSUME NEW r \in Passengers, byRun'[r] # NoRegistration
          PROVE  byRun'[r].run = r /\ byToken'[byRun'[r].pass] = byRun'[r]
      <3>1. r # run /\ byRun'[r] = byRun[r] /\ Registered(r)
        BY <2>1, <1>1, <1>2 DEF EgressTypeOK, Registered
      <3>2. byRun[r].run = r /\ byToken[byRun[r].pass] = byRun[r] /\ byRun[r].pass \in Passes
        BY <3>1, <1>1, RegistrationKinds DEF TokensAreCurrent
      <3>3. byRun[r].pass # byRun[run].pass
        BY <3>1, <3>2, <1>1 DEF TokensAreCurrent
      <3>. QED BY <3>1, <3>2, <3>3, <1>2
    <2>2. ASSUME NEW t \in Passes, byToken'[t] # NoRegistration
          PROVE  byToken'[t].pass = t /\ byRun'[byToken'[t].run] = byToken'[t]
      <3>1. byToken'[t] = byToken[t] /\ t # byRun[run].pass
        BY <2>2, <1>2
      <3>2. byToken[t].pass = t /\ byRun[byToken[t].run] = byToken[t]
            /\ byToken[t].run \in Passengers
        BY <3>1, <2>2, <1>1, RegistrationKinds DEF TokensAreCurrent
      <3>. QED BY <3>1, <3>2, <1>1, <1>2 DEF EgressTypeOK
    <2>. QED BY <2>1, <2>2 DEF TokensAreCurrent, Registered
  <1>6. EveryDecisionIsTold'
    <2>1. Repeats' = Repeats /\ \A k \in Keys : InHand(k)' = InHand(k)
      BY <1>2 DEF Repeats, InHand, Decided
    <2>2. ASSUME NEW k \in Keys
          PROVE  Tells(made'[k], told'[k], recent'[k].suppressed, InHand(k)', Repeats')
      <3>1. Tells(made[k], told[k], recent[k].suppressed, InHand(k), Repeats)
        BY <1>1, TellsAll
      <3>2. /\ made[k] \in SUBSET Calls /\ told[k] \in SUBSET Calls
            /\ recent[k].suppressed \in SUBSET Calls
        BY <1>1 DEF EgressTypeOK
      <3>3. CASE k.run = run
        <4>1. ASSUME NEW x \in Calls
              PROVE  Tells(made[k] \ recent[k].suppressed, told[k], {}, InHand(k), Repeats)
          BY <3>1, <3>2, <1>1, RepeatsTyped, Ledger
        <4>2. CASE Calls = {}
          BY <4>2, <3>1, <3>2, <1>2, <1>3, <2>1, <3>3 DEF Tells
        <4>. QED BY <4>1, <4>2, <1>2, <1>3, <2>1, <3>3
      <3>4. CASE k.run # run
        BY <3>1, <3>4, <2>1, <1>2
      <3>. QED BY <3>3, <3>4
    <2>. QED BY <2>2, <1>4, TellsAllNext
  <1>7. OnlyDecisionsAreTold'
    <2>1. \A k \in Keys : made'[k] \subseteq made[k]
      BY <1>2
    <2>. QED BY <2>1, <1>2 DEF EgressInv, OnlyDecisionsAreTold, Decided
  <1>8. TunnelsAreVisible'
    <2>1. \A k \in Keys : recent'[k] # NoRecent => recent'[k] = recent[k]
      BY <1>2
    <2>. QED BY <2>1, <1>2 DEF EgressInv, TunnelsAreVisible, Spoken, InHand, Decided
  <1>. QED BY <1>4, <1>5, <1>6, <1>7, <1>8 DEF EgressInv

LEMMA AskHostKeeps ==
  ASSUME EgressInv, NEW c \in Calls, NEW pass \in Passes, NEW host \in Hosts,
         AskHost(c, pass, host)
  PROVE  EgressInv'
  <1> DEFINE new == IF Authenticated(pass) = NoRegistration
                    THEN [step |-> "refused", pass |-> pass]
                    ELSE [step |-> "decided", pass |-> pass, host |-> host,
                          reg |-> Authenticated(pass),
                          allowed |-> Allows(Authenticated(pass), host), repeats |-> {}]
             key == Key(new)
  <1>1. EgressTypeOK /\ TokensAreCurrent /\ EveryDecisionIsTold /\ OnlyDecisionsAreTold
        /\ TunnelsAreVisible
    BY DEF EgressInv
  <1>2. /\ calls[c] = NoCall /\ calls' = [calls EXCEPT ![c] = new]
        /\ UNCHANGED <<byRun, byToken, recent, tunnels, told, wallClock>>
    BY DEF AskHost
  <1>3. CASE Authenticated(pass) = NoRegistration
    <2>1. new \in Refusals /\ new # NoCall /\ new.step = "refused"
      BY <1>3, EgressAssumption DEF Refusals
    <2>2. made' = made
      BY <1>3 DEF AskHost
    <2> HIDE DEF new
    <2>3. /\ calls' \in [Calls -> Refusals \cup Decisions \cup {NoCall}]
          /\ calls'[c] = new /\ \A x \in Calls \ {c} : calls'[x] = calls[x]
      BY <2>1, <1>1, <1>2 DEF EgressTypeOK
    <2>4. \A x \in Calls : /\ Decided(x)' <=> Decided(x)
                           /\ Decided(x) => calls'[x] = calls[x]
      BY <2>1, <2>3, <1>2 DEF Decided
    <2>5. \A k \in Keys : InHand(k)' = InHand(k)
      BY <2>4 DEF InHand
    <2>6. EgressTypeOK'
      BY <2>2, <2>3, <1>1, <1>2 DEF EgressTypeOK
    <2>7. EveryDecisionIsTold'
      <3>1. Repeats' = Repeats
        BY <2>4 DEF Repeats
      <3>. QED BY <3>1, <2>2, <2>5, <2>6, <1>1, <1>2, TellsAll, TellsAllNext
    <2>8. OnlyDecisionsAreTold'
      <3>1. \A k \in Keys : made[k] \subseteq Calls
        BY <1>1 DEF EgressTypeOK
      <3>. QED BY <3>1, <2>2, <2>4, <1>1 DEF OnlyDecisionsAreTold
    <2>9. TunnelsAreVisible'
      <3>1. tunnels \subseteq Calls
        BY <1>1 DEF EgressTypeOK
      <3>2. \A k \in Keys : Spoken(k)' <=> Spoken(k)
        <4>1. \A k \in Keys : \A d \in InHand(k) : calls'[d] = calls[d]
          BY <2>4 DEF InHand
        <4>. QED BY <4>1, <2>5, <1>2 DEF Spoken
      <3>3. \A x \in Calls : Decided(x) => Key(calls[x]) \in Keys
        BY <1>1, CallKinds
      <3>. QED BY <3>1, <3>2, <3>3, <2>4, <1>1, <1>2 DEF TunnelsAreVisible
    <2>. QED
      BY <2>6, <2>7, <2>8, <2>9, <1>1, <1>2, TokensUntouched DEF EgressInv
  <1>4. CASE Authenticated(pass) # NoRegistration
    <2>1. Authenticated(pass) \in Registrations
      BY <1>4, <1>1, RegistrationKinds DEF Authenticated
    <2>2. Allows(Authenticated(pass), host) \in BOOLEAN
      BY DEF Allows
    <2>3. /\ new = [step |-> "decided", pass |-> pass, host |-> host,
                    reg |-> Authenticated(pass),
                    allowed |-> Allows(Authenticated(pass), host), repeats |-> {}]
          /\ new \in Decisions
      BY <1>4, <2>1, <2>2 DEF Decisions
    <2>4. /\ new.step = "decided" /\ new.repeats = {} /\ new # NoCall
          /\ new.reg = Authenticated(pass) /\ new.host = host
          /\ new.allowed = Allows(Authenticated(pass), host)
      BY <2>3, EgressAssumption
    <2>5. key \in Keys
      <3>1. Authenticated(pass).run \in Passengers
        BY <2>1 DEF Registrations
      <3>. QED BY <3>1, <2>2, <2>4 DEF Keys, Key
    <2>6. /\ calls' \in [Calls -> Refusals \cup Decisions \cup {NoCall}]
          /\ calls'[c] = new /\ \A x \in Calls \ {c} : calls'[x] = calls[x]
      BY <2>3, <1>1, <1>2 DEF EgressTypeOK
    <2>7. made' = [made EXCEPT ![key] = made[key] \cup {c}]
      BY <1>4, <2>6 DEF AskHost
    <2> HIDE DEF new
    <2>8. /\ ~Decided(c) /\ Decided(c)' /\ Key(calls[c])' = key
          /\ \A x \in Calls \ {c} : Decided(x)' <=> Decided(x)
      BY <2>4, <2>6, <1>2 DEF Decided, Key
    <2> HIDE DEF key
    <2>9. \A k \in Keys : InHand(k)' = IF k = key THEN InHand(k) \cup {c} ELSE InHand(k)
      <3>1. ASSUME NEW k \in Keys
            PROVE  InHand(k)' = IF k = key THEN InHand(k) \cup {c} ELSE InHand(k)
        <4>1. InHand(k)' = {x \in Calls : Decided(x)' /\ calls'[x].step \in {"decided", "logging"}
                                            /\ Key(calls'[x]) = k}
          BY DEF InHand
        <4>2. InHand(k)' \subseteq Calls /\ InHand(k) \subseteq Calls
          BY <4>1 DEF InHand
        <4>3. \A x \in Calls \ {c} : x \in InHand(k)' <=> x \in InHand(k)
          BY <4>1, <2>6, <2>8 DEF InHand
        <4>4. c \notin InHand(k) /\ (c \in InHand(k)' <=> k = key)
          BY <4>1, <2>4, <2>6, <2>8 DEF InHand
        <4>. QED BY <4>2, <4>3, <4>4
      <3>. QED BY <3>1
    <2>10. EgressTypeOK'
      BY <2>5, <2>6, <2>7, <1>1, <1>2 DEF EgressTypeOK
    <2>11. EveryDecisionIsTold'
      <3>1. Repeats'[c] = {} /\ \A x \in Calls \ {c} : Repeats'[x] = Repeats[x]
        BY <2>4, <2>6, <2>8 DEF Repeats
      <3>2. Repeats \in [Calls -> SUBSET Calls] /\ Repeats' \in [Calls -> SUBSET Calls]
        BY <1>1, <2>10, RepeatsTyped, CallKinds, <2>6, <2>8, <3>1 DEF Repeats
      <3>3. ASSUME NEW k \in Keys
            PROVE  Tells(made'[k], told'[k], recent'[k].suppressed, InHand(k)', Repeats')
        <4>1. Tells(made[k], told[k], recent[k].suppressed, InHand(k), Repeats)
          BY <1>1, TellsAll
        <4>2. /\ made[k] \in SUBSET Calls /\ told[k] \in SUBSET Calls
              /\ recent[k].suppressed \in SUBSET Calls /\ InHand(k) \in SUBSET Calls
          BY <1>1, RepeatsTyped DEF EgressTypeOK
        <4>3. c \notin made[k] /\ c \notin InHand(k)
          BY <1>1, <2>8 DEF OnlyDecisionsAreTold, InHand
        <4>4. CASE k = key
          <5>1. Tells(made[k] \cup {c}, told[k], recent[k].suppressed, InHand(k) \cup {c}, Repeats')
            BY <4>1, <4>2, <4>3, <3>1, <3>2, Ledger
          <5>2. made'[k] = made[k] \cup {c} /\ InHand(k)' = InHand(k) \cup {c}
            BY <4>4, <2>5, <2>7, <2>9, <1>1 DEF EgressTypeOK
          <5>. QED BY <5>1, <5>2, <1>2
        <4>5. CASE k # key
          <5>1. Tells(made[k], told[k], recent[k].suppressed, InHand(k), Repeats')
            BY <4>1, <4>2, <4>3, <3>1, <3>2, Ledger
          <5>2. made'[k] = made[k] /\ InHand(k)' = InHand(k)
            BY <4>5, <2>7, <2>9, <1>1 DEF EgressTypeOK
          <5>. QED BY <5>1, <5>2, <1>2
        <4>. QED BY <4>4, <4>5
      <3>. QED BY <3>3, <2>10, TellsAllNext
    <2>12. OnlyDecisionsAreTold'
      <3>1. ASSUME NEW k \in Keys, NEW x \in made'[k]
            PROVE  Decided(x)' /\ Key(calls[x])' = k
        <4>1. (x = c /\ k = key) \/ x \in made[k]
          BY <3>1, <2>5, <2>7, <1>1 DEF EgressTypeOK
        <4>2. x \in made[k] => x \in Calls \ {c} /\ Decided(x) /\ Key(calls[x]) = k
          BY <1>1, <2>8 DEF OnlyDecisionsAreTold, EgressTypeOK
        <4>. QED BY <4>1, <4>2, <2>6, <2>8
      <3>2. ASSUME NEW x \in Calls, Decided(x)', calls'[x].step = "decided"
            PROVE  calls'[x].repeats = {}
        BY <3>2, <2>4, <2>6, <2>8, <1>1 DEF OnlyDecisionsAreTold
      <3>. QED BY <3>1, <3>2 DEF OnlyDecisionsAreTold
    <2>13. TunnelsAreVisible'
      <3>1. ASSUME NEW k \in Keys, Spoken(k)
            PROVE  Spoken(k)'
        <4>1. c \notin InHand(k) /\ \A d \in InHand(k) : d \in InHand(k)' /\ calls'[d] = calls[d]
          BY <2>6, <2>8, <2>9 DEF InHand
        <4>. QED BY <4>1, <3>1, <1>2 DEF Spoken
      <3>2. \A x \in tunnels : x \in Calls /\ x # c
        BY <2>8, <1>1 DEF TunnelsAreVisible, EgressTypeOK
      <3>3. \A x \in tunnels : Decided(x)' /\ calls'[x].step = "served"
        BY <3>2, <2>6, <2>8, <1>1 DEF TunnelsAreVisible
      <3>4. ASSUME NEW x \in Calls, Decided(x)', calls'[x].step # "decided"
            PROVE  Spoken(Key(calls[x]))'
        <4>1. x # c /\ Decided(x) /\ calls'[x] = calls[x]
          BY <3>4, <2>4, <2>6, <2>8
        <4>2. Spoken(Key(calls[x])) /\ Key(calls[x]) \in Keys
          BY <4>1, <3>4, <1>1, CallKinds DEF TunnelsAreVisible
        <4>. QED BY <4>1, <4>2, <3>1
      <3>5. \A k \in Keys : recent'[k] # NoRecent => Spoken(k)'
        BY <3>1, <1>1, <1>2 DEF TunnelsAreVisible
      <3>. QED BY <1>2, <3>3, <3>4, <3>5 DEF TunnelsAreVisible
    <2>. QED
      BY <2>10, <2>11, <2>12, <2>13, <1>1, <1>2, TokensUntouched DEF EgressInv
  <1>. QED BY <1>3, <1>4

\* What a request that moves on leaves of the two last parts to be shown.
LEMMA OnlyDecisionsMove ==
  ASSUME EgressTypeOK, OnlyDecisionsAreTold, NEW c \in Calls, Decided(c), NEW new \in Decisions,
         calls' = [calls EXCEPT ![c] = new], Key(new) = Key(calls[c]), new.step # "decided",
         made' = made
  PROVE  OnlyDecisionsAreTold'
  <1>1. /\ calls'[c] = new /\ \A x \in Calls \ {c} : calls'[x] = calls[x]
        /\ \A x \in Calls : /\ Decided(x)' <=> Decided(x)
                            /\ Key(calls[x])' = Key(calls[x]) \/ ~Decided(x)
    BY CallMoves
  <1>2. \A k \in Keys : made[k] \subseteq Calls
    BY DEF EgressTypeOK
  <1>. QED BY <1>1, <1>2 DEF OnlyDecisionsAreTold

LEMMA VisibleMoves ==
  ASSUME EgressTypeOK, TunnelsAreVisible, NEW c \in Calls, Decided(c), NEW new \in Decisions,
         calls' = [calls EXCEPT ![c] = new], Key(new) = Key(calls[c]),
         calls[c].step # "served",
         \A x \in tunnels' : x \in tunnels \/ (x = c /\ new.step = "served"),
         \A k \in Keys : Spoken(k) \/ k = Key(calls[c]) => Spoken(k)',
         \A k \in Keys : recent'[k] # NoRecent => recent[k] # NoRecent \/ k = Key(calls[c])
  PROVE  TunnelsAreVisible'
  <1>1. /\ calls'[c] = new /\ \A x \in Calls \ {c} : calls'[x] = calls[x]
        /\ \A x \in Calls : /\ Decided(x)' <=> Decided(x)
                            /\ Key(calls[x])' = Key(calls[x]) \/ ~Decided(x)
    BY CallMoves
  <1>2. \A x \in tunnels : x \in Calls /\ x # c
    BY DEF TunnelsAreVisible, EgressTypeOK
  <1>3. \A x \in tunnels' : Decided(x)' /\ calls'[x].step = "served"
    BY <1>1, <1>2 DEF TunnelsAreVisible
  <1>4. ASSUME NEW x \in Calls, Decided(x)', calls'[x].step # "decided"
        PROVE  Spoken(Key(calls[x]))'
    <2>1. Key(calls'[x]) = Key(calls[x]) /\ Key(calls[x]) \in Keys /\ Decided(x)
      BY <1>1, <1>4, CallKinds
    <2>2. CASE x = c
      BY <2>1, <2>2, <1>1, <1>4 DEF Spoken
    <2>3. CASE x # c
      <3>1. Spoken(Key(calls[x]))
        BY <2>1, <2>3, <1>1, <1>4 DEF TunnelsAreVisible
      <3>. QED BY <3>1, <2>1 DEF Spoken
    <2>. QED BY <2>2, <2>3
  <1>5. \A k \in Keys : recent'[k] # NoRecent => Spoken(k)'
    BY DEF TunnelsAreVisible
  <1>. QED BY <1>3, <1>4, <1>5 DEF TunnelsAreVisible

\* A step of one request, in the terms of the last lemmas.
LEMMA StepTyped ==
  ASSUME EgressTypeOK, NEW c \in Calls, calls[c] # NoCall, calls[c].step # "refused",
         NEW s \in {"logging", "dialing", "forbidden", "served"}
  PROVE  /\ Decided(c)
         /\ [calls[c] EXCEPT !.step = s] \in Decisions
         /\ [calls[c] EXCEPT !.step = s].step = s
         /\ [calls[c] EXCEPT !.step = s].repeats = calls[c].repeats
         /\ Key([calls[c] EXCEPT !.step = s]) = Key(calls[c])
  BY CallKinds DEF Decided, Decisions, Key

LEMMA DialKeeps ==
  ASSUME EgressInv, NEW c \in Calls, Dial(c)
  PROVE  EgressInv'
  <1> DEFINE new == [calls[c] EXCEPT !.step = "served"]
  <1>1. EgressTypeOK /\ TokensAreCurrent /\ EveryDecisionIsTold /\ OnlyDecisionsAreTold
        /\ TunnelsAreVisible
    BY DEF EgressInv
  <1>2. /\ calls[c] # NoCall /\ calls[c].step = "dialing"
        /\ tunnels' \in {tunnels, tunnels \cup {c}}
        /\ calls' = [calls EXCEPT ![c] = new]
        /\ UNCHANGED <<byRun, byToken, recent, told, made, wallClock>>
    BY DEF Dial
  <1>3. /\ Decided(c) /\ new \in Decisions /\ new.step = "served"
        /\ new.repeats = calls[c].repeats /\ Key(new) = Key(calls[c])
    BY <1>1, <1>2, StepTyped
  <1> HIDE DEF new
  <1>4. /\ calls' \in [Calls -> Refusals \cup Decisions \cup {NoCall}]
        /\ calls'[c] = new /\ \A x \in Calls \ {c} : calls'[x] = calls[x]
        /\ Repeats'[c] = new.repeats /\ \A x \in Calls \ {c} : Repeats'[x] = Repeats[x]
        /\ \A k \in Keys : InHand(k)' = InHand(k) \ {c}
    BY <1>1, <1>2, <1>3, CallMoves
  <1>5. EgressTypeOK'
    BY <1>1, <1>2, <1>4 DEF EgressTypeOK
  <1>6. \A k \in Keys : InHand(k)' = InHand(k)
    BY <1>2, <1>4 DEF InHand
  <1>7. EveryDecisionIsTold'
    <2>1. Repeats' = Repeats
      BY <1>3, <1>4 DEF Repeats, Decided
    <2>. QED BY <2>1, <1>1, <1>2, <1>5, <1>6, TellsAll, TellsAllNext
  <1>8. OnlyDecisionsAreTold'
    BY <1>1, <1>2, <1>3, OnlyDecisionsMove
  <1>9. \A k \in Keys : Spoken(k)' <=> Spoken(k)
    <2>1. \A k \in Keys : \A d \in InHand(k) : d # c /\ d \in Calls
      BY <1>2 DEF InHand
    <2>. QED BY <2>1, <1>2, <1>4, <1>6 DEF Spoken
  <1>10. Spoken(Key(calls[c])) /\ Key(calls[c]) \in Keys
    BY <1>1, <1>2, <1>3, CallKinds DEF TunnelsAreVisible
  <1>11. TunnelsAreVisible'
    <2>1. \A x \in tunnels' : x \in tunnels \/ (x = c /\ new.step = "served")
      BY <1>2, <1>3
    <2>2. \A k \in Keys : Spoken(k) \/ k = Key(calls[c]) => Spoken(k)'
      BY <1>9, <1>10
    <2>. QED BY <2>1, <2>2, <1>1, <1>2, <1>3, VisibleMoves
  <1>. QED BY <1>1, <1>2, <1>5, <1>7, <1>8, <1>11, TokensUntouched DEF EgressInv

LEMMA CountRepeatKeeps ==
  ASSUME EgressInv, NEW c \in Calls, calls[c] # NoCall, calls[c].step = "decided",
         CountRepeat(c), UNCHANGED <<byRun, byToken, tunnels, told, made, wallClock>>
  PROVE  EgressInv'
  <1> DEFINE key == Key(calls[c])
             new == [calls[c] EXCEPT !.step = Answered(c)]
             count == [at |-> recent[key].at, suppressed |-> recent[key].suppressed \cup {c}]
  <1>1. EgressTypeOK /\ TokensAreCurrent /\ EveryDecisionIsTold /\ OnlyDecisionsAreTold
        /\ TunnelsAreVisible
    BY DEF EgressInv
  <1>2. /\ recent[key] # NoRecent /\ recent' = [recent EXCEPT ![key] = count]
        /\ calls' = [calls EXCEPT ![c] = new]
    BY DEF CountRepeat, Repeated
  <1>3. Answered(c) \in {"dialing", "forbidden"}
    BY DEF Answered
  <1>4. /\ Decided(c) /\ new \in Decisions /\ new.step \in {"dialing", "forbidden"}
        /\ new.repeats = calls[c].repeats /\ Key(new) = key
    BY <1>1, <1>3, StepTyped
  <1>5. key \in Keys /\ calls[c].repeats = {}
    BY <1>1, <1>4, CallKinds DEF OnlyDecisionsAreTold
  <1>6. count \in [at : Nat \cup {-1}, suppressed : SUBSET Calls]
        /\ count.suppressed = recent[key].suppressed \cup {c}
    <2>1. recent[key] \in [at : Nat \cup {-1}, suppressed : SUBSET Calls]
      BY <1>1, <1>5 DEF EgressTypeOK
    <2>2. recent[key].at \in Nat \cup {-1} /\ recent[key].suppressed \in SUBSET Calls
      BY <2>1
    <2>. QED BY <2>2
  <1> HIDE DEF key, new, count
  <1>7. /\ calls' \in [Calls -> Refusals \cup Decisions \cup {NoCall}]
        /\ calls'[c] = new /\ \A x \in Calls \ {c} : calls'[x] = calls[x]
        /\ Repeats'[c] = new.repeats /\ \A x \in Calls \ {c} : Repeats'[x] = Repeats[x]
        /\ \A k \in Keys : InHand(k)' = InHand(k) \ {c}
    BY <1>1, <1>2, <1>4, CallMoves DEF key
  <1>8. /\ recent'[key] = count /\ \A k \in Keys \ {key} : recent'[k] = recent[k]
        /\ recent' \in [Keys -> [at : Nat \cup {-1}, suppressed : SUBSET Calls]]
    BY <1>1, <1>2, <1>5, <1>6 DEF EgressTypeOK
  <1>9. EgressTypeOK'
    BY <1>1, <1>7, <1>8 DEF EgressTypeOK
  <1>10. EveryDecisionIsTold'
    <2>1. Repeats' = Repeats /\ Repeats[c] = {}
      BY <1>4, <1>5, <1>7 DEF Repeats, Decided
    <2>2. ASSUME NEW k \in Keys
          PROVE  Tells(made'[k], told'[k], recent'[k].suppressed, InHand(k)', Repeats')
      <3>1. Tells(made[k], told[k], recent[k].suppressed, InHand(k), Repeats)
        BY <1>1, TellsAll
      <3>2. /\ made[k] \in SUBSET Calls /\ told[k] \in SUBSET Calls
            /\ recent[k].suppressed \in SUBSET Calls /\ InHand(k) \in SUBSET Calls
            /\ Repeats \in [Calls -> SUBSET Calls]
        BY <1>1, RepeatsTyped DEF EgressTypeOK
      <3>3. c \in InHand(k) <=> k = key
        BY <1>4 DEF InHand, key
      <3>4. CASE k = key
        <4>1. Tells(made[k], told[k], recent[k].suppressed \cup {c}, InHand(k) \ {c}, Repeats)
          BY <3>1, <3>2, <3>3, <3>4, <2>1, Ledger
        <4>. QED BY <4>1, <3>4, <2>1, <1>6, <1>7, <1>8
      <3>5. CASE k # key
        <4>1. InHand(k)' = InHand(k)
          BY <3>3, <3>5, <1>7
        <4>. QED BY <4>1, <3>1, <3>5, <2>1, <1>8
      <3>. QED BY <3>4, <3>5
    <2>. QED BY <2>2, <1>9, TellsAllNext
  <1>11. OnlyDecisionsAreTold'
    BY <1>1, <1>2, <1>4, OnlyDecisionsMove DEF key
  <1>12. \A k \in Keys : Spoken(k) => Spoken(k)'
    <2>1. \A k \in Keys : \A d \in InHand(k) : d # c => d \in InHand(k)' /\ calls'[d] = calls[d]
      BY <1>7 DEF InHand
    <2>. QED BY <2>1 DEF Spoken
  <1>13. TunnelsAreVisible'
    <2>1. Spoken(key)
      BY <1>1, <1>2, <1>5 DEF TunnelsAreVisible
    <2>2. \A k \in Keys : Spoken(k) \/ k = Key(calls[c]) => Spoken(k)'
      BY <2>1, <1>12 DEF key
    <2>3. \A k \in Keys : recent'[k] # NoRecent => recent[k] # NoRecent \/ k = Key(calls[c])
      BY <1>8 DEF key
    <2>4. tunnels' = tunnels /\ calls[c].step # "served" /\ Key(new) = Key(calls[c])
      BY <1>4, <1>5 DEF key
    <2>6. \A x \in tunnels' : x \in tunnels \/ (x = c /\ new.step = "served")
      BY <2>4
    <2>. QED BY <2>2, <2>3, <2>4, <2>6, <1>1, <1>2, <1>4, VisibleMoves
  <1>. QED BY <1>1, <1>9, <1>10, <1>11, <1>13, TokensUntouched DEF EgressInv

LEMMA LogWithCountKeeps ==
  ASSUME EgressInv, NEW c \in Calls, calls[c] # NoCall, calls[c].step = "decided",
         LogWithCount(c), UNCHANGED <<byRun, byToken, tunnels, told, made, wallClock>>
  PROVE  EgressInv'
  <1> DEFINE key == Key(calls[c])
             new == [calls[c] EXCEPT !.step = "logging", !.repeats = recent[key].suppressed]
             entry == [at |-> wallClock, suppressed |-> {}]
  <1>1. EgressTypeOK /\ TokensAreCurrent /\ EveryDecisionIsTold /\ OnlyDecisionsAreTold
        /\ TunnelsAreVisible
    BY DEF EgressInv
  <1>2. /\ recent' = [recent EXCEPT ![key] = entry]
        /\ calls' = [calls EXCEPT ![c] = new]
    BY DEF LogWithCount
  <1>3. /\ Decided(c) /\ calls[c] \in Decisions /\ key \in Keys /\ calls[c].repeats = {}
    BY <1>1, CallKinds DEF OnlyDecisionsAreTold, Decided
  <1>4. recent[key].suppressed \in SUBSET Calls
    <2>1. recent[key] \in [at : Nat \cup {-1}, suppressed : SUBSET Calls]
      BY <1>1, <1>3 DEF EgressTypeOK
    <2>. QED BY <2>1
  <1>5. /\ new \in Decisions /\ new.step = "logging"
        /\ new.repeats = recent[key].suppressed /\ Key(new) = key
    BY <1>3, <1>4 DEF Decisions, Key
  <1>6. entry \in [at : Nat \cup {-1}, suppressed : SUBSET Calls] /\ entry.suppressed = {}
    BY <1>1 DEF EgressTypeOK
  <1> HIDE DEF key, new, entry
  <1>7. /\ calls' \in [Calls -> Refusals \cup Decisions \cup {NoCall}]
        /\ calls'[c] = new /\ \A x \in Calls \ {c} : calls'[x] = calls[x]
        /\ Decided(c)'
        /\ Repeats'[c] = new.repeats /\ \A x \in Calls \ {c} : Repeats'[x] = Repeats[x]
        /\ Repeats' \in [Calls -> SUBSET Calls]
        /\ \A k \in Keys : InHand(k)' = IF key = k THEN InHand(k) \cup {c} ELSE InHand(k) \ {c}
    BY <1>1, <1>2, <1>3, <1>5, CallMoves DEF key
  <1>8. /\ recent'[key] = entry /\ \A k \in Keys \ {key} : recent'[k] = recent[k]
        /\ recent' \in [Keys -> [at : Nat \cup {-1}, suppressed : SUBSET Calls]]
    BY <1>1, <1>2, <1>3, <1>6 DEF EgressTypeOK
  <1>9. EgressTypeOK'
    BY <1>1, <1>7, <1>8 DEF EgressTypeOK
  <1>10. ASSUME NEW k \in Keys
         PROVE  InHand(k)' = InHand(k) /\ (c \in InHand(k) <=> k = key)
    <2>1. c \in InHand(k) <=> k = key
      BY <1>3 DEF InHand, key
    <2>2. InHand(k)' = IF key = k THEN InHand(k) \cup {c} ELSE InHand(k) \ {c}
      BY <1>7
    <2>. QED BY <2>1, <2>2
  <1>11. EveryDecisionIsTold'
    <2>1. Repeats[c] = {}
      BY <1>3 DEF Repeats
    <2>2. ASSUME NEW k \in Keys
          PROVE  Tells(made'[k], told'[k], recent'[k].suppressed, InHand(k)', Repeats')
      <3>1. Tells(made[k], told[k], recent[k].suppressed, InHand(k), Repeats)
        BY <1>1, TellsAll
      <3>2. /\ made[k] \in SUBSET Calls /\ told[k] \in SUBSET Calls
            /\ recent[k].suppressed \in SUBSET Calls /\ InHand(k) \in SUBSET Calls
            /\ Repeats \in [Calls -> SUBSET Calls]
        BY <1>1, RepeatsTyped DEF EgressTypeOK
      <3>3. CASE k = key
        <4>1. Repeats'[c] = recent[k].suppressed /\ c \in InHand(k)
              /\ \A x \in Calls \ {c} : Repeats'[x] = Repeats[x]
          BY <3>3, <1>5, <1>7, <1>10
        <4>2. Tells(made[k], told[k], {}, InHand(k), Repeats')
          BY <4>1, <3>1, <3>2, <2>1, <1>7, Ledger
        <4>. QED BY <4>2, <3>3, <1>6, <1>8, <1>10
      <3>4. CASE k # key
        <4>1. \A x \in InHand(k) : Repeats'[x] = Repeats[x]
          BY <3>2, <3>4, <1>7, <1>10
        <4>2. Tells(made[k], told[k], recent[k].suppressed, InHand(k), Repeats')
          BY <4>1, <3>1, <3>2, <1>7, Ledger
        <4>. QED BY <4>2, <3>4, <1>8, <1>10
      <3>. QED BY <3>3, <3>4
    <2>. QED BY <2>2, <1>9, TellsAllNext
  <1>12. OnlyDecisionsAreTold'
    BY <1>1, <1>2, <1>3, <1>5, OnlyDecisionsMove DEF key
  <1>13. TunnelsAreVisible'
    <2>1. ASSUME NEW k \in Keys, Spoken(k)
          PROVE  Spoken(k)'
      <3>1. \A d \in InHand(k) : d = c \/ calls'[d] = calls[d]
        BY <1>7 DEF InHand
      <3>. QED BY <3>1, <2>1, <1>5, <1>7, <1>10 DEF Spoken
    <2>2. ASSUME NEW k \in Keys, k = key
          PROVE  Spoken(k)'
      <3>1. c \in InHand(k)' /\ calls'[c].step = "logging"
        BY <2>2, <1>5, <1>7, <1>10
      <3>. QED BY <3>1 DEF Spoken
    <2>3. \A k \in Keys : Spoken(k) \/ k = Key(calls[c]) => Spoken(k)'
      BY <2>1, <2>2 DEF key
    <2>4. \A k \in Keys : recent'[k] # NoRecent => recent[k] # NoRecent \/ k = Key(calls[c])
      BY <1>8 DEF key
    <2>5. tunnels' = tunnels /\ calls[c].step # "served" /\ Key(new) = Key(calls[c])
      BY <1>4, <1>5 DEF key
    <2>6. \A x \in tunnels' : x \in tunnels \/ (x = c /\ new.step = "served")
      BY <2>5
    <2>. QED BY <2>3, <2>4, <2>5, <2>6, <1>1, <1>2, <1>3, <1>5, VisibleMoves
  <1>. QED BY <1>1, <1>9, <1>11, <1>12, <1>13, TokensUntouched DEF EgressInv

LEMMA AppendActivityKeeps ==
  ASSUME EgressInv, NEW c \in Calls, AppendActivity(c)
  PROVE  EgressInv'
  <1> DEFINE key == Key(calls[c])
             new == [calls[c] EXCEPT !.step = Answered(c)]
  <1>1. EgressTypeOK /\ TokensAreCurrent /\ EveryDecisionIsTold /\ OnlyDecisionsAreTold
        /\ TunnelsAreVisible
    BY DEF EgressInv
  <1>2. /\ calls[c] # NoCall /\ calls[c].step = "logging"
        /\ told' = [told EXCEPT ![key] = told[key] \cup Carries(c)]
        /\ calls' = [calls EXCEPT ![c] = new]
        /\ UNCHANGED <<byRun, byToken, recent, tunnels, made, wallClock>>
    BY DEF AppendActivity
  <1>3. Answered(c) \in {"dialing", "forbidden"}
    BY DEF Answered
  <1>4. /\ Decided(c) /\ new \in Decisions /\ new.step \in {"dialing", "forbidden"}
        /\ new.repeats = calls[c].repeats /\ Key(new) = key
    BY <1>1, <1>2, <1>3, StepTyped
  <1>5. key \in Keys /\ calls[c].repeats \in SUBSET Calls /\ c \in Carries(c)
        /\ Carries(c) \subseteq Calls
    BY <1>1, <1>4, CallKinds DEF Carries
  <1> HIDE DEF key, new
  <1>6. /\ calls' \in [Calls -> Refusals \cup Decisions \cup {NoCall}]
        /\ calls'[c] = new /\ \A x \in Calls \ {c} : calls'[x] = calls[x]
        /\ Repeats'[c] = new.repeats /\ \A x \in Calls \ {c} : Repeats'[x] = Repeats[x]
        /\ \A k \in Keys : InHand(k)' = InHand(k) \ {c}
    BY <1>1, <1>2, <1>4, CallMoves DEF key
  <1>7. /\ told'[key] = told[key] \cup Carries(c)
        /\ \A k \in Keys \ {key} : told'[k] = told[k]
        /\ told' \in [Keys -> SUBSET Calls]
    BY <1>1, <1>2, <1>5 DEF EgressTypeOK
  <1>8. EgressTypeOK'
    BY <1>1, <1>2, <1>6, <1>7 DEF EgressTypeOK
  <1>9. EveryDecisionIsTold'
    <2>1. Repeats' = Repeats /\ Carried(Repeats, c) = Carries(c)
      BY <1>4, <1>6 DEF Repeats, Decided, Carried, Carries
    <2>2. ASSUME NEW k \in Keys
          PROVE  Tells(made'[k], told'[k], recent'[k].suppressed, InHand(k)', Repeats')
      <3>1. Tells(made[k], told[k], recent[k].suppressed, InHand(k), Repeats)
        BY <1>1, TellsAll
      <3>2. /\ made[k] \in SUBSET Calls /\ told[k] \in SUBSET Calls
            /\ recent[k].suppressed \in SUBSET Calls /\ InHand(k) \in SUBSET Calls
            /\ Repeats \in [Calls -> SUBSET Calls]
        BY <1>1, RepeatsTyped DEF EgressTypeOK
      <3>3. c \in InHand(k) <=> k = key
        BY <1>2, <1>4 DEF InHand, key
      <3>4. CASE k = key
        <4>1. Tells(made[k], told[k] \cup Carried(Repeats, c), recent[k].suppressed,
                    InHand(k) \ {c}, Repeats)
          BY <3>1, <3>2, <3>3, <3>4, Ledger
        <4>. QED BY <4>1, <3>4, <2>1, <1>2, <1>6, <1>7
      <3>5. CASE k # key
        <4>1. InHand(k)' = InHand(k)
          BY <3>3, <3>5, <1>6
        <4>. QED BY <4>1, <3>1, <3>5, <2>1, <1>2, <1>7
      <3>. QED BY <3>4, <3>5
    <2>. QED BY <2>2, <1>8, TellsAllNext
  <1>10. OnlyDecisionsAreTold'
    BY <1>1, <1>2, <1>4, OnlyDecisionsMove DEF key
  <1>11. TunnelsAreVisible'
    <2>1. ASSUME NEW k \in Keys, Spoken(k), k # key
          PROVE  Spoken(k)'
      <3>1. \A d \in InHand(k) : d \in InHand(k)' /\ calls'[d] = calls[d]
        BY <2>1, <1>6 DEF InHand, key
      <3>. QED BY <3>1, <2>1, <1>7 DEF Spoken
    <2>2. ASSUME NEW k \in Keys, k = key
          PROVE  Spoken(k)'
      BY <2>2, <1>5, <1>7 DEF Spoken
    <2>3. \A k \in Keys : Spoken(k) \/ k = Key(calls[c]) => Spoken(k)'
      BY <2>1, <2>2 DEF key
    <2>4. \A k \in Keys : recent'[k] # NoRecent => recent[k] # NoRecent \/ k = Key(calls[c])
      BY <1>2
    <2>5. tunnels' = tunnels /\ calls[c].step # "served" /\ Key(new) = Key(calls[c])
      BY <1>2, <1>4 DEF key
    <2>6. \A x \in tunnels' : x \in tunnels \/ (x = c /\ new.step = "served")
      BY <2>5
    <2>. QED BY <2>3, <2>4, <2>5, <2>6, <1>1, <1>2, <1>4, VisibleMoves
  <1>. QED BY <1>1, <1>2, <1>8, <1>9, <1>10, <1>11, TokensUntouched DEF EgressInv

\* The registrations, the requests and their records are as they were.
LEMMA RecordsUntouched ==
  ASSUME EgressInv, UNCHANGED <<byRun, byToken, recent, calls, told, made>>,
         tunnels' \subseteq tunnels, wallClock' \in Nat
  PROVE  EgressInv'
  <1>1. EgressTypeOK'
    BY DEF EgressInv, EgressTypeOK
  <1>2. TokensAreCurrent'
    BY DEF EgressInv, TokensAreCurrent, Registered
  <1>3. EveryDecisionIsTold'
    BY DEF EgressInv, EveryDecisionIsTold, OnItsWay, InHand, Decided, Carries
  <1>4. OnlyDecisionsAreTold'
    BY DEF EgressInv, OnlyDecisionsAreTold, Decided
  <1>5. TunnelsAreVisible'
    BY DEF EgressInv, TunnelsAreVisible, Spoken, InHand, Decided
  <1>. QED BY <1>1, <1>2, <1>3, <1>4, <1>5 DEF EgressInv

LEMMA EgressInitHolds ==
  ASSUME EgressInit
  PROVE  EgressInv
  <1>1. EgressTypeOK
    BY DEF EgressInit, EgressTypeOK, NoRecent
  <1>2. \A c \in Calls : ~Decided(c)
    BY DEF EgressInit, Decided
  <1>3. \A k \in Keys : InHand(k) = {} /\ OnItsWay(k) = {}
    BY <1>2 DEF InHand, OnItsWay
  <1>4. \A k \in Keys : recent[k] = NoRecent /\ recent[k].suppressed = {} /\ told[k] = {}
                        /\ made[k] = {}
    BY DEF EgressInit, NoRecent
  <1>5. TokensAreCurrent
    BY DEF EgressInit, TokensAreCurrent, Registered
  <1>6. EveryDecisionIsTold
    BY <1>3, <1>4 DEF EveryDecisionIsTold
  <1>7. OnlyDecisionsAreTold
    BY <1>2, <1>4 DEF OnlyDecisionsAreTold
  <1>8. TunnelsAreVisible
    BY <1>2, <1>4 DEF TunnelsAreVisible, EgressInit
  <1>. QED BY <1>1, <1>5, <1>6, <1>7, <1>8 DEF EgressInv

\* A token opens the way for the run that holds it and no other; every decision of the proxy
\* is spoken of exactly once, in an activity of its run, in a count or by a request that is
\* about to; and what is let through is visible while it is (proxy.go, Register and
\* logDecision).
THEOREM EgressInvariant == EgressSpec => []EgressInv
  <1>1. ASSUME EgressInv, [EgressNext]_egressVars
        PROVE  EgressInv'
    <2>1. CASE UNCHANGED egressVars
      <3>1. wallClock' \in Nat /\ tunnels' \subseteq tunnels
            /\ UNCHANGED <<byRun, byToken, recent, calls, told, made>>
        BY <2>1, <1>1 DEF egressVars, EgressInv, EgressTypeOK
      <3>. QED BY <3>1, <1>1, RecordsUntouched
    <2>2. ASSUME NEW r \in Passengers, NEW t \in Passes, NEW p \in Policies, Register(r, t, p)
          PROVE  EgressInv'
      BY <2>2, <1>1, RegisterKeeps
    <2>3. ASSUME NEW r \in Passengers, Registered(r), Unregister(r)
          PROVE  EgressInv'
      BY <2>3, <1>1, UnregisterKeeps
    <2>4. ASSUME NEW c \in Calls, NEW t \in Passes, NEW h \in Hosts, AskHost(c, t, h)
          PROVE  EgressInv'
      BY <2>4, <1>1, AskHostKeeps
    <2>5. ASSUME NEW c \in Calls, LogDecision(c)
          PROVE  EgressInv'
      <3>1. calls[c] # NoCall /\ calls[c].step = "decided"
            /\ UNCHANGED <<byRun, byToken, tunnels, told, made, wallClock>>
        BY <2>5 DEF LogDecision
      <3>2. CountRepeat(c) \/ LogWithCount(c)
        BY <2>5 DEF LogDecision
      <3>3. CASE CountRepeat(c)
        BY <3>1, <3>3, <1>1, CountRepeatKeeps
      <3>4. CASE LogWithCount(c)
        BY <3>1, <3>4, <1>1, LogWithCountKeeps
      <3>. QED BY <3>2, <3>3, <3>4
    <2>6. ASSUME NEW c \in Calls, AppendActivity(c)
          PROVE  EgressInv'
      BY <2>6, <1>1, AppendActivityKeeps
    <2>7. ASSUME NEW c \in Calls, Dial(c)
          PROVE  EgressInv'
      BY <2>7, <1>1, DialKeeps
    <2>8. ASSUME NEW c \in Calls, CloseTunnel(c)
          PROVE  EgressInv'
      <3>1. wallClock' \in Nat /\ tunnels' \subseteq tunnels
            /\ UNCHANGED <<byRun, byToken, recent, calls, told, made>>
        BY <2>8, <1>1 DEF CloseTunnel, EgressInv, EgressTypeOK
      <3>. QED BY <3>1, <1>1, RecordsUntouched
    <2>9. CASE PassTime
      <3>1. wallClock' \in Nat /\ tunnels' \subseteq tunnels
            /\ UNCHANGED <<byRun, byToken, recent, calls, told, made>>
        BY <2>9, <1>1 DEF PassTime, EgressInv, EgressTypeOK
      <3>. QED BY <3>1, <1>1, RecordsUntouched
    <2>. QED
      BY <1>1, <2>1, <2>2, <2>3, <2>4, <2>5, <2>6, <2>7, <2>8, <2>9 DEF EgressNext
  <1>. QED BY <1>1, EgressInitHolds, PTL DEF EgressSpec

------------------------------------------------------------------------------
(* ForgeClient: the transport, a review and its event, the card's causes.    *)

\* A request's fields.
LEMMA RowFields ==
  ASSUME ClientTypeOK, NEW c \in Requests
  PROVE  /\ request[c] \in Rows
         /\ request[c].intended \in Events \cup {"none"} /\ request[c].event \in Events \cup {"none"}
         /\ request[c].tries \in 0..(MaxAttempts - 1) /\ request[c].sent \in Nat
         /\ request[c].slept \in BOOLEAN /\ request[c].until \in Nat /\ request[c].id \in Nat
         /\ request[c].next \in {"none", "gate", "emit", "done", "failed"}
         /\ request[c].pc \in {"idle", "gate", "send", "asleep", "healthy", "exhausted", "emit",
                               "done", "failed"}
  <1>1. request[c] \in Rows
    BY DEF ClientTypeOK
  <1>. QED BY <1>1 DEF Rows

\* What the step of a request must see to, everything else being as it was.
RowOK(c, row) ==
  /\ row \in Rows /\ row.sent <= 2 * MaxAttempts
  /\ c \in Reviewers /\ row.event # row.intended => row.event = "COMMENT"
  /\ c \in Readers => row.event = row.intended
RowAhead(row, pcs) == row.pc \in pcs \/ (row.pc \in {"healthy", "exhausted"} /\ row.next \in pcs)
Spares(c, row) ==
  RowAhead(row, {"gate", "send", "asleep"}) =>
    /\ c \in Reviewers => row.event \in Events
    /\ row.sent <= (IF row.event # row.intended THEN MaxAttempts ELSE 0) +
         (IF ~row.slept THEN row.tries
          ELSE IF c \in Reviewers THEN MaxAttempts ELSE MaxAttempts + row.tries)

LEMMA RowHolds ==
  ASSUME TransportInv, NEW c \in Requests
  PROVE  RowOK(c, request[c]) /\ Spares(c, request[c])
  BY RowFields DEF TransportInv, RowOK, Spares, RowAhead, Ahead, Again, LeftToSend, BoundedRequests

\* One request goes on; what is on the forge stays, and it may add to it.
LEMMA RequestWrites ==
  ASSUME TransportInv, NEW c \in Requests, NEW row, request' = [request EXCEPT ![c] = row],
         RowOK(c, row), Spares(c, row), row.pc \in {"healthy", "exhausted"} => row.next # "none",
         clock' \in Nat, blockedUntil' \in Nat, degraded' \in BOOLEAN,
         forge \subseteq forge', forge' \subseteq [id : Nat, call : Reviewers, event : Events],
         IsFiniteSet(forge'), \A r \in forge' : r \in forge \/ r.call = c,
         cut \subseteq cut', cut' \subseteq Reviewers,
         announced' \subseteq [id : Nat, state : Events],
         \A a \in announced' : a \in announced \/ Posted(a.id, a.state),
         \A r \in forge' : r.call = c /\ c \notin cut' => RowAhead(row, {"emit", "done", "failed"}),
         \A r, s \in forge' : r.call = c /\ s.call = c /\ c \notin cut' => r = s,
         RowAhead(row, {"emit"}) =>
           c \in Reviewers /\ \E r \in forge' : r.id = row.id /\ r.event = row.event
  PROVE  TransportInv'
  <1>1. /\ request'[c] = row /\ \A d \in Requests \ {c} : request'[d] = request[d]
        /\ request' \in [Requests -> Rows]
    BY DEF TransportInv, ClientTypeOK, RowOK
  <1>2. ClientTypeOK'
    BY <1>1 DEF TransportInv, ClientTypeOK
  <1>3. WrittenIsSettled'
    <2>1. ASSUME NEW r \in forge', r.call \notin cut'
          PROVE  Ahead(r.call, {"emit", "done", "failed"})'
      <3>1. r.call \in Requests
        BY DEF Requests
      <3>2. CASE r.call = c
        BY <2>1, <3>2, <1>1 DEF Ahead, RowAhead
      <3>3. CASE r.call # c
        BY <2>1, <3>1, <3>3, <1>1 DEF Ahead, TransportInv, WrittenIsSettled
      <3>. QED BY <3>2, <3>3
    <2>. QED BY <2>1 DEF WrittenIsSettled
  <1>4. EventSaysAccepted'
    <2>1. \A i, e : Posted(i, e) => Posted(i, e)'
      BY DEF Posted
    <2>2. \A a \in announced' : Posted(a.id, a.state)'
      BY <2>1 DEF TransportInv, EventSaysAccepted
    <2>3. ASSUME NEW d \in Requests, Ahead(d, {"emit"})'
          PROVE  d \in Reviewers /\ \E r \in forge' : r.id = request'[d].id /\ r.event = request'[d].event
      <3>1. CASE d = c
        BY <2>3, <3>1, <1>1 DEF Ahead, RowAhead
      <3>2. CASE d # c
        BY <2>3, <3>2, <1>1 DEF Ahead, TransportInv, EventSaysAccepted, Posted
      <3>. QED BY <3>1, <3>2
    <2>. QED BY <2>2, <2>3 DEF EventSaysAccepted, Posted
  <1>5. BoundedRequests' /\ LeftToSend'
    <2>1. ASSUME NEW d \in Requests
          PROVE  RowOK(d, request'[d]) /\ Spares(d, request'[d])
      BY <1>1, RowHolds
    <2>. QED
      BY <2>1 DEF BoundedRequests, LeftToSend, RowOK, Spares, RowAhead, Ahead, Again
  <1>6. OneReviewPerCall'
    BY DEF TransportInv, OneReviewPerCall
  <1>. QED BY <1>2, <1>3, <1>4, <1>5, <1>6 DEF TransportInv

\* It goes on, and what is on the forge stays as it is.
LEMMA RequestSteps ==
  ASSUME TransportInv, NEW c \in Requests, NEW row, request' = [request EXCEPT ![c] = row],
         RowOK(c, row), Spares(c, row), row.pc \in {"healthy", "exhausted"} => row.next # "none",
         clock' \in Nat, blockedUntil' \in Nat, degraded' \in BOOLEAN, forge' = forge, cut' = cut,
         announced' \subseteq [id : Nat, state : Events],
         \A a \in announced' : a \in announced \/ Posted(a.id, a.state),
         \A r \in forge : r.call = c /\ c \notin cut => RowAhead(row, {"emit", "done", "failed"}),
         RowAhead(row, {"emit"}) => c \in Reviewers /\ Posted(row.id, row.event)
  PROVE  TransportInv'
  <1>1. /\ forge \subseteq forge' /\ forge' \subseteq [id : Nat, call : Reviewers, event : Events]
        /\ IsFiniteSet(forge') /\ cut \subseteq cut' /\ cut' \subseteq Reviewers
        /\ \A r \in forge' : r \in forge \/ r.call = c
    BY DEF TransportInv, ClientTypeOK
  <1>2. \A r, s \in forge' : r.call = c /\ s.call = c /\ c \notin cut' => r = s
    BY DEF TransportInv, OneReviewPerCall
  <1>3. \A r \in forge' : r.call = c /\ c \notin cut' => RowAhead(row, {"emit", "done", "failed"})
    OBVIOUS
  <1>4. RowAhead(row, {"emit"}) =>
          c \in Reviewers /\ \E r \in forge' : r.id = row.id /\ r.event = row.event
    BY DEF Posted
  <1>. QED BY <1>1, <1>2, <1>3, <1>4, RequestWrites

Places == {"idle", "gate", "send", "asleep", "healthy", "exhausted", "emit", "done", "failed"}
Nexts  == {"none", "gate", "emit", "done", "failed"}

\* A row gone to another place, with what comes after a report, or with when to wake.
LEMMA RowMoves ==
  ASSUME NEW row \in Rows, NEW p \in Places, NEW n \in Nexts
  PROVE  LET new == [row EXCEPT !.pc = p, !.next = n]
         IN /\ new \in Rows /\ new.pc = p /\ new.next = n /\ new.intended = row.intended
            /\ new.event = row.event /\ new.tries = row.tries /\ new.sent = row.sent
            /\ new.slept = row.slept /\ new.id = row.id /\ new.until = row.until
  BY DEF Rows, Places, Nexts

LEMMA RowStays ==
  ASSUME NEW row \in Rows, NEW p \in Places
  PROVE  LET new == [row EXCEPT !.pc = p]
         IN /\ new \in Rows /\ new.pc = p /\ new.next = row.next /\ new.intended = row.intended
            /\ new.event = row.event /\ new.tries = row.tries /\ new.sent = row.sent
            /\ new.slept = row.slept /\ new.id = row.id /\ new.until = row.until
  BY DEF Rows, Places

\* The row of a call that has not begun.
LEMMA IdleRow ==
  /\ NoRequest \in Rows /\ NoRequest.pc = "idle" /\ NoRequest.intended = "none"
  /\ NoRequest.event = "none" /\ NoRequest.tries = 0 /\ NoRequest.sent = 0
  /\ NoRequest.slept = FALSE /\ NoRequest.next = "none" /\ NoRequest.id = 0
  <1>1. 0 \in 0..(MaxAttempts - 1)
    BY ClientAssumption
  <1>. QED BY <1>1 DEF NoRequest, Rows

\* A call that may still ask has written nothing, but under a 5xx.
LEMMA NotWritten ==
  ASSUME TransportInv, NEW c \in Requests, request[c].pc \in {"idle", "gate", "send", "asleep"}
  PROVE  \A r \in forge : ~(r.call = c /\ c \notin cut)
  BY DEF TransportInv, WrittenIsSettled, Ahead

\* What the last lemma asks of what stays as it is.
LEMMA Unannounced ==
  ASSUME TransportInv
  PROVE  /\ clock \in Nat /\ blockedUntil \in Nat /\ degraded \in BOOLEAN
         /\ announced \subseteq [id : Nat, state : Events]
         /\ MaxAttempts \in Nat /\ MaxAttempts >= 1
  BY ClientAssumption DEF TransportInv, ClientTypeOK

LEMMA SubmitReviewKeeps ==
  ASSUME TransportInv, NEW c \in Reviewers, NEW e \in Events, SubmitReview(c, e)
  PROVE  TransportInv'
  <1> DEFINE row == [NoRequest EXCEPT !.pc = "gate", !.intended = e, !.event = e]
  <1>1. /\ request[c].pc = "idle" /\ request' = [request EXCEPT ![c] = row]
        /\ UNCHANGED <<clock, blockedUntil, degraded, forge, announced, cut>>
    BY DEF SubmitReview, Doing, Step, budgetVars, reviewVars
  <1>2. c \in Requests /\ c \notin Readers
    BY ClientAssumption DEF Requests
  <1>3. /\ row \in Rows /\ row.pc = "gate" /\ row.next = "none" /\ row.intended = e /\ row.event = e
        /\ row.tries = 0 /\ row.sent = 0 /\ row.slept = FALSE
    BY IdleRow DEF Rows
  <1> HIDE DEF row
  <1>4. RowOK(c, row) /\ Spares(c, row) /\ ~RowAhead(row, {"emit"})
        /\ row.pc \notin {"healthy", "exhausted"}
    BY <1>2, <1>3, Unannounced DEF RowOK, Spares, RowAhead
  <1>5. \A r \in forge : r.call = c /\ c \notin cut => RowAhead(row, {"emit", "done", "failed"})
    BY <1>1, <1>2, NotWritten
  <1>. QED BY <1>1, <1>2, <1>4, <1>5, Unannounced, RequestSteps

LEMMA ReadKeeps ==
  ASSUME TransportInv, NEW c \in Readers, Read(c)
  PROVE  TransportInv'
  <1> DEFINE row == [NoRequest EXCEPT !.pc = "gate"]
  <1>1. /\ request[c].pc = "idle" /\ request' = [request EXCEPT ![c] = row]
        /\ UNCHANGED <<clock, blockedUntil, degraded, forge, announced, cut>>
    BY DEF Read, Doing, Step, budgetVars, reviewVars
  <1>2. c \in Requests /\ c \notin Reviewers
    BY ClientAssumption DEF Requests
  <1>3. /\ row \in Rows /\ row.pc = "gate" /\ row.next = "none" /\ row.intended = row.event
        /\ row.tries = 0 /\ row.sent = 0 /\ row.slept = FALSE
    BY IdleRow DEF Rows
  <1> HIDE DEF row
  <1>4. RowOK(c, row) /\ Spares(c, row) /\ ~RowAhead(row, {"emit"})
        /\ row.pc \notin {"healthy", "exhausted"}
    BY <1>2, <1>3, Unannounced DEF RowOK, Spares, RowAhead
  <1>5. \A r \in forge : r.call = c /\ c \notin cut => RowAhead(row, {"emit", "done", "failed"})
    BY <1>1, <1>2, NotWritten
  <1>. QED BY <1>1, <1>2, <1>4, <1>5, Unannounced, RequestSteps

LEMMA WaitIfBlockedKeeps ==
  ASSUME TransportInv, NEW c \in Requests, WaitIfBlocked(c)
  PROVE  TransportInv'
  <1>1. /\ request[c].pc = "gate"
        /\ UNCHANGED <<clock, blockedUntil, degraded, forge, announced, cut>>
    BY DEF WaitIfBlocked, Doing, budgetVars, reviewVars
  <1>2. PICK row : /\ request' = [request EXCEPT ![c] = row]
                   /\ row \in {[request[c] EXCEPT !.pc = "send"], [request[c] EXCEPT !.pc = "failed"],
                               [request[c] EXCEPT !.pc = "asleep", !.until = blockedUntil]}
    BY DEF WaitIfBlocked, Step
  <1>3. request[c] \in Rows
    BY RowFields DEF TransportInv
  <1>4. /\ row \in Rows /\ row.pc \in {"send", "failed", "asleep"} /\ row.intended = request[c].intended
        /\ row.event = request[c].event /\ row.tries = request[c].tries
        /\ row.sent = request[c].sent /\ row.slept = request[c].slept
    BY <1>2, <1>3, Unannounced DEF Rows
  <1>5. RowOK(c, row) /\ Spares(c, row) /\ ~RowAhead(row, {"emit"})
        /\ row.pc \notin {"healthy", "exhausted"}
    BY <1>1, <1>4, RowHolds DEF RowOK, Spares, RowAhead
  <1>6. \A r \in forge : r.call = c /\ c \notin cut => RowAhead(row, {"emit", "done", "failed"})
    BY <1>1, NotWritten
  <1>. QED BY <1>1, <1>2, <1>5, <1>6, Unannounced, RequestSteps

LEMMA WakeKeeps ==
  ASSUME TransportInv, NEW c \in Requests, Wake(c)
  PROVE  TransportInv'
  <1> DEFINE row == [request[c] EXCEPT !.pc = "send"]
  <1>1. /\ request[c].pc = "asleep" /\ request' = [request EXCEPT ![c] = row]
        /\ UNCHANGED <<clock, blockedUntil, degraded, forge, announced, cut>>
    BY DEF Wake, Doing, Step, budgetVars, reviewVars
  <1>2. request[c] \in Rows
    BY RowFields DEF TransportInv
  <1>3. /\ row \in Rows /\ row.pc = "send" /\ row.intended = request[c].intended
        /\ row.event = request[c].event /\ row.tries = request[c].tries
        /\ row.sent = request[c].sent /\ row.slept = request[c].slept
    BY <1>2 DEF Rows
  <1> HIDE DEF row
  <1>4. RowOK(c, row) /\ Spares(c, row) /\ ~RowAhead(row, {"emit"})
        /\ row.pc \notin {"healthy", "exhausted"}
    BY <1>1, <1>3, RowHolds DEF RowOK, Spares, RowAhead
  <1>5. \A r \in forge : r.call = c /\ c \notin cut => RowAhead(row, {"emit", "done", "failed"})
    BY <1>1, NotWritten
  <1>. QED BY <1>1, <1>4, <1>5, Unannounced, RequestSteps

\* The report of the budget leaves the request where it was to go on.
LEMMA ReportKeeps ==
  ASSUME TransportInv, NEW c \in Requests, Report(c)
  PROVE  TransportInv'
  <1> DEFINE row == [request[c] EXCEPT !.pc = request[c].next]
  <1>1. /\ request[c].pc \in {"healthy", "exhausted"} /\ request' = [request EXCEPT ![c] = row]
        /\ UNCHANGED <<clock, blockedUntil, degraded, forge, announced, cut>>
    BY DEF Report, Doing, Step, budgetVars, reviewVars
  <1>2. request[c] \in Rows /\ request[c].next \in {"gate", "emit", "done", "failed"}
    BY <1>1, RowFields DEF TransportInv, ClientTypeOK
  <1>3. /\ row \in Rows /\ row.pc = request[c].next /\ row.intended = request[c].intended
        /\ row.event = request[c].event /\ row.tries = request[c].tries /\ row.id = request[c].id
        /\ row.sent = request[c].sent /\ row.slept = request[c].slept
    BY <1>2 DEF Rows
  <1> HIDE DEF row
  <1>4. RowOK(c, row) /\ Spares(c, row) /\ row.pc \notin {"healthy", "exhausted"}
    BY <1>1, <1>2, <1>3, RowHolds DEF RowOK, Spares, RowAhead
  <1>5. RowAhead(row, {"emit"}) => c \in Reviewers /\ Posted(row.id, row.event)
    BY <1>1, <1>2, <1>3 DEF RowAhead, TransportInv, EventSaysAccepted, Ahead
  <1>6. \A r \in forge : r.call = c /\ c \notin cut => RowAhead(row, {"emit", "done", "failed"})
    BY <1>1, <1>2, <1>3 DEF RowAhead, TransportInv, WrittenIsSettled, Ahead
  <1>. QED BY <1>1, <1>4, <1>5, <1>6, Unannounced, RequestSteps

------------------------------------------------------------------------------
(* The forge answers.                                                        *)

\* A request that is sent.
LEMMA SentRow ==
  ASSUME TransportInv, NEW c \in Requests, Sendable(c)
  PROVE  /\ Sent(c) \in Rows /\ Sent(c).pc = "send" /\ Sent(c).intended = request[c].intended
         /\ Sent(c).event = request[c].event /\ Sent(c).tries = request[c].tries
         /\ Sent(c).sent = request[c].sent + 1 /\ Sent(c).slept = request[c].slept
         /\ Sent(c).id = request[c].id
         /\ request[c].pc = "send" /\ ~(c \in Reviewers /\ request[c].slept)
         /\ Sent(c).sent <= 2 * MaxAttempts
  <1>1. request[c].pc = "send" /\ ~(c \in Reviewers /\ request[c].slept)
    BY DEF Sendable, Doing
  <1>2. request[c] \in Rows /\ request[c].sent \in Nat /\ request[c].tries \in 0..(MaxAttempts - 1)
    BY RowFields DEF TransportInv
  <1>3. Sent(c) = [request[c] EXCEPT !.sent = request[c].sent + 1]
    BY DEF Sent
  <1>4. /\ Sent(c) \in Rows /\ Sent(c).pc = "send" /\ Sent(c).intended = request[c].intended
        /\ Sent(c).event = request[c].event /\ Sent(c).tries = request[c].tries
        /\ Sent(c).sent = request[c].sent + 1 /\ Sent(c).slept = request[c].slept
        /\ Sent(c).id = request[c].id
    BY <1>1, <1>2, <1>3 DEF Rows
  <1>5. Sent(c).sent <= 2 * MaxAttempts
    BY <1>1, <1>2, <1>4, RowHolds, Unannounced DEF RowOK, Spares, RowAhead, Requests
  <1>. QED BY <1>1, <1>4, <1>5

LEMMA UnsentRow ==
  ASSUME TransportInv, NEW c \in Requests, request[c].pc = "send", ~Sendable(c)
  PROVE  Sent(c) = request[c] /\ Sent(c) \in Rows
  <1>1. request[c] \in Rows
    BY RowFields DEF TransportInv
  <1>2. Sent(c) = [request[c] EXCEPT !.sent = request[c].sent]
    BY DEF Sent
  <1>. QED BY <1>1, <1>2 DEF Rows

\* The budget is recorded, and the request goes on at once or after the report.
LEMMA BudgetRow ==
  ASSUME TransportInv, NEW c \in Requests, NEW r \in Rows,
         NEW next \in {"gate", "emit", "done", "failed"}, NEW until \in Nat,
         RecordBudget(c, r, next, until)
  PROVE  /\ blockedUntil' \in Nat /\ degraded' \in BOOLEAN
         /\ \E row \in Rows :
              /\ request' = [request EXCEPT ![c] = row]
              /\ row.next = next /\ row.pc \in {"healthy", next} /\ row.intended = r.intended
              /\ row.event = r.event /\ row.tries = r.tries /\ row.sent = r.sent
              /\ row.slept = r.slept /\ row.id = r.id
  <1> DEFINE p == IF degraded THEN "healthy" ELSE next
             row == [r EXCEPT !.pc = p, !.next = next]
  <1>1. /\ blockedUntil' = IF until > clock THEN until ELSE 0
        /\ degraded' = FALSE /\ request' = [request EXCEPT ![c] = row]
    BY DEF RecordBudget, Step
  <1>2. p \in Places /\ next \in Nexts /\ p \in {"healthy", next}
    BY DEF Places, Nexts
  <1>3. /\ row \in Rows /\ row.pc = p /\ row.next = next /\ row.intended = r.intended
        /\ row.event = r.event /\ row.tries = r.tries /\ row.sent = r.sent
        /\ row.slept = r.slept /\ row.id = r.id
    <2> HIDE DEF p
    <2>. QED BY <1>2 DEF Rows, Places, Nexts
  <1> HIDE DEF row, p
  <1>. QED BY <1>1, <1>2, <1>3

\* A review is written.
LEMMA WrittenForge ==
  ASSUME TransportInv, NEW c \in Reviewers, request[c].pc = "send"
  PROVE  LET id == Cardinality(forge) + 1
             new == [id |-> id, call |-> c, event |-> request[c].event]
         IN /\ id \in Nat /\ Written(c) = forge \cup {new}
            /\ Written(c) \subseteq [id : Nat, call : Reviewers, event : Events]
            /\ IsFiniteSet(Written(c)) /\ new \in Written(c)
            /\ \A r \in Written(c) : r \in forge \/ (r = new /\ r.call = c)
  <1> DEFINE id == Cardinality(forge) + 1
             new == [id |-> id, call |-> c, event |-> request[c].event]
  <1>1. IsFiniteSet(forge) /\ forge \subseteq [id : Nat, call : Reviewers, event : Events]
    BY DEF TransportInv, ClientTypeOK
  <1>2. id \in Nat
    BY <1>1, FS_CardinalityType
  <1>3. request[c].event \in Events
    BY RowHolds DEF Spares, RowAhead, Requests
  <1>4. Written(c) = forge \cup {new}
    BY DEF Written
  <1>5. IsFiniteSet(forge \cup {new})
    BY <1>1, FS_AddElement
  <1> HIDE DEF id
  <1>6. new \in [id : Nat, call : Reviewers, event : Events] /\ new.call = c
    BY <1>2, <1>3
  <1> HIDE DEF new
  <1>. QED BY <1>1, <1>2, <1>4, <1>5, <1>6 DEF new, id

LEMMA AcceptedKeeps ==
  ASSUME TransportInv, NEW c \in Requests, NEW until \in Nat, Accepted(c, until)
  PROVE  TransportInv'
  <1> DEFINE id == Cardinality(forge) + 1
             sent == [Sent(c) EXCEPT !.id = id]
             next == IF c \in Reviewers THEN "emit" ELSE "done"
  <1>1. /\ Sendable(c) /\ RecordBudget(c, sent, next, until)
        /\ forge' = IF c \in Reviewers THEN Written(c) ELSE forge
        /\ UNCHANGED <<clock, announced, cut>>
    BY DEF Accepted
  <1>2. IsFiniteSet(forge) /\ cut \subseteq Reviewers
        /\ forge \subseteq [id : Nat, call : Reviewers, event : Events]
    BY DEF TransportInv, ClientTypeOK
  <1>3. id \in Nat
    BY <1>2, FS_CardinalityType
  <1> HIDE DEF id
  <1>4. /\ Sent(c) \in Rows /\ Sent(c).intended = request[c].intended
        /\ Sent(c).event = request[c].event /\ Sent(c).sent <= 2 * MaxAttempts
        /\ request[c].pc = "send"
    BY <1>1, SentRow
  <1>5. /\ sent \in Rows /\ sent.intended = request[c].intended /\ sent.event = request[c].event
        /\ sent.sent <= 2 * MaxAttempts /\ sent.id = id
    BY <1>3, <1>4 DEF Rows
  <1> HIDE DEF sent
  <1>6. next \in {"emit", "done"} /\ (next = "emit" <=> c \in Reviewers)
    OBVIOUS
  <1> HIDE DEF next
  <1>7. blockedUntil' \in Nat /\ degraded' \in BOOLEAN
    BY <1>1, <1>5, <1>6, BudgetRow
  <1>8. PICK row \in Rows :
          /\ request' = [request EXCEPT ![c] = row]
          /\ row.next = next /\ row.pc \in {"healthy", next} /\ row.intended = sent.intended
          /\ row.event = sent.event /\ row.sent = sent.sent /\ row.id = sent.id
    BY <1>1, <1>5, <1>6, BudgetRow
  <1>9. RowOK(c, row) /\ Spares(c, row)
        /\ (row.pc \in {"healthy", "exhausted"} => row.next # "none")
        /\ RowAhead(row, {"emit", "done", "failed"}) /\ (RowAhead(row, {"emit"}) => c \in Reviewers)
    BY <1>5, <1>6, <1>8, RowHolds DEF RowOK, Spares, RowAhead
  <1>10. \A r \in forge : ~(r.call = c /\ c \notin cut)
    BY <1>4, NotWritten
  <1>11. /\ forge \subseteq forge' /\ forge' \subseteq [id : Nat, call : Reviewers, event : Events]
         /\ IsFiniteSet(forge') /\ \A r \in forge' : r \in forge \/ r.call = c
         /\ \A r, s \in forge' : r.call = c /\ s.call = c /\ c \notin cut' => r = s
         /\ c \in Reviewers => \E r \in forge' : r.id = row.id /\ r.event = row.event
    <2>1. CASE c \in Reviewers
      <3> DEFINE new == [id |-> id, call |-> c, event |-> request[c].event]
      <3>2. /\ forge' = forge \cup {new} /\ IsFiniteSet(forge')
            /\ forge' \subseteq [id : Nat, call : Reviewers, event : Events]
            /\ \A r \in forge' : r \in forge \/ (r = new /\ r.call = c)
        BY <2>1, <1>1, <1>4, WrittenForge DEF id
      <3>3. new.id = row.id /\ new.event = row.event
        BY <1>5, <1>8
      <3>. HIDE DEF new
      <3>. QED BY <3>2, <3>3, <1>1, <1>10
    <2>2. CASE c \notin Reviewers
      BY <2>2, <1>1, <1>2, <1>10
    <2>. QED BY <2>1, <2>2
  <1>. QED
    BY <1>1, <1>2, <1>7, <1>8, <1>9, <1>11, Unannounced, RequestWrites

\* It may be written under a failure.
LEMMA MayBeWritten ==
  ASSUME TransportInv, NEW c \in Requests, request[c].pc = "send", NEW wrote \in BOOLEAN,
         wrote => c \in Reviewers, forge' = IF wrote THEN Written(c) ELSE forge
  PROVE  /\ forge \subseteq forge' /\ forge' \subseteq [id : Nat, call : Reviewers, event : Events]
         /\ IsFiniteSet(forge') /\ \A r \in forge' : r \in forge \/ r.call = c
         /\ \A r, s \in forge' : r.call = c /\ s.call = c /\ c \notin cut => r = s
         /\ ~wrote => \A r \in forge' : ~(r.call = c /\ c \notin cut)
  <1>1. IsFiniteSet(forge) /\ forge \subseteq [id : Nat, call : Reviewers, event : Events]
    BY DEF TransportInv, ClientTypeOK
  <1>2. \A r \in forge : ~(r.call = c /\ c \notin cut)
    BY NotWritten
  <1>3. CASE wrote
    <2> DEFINE new == [id |-> Cardinality(forge) + 1, call |-> c, event |-> request[c].event]
    <2>1. /\ forge' = forge \cup {new} /\ IsFiniteSet(forge')
          /\ forge' \subseteq [id : Nat, call : Reviewers, event : Events]
          /\ \A r \in forge' : r \in forge \/ (r = new /\ r.call = c)
      BY <1>3, WrittenForge
    <2>. HIDE DEF new
    <2>. QED BY <2>1, <1>2, <1>3
  <1>4. CASE ~wrote
    BY <1>1, <1>2, <1>4
  <1>. QED BY <1>3, <1>4

\* What is tried again after a refusal is a comment; anything else has failed.
LEMMA AfterRow ==
  ASSUME TransportInv, NEW c \in Requests, NEW s \in Rows, NEW by \in BOOLEAN
  PROVE  LET row == AfterFailure(c, s, by)
         IN /\ row \in Rows /\ row.intended = s.intended /\ row.sent = s.sent
            /\ \/ /\ row.pc = "failed" /\ row.event = s.event
               \/ /\ by /\ c \in Reviewers /\ s.event = "REQUEST_CHANGES" /\ row.pc = "gate"
                  /\ row.event = "COMMENT" /\ row.slept = FALSE /\ row.tries = 0
  <1> DEFINE retry == [NoRequest EXCEPT !.pc = "gate", !.intended = s.intended,
                                        !.event = "COMMENT", !.sent = s.sent]
             over  == [s EXCEPT !.pc = "failed"]
  <1>1. /\ retry \in Rows /\ retry.intended = s.intended /\ retry.sent = s.sent
        /\ retry.pc = "gate" /\ retry.event = "COMMENT" /\ retry.slept = FALSE /\ retry.tries = 0
    BY IdleRow DEF Rows, Events
  <1>2. /\ over \in Rows /\ over.intended = s.intended /\ over.sent = s.sent
        /\ over.pc = "failed" /\ over.event = s.event
    BY DEF Rows
  <1>3. \/ AfterFailure(c, s, by) = over
        \/ /\ by /\ c \in Reviewers /\ s.event = "REQUEST_CHANGES"
           /\ AfterFailure(c, s, by) = retry
    BY DEF AfterFailure, Retry
  <1> HIDE DEF retry, over
  <1>. QED BY <1>1, <1>2, <1>3

\* A failed try that is final: the request has failed, or a comment is to be tried.
LEMMA FinalRow ==
  ASSUME TransportInv, NEW c \in Requests, Sendable(c), NEW by \in BOOLEAN,
         RecordBudget(c, AfterFailure(c, Sent(c), by), AfterFailure(c, Sent(c), by).pc, 0)
  PROVE  /\ blockedUntil' \in Nat /\ degraded' \in BOOLEAN
         /\ \E row \in Rows :
              /\ request' = [request EXCEPT ![c] = row]
              /\ RowOK(c, row) /\ Spares(c, row)
              /\ row.pc \in {"healthy", "exhausted"} => row.next # "none"
              /\ ~RowAhead(row, {"emit"}) /\ (~by => RowAhead(row, {"emit", "done", "failed"}))
  <1> DEFINE r == AfterFailure(c, Sent(c), by)
  <1>1. /\ Sent(c) \in Rows /\ Sent(c).intended = request[c].intended
        /\ Sent(c).event = request[c].event /\ Sent(c).sent = request[c].sent + 1
        /\ request[c].pc = "send" /\ ~(c \in Reviewers /\ request[c].slept)
        /\ Sent(c).sent <= 2 * MaxAttempts
    BY SentRow
  <1>2. /\ r \in Rows /\ r.intended = Sent(c).intended /\ r.sent = Sent(c).sent
        /\ \/ /\ r.pc = "failed" /\ r.event = Sent(c).event
           \/ /\ by /\ c \in Reviewers /\ Sent(c).event = "REQUEST_CHANGES" /\ r.pc = "gate"
              /\ r.event = "COMMENT" /\ r.slept = FALSE /\ r.tries = 0
    BY <1>1, AfterRow
  <1>3. RecordBudget(c, r, r.pc, 0)
    OBVIOUS
  <1> HIDE DEF r
  <1>4. r.pc \in {"gate", "emit", "done", "failed"} /\ 0 \in Nat
    BY <1>2
  <1>5. blockedUntil' \in Nat /\ degraded' \in BOOLEAN
    BY <1>2, <1>3, <1>4, BudgetRow
  <1>6. PICK row \in Rows :
          /\ request' = [request EXCEPT ![c] = row]
          /\ row.next = r.pc /\ row.pc \in {"healthy", r.pc} /\ row.intended = r.intended
          /\ row.event = r.event /\ row.tries = r.tries /\ row.sent = r.sent /\ row.slept = r.slept
    BY <1>2, <1>3, <1>4, BudgetRow
  <1>7. RowOK(c, request[c]) /\ Spares(c, request[c]) /\ request[c].tries \in 0..(MaxAttempts - 1)
        /\ request[c].sent \in Nat
    BY RowHolds, RowFields DEF TransportInv
  <1>8. RowOK(c, row)
    BY <1>1, <1>2, <1>6, <1>7, ClientAssumption DEF RowOK
  <1>9. Spares(c, row)
    <2>1. CASE r.pc = "failed"
      BY <2>1, <1>6 DEF Spares, RowAhead
    <2>2. CASE r.pc = "gate"
      <3>1. request[c].event = "REQUEST_CHANGES" /\ request[c].intended = request[c].event
            /\ c \in Reviewers
        BY <2>2, <1>1, <1>2, <1>7 DEF RowOK
      <3>2. request[c].sent <= request[c].tries
        BY <1>1, <1>7, <3>1 DEF Spares, RowAhead
      <3>3. row.event = "COMMENT" /\ row.intended = "REQUEST_CHANGES" /\ row.slept = FALSE
            /\ row.tries = 0 /\ row.sent <= MaxAttempts
        BY <2>2, <3>1, <3>2, <1>1, <1>2, <1>6, <1>7, Unannounced
      <3>. QED BY <3>3, Unannounced DEF Spares, Events
    <2>. QED BY <2>1, <2>2, <1>2
  <1>10. /\ row.pc \in {"healthy", "exhausted"} => row.next # "none"
         /\ ~RowAhead(row, {"emit"}) /\ (~by => RowAhead(row, {"emit", "done", "failed"}))
    BY <1>2, <1>6 DEF RowAhead
  <1>. QED BY <1>5, <1>6, <1>8, <1>9, <1>10

LEMMA RefusedKeeps ==
  ASSUME TransportInv, NEW c \in Requests, Refused(c)
  PROVE  TransportInv'
  <1>1. /\ Sendable(c) /\ UNCHANGED <<clock, forge, announced, cut>>
        /\ RecordBudget(c, AfterFailure(c, Sent(c), TRUE), AfterFailure(c, Sent(c), TRUE).pc, 0)
    BY DEF Refused, reviewVars
  <1>2. blockedUntil' \in Nat /\ degraded' \in BOOLEAN
    BY <1>1, FinalRow
  <1>3. PICK row \in Rows :
          /\ request' = [request EXCEPT ![c] = row]
          /\ RowOK(c, row) /\ Spares(c, row)
          /\ row.pc \in {"healthy", "exhausted"} => row.next # "none"
          /\ ~RowAhead(row, {"emit"})
    BY <1>1, FinalRow
  <1>4. \A r \in forge : r.call = c /\ c \notin cut => RowAhead(row, {"emit", "done", "failed"})
    BY <1>1, NotWritten DEF Sendable, Doing
  <1>. QED BY <1>1, <1>2, <1>3, <1>4, Unannounced, RequestSteps

LEMMA ServerErrorKeeps ==
  ASSUME TransportInv, NEW c \in Requests, NEW wrote \in BOOLEAN, ServerError(c, wrote)
  PROVE  TransportInv'
  <1>1. /\ Sendable(c) /\ UNCHANGED <<clock, announced>> /\ (wrote => c \in Reviewers)
        /\ forge' = (IF wrote THEN Written(c) ELSE forge)
        /\ cut' = IF wrote THEN cut \cup {c} ELSE cut
    BY DEF ServerError
  <1>2. request[c].pc = "send"
    BY <1>1 DEF Sendable, Doing
  <1>3. /\ forge \subseteq forge' /\ forge' \subseteq [id : Nat, call : Reviewers, event : Events]
        /\ IsFiniteSet(forge') /\ \A r \in forge' : r \in forge \/ r.call = c
        /\ \A r, s \in forge' : r.call = c /\ s.call = c /\ c \notin cut => r = s
        /\ ~wrote => \A r \in forge' : ~(r.call = c /\ c \notin cut)
    BY <1>1, <1>2, MayBeWritten
  <1>4. cut \subseteq cut' /\ cut' \subseteq Reviewers /\ (wrote => c \in cut')
    BY <1>1 DEF TransportInv, ClientTypeOK
  <1>5. /\ \A r, s \in forge' : r.call = c /\ s.call = c /\ c \notin cut' => r = s
        /\ \A r \in forge' : ~(r.call = c /\ c \notin cut')
    BY <1>3, <1>4
  <1>6. blockedUntil' \in Nat /\ degraded' \in BOOLEAN
        /\ \E row \in Rows :
             /\ request' = [request EXCEPT ![c] = row]
             /\ RowOK(c, row) /\ Spares(c, row)
             /\ row.pc \in {"healthy", "exhausted"} => row.next # "none"
             /\ ~RowAhead(row, {"emit"})
    <2>1. CASE request[c].tries + 1 < MaxAttempts
      <3> DEFINE n   == request[c].tries + 1
                 row == [Sent(c) EXCEPT !.tries = n]
      <3>1. /\ Sent(c) \in Rows /\ Sent(c).pc = "send" /\ Sent(c).intended = request[c].intended
            /\ Sent(c).event = request[c].event /\ Sent(c).tries = request[c].tries
            /\ Sent(c).sent = request[c].sent + 1 /\ Sent(c).slept = request[c].slept
            /\ ~(c \in Reviewers /\ request[c].slept) /\ Sent(c).sent <= 2 * MaxAttempts
        BY <1>1, SentRow
      <3>2. RowOK(c, request[c]) /\ Spares(c, request[c])
            /\ request[c].tries \in 0..(MaxAttempts - 1) /\ request[c].sent \in Nat
        BY RowHolds, RowFields DEF TransportInv
      <3>3. n \in 0..(MaxAttempts - 1)
        BY <2>1, <3>2, Unannounced
      <3>4. /\ request' = [request EXCEPT ![c] = row] /\ UNCHANGED <<blockedUntil, degraded>>
        <4>1. Step(c, [Sent(c) EXCEPT !.tries = @ + 1]) /\ UNCHANGED budgetVars
          BY <2>1 DEF ServerError
        <4>2. [Sent(c) EXCEPT !.tries = @ + 1] = row
          BY <3>1
        <4>. QED BY <4>1, <4>2 DEF Step, budgetVars
      <3>5. /\ row \in Rows /\ row.pc = "send" /\ row.intended = request[c].intended
            /\ row.event = request[c].event /\ row.tries = n
            /\ row.sent = request[c].sent + 1 /\ row.slept = request[c].slept
        <4> HIDE DEF n
        <4>. QED BY <3>1, <3>3 DEF Rows
      <3> HIDE DEF row
      <3>6. RowOK(c, row)
        BY <3>1, <3>2, <3>5 DEF RowOK
      <3>7. Spares(c, row) /\ ~RowAhead(row, {"emit"}) /\ row.pc \notin {"healthy", "exhausted"}
        <4>1. Spares(c, row)
          BY <1>2, <3>1, <3>2, <3>5, Unannounced, ClientAssumption
          DEF Spares, RowAhead, Requests
        <4>. QED BY <4>1, <3>5 DEF RowAhead
      <3>. QED BY <3>4, <3>5, <3>6, <3>7, Unannounced
    <2>2. CASE ~(request[c].tries + 1 < MaxAttempts)
      <3>1. RecordBudget(c, AfterFailure(c, Sent(c), FALSE), AfterFailure(c, Sent(c), FALSE).pc, 0)
        BY <2>2 DEF ServerError
      <3>. QED BY <3>1, <1>1, FinalRow
    <2>. QED BY <2>1, <2>2
  <1>7. PICK row \in Rows :
          /\ request' = [request EXCEPT ![c] = row]
          /\ RowOK(c, row) /\ Spares(c, row)
          /\ row.pc \in {"healthy", "exhausted"} => row.next # "none"
          /\ ~RowAhead(row, {"emit"})
    BY <1>6
  <1>8. \A r \in forge' : r.call = c /\ c \notin cut' => RowAhead(row, {"emit", "done", "failed"})
    BY <1>5
  <1>9. clock' \in Nat /\ announced' \subseteq [id : Nat, state : Events]
        /\ \A a \in announced' : a \in announced \/ Posted(a.id, a.state)
    BY <1>1, Unannounced
  <1>. QED BY <1>3, <1>4, <1>5, <1>6, <1>7, <1>8, <1>9, RequestWrites

LEMMA NetworkErrorKeeps ==
  ASSUME TransportInv, NEW c \in Requests, NEW wrote \in BOOLEAN, NetworkError(c, wrote)
  PROVE  TransportInv'
  <1> DEFINE row == AfterFailure(c, Sent(c), FALSE)
  <1>1. /\ request[c].pc = "send" /\ (wrote => c \in Reviewers)
        /\ forge' = (IF wrote THEN Written(c) ELSE forge)
        /\ request' = [request EXCEPT ![c] = row]
        /\ UNCHANGED <<clock, blockedUntil, degraded, announced, cut>>
    BY DEF NetworkError, Doing, Step, budgetVars
  <1>2. /\ forge \subseteq forge' /\ forge' \subseteq [id : Nat, call : Reviewers, event : Events]
        /\ IsFiniteSet(forge') /\ \A r \in forge' : r \in forge \/ r.call = c
        /\ \A r, s \in forge' : r.call = c /\ s.call = c /\ c \notin cut => r = s
    BY <1>1, MayBeWritten
  <1>3. Sent(c) \in Rows /\ Sent(c).intended = request[c].intended
        /\ Sent(c).event = request[c].event /\ Sent(c).sent <= 2 * MaxAttempts
    <2>1. CASE Sendable(c)
      BY <2>1, SentRow
    <2>2. CASE ~Sendable(c)
      BY <2>2, <1>1, UnsentRow, RowHolds DEF RowOK
    <2>. QED BY <2>1, <2>2
  <1>4. row \in Rows /\ row.pc = "failed" /\ row.intended = request[c].intended
        /\ row.event = request[c].event /\ row.sent <= 2 * MaxAttempts
    <2>1. row = [Sent(c) EXCEPT !.pc = "failed"]
      BY DEF AfterFailure, Retry
    <2> HIDE DEF row
    <2>2. /\ row \in Rows /\ row.pc = "failed" /\ row.intended = Sent(c).intended
          /\ row.event = Sent(c).event /\ row.sent = Sent(c).sent
      BY <1>3, <2>1 DEF Rows
    <2>. QED BY <1>3, <2>2
  <1> HIDE DEF row
  <1>5. RowOK(c, row) /\ Spares(c, row) /\ ~RowAhead(row, {"emit"})
        /\ row.pc \notin {"healthy", "exhausted"} /\ RowAhead(row, {"emit", "done", "failed"})
    BY <1>4, RowHolds DEF RowOK, Spares, RowAhead
  <1>6. cut \subseteq cut' /\ cut' \subseteq Reviewers
        /\ \A r, s \in forge' : r.call = c /\ s.call = c /\ c \notin cut' => r = s
    BY <1>1, <1>2 DEF TransportInv, ClientTypeOK
  <1>7. clock' \in Nat /\ announced' \subseteq [id : Nat, state : Events]
        /\ blockedUntil' \in Nat /\ degraded' \in BOOLEAN
        /\ \A a \in announced' : a \in announced \/ Posted(a.id, a.state)
    BY <1>1, Unannounced
  <1>. QED BY <1>1, <1>2, <1>5, <1>6, <1>7, RequestWrites

LEMMA RateLimitedKeeps ==
  ASSUME TransportInv, NEW c \in Requests, NEW reset \in Nat, RateLimited(c, reset)
  PROVE  TransportInv'
  <1>1. Sendable(c) /\ UNCHANGED <<clock, forge, announced, cut>>
    BY DEF RateLimited, reviewVars
  <1>2. /\ Sent(c) \in Rows /\ Sent(c).intended = request[c].intended
        /\ Sent(c).event = request[c].event /\ Sent(c).tries = request[c].tries
        /\ Sent(c).sent = request[c].sent + 1 /\ Sent(c).slept = request[c].slept
        /\ request[c].pc = "send" /\ ~(c \in Reviewers /\ request[c].slept)
        /\ Sent(c).sent <= 2 * MaxAttempts
    BY <1>1, SentRow
  <1>3. RowOK(c, request[c]) /\ Spares(c, request[c])
        /\ request[c].tries \in 0..(MaxAttempts - 1) /\ request[c].sent \in Nat
    BY RowHolds, RowFields DEF TransportInv
  <1>4. blockedUntil' \in Nat /\ degraded' \in BOOLEAN
        /\ \E row \in Rows :
             /\ request' = [request EXCEPT ![c] = row]
             /\ RowOK(c, row) /\ Spares(c, row)
             /\ row.pc \in {"healthy", "exhausted"} => row.next # "none"
             /\ ~RowAhead(row, {"emit"})
    <2>1. CASE MaySleep(request[c], reset)
      <3> DEFINE row == [Sent(c) EXCEPT !.pc = "asleep", !.until = reset, !.slept = TRUE,
                                        !.tries = 0]
      <3>1. request' = [request EXCEPT ![c] = row] /\ UNCHANGED <<blockedUntil, degraded>>
        BY <2>1 DEF RateLimited, Step, budgetVars
      <3>2. 0 \in 0..(MaxAttempts - 1)
        BY Unannounced
      <3>3. /\ row \in Rows /\ row.pc = "asleep" /\ row.intended = request[c].intended
            /\ row.event = request[c].event /\ row.tries = 0 /\ row.slept = TRUE
            /\ row.sent = request[c].sent + 1
        BY <1>2, <3>2 DEF Rows
      <3>4. request[c].slept = FALSE
        BY <2>1, RowFields DEF MaySleep, TransportInv
      <3> HIDE DEF row
      <3>5. RowOK(c, row) /\ ~RowAhead(row, {"emit"}) /\ row.pc \notin {"healthy", "exhausted"}
        BY <1>2, <1>3, <3>3 DEF RowOK, RowAhead
      <3>6. Spares(c, row)
        BY <1>2, <1>3, <3>3, <3>4, Unannounced DEF Spares, RowAhead
      <3>. QED BY <3>1, <3>3, <3>5, <3>6, Unannounced
    <2>2. CASE ~MaySleep(request[c], reset)
      <3> DEFINE p   == IF degraded THEN "failed" ELSE "exhausted"
                 row == [Sent(c) EXCEPT !.pc = p, !.next = "failed"]
      <3>1. request' = [request EXCEPT ![c] = row] /\ degraded' = TRUE /\ blockedUntil' = reset
        BY <2>2 DEF RateLimited, Exhaust, Step
      <3>2. p \in {"failed", "exhausted"}
        OBVIOUS
      <3> HIDE DEF p
      <3>3. /\ row \in Rows /\ row.pc = p /\ row.intended = request[c].intended
            /\ row.event = request[c].event /\ row.next = "failed"
            /\ row.sent = request[c].sent + 1
        BY <1>2, <3>2 DEF Rows
      <3> HIDE DEF row
      <3>4. RowOK(c, row) /\ ~RowAhead(row, {"emit"}) /\ row.next # "none" /\ Spares(c, row)
        BY <1>2, <1>3, <3>2, <3>3 DEF RowOK, RowAhead, Spares
      <3>. QED BY <3>1, <3>3, <3>4
    <2>. QED BY <2>1, <2>2
  <1>5. PICK row \in Rows :
          /\ request' = [request EXCEPT ![c] = row]
          /\ RowOK(c, row) /\ Spares(c, row)
          /\ row.pc \in {"healthy", "exhausted"} => row.next # "none"
          /\ ~RowAhead(row, {"emit"})
    BY <1>4
  <1>6. \A r \in forge : r.call = c /\ c \notin cut => RowAhead(row, {"emit", "done", "failed"})
    BY <1>2, NotWritten
  <1>. QED BY <1>1, <1>4, <1>5, <1>6, Unannounced, RequestSteps

LEMMA EmitAgentReviewKeeps ==
  ASSUME TransportInv, NEW c \in Requests, EmitAgentReview(c)
  PROVE  TransportInv'
  <1> DEFINE row == [request[c] EXCEPT !.pc = "done"]
             said == [id |-> request[c].id, state |-> request[c].event]
  <1>1. /\ request[c].pc = "emit" /\ request' = [request EXCEPT ![c] = row]
        /\ announced' = announced \cup {said} \/ announced' = announced
        /\ UNCHANGED <<clock, blockedUntil, degraded, forge, cut>>
    BY DEF EmitAgentReview, ReviewState, Doing, Step, budgetVars
  <1>2. request[c] \in Rows /\ request[c].id \in Nat
    BY RowFields DEF TransportInv
  <1>3. Posted(request[c].id, request[c].event)
    BY <1>1 DEF TransportInv, EventSaysAccepted, Ahead
  <1>4. request[c].event \in Events
    BY <1>3 DEF Posted, TransportInv, ClientTypeOK
  <1>5. said \in [id : Nat, state : Events] /\ said.id = request[c].id
        /\ said.state = request[c].event
    BY <1>2, <1>4
  <1>6. /\ row \in Rows /\ row.pc = "done" /\ row.intended = request[c].intended
        /\ row.event = request[c].event /\ row.sent = request[c].sent
    BY <1>2 DEF Rows
  <1> HIDE DEF row, said
  <1>7. RowOK(c, row) /\ Spares(c, row) /\ ~RowAhead(row, {"emit"})
        /\ row.pc \notin {"healthy", "exhausted"} /\ RowAhead(row, {"emit", "done", "failed"})
    BY <1>6, RowHolds DEF RowOK, Spares, RowAhead
  <1>8. announced' \subseteq [id : Nat, state : Events]
        /\ \A a \in announced' : a \in announced \/ Posted(a.id, a.state)
    BY <1>1, <1>3, <1>5, Unannounced
  <1>. QED BY <1>1, <1>7, <1>8, Unannounced, RequestSteps

\* The transport's variables as they are, but for the clock.
LEMMA TransportStays ==
  ASSUME TransportInv, UNCHANGED <<blockedUntil, degraded, request, forge, announced, cut>>,
         clock' \in Nat
  PROVE  TransportInv'
  BY DEF TransportInv, ClientTypeOK, WrittenIsSettled, OneReviewPerCall, EventSaysAccepted,
         BoundedRequests, LeftToSend, Posted, Ahead, Again

\* The transport leaves the poller's resources alone; of the causes it changes its own.
ScopesInv == ScopesTypeOK /\ CauseMeansDenied /\ ReportsAreDue

LEMMA ScopesStay ==
  ASSUME ScopesInv, UNCHANGED healthVars,
         \/ causes' = causes \/ causes' = causes \cup {"rate-limit"}
         \/ causes' = causes \ {"rate-limit"}
  PROVE  ScopesInv'
  <1>1. ScopesTypeOK'
    BY DEF ScopesInv, ScopesTypeOK, healthVars
  <1>2. \A r \in Scopes : r \in causes' <=> r \in causes
    BY ClientAssumption
  <1>3. CauseMeansDenied'
    BY <1>2 DEF ScopesInv, CauseMeansDenied, healthVars
  <1>4. ReportsAreDue'
    BY <1>2 DEF ScopesInv, ReportsAreDue, healthVars
  <1>. QED BY <1>1, <1>3, <1>4 DEF ScopesInv

LEMMA TransportNextKeeps ==
  ASSUME TransportInv, ScopesInv, TransportNext
  PROVE  TransportInv' /\ ScopesInv'
  <1>1. ASSUME NEW c \in Reviewers, NEW e \in {"COMMENT", "REQUEST_CHANGES"}, SubmitReview(c, e)
        PROVE  TransportInv' /\ UNCHANGED healthVars /\ causes' = causes
    BY <1>1, SubmitReviewKeeps DEF Events, SubmitReview
  <1>2. ASSUME NEW c \in Readers, Read(c)
        PROVE  TransportInv' /\ UNCHANGED healthVars /\ causes' = causes
    BY <1>2, ReadKeeps DEF Read
  <1>3. ASSUME NEW c \in Requests, WaitIfBlocked(c)
        PROVE  TransportInv' /\ UNCHANGED healthVars /\ causes' = causes
    BY <1>3, WaitIfBlockedKeeps DEF WaitIfBlocked
  <1>4. ASSUME NEW c \in Requests, Wake(c)
        PROVE  TransportInv' /\ UNCHANGED healthVars /\ causes' = causes
    BY <1>4, WakeKeeps DEF Wake
  <1>5. ASSUME NEW c \in Requests, Forge(c)
        PROVE  TransportInv' /\ UNCHANGED healthVars /\ causes' = causes
    <2>1. ASSUME Refused(c)
          PROVE  TransportInv' /\ UNCHANGED healthVars /\ causes' = causes
      BY <2>1, RefusedKeeps DEF Refused
    <2>2. ASSUME NEW w \in BOOLEAN, ServerError(c, w)
          PROVE  TransportInv' /\ UNCHANGED healthVars /\ causes' = causes
      BY <2>2, ServerErrorKeeps DEF ServerError
    <2>3. ASSUME NEW w \in BOOLEAN, NetworkError(c, w)
          PROVE  TransportInv' /\ UNCHANGED healthVars /\ causes' = causes
      BY <2>3, NetworkErrorKeeps DEF NetworkError
    <2>4. ASSUME NEW t \in 0..MaxTime, Accepted(c, t)
          PROVE  TransportInv' /\ UNCHANGED healthVars /\ causes' = causes
      BY <2>4, AcceptedKeeps DEF Accepted
    <2>5. ASSUME NEW t \in 0..MaxTime, RateLimited(c, t)
          PROVE  TransportInv' /\ UNCHANGED healthVars /\ causes' = causes
      <3>1. t \in Nat
        BY ClientAssumption
      <3>2. TransportInv'
        BY <2>5, <3>1, RateLimitedKeeps
      <3>. QED BY <3>2, <2>5 DEF RateLimited
    <2>. QED BY <1>5, <2>1, <2>2, <2>3, <2>4, <2>5 DEF Forge
  <1>6. ASSUME NEW c \in Requests, Report(c)
        PROVE  TransportInv' /\ UNCHANGED healthVars
               /\ (\/ causes' = causes \cup {"rate-limit"} \/ causes' = causes \ {"rate-limit"})
    BY <1>6, ReportKeeps DEF Report
  <1>7. ASSUME NEW c \in Requests, EmitAgentReview(c)
        PROVE  TransportInv' /\ UNCHANGED healthVars /\ causes' = causes
    BY <1>7, EmitAgentReviewKeeps DEF EmitAgentReview
  <1>8. ASSUME ClockTicks
        PROVE  TransportInv' /\ UNCHANGED healthVars /\ causes' = causes
    <2>1. UNCHANGED <<blockedUntil, degraded, request, forge, announced, cut>> /\ clock' \in Nat
      BY <1>8, Unannounced DEF ClockTicks, budgetVars, reviewVars
    <2>. QED BY <2>1, <1>8, TransportStays DEF ClockTicks
  <1>9. TransportInv' /\ UNCHANGED healthVars
        /\ (\/ causes' = causes \/ causes' = causes \cup {"rate-limit"}
            \/ causes' = causes \ {"rate-limit"})
    BY <1>1, <1>2, <1>3, <1>4, <1>5, <1>6, <1>7, <1>8 DEF TransportNext
  <1>. QED BY <1>9, ScopesStay

\* The poller's steps.
LEMMA ScopesNextKeeps ==
  ASSUME TransportInv, ScopesInv, ScopesNext
  PROVE  TransportInv' /\ ScopesInv'
  <1> USE DEF ScopesInv, ScopesTypeOK, CauseMeansDenied, ReportsAreDue
  <1>1. TransportInv'
    <2>1. UNCHANGED <<clock, blockedUntil, degraded, request, forge, announced, cut>>
      BY DEF ScopesNext, ScopeDenied, ScopeReadable, Pass, ReportResource, ForgetCause,
             ForgetResources, budgetVars, reviewVars
    <2>. QED BY <2>1, TransportStays, Unannounced
  <1>2. ASSUME NEW r \in Scopes, ScopeDenied(r)
        PROVE  ScopesInv'
    <2>1. /\ noted[r] = "none" /\ passes' = passes + 1 /\ passes < MaxPasses /\ causes' = causes
          /\ refused' = refused \cup {r} /\ overtaken' = (overtaken \/ r \in forgetting)
          /\ forgetting' = forgetting /\ noted' = [noted EXCEPT ![r] = "refused"]
      BY <1>2 DEF ScopeDenied, Pass
    <2>2. ScopesTypeOK'
      BY <2>1, ClientAssumption
    <2>3. /\ noted'[r] = "refused" /\ r \in refused'
          /\ \A q \in Scopes \ {r} : noted'[q] = noted[q] /\ (q \in refused' <=> q \in refused)
      BY <2>1
    <2>4. CauseMeansDenied' /\ ReportsAreDue'
      BY <2>1, <2>3
    <2>. QED BY <2>2, <2>4
  <1>3. ASSUME NEW r \in Scopes, ScopeReadable(r)
        PROVE  ScopesInv'
    BY <1>3, ClientAssumption DEF ScopeReadable, Pass
  <1>4. ASSUME NEW r \in Scopes, ReportResource(r)
        PROVE  ScopesInv'
    BY <1>4, ClientAssumption DEF ReportResource
  <1>5. ASSUME NEW r \in Scopes, ForgetCause(r)
        PROVE  ScopesInv'
    BY <1>5, ClientAssumption DEF ForgetCause
  <1>6. ASSUME ForgetResources
        PROVE  ScopesInv'
    BY <1>6 DEF ForgetResources
  <1>. QED BY <1>1, <1>2, <1>3, <1>4, <1>5, <1>6 DEF ScopesNext

\* However the forge answers and whatever the poller finds: a call leaves one review, of the
\* kind that is announced, after a bounded number of requests, and with the poller between two
\* passes the card shows what is refused (toolSubmitReview, RoundTrip, resourceDenied).
THEOREM ForgeClientInvariant == ClientSpec => []ForgeClientInv
  <1>1. ClientInit => TransportInv /\ ScopesInv
    <2> SUFFICES ASSUME ClientInit PROVE TransportInv /\ ScopesInv
      OBVIOUS
    <2>1. ClientTypeOK
      BY IdleRow, FS_EmptySet DEF ClientInit, ClientTypeOK
    <2>2. \A c \in Requests : request[c] = NoRequest
      BY DEF ClientInit
    <2>3. BoundedRequests /\ LeftToSend
      BY <2>2, IdleRow, ClientAssumption DEF BoundedRequests, LeftToSend, Again, Ahead
    <2>4. WrittenIsSettled /\ OneReviewPerCall /\ EventSaysAccepted
      BY <2>2, IdleRow DEF ClientInit, WrittenIsSettled, OneReviewPerCall, EventSaysAccepted, Ahead
    <2>5. ScopesInv
      <3>1. 0 \in 0..MaxPasses
        BY ClientAssumption
      <3>. QED
        BY <3>1 DEF ClientInit, ScopesInv, ScopesTypeOK, CauseMeansDenied, ReportsAreDue
    <2>. QED BY <2>1, <2>3, <2>4, <2>5 DEF TransportInv
  <1>2. (TransportInv /\ ScopesInv) /\ [ClientNext]_clientVars => (TransportInv /\ ScopesInv)'
    <2> SUFFICES ASSUME TransportInv, ScopesInv, [ClientNext]_clientVars
                 PROVE  TransportInv' /\ ScopesInv'
      OBVIOUS
    <2>1. CASE TransportNext
      BY <2>1, TransportNextKeeps
    <2>2. CASE ScopesNext
      BY <2>2, ScopesNextKeeps
    <2>3. CASE UNCHANGED clientVars
      <3>1. UNCHANGED <<clock, blockedUntil, degraded, request, forge, announced, cut>>
            /\ UNCHANGED healthVars /\ causes' = causes
        BY <2>3 DEF clientVars, budgetVars, reviewVars
      <3>. QED BY <3>1, TransportStays, ScopesStay, Unannounced
    <2>. QED BY <2>1, <2>2, <2>3 DEF ClientNext
  <1>3. TransportInv /\ ScopesInv => ForgeClientInv
    BY DEF ScopesInv, ForgeClientInv
  <1>. QED BY <1>1, <1>2, <1>3, PTL DEF ClientSpec


------------------------------------------------------------------------------
(* Containers: what a run's row, its supervisor's place and its container say of each other. *)

Early     == {"image", "building", "waiting", "network", "reremove", "recreate", "connect", "restart", "create"}
Cloning   == {"clone", "seturl", "script", "record"}
Preparing == Early \cup {"start"} \cup Cloning \cup {"cleanup"}
Stations  == Preparing \cup {"none", "supervise", "unregister", "destroy", "endrow"}

RowsTyped ==
  /\ ownerOf \in [CRuns -> Owners]
  /\ runRow \in [CRuns -> {"queued", "provisioning", "running", "terminal"}]
  /\ instanceID \in [CRuns -> BOOLEAN]
  /\ box \in [CRuns -> {"none", "created", "running", "stopped", "gone"}]
  /\ origin \in [CRuns -> {"none", "token", "tokenless"}]
PlacesTyped ==
  /\ at \in [CRuns -> Stations]
  /\ inst \in [CRuns -> BOOLEAN] /\ registered \in [CRuns -> BOOLEAN]
  /\ todo \in [Owners -> SUBSET CRuns] /\ doomed \in [Owners -> CRuns \cup {NoOne}]
TroublesTyped == deaths \in Nat /\ faults \in Nat

(* A supervised run has its container; one whose container may hold the token does not run; one
   that is over is nobody's. *)
RunIsSound(r) ==
  /\ runRow[r] = "queued" => at[r] = "none" /\ ~instanceID[r] /\ box[r] = "none"
  /\ at[r] # "none" => runRow[r] \in {"provisioning", "running"}
  /\ at[r] \in Preparing => runRow[r] = "provisioning" /\ ~instanceID[r]
  /\ at[r] = "supervise" => runRow[r] = "running" /\ inst[r] /\ box[r] \in {"running", "stopped"}
  /\ runRow[r] = "running" \/ instanceID[r] \/ at[r] \in {"script", "record"} => origin[r] = "tokenless"
  /\ at[r] \in {"none", "destroy", "endrow"} => ~registered[r]
  /\ at[r] \in Early => box[r] = "none"
  /\ at[r] = "start" => box[r] = "created"
  /\ at[r] \in Cloning => box[r] = "running"
  /\ at[r] = "record" => inst[r]

(* As long as the daemon answers and the process lives, a run leaves only with its container
   gone. *)
LeavesClean(r) ==
  deaths = 0 /\ faults = 0 =>
    /\ at[r] = "none" => runRow[r] \in {"queued", "terminal"}
    /\ at[r] = "unregister" /\ ~inst[r] => ~Present(r)
    /\ at[r] = "endrow" \/ runRow[r] = "terminal" => ~Present(r)

(* What a sweep has decided to remove stays over. *)
SweepsAreSound ==
  \A o \in Owners : /\ \A r \in todo[o] : ownerOf[r] = o
                    /\ doomed[o] # NoOne => runRow[doomed[o]] = "terminal"

(* The relay's maker knows how far it is. *)
RelayIsSound ==
  /\ legs \in BOOLEAN /\ relayUp \in BOOLEAN
  /\ relay = NoOne => ~legs /\ ~relayUp
  /\ relayUp => legs
  /\ relay \in CRuns /\ at[relay] = "connect" => ~legs /\ ~relayUp
  /\ relay \in CRuns /\ at[relay] = "restart" => legs /\ ~relayUp

ContainersTracked ==
  /\ RowsTyped /\ PlacesTyped /\ TroublesTyped
  /\ \A r \in CRuns : RunIsSound(r) /\ LeavesClean(r)
  /\ SweepsAreSound /\ RelayIsSound

Same(q) ==
  /\ runRow'[q] = runRow[q] /\ instanceID'[q] = instanceID[q] /\ box'[q] = box[q] /\ origin'[q] = origin[q]
  /\ at'[q] = at[q] /\ inst'[q] = inst[q] /\ registered'[q] = registered[q]

Troubles == TroublesTyped' /\ deaths <= deaths' /\ faults <= faults'

USE DEF processVars, runRowVars, daemonVars, relayVars, sweepVars, faultVars

LEMMA OthersAreSound ==
  ASSUME TroublesTyped, Troubles, NEW q \in CRuns, RunIsSound(q), LeavesClean(q), Same(q)
  PROVE  RunIsSound(q)' /\ LeavesClean(q)'
  <1>1. RunIsSound(q)'
    BY DEF RunIsSound, Same
  <1>2. deaths' = 0 /\ faults' = 0 => deaths = 0 /\ faults = 0
    BY DEF TroublesTyped, Troubles
  <1>3. LeavesClean(q)'
    BY <1>2 DEF LeavesClean, Same, Present
  <1>. QED BY <1>1, <1>3

(* A step of one run; sweeps and other runs wait. *)
LEMMA OneRunSteps ==
  ASSUME ContainersTracked, NEW r \in CRuns, \A q \in CRuns : q # r => Same(q),
         RowsTyped', PlacesTyped', Troubles, RunIsSound(r)', LeavesClean(r)', RelayIsSound',
         UNCHANGED <<ownerOf, todo, doomed>>, runRow[r] = "terminal" => runRow'[r] = "terminal"
  PROVE  ContainersTracked'
  <1>1. \A q \in CRuns : RunIsSound(q)' /\ LeavesClean(q)'
    BY OthersAreSound DEF ContainersTracked
  <1>2. \A q \in CRuns : runRow[q] = "terminal" => runRow'[q] = "terminal"
    BY DEF Same
  <1>3. \A o \in Owners : doomed[o] # NoOne => doomed[o] \in CRuns
    BY DEF ContainersTracked, PlacesTyped
  <1>4. SweepsAreSound'
    BY <1>2, <1>3 DEF ContainersTracked, SweepsAreSound
  <1>. QED BY <1>1, <1>4 DEF ContainersTracked, Troubles

LEMMA BeginProvisionSound ==
  ASSUME ContainersTracked, NEW r \in CRuns, BeginProvision(r)
  PROVE  ContainersTracked'
  <1>1. RowsTyped /\ PlacesTyped /\ TroublesTyped /\ RunIsSound(r) /\ LeavesClean(r) /\ RelayIsSound
    BY DEF ContainersTracked
  <1>2. /\ Goes(r, at'[r]) \/ UNCHANGED at
        /\ \A q \in CRuns : q # r => Same(q)
    BY <1>1 DEF BeginProvision, Same, Goes, Becomes, PlacesTyped, RowsTyped
  <1>3. RowsTyped'
    BY <1>1 DEF BeginProvision, Becomes, RowsTyped
  <1>4. PlacesTyped'
    BY <1>1 DEF BeginProvision, Goes, PlacesTyped, Stations, Preparing, Early, Cloning
  <1>5. Troubles
    BY <1>1 DEF BeginProvision, Troubles, TroublesTyped, Fault
  <1>6. RunIsSound(r)'
    BY <1>1 DEF BeginProvision, Goes, Becomes, RowsTyped, PlacesTyped, RunIsSound, Present, Reattachable, Preparing, Early, Cloning
  <1>7. LeavesClean(r)'
    BY <1>1 DEF BeginProvision, Goes, Becomes, Fault, TroublesTyped, RowsTyped, PlacesTyped, RunIsSound, LeavesClean, Present,
       Reattachable, Preparing, Early, Cloning
  <1>8. RelayIsSound'
    BY <1>1, ContainersAssumption DEF BeginProvision, Goes, PlacesTyped, RelayIsSound
  <1>9. UNCHANGED <<ownerOf, todo, doomed>> /\ (runRow[r] = "terminal" => runRow'[r] = "terminal")
    BY <1>1 DEF BeginProvision, RunIsSound, RowsTyped, Preparing, Early, Cloning
  <1>. QED BY <1>1, <1>2, <1>3, <1>4, <1>5, <1>6, <1>7, <1>8, <1>9, OneRunSteps

LEMMA StepFailsSound ==
  ASSUME ContainersTracked, NEW r \in CRuns, StepFails(r)
  PROVE  ContainersTracked'
  <1>1. RowsTyped /\ PlacesTyped /\ TroublesTyped /\ RunIsSound(r) /\ LeavesClean(r) /\ RelayIsSound
    BY DEF ContainersTracked
  <1>2. /\ Goes(r, at'[r]) \/ UNCHANGED at
        /\ \A q \in CRuns : q # r => Same(q)
    BY <1>1 DEF StepFails, Same, Goes, Becomes, PlacesTyped, RowsTyped
  <1>3. RowsTyped'
    BY <1>1 DEF StepFails, Becomes, RowsTyped
  <1>4. PlacesTyped'
    BY <1>1 DEF StepFails, Goes, PlacesTyped, Stations, Preparing, Early, Cloning
  <1>5. Troubles
    BY <1>1 DEF StepFails, Troubles, TroublesTyped, Fault
  <1>6. RunIsSound(r)'
    BY <1>1 DEF StepFails, Goes, Becomes, RowsTyped, PlacesTyped, RunIsSound, Present, Reattachable, Preparing, Early, Cloning
  <1>7. LeavesClean(r)'
    BY <1>1 DEF StepFails, Goes, Becomes, Fault, TroublesTyped, RowsTyped, PlacesTyped, RunIsSound, LeavesClean, Present,
       Reattachable, Preparing, Early, Cloning
  <1>8. RelayIsSound'
    BY <1>1, ContainersAssumption DEF StepFails, Goes, PlacesTyped, RelayIsSound
  <1>9. UNCHANGED <<ownerOf, todo, doomed>> /\ (runRow[r] = "terminal" => runRow'[r] = "terminal")
    BY <1>1 DEF StepFails, RunIsSound, RowsTyped, Preparing, Early, Cloning
  <1>. QED BY <1>1, <1>2, <1>3, <1>4, <1>5, <1>6, <1>7, <1>8, <1>9, OneRunSteps

LEMMA EnsureImageSound ==
  ASSUME ContainersTracked, NEW r \in CRuns, EnsureImage(r)
  PROVE  ContainersTracked'
  <1>1. RowsTyped /\ PlacesTyped /\ TroublesTyped /\ RunIsSound(r) /\ LeavesClean(r) /\ RelayIsSound
    BY DEF ContainersTracked
  <1>2. /\ Goes(r, at'[r]) \/ UNCHANGED at
        /\ \A q \in CRuns : q # r => Same(q)
    BY <1>1 DEF EnsureImage, Same, Goes, Becomes, PlacesTyped, RowsTyped
  <1>3. RowsTyped'
    BY <1>1 DEF EnsureImage, Becomes, RowsTyped
  <1>4. PlacesTyped'
    BY <1>1 DEF EnsureImage, Goes, PlacesTyped, Stations, Preparing, Early, Cloning
  <1>5. Troubles
    BY <1>1 DEF EnsureImage, Troubles, TroublesTyped, Fault
  <1>6. RunIsSound(r)'
    BY <1>1 DEF EnsureImage, Goes, Becomes, RowsTyped, PlacesTyped, RunIsSound, Present, Reattachable, Preparing, Early, Cloning
  <1>7. LeavesClean(r)'
    BY <1>1 DEF EnsureImage, Goes, Becomes, Fault, TroublesTyped, RowsTyped, PlacesTyped, RunIsSound, LeavesClean, Present,
       Reattachable, Preparing, Early, Cloning
  <1>8. RelayIsSound'
    BY <1>1, ContainersAssumption DEF EnsureImage, Goes, PlacesTyped, RelayIsSound
  <1>9. UNCHANGED <<ownerOf, todo, doomed>> /\ (runRow[r] = "terminal" => runRow'[r] = "terminal")
    BY <1>1 DEF EnsureImage, RunIsSound, RowsTyped, Preparing, Early, Cloning
  <1>. QED BY <1>1, <1>2, <1>3, <1>4, <1>5, <1>6, <1>7, <1>8, <1>9, OneRunSteps

LEMMA PrepareNetworkSound ==
  ASSUME ContainersTracked, NEW r \in CRuns, PrepareNetwork(r)
  PROVE  ContainersTracked'
  <1>1. RowsTyped /\ PlacesTyped /\ TroublesTyped /\ RunIsSound(r) /\ LeavesClean(r) /\ RelayIsSound
    BY DEF ContainersTracked
  <1>2. /\ Goes(r, at'[r]) \/ UNCHANGED at
        /\ \A q \in CRuns : q # r => Same(q)
    BY <1>1 DEF PrepareNetwork, Same, Goes, Becomes, PlacesTyped, RowsTyped
  <1>3. RowsTyped'
    BY <1>1 DEF PrepareNetwork, Becomes, RowsTyped
  <1>4. PlacesTyped'
    BY <1>1 DEF PrepareNetwork, Goes, PlacesTyped, Stations, Preparing, Early, Cloning
  <1>5. Troubles
    BY <1>1 DEF PrepareNetwork, Troubles, TroublesTyped, Fault
  <1>6. RunIsSound(r)'
    BY <1>1 DEF PrepareNetwork, Goes, Becomes, RowsTyped, PlacesTyped, RunIsSound, Present, Reattachable, Preparing, Early, Cloning
  <1>7. LeavesClean(r)'
    BY <1>1 DEF PrepareNetwork, Goes, Becomes, Fault, TroublesTyped, RowsTyped, PlacesTyped, RunIsSound, LeavesClean, Present,
       Reattachable, Preparing, Early, Cloning
  <1>8. RelayIsSound'
    BY <1>1, ContainersAssumption DEF PrepareNetwork, Goes, PlacesTyped, RelayIsSound
  <1>9. UNCHANGED <<ownerOf, todo, doomed>> /\ (runRow[r] = "terminal" => runRow'[r] = "terminal")
    BY <1>1 DEF PrepareNetwork, RunIsSound, RowsTyped, Preparing, Early, Cloning
  <1>. QED BY <1>1, <1>2, <1>3, <1>4, <1>5, <1>6, <1>7, <1>8, <1>9, OneRunSteps

LEMMA RemoveRelaySound ==
  ASSUME ContainersTracked, NEW r \in CRuns, RemoveRelay(r)
  PROVE  ContainersTracked'
  <1>1. RowsTyped /\ PlacesTyped /\ TroublesTyped /\ RunIsSound(r) /\ LeavesClean(r) /\ RelayIsSound
    BY DEF ContainersTracked
  <1>2. /\ Goes(r, at'[r]) \/ UNCHANGED at
        /\ \A q \in CRuns : q # r => Same(q)
    BY <1>1 DEF RemoveRelay, Same, Goes, Becomes, PlacesTyped, RowsTyped
  <1>3. RowsTyped'
    BY <1>1 DEF RemoveRelay, Becomes, RowsTyped
  <1>4. PlacesTyped'
    BY <1>1 DEF RemoveRelay, Goes, PlacesTyped, Stations, Preparing, Early, Cloning
  <1>5. Troubles
    BY <1>1 DEF RemoveRelay, Troubles, TroublesTyped, Fault
  <1>6. RunIsSound(r)'
    BY <1>1 DEF RemoveRelay, Goes, Becomes, RowsTyped, PlacesTyped, RunIsSound, Present, Reattachable, Preparing, Early, Cloning
  <1>7. LeavesClean(r)'
    BY <1>1 DEF RemoveRelay, Goes, Becomes, Fault, TroublesTyped, RowsTyped, PlacesTyped, RunIsSound, LeavesClean, Present,
       Reattachable, Preparing, Early, Cloning
  <1>8. RelayIsSound'
    BY <1>1, ContainersAssumption DEF RemoveRelay, Goes, PlacesTyped, RelayIsSound
  <1>9. UNCHANGED <<ownerOf, todo, doomed>> /\ (runRow[r] = "terminal" => runRow'[r] = "terminal")
    BY <1>1 DEF RemoveRelay, RunIsSound, RowsTyped, Preparing, Early, Cloning
  <1>. QED BY <1>1, <1>2, <1>3, <1>4, <1>5, <1>6, <1>7, <1>8, <1>9, OneRunSteps

LEMMA CreateRelaySound ==
  ASSUME ContainersTracked, NEW r \in CRuns, CreateRelay(r)
  PROVE  ContainersTracked'
  <1>1. RowsTyped /\ PlacesTyped /\ TroublesTyped /\ RunIsSound(r) /\ LeavesClean(r) /\ RelayIsSound
    BY DEF ContainersTracked
  <1>2. /\ Goes(r, at'[r]) \/ UNCHANGED at
        /\ \A q \in CRuns : q # r => Same(q)
    BY <1>1 DEF CreateRelay, Same, Goes, Becomes, PlacesTyped, RowsTyped
  <1>3. RowsTyped'
    BY <1>1 DEF CreateRelay, Becomes, RowsTyped
  <1>4. PlacesTyped'
    BY <1>1 DEF CreateRelay, Goes, PlacesTyped, Stations, Preparing, Early, Cloning
  <1>5. Troubles
    BY <1>1 DEF CreateRelay, Troubles, TroublesTyped, Fault
  <1>6. RunIsSound(r)'
    BY <1>1 DEF CreateRelay, Goes, Becomes, RowsTyped, PlacesTyped, RunIsSound, Present, Reattachable, Preparing, Early, Cloning
  <1>7. LeavesClean(r)'
    BY <1>1 DEF CreateRelay, Goes, Becomes, Fault, TroublesTyped, RowsTyped, PlacesTyped, RunIsSound, LeavesClean, Present,
       Reattachable, Preparing, Early, Cloning
  <1>8. RelayIsSound'
    BY <1>1, ContainersAssumption DEF CreateRelay, Goes, PlacesTyped, RelayIsSound
  <1>9. UNCHANGED <<ownerOf, todo, doomed>> /\ (runRow[r] = "terminal" => runRow'[r] = "terminal")
    BY <1>1 DEF CreateRelay, RunIsSound, RowsTyped, Preparing, Early, Cloning
  <1>. QED BY <1>1, <1>2, <1>3, <1>4, <1>5, <1>6, <1>7, <1>8, <1>9, OneRunSteps

LEMMA ConnectRelaySound ==
  ASSUME ContainersTracked, NEW r \in CRuns, ConnectRelay(r)
  PROVE  ContainersTracked'
  <1>1. RowsTyped /\ PlacesTyped /\ TroublesTyped /\ RunIsSound(r) /\ LeavesClean(r) /\ RelayIsSound
    BY DEF ContainersTracked
  <1>2. /\ Goes(r, at'[r]) \/ UNCHANGED at
        /\ \A q \in CRuns : q # r => Same(q)
    BY <1>1 DEF ConnectRelay, Same, Goes, Becomes, PlacesTyped, RowsTyped
  <1>3. RowsTyped'
    BY <1>1 DEF ConnectRelay, Becomes, RowsTyped
  <1>4. PlacesTyped'
    BY <1>1 DEF ConnectRelay, Goes, PlacesTyped, Stations, Preparing, Early, Cloning
  <1>5. Troubles
    BY <1>1 DEF ConnectRelay, Troubles, TroublesTyped, Fault
  <1>6. RunIsSound(r)'
    BY <1>1 DEF ConnectRelay, Goes, Becomes, RowsTyped, PlacesTyped, RunIsSound, Present, Reattachable, Preparing, Early, Cloning
  <1>7. LeavesClean(r)'
    BY <1>1 DEF ConnectRelay, Goes, Becomes, Fault, TroublesTyped, RowsTyped, PlacesTyped, RunIsSound, LeavesClean, Present,
       Reattachable, Preparing, Early, Cloning
  <1>8. RelayIsSound'
    <2>1. /\ at'[r] \in {"restart", "create", "unregister"} /\ (relay # r => relay' = relay /\ legs' = legs /\ relayUp' = relayUp)
          /\ \A q \in CRuns : q # r => at'[q] = at[q]
      BY <1>1 DEF ConnectRelay, Goes, PlacesTyped
    <2>2. CASE relay # r
      BY <1>1, <2>1, <2>2 DEF RelayIsSound
    <2>3. CASE relay = r
      <3>1. legs = FALSE /\ relayUp = FALSE
        BY <1>1, <2>3 DEF ConnectRelay, RelayIsSound
      <3>2. relayUp' = FALSE /\ \/ relay' = r /\ legs' = TRUE /\ at'[r] = "restart"
                                \/ relay' = NoOne /\ legs' = FALSE
        BY <1>1, <2>3, <3>1 DEF ConnectRelay, Goes, PlacesTyped
      <3>. QED BY <3>2, ContainersAssumption DEF RelayIsSound
    <2>. QED BY <2>2, <2>3
  <1>9. UNCHANGED <<ownerOf, todo, doomed>> /\ (runRow[r] = "terminal" => runRow'[r] = "terminal")
    BY <1>1 DEF ConnectRelay, RunIsSound, RowsTyped, Preparing, Early, Cloning
  <1>. QED BY <1>1, <1>2, <1>3, <1>4, <1>5, <1>6, <1>7, <1>8, <1>9, OneRunSteps

LEMMA StartRelaySound ==
  ASSUME ContainersTracked, NEW r \in CRuns, StartRelay(r)
  PROVE  ContainersTracked'
  <1>1. RowsTyped /\ PlacesTyped /\ TroublesTyped /\ RunIsSound(r) /\ LeavesClean(r) /\ RelayIsSound
    BY DEF ContainersTracked
  <1>2. /\ Goes(r, at'[r]) \/ UNCHANGED at
        /\ \A q \in CRuns : q # r => Same(q)
    BY <1>1 DEF StartRelay, Same, Goes, Becomes, PlacesTyped, RowsTyped
  <1>3. RowsTyped'
    BY <1>1 DEF StartRelay, Becomes, RowsTyped
  <1>4. PlacesTyped'
    BY <1>1 DEF StartRelay, Goes, PlacesTyped, Stations, Preparing, Early, Cloning
  <1>5. Troubles
    BY <1>1 DEF StartRelay, Troubles, TroublesTyped, Fault
  <1>6. RunIsSound(r)'
    BY <1>1 DEF StartRelay, Goes, Becomes, RowsTyped, PlacesTyped, RunIsSound, Present, Reattachable, Preparing, Early, Cloning
  <1>7. LeavesClean(r)'
    BY <1>1 DEF StartRelay, Goes, Becomes, Fault, TroublesTyped, RowsTyped, PlacesTyped, RunIsSound, LeavesClean, Present,
       Reattachable, Preparing, Early, Cloning
  <1>8. RelayIsSound'
    <2>1. /\ at'[r] \in {"restart", "create", "unregister"} /\ (relay # r => relay' = relay /\ legs' = legs /\ relayUp' = relayUp)
          /\ \A q \in CRuns : q # r => at'[q] = at[q]
      BY <1>1 DEF StartRelay, Goes, PlacesTyped
    <2>2. CASE relay # r
      BY <1>1, <2>1, <2>2 DEF RelayIsSound
    <2>3. CASE relay = r
      <3>1. legs = TRUE /\ relayUp = FALSE
        BY <1>1, <2>3 DEF StartRelay, RelayIsSound
      <3>2. \/ relay' = r /\ legs' = TRUE /\ relayUp' = TRUE /\ at'[r] = "create"
            \/ relay' = NoOne /\ legs' = FALSE /\ relayUp' = FALSE
        BY <1>1, <2>3, <3>1 DEF StartRelay, Goes, PlacesTyped
      <3>. QED BY <3>2, ContainersAssumption DEF RelayIsSound
    <2>. QED BY <2>2, <2>3
  <1>9. UNCHANGED <<ownerOf, todo, doomed>> /\ (runRow[r] = "terminal" => runRow'[r] = "terminal")
    BY <1>1 DEF StartRelay, RunIsSound, RowsTyped, Preparing, Early, Cloning
  <1>. QED BY <1>1, <1>2, <1>3, <1>4, <1>5, <1>6, <1>7, <1>8, <1>9, OneRunSteps

LEMMA CreateContainerSound ==
  ASSUME ContainersTracked, NEW r \in CRuns, CreateContainer(r)
  PROVE  ContainersTracked'
  <1>1. RowsTyped /\ PlacesTyped /\ TroublesTyped /\ RunIsSound(r) /\ LeavesClean(r) /\ RelayIsSound
    BY DEF ContainersTracked
  <1>2. /\ Goes(r, at'[r]) \/ UNCHANGED at
        /\ \A q \in CRuns : q # r => Same(q)
    BY <1>1 DEF CreateContainer, Same, Goes, Becomes, PlacesTyped, RowsTyped
  <1>3. RowsTyped'
    BY <1>1 DEF CreateContainer, Becomes, RowsTyped
  <1>4. PlacesTyped'
    BY <1>1 DEF CreateContainer, Goes, PlacesTyped, Stations, Preparing, Early, Cloning
  <1>5. Troubles
    BY <1>1 DEF CreateContainer, Troubles, TroublesTyped, Fault
  <1>6. RunIsSound(r)'
    BY <1>1 DEF CreateContainer, Goes, Becomes, RowsTyped, PlacesTyped, RunIsSound, Present, Reattachable, Preparing, Early, Cloning
  <1>7. LeavesClean(r)'
    BY <1>1 DEF CreateContainer, Goes, Becomes, Fault, TroublesTyped, RowsTyped, PlacesTyped, RunIsSound, LeavesClean, Present,
       Reattachable, Preparing, Early, Cloning
  <1>8. RelayIsSound'
    BY <1>1, ContainersAssumption DEF CreateContainer, Goes, PlacesTyped, RelayIsSound
  <1>9. UNCHANGED <<ownerOf, todo, doomed>> /\ (runRow[r] = "terminal" => runRow'[r] = "terminal")
    BY <1>1 DEF CreateContainer, RunIsSound, RowsTyped, Preparing, Early, Cloning
  <1>. QED BY <1>1, <1>2, <1>3, <1>4, <1>5, <1>6, <1>7, <1>8, <1>9, OneRunSteps

LEMMA StartContainerSound ==
  ASSUME ContainersTracked, NEW r \in CRuns, StartContainer(r)
  PROVE  ContainersTracked'
  <1>1. RowsTyped /\ PlacesTyped /\ TroublesTyped /\ RunIsSound(r) /\ LeavesClean(r) /\ RelayIsSound
    BY DEF ContainersTracked
  <1>2. /\ Goes(r, at'[r]) \/ UNCHANGED at
        /\ \A q \in CRuns : q # r => Same(q)
    BY <1>1 DEF StartContainer, Same, Goes, Becomes, PlacesTyped, RowsTyped
  <1>3. RowsTyped'
    BY <1>1 DEF StartContainer, Becomes, RowsTyped
  <1>4. PlacesTyped'
    BY <1>1 DEF StartContainer, Goes, PlacesTyped, Stations, Preparing, Early, Cloning
  <1>5. Troubles
    BY <1>1 DEF StartContainer, Troubles, TroublesTyped, Fault
  <1>6. RunIsSound(r)'
    BY <1>1 DEF StartContainer, Goes, Becomes, RowsTyped, PlacesTyped, RunIsSound, Present, Reattachable, Preparing, Early, Cloning
  <1>7. LeavesClean(r)'
    BY <1>1 DEF StartContainer, Goes, Becomes, Fault, TroublesTyped, RowsTyped, PlacesTyped, RunIsSound, LeavesClean, Present,
       Reattachable, Preparing, Early, Cloning
  <1>8. RelayIsSound'
    BY <1>1, ContainersAssumption DEF StartContainer, Goes, PlacesTyped, RelayIsSound
  <1>9. UNCHANGED <<ownerOf, todo, doomed>> /\ (runRow[r] = "terminal" => runRow'[r] = "terminal")
    BY <1>1 DEF StartContainer, RunIsSound, RowsTyped, Preparing, Early, Cloning
  <1>. QED BY <1>1, <1>2, <1>3, <1>4, <1>5, <1>6, <1>7, <1>8, <1>9, OneRunSteps

LEMMA CloneFetchSound ==
  ASSUME ContainersTracked, NEW r \in CRuns, CloneFetch(r)
  PROVE  ContainersTracked'
  <1>1. RowsTyped /\ PlacesTyped /\ TroublesTyped /\ RunIsSound(r) /\ LeavesClean(r) /\ RelayIsSound
    BY DEF ContainersTracked
  <1>2. /\ Goes(r, at'[r]) \/ UNCHANGED at
        /\ \A q \in CRuns : q # r => Same(q)
    BY <1>1 DEF CloneFetch, Same, Goes, Becomes, PlacesTyped, RowsTyped
  <1>3. RowsTyped'
    BY <1>1 DEF CloneFetch, Becomes, RowsTyped
  <1>4. PlacesTyped'
    BY <1>1 DEF CloneFetch, Goes, PlacesTyped, Stations, Preparing, Early, Cloning
  <1>5. Troubles
    BY <1>1 DEF CloneFetch, Troubles, TroublesTyped, Fault
  <1>6. RunIsSound(r)'
    BY <1>1 DEF CloneFetch, Goes, Becomes, RowsTyped, PlacesTyped, RunIsSound, Present, Reattachable, Preparing, Early, Cloning
  <1>7. LeavesClean(r)'
    BY <1>1 DEF CloneFetch, Goes, Becomes, Fault, TroublesTyped, RowsTyped, PlacesTyped, RunIsSound, LeavesClean, Present,
       Reattachable, Preparing, Early, Cloning
  <1>8. RelayIsSound'
    BY <1>1, ContainersAssumption DEF CloneFetch, Goes, PlacesTyped, RelayIsSound
  <1>9. UNCHANGED <<ownerOf, todo, doomed>> /\ (runRow[r] = "terminal" => runRow'[r] = "terminal")
    BY <1>1 DEF CloneFetch, RunIsSound, RowsTyped, Preparing, Early, Cloning
  <1>. QED BY <1>1, <1>2, <1>3, <1>4, <1>5, <1>6, <1>7, <1>8, <1>9, OneRunSteps

LEMMA CloneSetURLSound ==
  ASSUME ContainersTracked, NEW r \in CRuns, CloneSetURL(r)
  PROVE  ContainersTracked'
  <1>1. RowsTyped /\ PlacesTyped /\ TroublesTyped /\ RunIsSound(r) /\ LeavesClean(r) /\ RelayIsSound
    BY DEF ContainersTracked
  <1>2. /\ Goes(r, at'[r]) \/ UNCHANGED at
        /\ \A q \in CRuns : q # r => Same(q)
    BY <1>1 DEF CloneSetURL, Same, Goes, Becomes, PlacesTyped, RowsTyped
  <1>3. RowsTyped'
    BY <1>1 DEF CloneSetURL, Becomes, RowsTyped
  <1>4. PlacesTyped'
    BY <1>1 DEF CloneSetURL, Goes, PlacesTyped, Stations, Preparing, Early, Cloning
  <1>5. Troubles
    BY <1>1 DEF CloneSetURL, Troubles, TroublesTyped, Fault
  <1>6. RunIsSound(r)'
    BY <1>1 DEF CloneSetURL, Goes, Becomes, RowsTyped, PlacesTyped, RunIsSound, Present, Reattachable, Preparing, Early, Cloning
  <1>7. LeavesClean(r)'
    BY <1>1 DEF CloneSetURL, Goes, Becomes, Fault, TroublesTyped, RowsTyped, PlacesTyped, RunIsSound, LeavesClean, Present,
       Reattachable, Preparing, Early, Cloning
  <1>8. RelayIsSound'
    BY <1>1, ContainersAssumption DEF CloneSetURL, Goes, PlacesTyped, RelayIsSound
  <1>9. UNCHANGED <<ownerOf, todo, doomed>> /\ (runRow[r] = "terminal" => runRow'[r] = "terminal")
    BY <1>1 DEF CloneSetURL, RunIsSound, RowsTyped, Preparing, Early, Cloning
  <1>. QED BY <1>1, <1>2, <1>3, <1>4, <1>5, <1>6, <1>7, <1>8, <1>9, OneRunSteps

LEMMA RunSetupScriptSound ==
  ASSUME ContainersTracked, NEW r \in CRuns, RunSetupScript(r)
  PROVE  ContainersTracked'
  <1>1. RowsTyped /\ PlacesTyped /\ TroublesTyped /\ RunIsSound(r) /\ LeavesClean(r) /\ RelayIsSound
    BY DEF ContainersTracked
  <1>2. /\ Goes(r, at'[r]) \/ UNCHANGED at
        /\ \A q \in CRuns : q # r => Same(q)
    BY <1>1 DEF RunSetupScript, Same, Goes, Becomes, PlacesTyped, RowsTyped
  <1>3. RowsTyped'
    BY <1>1 DEF RunSetupScript, Becomes, RowsTyped
  <1>4. PlacesTyped'
    BY <1>1 DEF RunSetupScript, Goes, PlacesTyped, Stations, Preparing, Early, Cloning
  <1>5. Troubles
    BY <1>1 DEF RunSetupScript, Troubles, TroublesTyped, Fault
  <1>6. RunIsSound(r)'
    BY <1>1 DEF RunSetupScript, Goes, Becomes, RowsTyped, PlacesTyped, RunIsSound, Present, Reattachable, Preparing, Early, Cloning
  <1>7. LeavesClean(r)'
    BY <1>1 DEF RunSetupScript, Goes, Becomes, Fault, TroublesTyped, RowsTyped, PlacesTyped, RunIsSound, LeavesClean, Present,
       Reattachable, Preparing, Early, Cloning
  <1>8. RelayIsSound'
    BY <1>1, ContainersAssumption DEF RunSetupScript, Goes, PlacesTyped, RelayIsSound
  <1>9. UNCHANGED <<ownerOf, todo, doomed>> /\ (runRow[r] = "terminal" => runRow'[r] = "terminal")
    BY <1>1 DEF RunSetupScript, RunIsSound, RowsTyped, Preparing, Early, Cloning
  <1>. QED BY <1>1, <1>2, <1>3, <1>4, <1>5, <1>6, <1>7, <1>8, <1>9, OneRunSteps

LEMMA DestroyAfterFailureSound ==
  ASSUME ContainersTracked, NEW r \in CRuns, DestroyAfterFailure(r)
  PROVE  ContainersTracked'
  <1>1. RowsTyped /\ PlacesTyped /\ TroublesTyped /\ RunIsSound(r) /\ LeavesClean(r) /\ RelayIsSound
    BY DEF ContainersTracked
  <1>2. /\ Goes(r, at'[r]) \/ UNCHANGED at
        /\ \A q \in CRuns : q # r => Same(q)
    BY <1>1 DEF DestroyAfterFailure, Same, Goes, Becomes, PlacesTyped, RowsTyped
  <1>3. RowsTyped'
    BY <1>1 DEF DestroyAfterFailure, Becomes, RowsTyped
  <1>4. PlacesTyped'
    BY <1>1 DEF DestroyAfterFailure, Goes, PlacesTyped, Stations, Preparing, Early, Cloning
  <1>5. Troubles
    BY <1>1 DEF DestroyAfterFailure, Troubles, TroublesTyped, Fault
  <1>6. RunIsSound(r)'
    BY <1>1 DEF DestroyAfterFailure, Goes, Becomes, RowsTyped, PlacesTyped, RunIsSound, Present, Reattachable, Preparing, Early, Cloning
  <1>7. LeavesClean(r)'
    BY <1>1 DEF DestroyAfterFailure, Goes, Becomes, Fault, TroublesTyped, RowsTyped, PlacesTyped, RunIsSound, LeavesClean, Present,
       Reattachable, Preparing, Early, Cloning
  <1>8. RelayIsSound'
    BY <1>1, ContainersAssumption DEF DestroyAfterFailure, Goes, PlacesTyped, RelayIsSound
  <1>9. UNCHANGED <<ownerOf, todo, doomed>> /\ (runRow[r] = "terminal" => runRow'[r] = "terminal")
    BY <1>1 DEF DestroyAfterFailure, RunIsSound, RowsTyped, Preparing, Early, Cloning
  <1>. QED BY <1>1, <1>2, <1>3, <1>4, <1>5, <1>6, <1>7, <1>8, <1>9, OneRunSteps

LEMMA RecordInstanceSound ==
  ASSUME ContainersTracked, NEW r \in CRuns, RecordInstance(r)
  PROVE  ContainersTracked'
  <1>1. RowsTyped /\ PlacesTyped /\ TroublesTyped /\ RunIsSound(r) /\ LeavesClean(r) /\ RelayIsSound
    BY DEF ContainersTracked
  <1>2. /\ Goes(r, at'[r]) \/ UNCHANGED at
        /\ \A q \in CRuns : q # r => Same(q)
    BY <1>1 DEF RecordInstance, Same, Goes, Becomes, PlacesTyped, RowsTyped
  <1>3. RowsTyped'
    BY <1>1 DEF RecordInstance, Becomes, RowsTyped
  <1>4. PlacesTyped'
    BY <1>1 DEF RecordInstance, Goes, PlacesTyped, Stations, Preparing, Early, Cloning
  <1>5. Troubles
    BY <1>1 DEF RecordInstance, Troubles, TroublesTyped, Fault
  <1>6. RunIsSound(r)'
    BY <1>1 DEF RecordInstance, Goes, Becomes, RowsTyped, PlacesTyped, RunIsSound, Present, Reattachable, Preparing, Early, Cloning
  <1>7. LeavesClean(r)'
    BY <1>1 DEF RecordInstance, Goes, Becomes, Fault, TroublesTyped, RowsTyped, PlacesTyped, RunIsSound, LeavesClean, Present,
       Reattachable, Preparing, Early, Cloning
  <1>8. RelayIsSound'
    BY <1>1, ContainersAssumption DEF RecordInstance, Goes, PlacesTyped, RelayIsSound
  <1>9. UNCHANGED <<ownerOf, todo, doomed>> /\ (runRow[r] = "terminal" => runRow'[r] = "terminal")
    BY <1>1 DEF RecordInstance, RunIsSound, RowsTyped, Preparing, Early, Cloning
  <1>. QED BY <1>1, <1>2, <1>3, <1>4, <1>5, <1>6, <1>7, <1>8, <1>9, OneRunSteps

LEMMA ContainerStopsSound ==
  ASSUME ContainersTracked, NEW r \in CRuns, ContainerStops(r)
  PROVE  ContainersTracked'
  <1>1. RowsTyped /\ PlacesTyped /\ TroublesTyped /\ RunIsSound(r) /\ LeavesClean(r) /\ RelayIsSound
    BY DEF ContainersTracked
  <1>2. /\ Goes(r, at'[r]) \/ UNCHANGED at
        /\ \A q \in CRuns : q # r => Same(q)
    BY <1>1 DEF ContainerStops, Same, Goes, Becomes, PlacesTyped, RowsTyped
  <1>3. RowsTyped'
    BY <1>1 DEF ContainerStops, Becomes, RowsTyped
  <1>4. PlacesTyped'
    BY <1>1 DEF ContainerStops, Goes, PlacesTyped, Stations, Preparing, Early, Cloning
  <1>5. Troubles
    BY <1>1 DEF ContainerStops, Troubles, TroublesTyped, Fault
  <1>6. RunIsSound(r)'
    BY <1>1 DEF ContainerStops, Goes, Becomes, RowsTyped, PlacesTyped, RunIsSound, Present, Reattachable, Preparing, Early, Cloning
  <1>7. LeavesClean(r)'
    BY <1>1 DEF ContainerStops, Goes, Becomes, Fault, TroublesTyped, RowsTyped, PlacesTyped, RunIsSound, LeavesClean, Present,
       Reattachable, Preparing, Early, Cloning
  <1>8. RelayIsSound'
    BY <1>1, ContainersAssumption DEF ContainerStops, Goes, PlacesTyped, RelayIsSound
  <1>9. UNCHANGED <<ownerOf, todo, doomed>> /\ (runRow[r] = "terminal" => runRow'[r] = "terminal")
    BY <1>1 DEF ContainerStops, RunIsSound, RowsTyped, Preparing, Early, Cloning
  <1>. QED BY <1>1, <1>2, <1>3, <1>4, <1>5, <1>6, <1>7, <1>8, <1>9, OneRunSteps

LEMMA PreserveWorkSound ==
  ASSUME ContainersTracked, NEW r \in CRuns, PreserveWork(r)
  PROVE  ContainersTracked'
  <1>1. RowsTyped /\ PlacesTyped /\ TroublesTyped /\ RunIsSound(r) /\ LeavesClean(r) /\ RelayIsSound
    BY DEF ContainersTracked
  <1>2. /\ Goes(r, at'[r]) \/ UNCHANGED at
        /\ \A q \in CRuns : q # r => Same(q)
    BY <1>1 DEF PreserveWork, Same, Goes, Becomes, PlacesTyped, RowsTyped
  <1>3. RowsTyped'
    BY <1>1 DEF PreserveWork, Becomes, RowsTyped
  <1>4. PlacesTyped'
    BY <1>1 DEF PreserveWork, Goes, PlacesTyped, Stations, Preparing, Early, Cloning
  <1>5. Troubles
    BY <1>1 DEF PreserveWork, Troubles, TroublesTyped, Fault
  <1>6. RunIsSound(r)'
    BY <1>1 DEF PreserveWork, Goes, Becomes, RowsTyped, PlacesTyped, RunIsSound, Present, Reattachable, Preparing, Early, Cloning
  <1>7. LeavesClean(r)'
    BY <1>1 DEF PreserveWork, Goes, Becomes, Fault, TroublesTyped, RowsTyped, PlacesTyped, RunIsSound, LeavesClean, Present,
       Reattachable, Preparing, Early, Cloning
  <1>8. RelayIsSound'
    BY <1>1, ContainersAssumption DEF PreserveWork, Goes, PlacesTyped, RelayIsSound
  <1>9. UNCHANGED <<ownerOf, todo, doomed>> /\ (runRow[r] = "terminal" => runRow'[r] = "terminal")
    BY <1>1 DEF PreserveWork, RunIsSound, RowsTyped, Preparing, Early, Cloning
  <1>. QED BY <1>1, <1>2, <1>3, <1>4, <1>5, <1>6, <1>7, <1>8, <1>9, OneRunSteps

LEMMA UnregisterRunSound ==
  ASSUME ContainersTracked, NEW r \in CRuns, UnregisterRun(r)
  PROVE  ContainersTracked'
  <1>1. RowsTyped /\ PlacesTyped /\ TroublesTyped /\ RunIsSound(r) /\ LeavesClean(r) /\ RelayIsSound
    BY DEF ContainersTracked
  <1>2. /\ Goes(r, at'[r]) \/ UNCHANGED at
        /\ \A q \in CRuns : q # r => Same(q)
    BY <1>1 DEF UnregisterRun, Same, Goes, Becomes, PlacesTyped, RowsTyped
  <1>3. RowsTyped'
    BY <1>1 DEF UnregisterRun, Becomes, RowsTyped
  <1>4. PlacesTyped'
    BY <1>1 DEF UnregisterRun, Goes, PlacesTyped, Stations, Preparing, Early, Cloning
  <1>5. Troubles
    BY <1>1 DEF UnregisterRun, Troubles, TroublesTyped, Fault
  <1>6. RunIsSound(r)'
    BY <1>1 DEF UnregisterRun, Goes, Becomes, RowsTyped, PlacesTyped, RunIsSound, Present, Reattachable, Preparing, Early, Cloning
  <1>7. LeavesClean(r)'
    BY <1>1 DEF UnregisterRun, Goes, Becomes, Fault, TroublesTyped, RowsTyped, PlacesTyped, RunIsSound, LeavesClean, Present,
       Reattachable, Preparing, Early, Cloning
  <1>8. RelayIsSound'
    BY <1>1, ContainersAssumption DEF UnregisterRun, Goes, PlacesTyped, RelayIsSound
  <1>9. UNCHANGED <<ownerOf, todo, doomed>> /\ (runRow[r] = "terminal" => runRow'[r] = "terminal")
    BY <1>1 DEF UnregisterRun, RunIsSound, RowsTyped, Preparing, Early, Cloning
  <1>. QED BY <1>1, <1>2, <1>3, <1>4, <1>5, <1>6, <1>7, <1>8, <1>9, OneRunSteps

LEMMA DestroyContainerSound ==
  ASSUME ContainersTracked, NEW r \in CRuns, DestroyContainer(r)
  PROVE  ContainersTracked'
  <1>1. RowsTyped /\ PlacesTyped /\ TroublesTyped /\ RunIsSound(r) /\ LeavesClean(r) /\ RelayIsSound
    BY DEF ContainersTracked
  <1>2. /\ Goes(r, at'[r]) \/ UNCHANGED at
        /\ \A q \in CRuns : q # r => Same(q)
    BY <1>1 DEF DestroyContainer, Same, Goes, Becomes, PlacesTyped, RowsTyped
  <1>3. RowsTyped'
    BY <1>1 DEF DestroyContainer, Becomes, RowsTyped
  <1>4. PlacesTyped'
    BY <1>1 DEF DestroyContainer, Goes, PlacesTyped, Stations, Preparing, Early, Cloning
  <1>5. Troubles
    BY <1>1 DEF DestroyContainer, Troubles, TroublesTyped, Fault
  <1>6. RunIsSound(r)'
    BY <1>1 DEF DestroyContainer, Goes, Becomes, RowsTyped, PlacesTyped, RunIsSound, Present, Reattachable, Preparing, Early, Cloning
  <1>7. LeavesClean(r)'
    BY <1>1 DEF DestroyContainer, Goes, Becomes, Fault, TroublesTyped, RowsTyped, PlacesTyped, RunIsSound, LeavesClean, Present,
       Reattachable, Preparing, Early, Cloning
  <1>8. RelayIsSound'
    BY <1>1, ContainersAssumption DEF DestroyContainer, Goes, PlacesTyped, RelayIsSound
  <1>9. UNCHANGED <<ownerOf, todo, doomed>> /\ (runRow[r] = "terminal" => runRow'[r] = "terminal")
    BY <1>1 DEF DestroyContainer, RunIsSound, RowsTyped, Preparing, Early, Cloning
  <1>. QED BY <1>1, <1>2, <1>3, <1>4, <1>5, <1>6, <1>7, <1>8, <1>9, OneRunSteps

LEMMA EndRunSound ==
  ASSUME ContainersTracked, NEW r \in CRuns, EndRun(r)
  PROVE  ContainersTracked'
  <1>1. RowsTyped /\ PlacesTyped /\ TroublesTyped /\ RunIsSound(r) /\ LeavesClean(r) /\ RelayIsSound
    BY DEF ContainersTracked
  <1>2. /\ Goes(r, at'[r]) \/ UNCHANGED at
        /\ \A q \in CRuns : q # r => Same(q)
    BY <1>1 DEF EndRun, Same, Goes, Becomes, PlacesTyped, RowsTyped
  <1>3. RowsTyped'
    BY <1>1 DEF EndRun, Becomes, RowsTyped
  <1>4. PlacesTyped'
    BY <1>1 DEF EndRun, Goes, PlacesTyped, Stations, Preparing, Early, Cloning
  <1>5. Troubles
    BY <1>1 DEF EndRun, Troubles, TroublesTyped, Fault
  <1>6. RunIsSound(r)'
    BY <1>1 DEF EndRun, Goes, Becomes, RowsTyped, PlacesTyped, RunIsSound, Present, Reattachable, Preparing, Early, Cloning
  <1>7. LeavesClean(r)'
    BY <1>1 DEF EndRun, Goes, Becomes, Fault, TroublesTyped, RowsTyped, PlacesTyped, RunIsSound, LeavesClean, Present,
       Reattachable, Preparing, Early, Cloning
  <1>8. RelayIsSound'
    BY <1>1, ContainersAssumption DEF EndRun, Goes, PlacesTyped, RelayIsSound
  <1>9. UNCHANGED <<ownerOf, todo, doomed>> /\ (runRow[r] = "terminal" => runRow'[r] = "terminal")
    BY <1>1 DEF EndRun, RunIsSound, RowsTyped, Preparing, Early, Cloning
  <1>. QED BY <1>1, <1>2, <1>3, <1>4, <1>5, <1>6, <1>7, <1>8, <1>9, OneRunSteps

LEMMA ReconcileRunSound ==
  ASSUME ContainersTracked, NEW r \in CRuns, ReconcileRun(r)
  PROVE  ContainersTracked'
  <1>1. RowsTyped /\ PlacesTyped /\ TroublesTyped /\ RunIsSound(r) /\ LeavesClean(r) /\ RelayIsSound
    BY DEF ContainersTracked
  <1>2. /\ Goes(r, at'[r]) \/ UNCHANGED at
        /\ \A q \in CRuns : q # r => Same(q)
    BY <1>1 DEF ReconcileRun, Same, Goes, Becomes, PlacesTyped, RowsTyped
  <1>3. RowsTyped'
    BY <1>1 DEF ReconcileRun, Becomes, RowsTyped
  <1>4. PlacesTyped'
    BY <1>1 DEF ReconcileRun, Goes, PlacesTyped, Stations, Preparing, Early, Cloning
  <1>5. Troubles
    BY <1>1 DEF ReconcileRun, Troubles, TroublesTyped, Fault
  <1>6. RunIsSound(r)'
    BY <1>1 DEF ReconcileRun, Goes, Becomes, RowsTyped, PlacesTyped, RunIsSound, Present, Reattachable, Preparing, Early, Cloning
  <1>7. LeavesClean(r)'
    BY <1>1 DEF ReconcileRun, Goes, Becomes, Fault, TroublesTyped, RowsTyped, PlacesTyped, RunIsSound, LeavesClean, Present,
       Reattachable, Preparing, Early, Cloning
  <1>8. RelayIsSound'
    BY <1>1, ContainersAssumption DEF ReconcileRun, Goes, PlacesTyped, RelayIsSound
  <1>9. UNCHANGED <<ownerOf, todo, doomed>> /\ (runRow[r] = "terminal" => runRow'[r] = "terminal")
    BY <1>1 DEF ReconcileRun, RunIsSound, RowsTyped, Preparing, Early, Cloning
  <1>. QED BY <1>1, <1>2, <1>3, <1>4, <1>5, <1>6, <1>7, <1>8, <1>9, OneRunSteps

(* The result of a build is every waiter's. *)
LEMMA BuildEndsSound ==
  ASSUME ContainersTracked, NEW r \in CRuns, BuildEnds(r)
  PROVE  ContainersTracked'
  <1>1. RowsTyped /\ PlacesTyped /\ TroublesTyped /\ RelayIsSound
    BY DEF ContainersTracked
  <1>2. PICK to \in {"network", "unregister"} :
          at' = [w \in CRuns |-> IF w = r \/ (at[w] = "waiting" /\ ownerOf[w] = ownerOf[r]) THEN to ELSE at[w]]
    BY DEF BuildEnds
  <1>3. UNCHANGED <<inst, registered, runRowVars, box, origin, relayVars, sweepVars, faultVars>> /\ at[r] = "building"
    BY DEF BuildEnds
  <1>4. PlacesTyped' /\ RowsTyped' /\ TroublesTyped'
    BY <1>1, <1>2, <1>3 DEF PlacesTyped, RowsTyped, TroublesTyped, Stations, Preparing, Early, Cloning
  <1>5. ASSUME NEW q \in CRuns
        PROVE  RunIsSound(q)' /\ LeavesClean(q)'
    <2>1. RunIsSound(q) /\ LeavesClean(q)
      BY DEF ContainersTracked
    <2>2. CASE at'[q] = at[q]
      BY <1>3, <2>1, <2>2 DEF RunIsSound, LeavesClean, Present
    <2>3. CASE at[q] \in {"building", "waiting"} /\ at'[q] = to
      BY <1>3, <2>1, <2>3 DEF RunIsSound, LeavesClean, Present, Preparing, Early, Cloning
    <2>. QED BY <1>2, <1>3, <2>2, <2>3
  <1>6. RelayIsSound'
    <2>1. relay \in CRuns => at'[relay] = at[relay] \/ at'[relay] \in {"network", "unregister"}
      BY <1>2
    <2>. QED BY <1>1, <1>3, <2>1 DEF RelayIsSound
  <1>7. SweepsAreSound'
    BY <1>3 DEF ContainersTracked, SweepsAreSound
  <1>. QED BY <1>4, <1>5, <1>6, <1>7 DEF ContainersTracked

(* A sweep removes what it saw to be over, and that stays over. *)
LEMMA SweepsSound ==
  ASSUME ContainersTracked, NEW o \in Owners, SweepSteps(o)
  PROVE  ContainersTracked'
  <1>1. RowsTyped /\ PlacesTyped /\ TroublesTyped /\ SweepsAreSound /\ RelayIsSound
    BY DEF ContainersTracked
  <1>2. UNCHANGED <<ownerOf, runRow, instanceID, origin, at, inst, registered, relay, legs, relayUp, deaths>>
    BY DEF SweepSteps, SweepList, SweepLook, SweepRemove
  <1>3. RelayIsSound'
    BY <1>1, <1>2 DEF RelayIsSound
  <1>4. CASE SweepList(o)
    <2>1. UNCHANGED <<box, faults, doomed>> /\ todo' = [todo EXCEPT ![o] = {r \in CRuns : Present(r) /\ ownerOf[r] = o}]
      BY <1>4 DEF SweepList
    <2>2. RowsTyped' /\ PlacesTyped' /\ TroublesTyped'
      BY <1>1, <1>2, <2>1 DEF RowsTyped, PlacesTyped, TroublesTyped
    <2>3. SweepsAreSound'
      BY <1>1, <1>2, <2>1 DEF SweepsAreSound, PlacesTyped
    <2>4. \A r \in CRuns : RunIsSound(r)' /\ LeavesClean(r)'
      BY <1>2, <2>1 DEF ContainersTracked, RunIsSound, LeavesClean, Present
    <2>. QED BY <1>3, <2>2, <2>3, <2>4 DEF ContainersTracked
  <1>5. CASE SweepLook(o)
    <2>1. UNCHANGED <<box, faults>>
      BY <1>5 DEF SweepLook
    <2>2. PICK r \in todo[o] :
            /\ todo' = [todo EXCEPT ![o] = todo[o] \ {r}]
            /\ doomed' = [doomed EXCEPT ![o] = IF ownerOf[r] # o \/ runRow[r] = "terminal" THEN r ELSE NoOne]
      BY <1>5 DEF SweepLook
    <2>3. r \in CRuns
      BY <1>1 DEF PlacesTyped
    <2>4. RowsTyped' /\ PlacesTyped' /\ TroublesTyped'
      BY <1>1, <1>2, <2>1, <2>2, <2>3 DEF RowsTyped, PlacesTyped, TroublesTyped
    <2>5. SweepsAreSound'
      BY <1>1, <1>2, <2>2, <2>3 DEF SweepsAreSound, PlacesTyped
    <2>6. \A q \in CRuns : RunIsSound(q)' /\ LeavesClean(q)'
      BY <1>2, <2>1 DEF ContainersTracked, RunIsSound, LeavesClean, Present
    <2>. QED BY <1>3, <2>4, <2>5, <2>6 DEF ContainersTracked
  <1>6. CASE SweepRemove(o)
    <2>1. PICK r : r = doomed[o]
      OBVIOUS
    <2>2. /\ r \in CRuns /\ runRow[r] = "terminal" /\ doomed' = [doomed EXCEPT ![o] = NoOne] /\ UNCHANGED todo
          /\ box' = [box EXCEPT ![r] = "gone"] \/ UNCHANGED box
      BY <1>1, <1>6, <2>1 DEF SweepRemove, Becomes, PlacesTyped, SweepsAreSound
    <2>3. Troubles
      BY <1>1, <1>2, <1>6 DEF SweepRemove, Troubles, TroublesTyped, Fault
    <2>4. RowsTyped' /\ PlacesTyped'
      BY <1>1, <1>2, <2>2 DEF RowsTyped, PlacesTyped
    <2>5. SweepsAreSound'
      BY <1>1, <1>2, <2>2 DEF SweepsAreSound, PlacesTyped
    <2>6. RunIsSound(r)' /\ LeavesClean(r)'
      <3>1. RunIsSound(r) /\ LeavesClean(r) /\ box'[r] \in {"gone", box[r]}
        BY <1>1, <2>2 DEF ContainersTracked, RowsTyped
      <3>2. RunIsSound(r)'
        BY <1>1, <1>2, <2>2, <3>1 DEF RunIsSound, RowsTyped, Preparing, Early, Cloning
      <3>3. deaths' = 0 /\ faults' = 0 => deaths = 0 /\ faults = 0
        BY <1>1, <2>3 DEF TroublesTyped, Troubles
      <3>. QED BY <1>2, <2>2, <3>1, <3>2, <3>3 DEF LeavesClean, Present
    <2>7. \A q \in CRuns : q # r => Same(q)
      BY <1>1, <1>2, <2>2 DEF Same, RowsTyped
    <2>8. \A q \in CRuns : RunIsSound(q)' /\ LeavesClean(q)'
      BY <1>1, <2>3, <2>6, <2>7, OthersAreSound DEF ContainersTracked
    <2>. QED BY <1>3, <2>3, <2>4, <2>5, <2>8 DEF ContainersTracked, Troubles
  <1>. QED BY <1>4, <1>5, <1>6 DEF SweepSteps

(* A Lexicode dies: its rows and containers stay, what it knew of them does not. *)
LEMMA DiesSound ==
  ASSUME ContainersTracked, NEW o \in Owners, LexicodeDies(o)
  PROVE  ContainersTracked'
  <1>1. RowsTyped /\ PlacesTyped /\ TroublesTyped /\ SweepsAreSound /\ RelayIsSound
    BY DEF ContainersTracked
  <1>2. /\ at' = [r \in CRuns |-> IF ownerOf[r] = o THEN "none" ELSE at[r]]
        /\ inst' = [r \in CRuns |-> IF ownerOf[r] = o THEN FALSE ELSE inst[r]]
        /\ registered' = [r \in CRuns |-> IF ownerOf[r] = o THEN FALSE ELSE registered[r]]
        /\ todo' = [todo EXCEPT ![o] = {}] /\ doomed' = [doomed EXCEPT ![o] = NoOne]
        /\ deaths' = deaths + 1
        /\ UNCHANGED <<runRowVars, daemonVars, relayVars, faults>>
    BY DEF LexicodeDies, Lose
  <1>3. RowsTyped' /\ PlacesTyped' /\ TroublesTyped' /\ deaths' # 0
    <2>1. RowsTyped'
      BY <1>1, <1>2 DEF RowsTyped
    <2>2. PlacesTyped'
      BY <1>1, <1>2 DEF PlacesTyped, Stations
    <2>3. TroublesTyped' /\ deaths' # 0
      BY <1>1, <1>2 DEF TroublesTyped
    <2>. QED BY <2>1, <2>2, <2>3
  <1>4. ASSUME NEW r \in CRuns
        PROVE  RunIsSound(r)' /\ LeavesClean(r)'
    <2>1. RunIsSound(r) /\ LeavesClean(r)
      BY DEF ContainersTracked
    <2>2. CASE ownerOf[r] = o
      BY <1>2, <1>3, <2>1, <2>2 DEF RunIsSound, LeavesClean, Preparing, Early, Cloning
    <2>3. CASE ownerOf[r] # o
      BY <1>2, <1>3, <2>1, <2>3 DEF RunIsSound, LeavesClean
    <2>. QED BY <2>2, <2>3
  <1>5. SweepsAreSound'
    BY <1>1, <1>2 DEF SweepsAreSound, PlacesTyped
  <1>6. RelayIsSound'
    <2>1. relay \in CRuns => at'[relay] \in {"none", at[relay]}
      BY <1>2
    <2>. QED BY <1>1, <1>2, <2>1 DEF RelayIsSound
  <1>. QED BY <1>3, <1>4, <1>5, <1>6 DEF ContainersTracked

LEMMA ContainersStep ==
  ASSUME ContainersTracked, [ContainersNext]_containersAll
  PROVE  ContainersTracked'
  <1>1. ASSUME NEW r \in CRuns, BeginProvision(r) \/ StepFails(r) \/ PrepareSteps(r)
        PROVE  ContainersTracked'
    <2>1. CASE BeginProvision(r) \/ StepFails(r)
      BY <2>1, BeginProvisionSound, StepFailsSound
    <2>2. CASE EnsureImage(r) \/ BuildEnds(r)
      BY <2>2, EnsureImageSound, BuildEndsSound
    <2>3. CASE RelaySteps(r)
      BY <2>3, PrepareNetworkSound, RemoveRelaySound, CreateRelaySound, ConnectRelaySound, StartRelaySound DEF RelaySteps
    <2>4. CASE CreateContainer(r) \/ StartContainer(r) \/ CloneFetch(r) \/ CloneSetURL(r)
      BY <2>4, CreateContainerSound, StartContainerSound, CloneFetchSound, CloneSetURLSound
    <2>5. CASE RunSetupScript(r) \/ DestroyAfterFailure(r) \/ RecordInstance(r)
      BY <2>5, RunSetupScriptSound, DestroyAfterFailureSound, RecordInstanceSound
    <2>. QED BY <1>1, <2>1, <2>2, <2>3, <2>4, <2>5 DEF PrepareSteps
  <1>2. ASSUME NEW r \in CRuns, ContainerStops(r) \/ PreserveWork(r) \/ TerminalSteps(r) \/ ReconcileRun(r)
        PROVE  ContainersTracked'
    BY <1>2, ContainerStopsSound, PreserveWorkSound, UnregisterRunSound, DestroyContainerSound, EndRunSound, ReconcileRunSound
       DEF TerminalSteps
  <1>3. ASSUME NEW o \in Owners, SweepSteps(o) \/ LexicodeDies(o)
        PROVE  ContainersTracked'
    BY <1>3, SweepsSound, DiesSound
  <1>4. CASE UNCHANGED containersAll
    <2>1. RowsTyped' /\ PlacesTyped' /\ TroublesTyped' /\ SweepsAreSound' /\ RelayIsSound'
      BY <1>4 DEF containersAll, ContainersTracked, RowsTyped, PlacesTyped, TroublesTyped, SweepsAreSound, RelayIsSound
    <2>2. \A r \in CRuns : RunIsSound(r)' /\ LeavesClean(r)'
      BY <1>4 DEF containersAll, ContainersTracked, RunIsSound, LeavesClean, Present
    <2>. QED BY <2>1, <2>2 DEF ContainersTracked
  <1>. QED BY <1>1, <1>2, <1>3, <1>4 DEF ContainersNext

LEMMA ContainersStart == ContainersInit => ContainersTracked
  <1> SUFFICES ASSUME ContainersInit PROVE ContainersTracked
    OBVIOUS
  <1>1. RowsTyped
    BY DEF ContainersInit, RowsTyped
  <1>2. PlacesTyped /\ TroublesTyped
    BY DEF ContainersInit, PlacesTyped, TroublesTyped, Stations
  <1>3. \A r \in CRuns : RunIsSound(r) /\ LeavesClean(r)
    BY DEF ContainersInit, RunIsSound, LeavesClean, Present, Preparing, Early, Cloning
  <1>4. SweepsAreSound /\ RelayIsSound
    BY ContainersAssumption DEF ContainersInit, SweepsAreSound, RelayIsSound
  <1>. QED BY <1>1, <1>2, <1>3, <1>4 DEF ContainersTracked

(* No container is taken away under a run that is supervised, no agent works next to the
   repository's credential, the proxy forgets runs that are over, and what goes wrong without the
   daemon failing leaks nothing: the safety part of ContainersGo. *)
THEOREM ContainersInvariant == ContainersSpec => []ContainersInv
  <1>1. ContainersTracked => ContainersInv
    <2> SUFFICES ASSUME ContainersTracked PROVE ContainersInv
      OBVIOUS
    <2>1. SupervisedKeepsContainer /\ AgentHoldsNoToken
      BY DEF ContainersTracked, RunIsSound, SupervisedKeepsContainer, AgentHoldsNoToken, Present
    <2>2. ProxyForgetsTheDead
      BY DEF ContainersTracked, RunIsSound, ProxyForgetsTheDead
    <2>3. NothingLeaks
      BY DEF ContainersTracked, LeavesClean, RelayIsSound, NothingLeaks
    <2>. QED BY <2>1, <2>2, <2>3 DEF ContainersInv
  <1>2. ContainersTracked /\ [ContainersNext]_containersAll => ContainersTracked'
    BY ContainersStep
  <1>. QED BY <1>1, <1>2, ContainersStart, PTL DEF ContainersSpec


------------------------------------------------------------------------------
(* The listings of the forge.  Which list is read says what is shown and in what order; the     *)
(* argument is about how many come before an item (its place), and how many places the pages   *)
(* read so far have gone past.                                                                  *)

ShownNow ==
  IF listed \in CommentLists THEN {i \in OnForge : touched[i] >= cursorAt}
  ELSE IF listed = "issues" THEN OnForge \ shut ELSE OnForge

ComesBefore(j, i) ==
  \/ listed = "pulls" /\ Newest(j, i)
  \/ listed = "reviews" /\ j < i
  \/ listed \in CommentLists /\ Newest(i, j)
  \/ listed \in {"suites", "issues"} /\ j > i

InFront(i) == {j \in ShownNow : ComesBefore(j, i)}
Place(i) == Cardinality(InFront(i))
GonePast == (pageNo - 1) * PageSize
PageNow == {i \in ShownNow : GonePast <= Place(i) /\ Place(i) < pageNo * PageSize}

ListingTyped ==
  /\ listed \in ListKinds /\ touched \in [Entries -> Nat] /\ second \in Nat /\ cursorAt \in Nat /\ pageNo \in Nat
  /\ slid \in BOOLEAN /\ cutShort \in BOOLEAN
  /\ \A x \in rowsRead : x[1] \in Entries /\ x[2] \in Nat

(* The forge's times are not ahead of its clock, what is due is there, and ids come in order. *)
InTime ==
  /\ second >= 1 /\ cursorAt <= second
  /\ \A i \in Entries : touched[i] <= second
  /\ \A x \in rowsRead : x[2] <= second
  /\ \A i \in OnForge, j \in Entries : j < i => j \in OnForge

(* While a list is read nothing that is due has left it, or the property says so. *)
Drifts == slid /\ listed \in CommentLists \cup {"issues"}
StillDue ==
  /\ dueRows \subseteq OnForge
  /\ listed = "issues" => dueRows \cap PullEntries = {}
  /\ pageNo # 0 => \A i \in dueRows : touched[i] >= cursorAt
  /\ pageNo # 0 /\ ~Drifts => dueRows \subseteq ShownNow

(* What the pages have gone past was read, or was updated since, after everything that was. *)
GoneIsRead ==
  pageNo # 0 /\ ~Drifts =>
    \A i \in dueRows : \/ i \in RowsRead
                       \/ Place(i) >= GonePast
                       \/ listed = "pulls" /\ \A x \in rowsRead : x[2] <= touched[i]

(* Where nothing moves, what was read is what the pages have gone past, as it was. *)
Settles == listed = "reviews" \/ (listed \in CommentLists /\ ~slid)
ReadIsGone ==
  pageNo # 0 /\ Settles =>
    \A x \in rowsRead : /\ x[1] \in ShownNow /\ Place(x[1]) < GonePast
                        /\ listed \in CommentLists => x[2] = touched[x[1]]

ListingTracked == ListingTyped /\ InTime /\ StillDue /\ GoneIsRead /\ ReadIsGone /\ ListingInv

------------------------------------------------------------------------------
(* Of some numbers up to a bound one is the greatest, and it is where the cursor goes. *)
LEMMA LatestIs ==
  ASSUME cursorAt \in Nat, NEW rows, NEW b \in Nat, cursorAt <= b, \A x \in rows : x[2] \in Nat /\ x[2] <= b
  PROVE  /\ Latest(rows) \in Nat /\ Latest(rows) <= b
         /\ Latest(rows) = cursorAt \/ \E x \in rows : Latest(rows) = x[2]
  <1> DEFINE times == {cursorAt} \cup {x[2] : x \in rows}
             before == {b - t : t \in times}
  <1>1. times \subseteq 0..b /\ times # {}
    OBVIOUS
  <1> HIDE DEF times
  <1>2. before \subseteq Nat /\ before # {}
    <2>1. PICK t \in times : TRUE
      BY <1>1
    <2>2. b - t \in before
      BY <2>1
    <2>3. \A u \in times : b - u \in Nat
      BY <1>1
    <2>. QED BY <2>2, <2>3
  <1>3. PICK e \in before : \A f \in before : ~ (<<f, e>> \in OpToRel(<, Nat))
    BY <1>2, NatLessThanWellFounded, WFMin
  <1>4. PICK t \in times : e = b - t
    OBVIOUS
  <1>5. ASSUME NEW u \in times PROVE u <= t
    <2>1. b - u \in before /\ ~(b - u < b - t)
      BY <1>2, <1>3, <1>4 DEF OpToRel
    <2>. QED BY <1>1, <2>1
  <1>6. Latest(rows) \in times
    BY <1>5 DEF Latest, times
  <1>. QED BY <1>1, <1>6 DEF times

LEMMA PlacesAreNumbers ==
  /\ ShownNow \subseteq Entries /\ IsFiniteSet(ShownNow) /\ Cardinality(ShownNow) \in Nat
  /\ \A i : InFront(i) \subseteq ShownNow /\ IsFiniteSet(InFront(i)) /\ Place(i) \in Nat
  <1>1. ShownNow \subseteq Entries /\ \A i : InFront(i) \subseteq ShownNow
    BY DEF ShownNow, OnForge, InFront
  <1>2. IsFiniteSet(ShownNow)
    BY <1>1, ListingAssumption, FS_Subset
  <1>3. \A i : IsFiniteSet(InFront(i))
    BY <1>1, <1>2, FS_Subset
  <1>. QED BY <1>1, <1>2, <1>3, FS_CardinalityType DEF Place

(* What is listed is in a strict order. *)
LEMMA InOrder ==
  ASSUME ListingTyped
  PROVE  /\ \A i \in Entries : ~ComesBefore(i, i)
         /\ \A i, j \in Entries : i # j => ComesBefore(i, j) \/ ComesBefore(j, i)
         /\ \A i, j, k \in Entries : ComesBefore(i, j) /\ ComesBefore(j, k) => ComesBefore(i, k)
  <1>1. /\ Entries \subseteq Nat /\ \A i \in Entries : i \in Nat /\ touched[i] \in Nat
        /\ listed = "pulls" \/ listed = "reviews" \/ listed \in CommentLists \/ listed \in {"suites", "issues"}
    BY ListingAssumption DEF ListingTyped, ListKinds, CursorLists, CommentLists
  <1>2. /\ \A i \in Entries : ~Newest(i, i)
        /\ \A i, j \in Entries : i # j => Newest(i, j) \/ Newest(j, i)
    BY <1>1 DEF Newest
  <1>3. \A i, j, k \in Entries : Newest(i, j) /\ Newest(j, k) => Newest(i, k)
    BY <1>1 DEF Newest
  <1>4. "pulls" \notin CommentLists /\ "reviews" \notin CommentLists /\ "suites" \notin CommentLists /\ "issues" \notin CommentLists
    BY DEF CommentLists
  <1>5. CASE listed = "pulls"
    BY <1>2, <1>3, <1>4, <1>5 DEF ComesBefore
  <1>6. CASE listed = "reviews"
    BY <1>1, <1>4, <1>6 DEF ComesBefore
  <1>7. CASE listed \in CommentLists
    BY <1>2, <1>3, <1>4, <1>7 DEF ComesBefore
  <1>8. CASE listed \in {"suites", "issues"}
    BY <1>1, <1>4, <1>8 DEF ComesBefore
  <1>. QED BY <1>1, <1>5, <1>6, <1>7, <1>8

(* The place of what is shown is in the list, and who comes before has the lower one. *)
LEMMA PlacesFollow ==
  ASSUME ListingTyped
  PROVE  /\ \A i \in ShownNow : Place(i) < Cardinality(ShownNow)
         /\ \A i, k \in ShownNow : Place(i) < Place(k) => ComesBefore(i, k)
         /\ \A i, k \in ShownNow : ComesBefore(i, k) => Place(i) <= Place(k)
  <1>1. ASSUME NEW i \in ShownNow PROVE Place(i) < Cardinality(ShownNow)
    <2>1. InFront(i) \subseteq ShownNow \ {i}
      BY PlacesAreNumbers, InOrder DEF InFront
    <2>2. IsFiniteSet(ShownNow \ {i}) /\ Cardinality(ShownNow \ {i}) = Cardinality(ShownNow) - 1
      BY PlacesAreNumbers, FS_RemoveElement
    <2>3. Place(i) <= Cardinality(ShownNow \ {i})
      BY <2>1, <2>2, FS_Subset DEF Place
    <2>. QED BY <2>2, <2>3, PlacesAreNumbers
  <1>2. ASSUME NEW i \in ShownNow, NEW k \in ShownNow, ComesBefore(i, k) PROVE Place(i) <= Place(k)
    <2>1. InFront(i) \subseteq InFront(k)
      BY <1>2, PlacesAreNumbers, InOrder DEF InFront
    <2>. QED BY <2>1, PlacesAreNumbers, FS_Subset DEF Place
  <1>3. ASSUME NEW i \in ShownNow, NEW k \in ShownNow, Place(i) < Place(k) PROVE ComesBefore(i, k)
    <2>1. i # k /\ ~(Place(k) <= Place(i))
      BY <1>3, PlacesAreNumbers
    <2>. QED BY <1>2, <2>1, PlacesAreNumbers, InOrder
  <1>. QED BY <1>1, <1>2, <1>3

LEMMA PageLimits ==
  ASSUME ListingTyped
  PROVE  /\ pageNo * PageSize \in Nat
         /\ pageNo # 0 => GonePast \in Nat /\ GonePast < pageNo * PageSize
  <1>1. pageNo \in Nat /\ PageSize \in Nat /\ PageSize > 0
    BY ListingAssumption DEF ListingTyped
  <1>2. pageNo * PageSize \in Nat
    BY <1>1
  <1>3. ASSUME pageNo # 0 PROVE GonePast \in Nat /\ GonePast < pageNo * PageSize
    <2>1. PICK n \in Nat : pageNo = n + 1
      <3>1. pageNo - 1 \in Nat /\ pageNo = (pageNo - 1) + 1
        BY <1>1, <1>3
      <3>. QED BY <3>1
    <2>2. GonePast = n * PageSize
      BY <2>1 DEF GonePast
    <2>3. n * PageSize \in Nat /\ (n + 1) * PageSize = n * PageSize + PageSize
      BY <1>1, <2>1
    <2>. QED BY <1>1, <2>1, <2>2, <2>3
  <1>. QED BY <1>2, <1>3

------------------------------------------------------------------------------
(* Reading a page: what of it is taken, and how it goes on. *)
PageRead(rows) ==
  /\ rows \subseteq PageNow /\ (~Drifts => dueRows \cap PageNow \subseteq rows)
  /\ rowsRead' = rowsRead \cup {<<i, touched[i], pageNo>> : i \in rows}
  /\ \/ pageNo' = pageNo + 1 /\ UNCHANGED cursorAt /\ cutShort' = FALSE
     \/ /\ pageNo' = 0
        /\ \/ cutShort' = TRUE
           \/ /\ cutShort' = FALSE
              /\ \/ Cardinality(ShownNow) <= pageNo * PageSize
                 \/ listed = "pulls" /\ \E k \in PageNow : touched[k] < cursorAt
        /\ cursorAt' = IF listed \in CursorLists THEN Latest(rowsRead') ELSE cursorAt
  /\ UNCHANGED <<listed, touched, shut, second, turns, dueRows, slid>>

LEMMA TakePageReads ==
  ASSUME ListingTracked, pageNo # 0, NEW ahead, DOMAIN ahead = ShownNow, \A i \in ShownNow : ahead[i] = InFront(i),
         NEW rows, NEW enough \in BOOLEAN, TakePage(ahead, rows, enough),
         rows \subseteq PageNow, ~Drifts => dueRows \cap PageNow \subseteq rows,
         enough => listed = "pulls" /\ \E k \in PageNow : touched[k] < cursorAt
  PROVE  PageRead(rows)
  <1>1. /\ rowsRead' = rowsRead \cup {<<i, touched[i], pageNo>> : i \in rows}
        /\ UNCHANGED <<listed, touched, shut, second, turns, dueRows, slid>>
    BY DEF TakePage, ForgeStill
  <1>2. PICK more \in BOOLEAN : more = (Cardinality(ShownNow) > pageNo * PageSize /\ ~enough)
    OBVIOUS
  <1>3. PICK left \in BOOLEAN : left = (more /\ pageNo = MaxPages)
    OBVIOUS
  <1>4. /\ pageNo' = IF more /\ ~left THEN pageNo + 1 ELSE 0
        /\ cutShort' = left
        /\ cursorAt' = IF pageNo' = 0 /\ listed \in CursorLists THEN Latest(rowsRead') ELSE cursorAt
    BY <1>2, <1>3 DEF TakePage
  <1>5. ~more => Cardinality(ShownNow) <= pageNo * PageSize \/ enough
    <2>1. PICK c \in Nat, n \in Nat : c = Cardinality(ShownNow) /\ n = pageNo * PageSize
      BY PlacesAreNumbers, PageLimits DEF ListingTracked
    <2>2. ASSUME ~more, ~enough PROVE ~(c > n)
      BY <1>2, <2>1, <2>2
    <2>3. ~(c > n) => c <= n
      BY <2>1
    <2>. QED BY <2>1, <2>2, <2>3
  <1>6. pageNo + 1 # 0
    BY DEF ListingTracked, ListingTyped
  <1>7. CASE more /\ ~left
    BY <1>1, <1>4, <1>6, <1>7 DEF PageRead
  <1>8. CASE left
    BY <1>1, <1>3, <1>4, <1>8 DEF PageRead
  <1>9. CASE ~more
    BY <1>1, <1>3, <1>4, <1>5, <1>9 DEF PageRead
  <1>. QED BY <1>7, <1>8, <1>9

LEMMA PageIs ==
  ASSUME NEW ahead, DOMAIN ahead = ShownNow, \A i \in ShownNow : ahead[i] = InFront(i)
  PROVE  ThisPage(ahead) = PageNow
  BY DEF ThisPage, PageNow, GonePast, Place

(* Each list: what the code asks for, in the order it asks for it. *)
LEMMA PageTaken ==
  ASSUME ListingTracked,
         ListPullRequests \/ ListReviews \/ ListReviewComments \/ ListIssueComments \/ ListCheckSuites \/ ListOpenIssues
  PROVE  pageNo # 0 /\ \E rows : PageRead(rows)
  <1>1. /\ "pulls" \notin CommentLists /\ "reviews" \notin CommentLists /\ "suites" \notin CommentLists
        /\ "issues" \notin CommentLists /\ "review_comments" \in CommentLists /\ "issue_comments" \in CommentLists
    BY DEF CommentLists
  <1>2. /\ touched \in [Entries -> Nat] /\ cursorAt \in Nat /\ ShownNow \subseteq Entries /\ dueRows \cap PageNow \subseteq PageNow
        /\ pageNo # 0 => \A i \in dueRows : touched[i] >= cursorAt
        /\ listed = "issues" => dueRows \cap PullEntries = {}
    BY PlacesAreNumbers DEF ListingTracked, ListingTyped, StillDue
  <1>3. CASE ListPullRequests
    <2>1. PICK ahead : ahead = LastUpdateFirst(OnForge)
      OBVIOUS
    <2>2. listed = "pulls" /\ pageNo # 0
      BY <1>3 DEF ListPullRequests
    <2>3. DOMAIN ahead = ShownNow /\ \A i \in ShownNow : ahead[i] = InFront(i)
      BY <1>1, <2>1, <2>2 DEF LastUpdateFirst, ShownNow, InFront, ComesBefore
    <2>4. PICK rows : rows = {i \in PageNow : touched[i] >= cursorAt}
      OBVIOUS
    <2>5. PICK enough \in BOOLEAN : enough = (rows # PageNow)
      OBVIOUS
    <2>6. TakePage(ahead, rows, enough)
      BY <1>3, <2>1, <2>3, <2>4, <2>5, PageIs DEF ListPullRequests
    <2>7. rows \subseteq PageNow /\ dueRows \cap PageNow \subseteq rows
      BY <1>2, <2>2, <2>4
    <2>8. enough => listed = "pulls" /\ \E k \in PageNow : touched[k] < cursorAt
      <3>1. \A k \in PageNow : touched[k] \in Nat
        BY <1>2 DEF PageNow
      <3>2. enough => \E k \in PageNow : ~(touched[k] >= cursorAt)
        BY <2>4, <2>5
      <3>. QED BY <1>2, <2>2, <3>1, <3>2
    <2>. QED BY <2>2, <2>3, <2>6, <2>7, <2>8, TakePageReads
  <1>4. ASSUME NEW ahead, NEW rows, pageNo # 0, DOMAIN ahead = ShownNow, \A i \in ShownNow : ahead[i] = InFront(i),
               TakePage(ahead, rows, FALSE), rows \subseteq PageNow, dueRows \cap PageNow \subseteq rows
        PROVE  PageRead(rows)
    <2>1. PICK enough \in BOOLEAN : enough = FALSE
      OBVIOUS
    <2>2. TakePage(ahead, rows, enough) /\ ~enough
      BY <1>4, <2>1
    <2>. QED BY <1>4, <2>2, TakePageReads
  <1>5. CASE ListReviews
    <2>1. PICK ahead : ahead = OldestFirst(OnForge)
      OBVIOUS
    <2>2. listed = "reviews" /\ pageNo # 0 /\ TakePage(ahead, ThisPage(ahead), FALSE)
      BY <1>5, <2>1 DEF ListReviews
    <2>3. DOMAIN ahead = ShownNow /\ \A i \in ShownNow : ahead[i] = InFront(i)
      BY <1>1, <2>1, <2>2 DEF OldestFirst, ShownNow, InFront, ComesBefore
    <2>. QED BY <1>2, <1>4, <2>2, <2>3, PageIs
  <1>6. CASE ListReviewComments \/ ListIssueComments
    <2>1. PICK ahead : ahead = Commented
      OBVIOUS
    <2>2. listed \in CommentLists /\ pageNo # 0 /\ TakePage(ahead, ThisPage(ahead), FALSE)
      BY <1>1, <1>6, <2>1 DEF ListReviewComments, ListIssueComments
    <2>3. DOMAIN ahead = ShownNow /\ \A i \in ShownNow : ahead[i] = InFront(i)
      BY <1>1, <2>1, <2>2 DEF Commented, FirstUpdateFirst, ShownNow, InFront, ComesBefore
    <2>. QED BY <1>2, <1>4, <2>2, <2>3, PageIs
  <1>7. CASE ListCheckSuites
    <2>1. PICK ahead : ahead = NewestFirst(OnForge)
      OBVIOUS
    <2>2. listed = "suites" /\ pageNo # 0 /\ TakePage(ahead, ThisPage(ahead), FALSE)
      BY <1>7, <2>1 DEF ListCheckSuites
    <2>3. DOMAIN ahead = ShownNow /\ \A i \in ShownNow : ahead[i] = InFront(i)
      BY <1>1, <2>1, <2>2 DEF NewestFirst, ShownNow, InFront, ComesBefore
    <2>. QED BY <1>2, <1>4, <2>2, <2>3, PageIs
  <1>8. CASE ListOpenIssues
    <2>1. PICK ahead : ahead = NewestFirst(OnForge \ shut)
      OBVIOUS
    <2>2. listed = "issues" /\ pageNo # 0 /\ TakePage(ahead, ThisPage(ahead) \ PullEntries, FALSE)
      BY <1>8, <2>1 DEF ListOpenIssues
    <2>3. DOMAIN ahead = ShownNow /\ \A i \in ShownNow : ahead[i] = InFront(i)
      BY <1>1, <2>1, <2>2 DEF NewestFirst, ShownNow, InFront, ComesBefore
    <2>4. ThisPage(ahead) = PageNow
      BY <2>3, PageIs
    <2>. QED BY <1>2, <1>4, <2>2, <2>3, <2>4
  <1>. QED BY <1>3, <1>5, <1>6, <1>7, <1>8

(* After a page, nothing that is due and that the pages have gone past is missing. *)
LEMMA PageCovers ==
  ASSUME ListingTracked, pageNo # 0, ~Drifts, NEW rows, PageRead(rows)
  PROVE  \A i \in dueRows : \/ i \in RowsRead'
                            \/ Place(i) >= pageNo * PageSize
                            \/ listed = "pulls" /\ \A x \in rowsRead' : x[2] <= touched[i]
  <1>1. /\ ListingTyped /\ dueRows \subseteq ShownNow /\ ShownNow \subseteq Entries
        /\ \A i \in dueRows : \/ i \in RowsRead \/ Place(i) >= GonePast
                              \/ listed = "pulls" /\ \A x \in rowsRead : x[2] <= touched[i]
    BY PlacesAreNumbers DEF ListingTracked, StillDue, GoneIsRead
  <1>2. /\ rows \subseteq PageNow /\ dueRows \cap PageNow \subseteq rows
        /\ rowsRead' = rowsRead \cup {<<i, touched[i], pageNo>> : i \in rows}
    BY DEF PageRead
  <1>3. RowsRead' = RowsRead \cup rows
    <2>1. PICK new : new = {<<i, touched[i], pageNo>> : i \in rows}
      OBVIOUS
    <2>2. {x[1] : x \in new} = rows
      <3>1. \A i \in rows : <<i, touched[i], pageNo>> \in new /\ <<i, touched[i], pageNo>>[1] = i
        BY <2>1
      <3>2. \A x \in new : x[1] \in rows
        BY <2>1
      <3>. QED BY <3>1, <3>2
    <2>3. {x[1] : x \in rowsRead \cup new} = {x[1] : x \in rowsRead} \cup {x[1] : x \in new}
      OBVIOUS
    <2>. QED BY <1>2, <2>1, <2>2, <2>3 DEF RowsRead
  <1> SUFFICES ASSUME NEW i \in dueRows, i \notin RowsRead', ~(Place(i) >= pageNo * PageSize)
               PROVE  listed = "pulls" /\ \A x \in rowsRead' : x[2] <= touched[i]
    OBVIOUS
  <1>4. /\ GonePast \in Nat /\ pageNo * PageSize \in Nat /\ GonePast < pageNo * PageSize
        /\ \A k : Place(k) \in Nat
    BY <1>1, PageLimits, PlacesAreNumbers
  <1>5. i \notin PageNow
    BY <1>2, <1>3
  <1>6. Place(i) < GonePast
    <2>1. Place(i) < pageNo * PageSize
      BY <1>4
    <2>2. ~(GonePast <= Place(i))
      BY <1>1, <1>5, <2>1 DEF PageNow
    <2>. QED BY <1>4, <2>2
  <1>7. listed = "pulls" /\ \A x \in rowsRead : x[2] <= touched[i]
    <2>1. i \notin RowsRead /\ ~(Place(i) >= GonePast)
      BY <1>3, <1>4, <1>6
    <2>. QED BY <1>1, <2>1
  <1>8. ASSUME NEW k \in rows PROVE touched[k] <= touched[i]
    <2>1. k \in ShownNow /\ GonePast <= Place(k)
      BY <1>2 DEF PageNow
    <2>2. Place(i) < Place(k)
      BY <1>4, <1>6, <2>1
    <2>3. ComesBefore(i, k)
      BY <1>1, <2>1, <2>2, PlacesFollow
    <2>4. Newest(i, k)
      BY <1>7, <2>3 DEF ComesBefore, CommentLists
    <2>. QED BY <1>1, <2>1, <2>4 DEF Newest, ListingTyped
  <1>9. \A x \in rowsRead' : x \in rowsRead \/ \E k \in rows : x[2] = touched[k]
    <2>1. \A k \in rows : <<k, touched[k], pageNo>>[2] = touched[k]
      OBVIOUS
    <2>. QED BY <1>2, <2>1
  <1>. QED BY <1>7, <1>8, <1>9

(* Where nothing moves, the page adds what it shows, once. *)
LEMMA PageSettles ==
  ASSUME ListingTracked, pageNo # 0, Settles, NEW rows, PageRead(rows)
  PROVE  /\ \A x \in rowsRead' : /\ x[1] \in ShownNow /\ Place(x[1]) < pageNo * PageSize
                                 /\ listed \in CommentLists => x[2] = touched[x[1]]
         /\ ReadOnce'
  <1>1. /\ ListingTyped /\ ShownNow \subseteq Entries
        /\ \A x \in rowsRead : /\ x[1] \in ShownNow /\ Place(x[1]) < GonePast
                               /\ listed \in CommentLists => x[2] = touched[x[1]]
        /\ \A x, y \in rowsRead : x[1] = y[1] => x = y
    BY PlacesAreNumbers DEF ListingTracked, ReadIsGone, ListingInv, ReadOnce, Settles
  <1>2. rows \subseteq PageNow /\ rowsRead' = rowsRead \cup {<<i, touched[i], pageNo>> : i \in rows}
    BY DEF PageRead
  <1>3. /\ GonePast \in Nat /\ pageNo * PageSize \in Nat /\ GonePast < pageNo * PageSize
        /\ \A k : Place(k) \in Nat
    BY <1>1, PageLimits, PlacesAreNumbers
  <1>4. \A x \in rowsRead' : x \in rowsRead \/ \E k \in rows : x = <<k, touched[k], pageNo>> /\ x[1] = k /\ x[2] = touched[k]
    BY <1>2
  <1>5. \A k \in rows : k \in ShownNow /\ GonePast <= Place(k) /\ Place(k) < pageNo * PageSize
    BY <1>2 DEF PageNow
  <1>6. \A x \in rowsRead' : /\ x[1] \in ShownNow /\ Place(x[1]) < pageNo * PageSize
                             /\ listed \in CommentLists => x[2] = touched[x[1]]
    <2>1. ASSUME NEW x \in rowsRead
          PROVE  /\ x[1] \in ShownNow /\ Place(x[1]) < pageNo * PageSize
                 /\ listed \in CommentLists => x[2] = touched[x[1]]
      BY <1>1, <1>3
    <2>. QED BY <1>4, <1>5, <2>1
  <1>7. \A x \in rowsRead, k \in rows : x[1] # k
    <2>1. \A x \in rowsRead, k \in rows : Place(x[1]) # Place(k)
      BY <1>1, <1>3, <1>5
    <2>. QED BY <2>1
  <1>8. ASSUME NEW x \in rowsRead', NEW y \in rowsRead', x[1] = y[1] PROVE x = y
    <2>1. CASE x \in rowsRead /\ y \in rowsRead
      BY <1>1, <1>8, <2>1
    <2>2. CASE x \notin rowsRead /\ y \notin rowsRead
      <3>1. x = <<x[1], touched[x[1]], pageNo>> /\ y = <<y[1], touched[y[1]], pageNo>>
        BY <1>4, <2>2
      <3>. QED BY <1>8, <3>1
    <2>3. CASE x \in rowsRead /\ y \notin rowsRead
      <3>1. y[1] \in rows
        BY <1>4, <2>3
      <3>. QED BY <1>7, <1>8, <2>3, <3>1
    <2>4. CASE x \notin rowsRead /\ y \in rowsRead
      <3>1. x[1] \in rows
        BY <1>4, <2>4
      <3>. QED BY <1>7, <1>8, <2>4, <3>1
    <2>. QED BY <2>1, <2>2, <2>3, <2>4
  <1>9. \A x, y \in rowsRead' : x[1] = y[1] => x = y
    BY <1>8
  <1>10. ReadOnce'
    BY <1>9 DEF ReadOnce
  <1>. QED BY <1>6, <1>10

(* After the last page, what is due and was not read is where the cursor goes, or the property
   says that it may be missing. *)
LEMMA EndCovers ==
  ASSUME ListingTracked, pageNo # 0, NEW rows, PageRead(rows), pageNo' = 0, ~MayMiss'
  PROVE  \A i \in dueRows : i \in RowsRead' \/ (listed \in CursorLists /\ touched[i] >= cursorAt')
  <1>1. /\ ListingTyped /\ ~Drifts /\ dueRows \subseteq ShownNow /\ ShownNow \subseteq Entries
        /\ \A i \in dueRows : touched[i] >= cursorAt /\ touched[i] \in Nat
        /\ cursorAt \in Nat /\ touched \in [Entries -> Nat]
    <2>1. ~Drifts
      BY DEF PageRead, MayMiss, Drifts
    <2>2. ShownNow \subseteq Entries
      BY PlacesAreNumbers
    <2>. QED BY <2>1, <2>2 DEF ListingTracked, StillDue, ListingTyped
  <1>2. /\ \/ cutShort' = TRUE /\ listed \in CommentLists
           \/ Cardinality(ShownNow) <= pageNo * PageSize
           \/ listed = "pulls" /\ \E k \in PageNow : touched[k] < cursorAt
        /\ cursorAt' = IF listed \in CursorLists THEN Latest(rowsRead') ELSE cursorAt
    <2>1. pageNo + 1 # 0
      BY <1>1 DEF ListingTyped
    <2>2. cutShort' = TRUE => listed \in CommentLists
      BY DEF MayMiss, PageRead
    <2>. QED BY <2>1, <2>2 DEF PageRead
  <1>3. /\ pageNo * PageSize \in Nat /\ Cardinality(ShownNow) \in Nat /\ \A k : Place(k) \in Nat
    BY <1>1, PageLimits, PlacesAreNumbers
  <1> SUFFICES ASSUME NEW i \in dueRows, i \notin RowsRead'
               PROVE  listed \in CursorLists /\ touched[i] >= cursorAt'
    OBVIOUS
  <1>4. listed \in CursorLists /\ \A x \in rowsRead' : x[2] <= touched[i]
    <2>1. CASE listed = "pulls" /\ \A x \in rowsRead' : x[2] <= touched[i]
      BY <2>1 DEF CursorLists
    <2>2. CASE Place(i) >= pageNo * PageSize
      <3>1. Place(i) < Cardinality(ShownNow)
        BY <1>1, PlacesFollow
      <3>2. CASE Cardinality(ShownNow) <= pageNo * PageSize
        BY <1>3, <2>2, <3>1, <3>2
      <3>3. CASE listed = "pulls" /\ \E k \in PageNow : touched[k] < cursorAt
        <4>1. PICK k \in PageNow : touched[k] < cursorAt
          BY <3>3
        <4>2. k \in ShownNow /\ k \in Entries /\ Place(k) < pageNo * PageSize
          BY <1>1 DEF PageNow
        <4>3. Newest(i, k)
          BY <1>1, <4>1, <4>2 DEF Newest
        <4>4. Place(i) <= Place(k)
          BY <1>1, <3>3, <4>2, <4>3, PlacesFollow DEF ComesBefore
        <4>. QED BY <1>3, <2>2, <4>2, <4>4
      <3>4. CASE cutShort' = TRUE /\ listed \in CommentLists
        <4>1. Settles
          BY <1>1, <3>4 DEF Drifts, Settles
        <4>2. ASSUME NEW x \in rowsRead' PROVE x[2] <= touched[i]
          <5>1. x[1] \in ShownNow /\ Place(x[1]) < pageNo * PageSize /\ x[2] = touched[x[1]]
            BY <3>4, <4>1, PageSettles
          <5>2. Place(x[1]) < Place(i)
            BY <1>3, <2>2, <5>1
          <5>3. ComesBefore(x[1], i)
            BY <1>1, <5>1, <5>2, PlacesFollow
          <5>4. Newest(i, x[1])
            BY <3>4, <5>3 DEF ComesBefore, CommentLists
          <5>. QED BY <1>1, <5>1, <5>4 DEF Newest
        <4>. QED BY <3>4, <4>2 DEF CursorLists, CommentLists
      <3>. QED BY <1>2, <3>2, <3>3, <3>4
    <2>. QED BY <1>1, <2>1, <2>2, PageCovers
  <1>5. Latest(rowsRead') = cursorAt \/ \E x \in rowsRead' : Latest(rowsRead') = x[2]
    <2>1. /\ cursorAt <= second /\ second \in Nat
          /\ \A x \in rowsRead : x[2] \in Nat /\ x[2] <= second
          /\ \A k \in Entries : touched[k] <= second
      BY DEF ListingTracked, ListingTyped, InTime
    <2>2. \A x \in rowsRead' : x[2] \in Nat /\ x[2] <= second
      BY <1>1, <2>1 DEF PageRead, PageNow
    <2>3. PICK all : all = rowsRead'
      OBVIOUS
    <2>. QED BY <1>1, <2>1, <2>2, <2>3, LatestIs
  <1>. QED BY <1>1, <1>2, <1>4, <1>5

LEMMA PageKeeps ==
  ASSUME ListingTracked, pageNo # 0, NEW rows, PageRead(rows)
  PROVE  ListingTracked'
  <1>1. /\ ListingTyped /\ InTime /\ StillDue /\ ShownNow \subseteq Entries
        /\ touched \in [Entries -> Nat] /\ pageNo \in Nat /\ cursorAt \in Nat /\ second \in Nat
    BY PlacesAreNumbers DEF ListingTracked, ListingTyped
  <1>2. /\ rows \subseteq Entries /\ rowsRead' = rowsRead \cup {<<i, touched[i], pageNo>> : i \in rows}
        /\ UNCHANGED <<listed, touched, shut, second, turns, dueRows, slid>>
        /\ OnForge' = OnForge
    BY <1>1 DEF PageRead, PageNow, OnForge
  <1>3. \A x \in rowsRead' : x[1] \in Entries /\ x[2] \in Nat /\ x[2] <= second
    <2>1. \A x \in rowsRead : x[1] \in Entries /\ x[2] \in Nat /\ x[2] <= second
      BY <1>1 DEF ListingTyped, InTime
    <2>2. \A i \in rows : i \in Entries /\ touched[i] \in Nat /\ touched[i] <= second
      BY <1>1, <1>2 DEF InTime
    <2>. QED BY <1>2, <2>1, <2>2
  <1>4. cursorAt' \in Nat /\ cursorAt' <= second
    <2>1. cursorAt <= second
      BY <1>1 DEF InTime
    <2>2. PICK all : all = rowsRead'
      OBVIOUS
    <2>3. Latest(rowsRead') \in Nat /\ Latest(rowsRead') <= second
      BY <1>1, <1>3, <2>1, <2>2, LatestIs
    <2>4. cursorAt' \in {cursorAt, Latest(rowsRead')}
      BY DEF PageRead
    <2>. QED BY <1>1, <2>1, <2>3, <2>4
  <1>5. pageNo' \in Nat /\ cutShort' \in BOOLEAN
    <2>1. pageNo' = 0 \/ pageNo' = pageNo + 1
      BY DEF PageRead
    <2>2. cutShort' = TRUE \/ cutShort' = FALSE
      BY DEF PageRead
    <2>3. cutShort' \in BOOLEAN
      BY <2>2
    <2>. QED BY <1>1, <2>1, <2>3
  <1>6. ListingTyped'
    BY <1>1, <1>2, <1>3, <1>4, <1>5 DEF ListingTyped
  <1>7. InTime'
    BY <1>1, <1>2, <1>3, <1>4 DEF InTime
  <1>8. ASSUME pageNo' # 0
        PROVE  /\ pageNo' = pageNo + 1 /\ cursorAt' = cursorAt /\ GonePast' = pageNo * PageSize
               /\ ShownNow' = ShownNow /\ \A i : Place(i)' = Place(i)
    <2>1. pageNo' = pageNo + 1 /\ cursorAt' = cursorAt
      BY <1>8 DEF PageRead
    <2>2. pageNo' - 1 = pageNo
      BY <1>1, <2>1
    <2>3. ShownNow' = ShownNow
      BY <1>2, <2>1 DEF ShownNow
    <2>4. \A i : InFront(i)' = InFront(i)
      BY <1>2, <2>3 DEF InFront, ComesBefore, Newest
    <2>. QED BY <2>1, <2>2, <2>3, <2>4 DEF GonePast, Place
  <1>9. StillDue'
    <2>1. CASE pageNo' = 0
      BY <1>1, <1>2, <2>1 DEF StillDue
    <2>2. CASE pageNo' # 0
      <3>1. (Drifts' <=> Drifts) /\ ShownNow' = ShownNow /\ cursorAt' = cursorAt
        BY <1>2, <1>8, <2>2 DEF Drifts
      <3>. QED BY <1>1, <1>2, <3>1 DEF StillDue
    <2>. QED BY <2>1, <2>2
  <1>10. GoneIsRead'
    <2>1. CASE pageNo' = 0
      BY <2>1 DEF GoneIsRead
    <2>2. CASE pageNo' # 0
      <3>1. Drifts' <=> Drifts
        BY <1>2 DEF Drifts
      <3>2. ASSUME ~Drifts
            PROVE  \A i \in dueRows :
                     \/ i \in RowsRead'
                     \/ Place(i)' >= GonePast'
                     \/ listed = "pulls" /\ \A x \in rowsRead' : x[2] <= touched[i]
        BY <1>8, <2>2, <3>2, PageCovers
      <3>. QED BY <1>2, <3>1, <3>2 DEF GoneIsRead
    <2>. QED BY <2>1, <2>2
  <1>11. Settles' <=> Settles
    BY <1>2 DEF Settles
  <1>12. ReadIsGone'
    <2>1. CASE pageNo' = 0 \/ ~Settles
      BY <1>11, <2>1 DEF ReadIsGone
    <2>2. CASE pageNo' # 0 /\ Settles
      <3>1. \A x \in rowsRead' : /\ x[1] \in ShownNow /\ Place(x[1]) < pageNo * PageSize
                                 /\ listed \in CommentLists => x[2] = touched[x[1]]
        BY <2>2, PageSettles
      <3>2. GonePast' = pageNo * PageSize /\ ShownNow' = ShownNow /\ \A i : Place(i)' = Place(i)
        BY <1>8, <2>2
      <3>. QED BY <1>2, <3>1, <3>2 DEF ReadIsGone
    <2>. QED BY <2>1, <2>2
  <1>13. NothingPassedOver'
    BY <1>2, EndCovers DEF NothingPassedOver
  <1>14. ReadOnce'
    <2>1. CASE Settles
      BY <2>1, PageSettles
    <2>2. CASE ~Settles
      BY <1>11, <2>2 DEF Settles, ReadOnce
    <2>. QED BY <2>1, <2>2
  <1>. QED BY <1>6, <1>7, <1>9, <1>10, <1>12, <1>13, <1>14 DEF ListingTracked, ListingInv

------------------------------------------------------------------------------
(* The forge goes on. *)
ForgeMoves(i) == Appears(i) \/ Closes(i) \/ (Updates(i) /\ listed # "reviews")

LEMMA ForgeTyped ==
  ASSUME ListingTracked, NEW i \in Entries, ForgeMoves(i)
  PROVE  /\ ListingTyped' /\ InTime'
         /\ UNCHANGED <<listed, cursorAt, pageNo, rowsRead, dueRows, cutShort>>
         /\ second' \in Nat /\ second <= second' /\ touched'[i] = second'
         /\ \A j \in Entries : touched[j] \in Nat /\ touched[j] <= second /\ (j # i => touched'[j] = touched[j])
         /\ OnForge' = OnForge \cup {i}
         /\ slid' \in BOOLEAN /\ (slid => slid') /\ (pageNo = 0 => slid' = slid)
  <1>1. /\ touched \in [Entries -> Nat] /\ second \in Nat /\ second >= 1 /\ slid \in BOOLEAN
        /\ \A j \in Entries : touched[j] \in Nat /\ touched[j] <= second
    BY DEF ListingTracked, ListingTyped, InTime
  <1>2. /\ second' \in {second, second + 1} /\ touched' = [touched EXCEPT ![i] = second']
        /\ UNCHANGED <<listed, cursorAt, pageNo, rowsRead, dueRows, cutShort>>
    BY DEF ForgeMoves, Appears, Closes, Updates, Happens
  <1>3. /\ second' \in Nat /\ second <= second' /\ touched'[i] = second' /\ touched' \in [Entries -> Nat]
        /\ \A j \in Entries : j # i => touched'[j] = touched[j]
    BY <1>1, <1>2
  <1>4. OnForge' = OnForge \cup {i}
    BY <1>1, <1>3 DEF OnForge
  <1>5. slid' \in BOOLEAN /\ (slid => slid') /\ (pageNo = 0 => slid' = slid)
    BY <1>1 DEF ForgeMoves, Appears, Closes, Updates
  <1>6. ListingTyped'
    BY <1>2, <1>3, <1>5 DEF ListingTracked, ListingTyped
  <1>7. InTime'
    <2>1. \A j \in Entries : touched'[j] <= second'
      BY <1>1, <1>3
    <2>2. /\ cursorAt \in Nat /\ cursorAt <= second
          /\ \A x \in rowsRead : x[2] \in Nat /\ x[2] <= second
          /\ \A k \in OnForge, j \in Entries : j < k => j \in OnForge
      BY DEF ListingTracked, ListingTyped, InTime
    <2>3. cursorAt' <= second' /\ second' >= 1 /\ \A x \in rowsRead' : x[2] <= second'
      BY <1>1, <1>2, <1>3, <2>2
    <2>4. i \in OnForge \/ \A j \in Entries : j < i => j \in OnForge
      BY DEF ForgeMoves, Appears, Closes, Updates
    <2>5. \A k \in OnForge', j \in Entries : j < k => j \in OnForge'
      BY <1>4, <2>2, <2>4
    <2>. QED BY <2>1, <2>3, <2>5 DEF InTime
  <1>. QED BY <1>1, <1>2, <1>3, <1>4, <1>5, <1>6, <1>7

(* What is due, and is not itself updated, only ever gets more before it. *)
LEMMA PlacesRise ==
  ASSUME ListingTracked, NEW i \in Entries, ForgeMoves(i), pageNo # 0, ~Drifts',
         NEW j \in dueRows, ~(listed = "pulls" /\ j = i)
  PROVE  j \in ShownNow' /\ Place(j) <= Place(j)'
  <1>1. /\ \A k \in Entries : touched[k] \in Nat /\ touched[k] <= second /\ (k # i => touched'[k] = touched[k])
        /\ UNCHANGED <<listed, cursorAt, pageNo, rowsRead, dueRows, cutShort>>
        /\ second' \in Nat /\ second <= second' /\ touched'[i] = second' /\ second \in Nat
        /\ OnForge' = OnForge \cup {i} /\ (slid => slid') /\ Entries \subseteq Nat /\ cursorAt \in Nat
    BY ForgeTyped, ListingAssumption DEF ListingTracked, ListingTyped
  <1>2. /\ listed \in CommentLists \cup {"issues"} => Appears(i)
        /\ listed = "reviews" => Appears(i)
        /\ listed \in ListKinds /\ ~Drifts
    <2>1. Updates(i) \/ Closes(i) => slid'
      BY DEF Updates, Closes
    <2>2. listed \in CommentLists \cup {"issues"} => ~slid'
      BY <1>1 DEF Drifts
    <2>3. Closes(i) => listed = "issues"
      BY DEF Closes
    <2>4. ~Drifts
      BY <1>1 DEF Drifts
    <2>5. "reviews" # "issues" /\ listed \in ListKinds
      BY DEF ListingTracked, ListingTyped
    <2>. QED BY <2>1, <2>2, <2>3, <2>4, <2>5 DEF ForgeMoves
  <1>3. Appears(i) => i \notin OnForge /\ shut' = shut
    BY DEF Appears
  <1>4. j \in ShownNow /\ j \in OnForge /\ j \in Entries /\ touched[j] >= cursorAt
    BY <1>2 DEF ListingTracked, StillDue, OnForge
  <1>5. \A k \in OnForge : k \in Entries /\ (Appears(i) => k # i /\ touched'[k] = touched[k])
    BY <1>1, <1>3 DEF OnForge
  <1>6. ASSUME listed \in CommentLists PROVE \A k \in ShownNow : k \in ShownNow' /\ touched'[k] = touched[k]
    BY <1>1, <1>2, <1>5, <1>6 DEF ShownNow
  <1>7. ASSUME listed = "issues" PROVE \A k \in ShownNow : k \in ShownNow'
    BY <1>1, <1>2, <1>3, <1>7 DEF ShownNow, CommentLists
  <1>8. ASSUME listed \notin CommentLists \cup {"issues"} PROVE ShownNow = OnForge /\ ShownNow' = OnForge \cup {i}
    BY <1>1, <1>8 DEF ShownNow
  <1>9. \A k \in ShownNow : k \in ShownNow' /\ k \in Entries
    BY <1>5, <1>6, <1>7, <1>8 DEF ShownNow
  <1>10. \A k \in ShownNow : ComesBefore(k, j) => ComesBefore(k, j)'
    <2>1. CASE listed \in CommentLists
      BY <1>1, <1>4, <1>6, <2>1 DEF ComesBefore, Newest, CommentLists
    <2>2. CASE listed = "pulls"
      <3>1. ASSUME NEW k \in ShownNow, Newest(k, j) PROVE Newest(k, j)'
        <4>1. j # i /\ touched'[j] = touched[j]
          BY <1>1, <1>4, <2>2
        <4>2. CASE k = i
          <5>1. touched[i] <= second' /\ touched[i] \in Nat /\ touched[j] \in Nat
            BY <1>1, <1>4
          <5>. QED BY <1>1, <3>1, <4>1, <4>2, <5>1 DEF Newest
        <4>3. CASE k # i
          <5>1. touched'[k] = touched[k]
            BY <1>1, <1>9, <4>3
          <5>. QED BY <3>1, <4>1, <5>1 DEF Newest
        <4>. QED BY <4>2, <4>3
      <3>. QED BY <1>1, <2>2, <3>1 DEF ComesBefore, CommentLists
    <2>3. CASE listed \in {"reviews", "suites", "issues"}
      BY <1>1, <2>3 DEF ComesBefore, CommentLists
    <2>. QED BY <1>2, <2>1, <2>2, <2>3 DEF ListKinds, CursorLists, CommentLists
  <1>11. InFront(j) \subseteq InFront(j)'
    BY <1>9, <1>10 DEF InFront
  <1>12. IsFiniteSet(InFront(j)')
    <2>1. InFront(j)' \subseteq Entries
      BY DEF InFront, ShownNow, OnForge
    <2>. QED BY <2>1, ListingAssumption, FS_Subset
  <1>. QED BY <1>4, <1>9, <1>11, <1>12, FS_Subset DEF Place

(* Where nothing moves, what was read keeps its place. *)
LEMMA PlacesStay ==
  ASSUME ListingTracked, NEW i \in Entries, Appears(i), pageNo # 0, Settles,
         NEW k \in ShownNow
  PROVE  k \in ShownNow' /\ Place(k)' = Place(k) /\ touched'[k] = touched[k]
  <1>1. /\ \A j \in Entries : touched[j] \in Nat /\ touched[j] <= second /\ (j # i => touched'[j] = touched[j])
        /\ UNCHANGED <<listed, cursorAt, pageNo, rowsRead, dueRows, cutShort>>
        /\ second' \in Nat /\ second <= second' /\ touched'[i] = second' /\ second \in Nat
        /\ OnForge' = OnForge \cup {i} /\ Entries \subseteq Nat /\ cursorAt \in Nat
    BY ForgeTyped, ListingAssumption DEF ListingTracked, ListingTyped, ForgeMoves
  <1>2. /\ i \notin OnForge /\ \A m \in OnForge, j \in Entries : j < m => j \in OnForge
        /\ listed = "reviews" \/ listed \in CommentLists
    BY DEF Appears, ListingTracked, InTime, Settles
  <1>3. ShownNow \subseteq OnForge /\ \A m \in OnForge : m \in Entries /\ m # i /\ touched'[m] = touched[m] /\ ~(i < m)
    BY <1>1, <1>2 DEF ShownNow, OnForge
  <1>4. /\ \A m \in ShownNow : m \in ShownNow'
        /\ \A m \in ShownNow' : m = i \/ m \in ShownNow
    <2>1. CASE listed = "reviews"
      BY <1>1, <2>1 DEF ShownNow, CommentLists
    <2>2. CASE listed \in CommentLists
      BY <1>1, <1>3, <2>2 DEF ShownNow
    <2>. QED BY <1>2, <2>1, <2>2
  <1>5. ~ComesBefore(i, k)'
    <2>1. CASE listed = "reviews"
      BY <1>1, <1>3, <2>1 DEF ComesBefore, CommentLists
    <2>2. CASE listed \in CommentLists
      <3>1. touched'[k] <= second' /\ touched'[k] \in Nat /\ k \in Nat /\ i \in Nat
        <4>1. k \in Entries /\ touched'[k] = touched[k]
          BY <1>3
        <4>2. touched[k] \in Nat /\ touched[k] <= second
          BY <1>1, <4>1
        <4>. QED BY <1>1, <4>1, <4>2
      <3>2. ~Newest(k, i)'
        <4>1. ~(k > i)
          <5>1. k \in OnForge /\ ~(i < k)
            BY <1>3
          <5>. QED BY <3>1, <5>1
        <4>. QED BY <1>1, <3>1, <4>1 DEF Newest
      <3>. QED BY <1>1, <2>2, <3>2 DEF ComesBefore, CommentLists
    <2>. QED BY <1>2, <2>1, <2>2
  <1>6. \A m \in ShownNow : ComesBefore(m, k)' <=> ComesBefore(m, k)
    BY <1>1, <1>3 DEF ComesBefore, Newest
  <1>7. InFront(k)' = InFront(k)
    BY <1>4, <1>5, <1>6 DEF InFront
  <1>. QED BY <1>3, <1>4, <1>7 DEF Place

LEMMA ForgeKeeps ==
  ASSUME ListingTracked, NEW i \in Entries, ForgeMoves(i)
  PROVE  ListingTracked'
  <1>1. /\ \A j \in Entries : touched[j] \in Nat /\ touched[j] <= second /\ (j # i => touched'[j] = touched[j])
        /\ UNCHANGED <<listed, cursorAt, pageNo, rowsRead, dueRows, cutShort>>
        /\ second' \in Nat /\ second <= second' /\ touched'[i] = second' /\ second \in Nat
        /\ OnForge' = OnForge \cup {i} /\ (slid => slid') /\ (pageNo = 0 => slid' = slid)
        /\ ListingTyped' /\ InTime' /\ ListingTyped /\ RowsRead' = RowsRead
    BY ForgeTyped DEF ListingTracked, ListingTyped, RowsRead
  <1>2. \A j \in Entries : touched[j] <= touched'[j] /\ touched'[j] \in Nat
    BY <1>1
  <1>3. dueRows \subseteq OnForge /\ OnForge \subseteq Entries /\ cursorAt \in Nat /\ GonePast' = GonePast
    BY <1>1 DEF ListingTracked, StillDue, OnForge, ListingTyped, GonePast
  <1>4. Drifts => Drifts'
    BY <1>1 DEF Drifts
  <1>5. StillDue'
    <2>1. ASSUME pageNo # 0, NEW j \in dueRows PROVE touched'[j] >= cursorAt
      <3>1. touched[j] >= cursorAt /\ j \in Entries
        BY <1>3, <2>1 DEF ListingTracked, StillDue
      <3>. QED BY <1>1, <1>2, <1>3, <3>1
    <2>2. ASSUME pageNo # 0, ~Drifts', NEW j \in dueRows PROVE j \in ShownNow'
      <3>1. CASE listed = "pulls"
        BY <1>1, <1>3, <3>1 DEF ShownNow, CommentLists
      <3>2. CASE listed # "pulls"
        BY <2>2, <3>2, PlacesRise
      <3>. QED BY <3>1, <3>2
    <2>3. listed = "issues" => dueRows \cap PullEntries = {}
      BY DEF ListingTracked, StillDue
    <2>. QED BY <1>1, <1>3, <2>1, <2>2, <2>3 DEF StillDue
  <1>6. GoneIsRead'
    <2> SUFFICES ASSUME pageNo # 0, ~Drifts', NEW j \in dueRows, j \notin RowsRead
                 PROVE  Place(j)' >= GonePast' \/ (listed = "pulls" /\ \A x \in rowsRead : x[2] <= touched'[j])
      BY <1>1 DEF GoneIsRead
    <2>1. j \in Entries /\ \A x \in rowsRead : x[2] \in Nat /\ x[2] <= second
      BY <1>3 DEF ListingTracked, ListingTyped, InTime
    <2>2. CASE listed = "pulls" /\ j = i
      BY <1>1, <2>1, <2>2
    <2>3. CASE ~(listed = "pulls" /\ j = i)
      <3>1. Place(j) <= Place(j)'
        BY <2>3, PlacesRise
      <3>2. Place(j) \in Nat /\ Place(j)' \in Nat /\ GonePast \in Nat
        <4>1. InFront(j)' \subseteq Entries
          BY DEF InFront, ShownNow, OnForge
        <4>2. IsFiniteSet(InFront(j)')
          BY <4>1, ListingAssumption, FS_Subset
        <4>. QED BY <1>1, <4>2, FS_CardinalityType, PlacesAreNumbers, PageLimits DEF Place
      <3>3. Place(j) >= GonePast \/ (listed = "pulls" /\ \A x \in rowsRead : x[2] <= touched[j])
        BY <1>4 DEF ListingTracked, GoneIsRead
      <3>4. CASE Place(j) >= GonePast
        BY <1>3, <3>1, <3>2, <3>4
      <3>5. CASE listed = "pulls" /\ \A x \in rowsRead : x[2] <= touched[j]
        <4>1. touched[j] <= touched'[j] /\ touched'[j] \in Nat /\ touched[j] \in Nat
          BY <1>1, <1>2, <2>1
        <4>. QED BY <2>1, <3>5, <4>1
      <3>. QED BY <3>3, <3>4, <3>5
    <2>. QED BY <2>2, <2>3
  <1>7. Settles' => Settles
    BY <1>1 DEF Settles
  <1>8. pageNo # 0 /\ Settles' => Appears(i)
    <2>1. "reviews" # "issues" /\ "issues" \notin CommentLists /\ "reviews" \notin CommentLists
      BY DEF CommentLists
    <2>. QED BY <1>1, <2>1 DEF Settles, ForgeMoves, Updates, Closes
  <1>9. ReadIsGone'
    <2> SUFFICES ASSUME pageNo # 0, Settles', NEW x \in rowsRead
                 PROVE  x[1] \in ShownNow' /\ Place(x[1])' < GonePast' /\ (listed \in CommentLists => x[2] = touched'[x[1]])
      BY <1>1 DEF ReadIsGone
    <2>1. x[1] \in ShownNow /\ Place(x[1]) < GonePast /\ (listed \in CommentLists => x[2] = touched[x[1]])
      BY <1>7 DEF ListingTracked, ReadIsGone
    <2>2. PICK k \in ShownNow : k = x[1]
      BY <2>1
    <2>3. k \in ShownNow' /\ Place(k)' = Place(k) /\ touched'[k] = touched[k]
      BY <1>7, <1>8, PlacesStay
    <2>. QED BY <1>3, <2>1, <2>2, <2>3
  <1>10. NothingPassedOver'
    <2> SUFFICES ASSUME pageNo = 0, ~MayMiss', NEW j \in dueRows
                 PROVE  j \in RowsRead \/ (listed \in CursorLists /\ touched'[j] >= cursorAt)
      BY <1>1 DEF NothingPassedOver
    <2>1. ~MayMiss
      BY <1>1 DEF MayMiss
    <2>2. j \in RowsRead \/ (listed \in CursorLists /\ touched[j] >= cursorAt)
      BY <2>1 DEF ListingTracked, ListingInv, NothingPassedOver
    <2>3. touched[j] <= touched'[j] /\ touched'[j] \in Nat /\ touched[j] \in Nat
      BY <1>1, <1>2, <1>3
    <2>. QED BY <1>3, <2>2, <2>3
  <1>11. ReadOnce'
    <2>1. Settles' => \A x, y \in rowsRead : x[1] = y[1] => x = y
      BY <1>7 DEF ListingTracked, ListingInv, ReadOnce, Settles
    <2>. QED BY <1>1, <2>1 DEF ReadOnce, Settles
  <1>. QED BY <1>1, <1>5, <1>6, <1>9, <1>10, <1>11 DEF ListingTracked, ListingInv

LEMMA StartKeeps ==
  ASSUME ListingTracked, ListingStarts
  PROVE  ListingTracked'
  <1>1. /\ pageNo' = 1 /\ rowsRead' = {} /\ slid' = FALSE /\ cutShort' = FALSE
        /\ dueRows' = {i \in OnForge : touched[i] >= cursorAt /\ i \notin shut /\ (listed # "issues" \/ i \notin PullEntries)}
        /\ UNCHANGED <<listed, touched, shut, second, turns, cursorAt>>
        /\ OnForge' = OnForge
    BY DEF ListingStarts, OnForge
  <1>2. slid' \in BOOLEAN /\ cutShort' \in BOOLEAN /\ pageNo' \in Nat /\ pageNo' # 0
    <2>1. slid' \in BOOLEAN
      BY <1>1
    <2>2. cutShort' \in BOOLEAN
      BY <1>1
    <2>3. pageNo' \in Nat /\ pageNo' # 0
      BY <1>1
    <2>. QED BY <2>1, <2>2, <2>3
  <1>3. ListingTyped' /\ InTime'
    BY <1>1, <1>2 DEF ListingTracked, ListingTyped, InTime
  <1>4. StillDue'
    BY <1>1 DEF StillDue, ShownNow
  <1>5. GonePast' = 0
    <2>1. pageNo' - 1 = 0 /\ 0 * PageSize = 0
      BY <1>1, ListingAssumption
    <2>. QED BY <2>1 DEF GonePast
  <1>6. \A i : Place(i)' \in Nat
    <2>1. ASSUME NEW i PROVE Place(i)' \in Nat
      <3>1. InFront(i)' \subseteq Entries
        BY DEF InFront, ShownNow, OnForge
      <3>2. IsFiniteSet(InFront(i)')
        BY <3>1, ListingAssumption, FS_Subset
      <3>. QED BY <3>2, FS_CardinalityType DEF Place
    <2>. QED BY <2>1
  <1>7. GoneIsRead'
    BY <1>5, <1>6 DEF GoneIsRead
  <1>8. ReadIsGone'
    BY <1>1 DEF ReadIsGone
  <1>9. ListingInv'
    BY <1>1, <1>2 DEF ListingInv, NothingPassedOver, ReadOnce
  <1>. QED BY <1>3, <1>4, <1>7, <1>8, <1>9 DEF ListingTracked

LEMMA FailKeeps ==
  ASSUME ListingTracked, PageFails
  PROVE  ListingTracked'
  <1>1. /\ pageNo' = 0 /\ rowsRead' = {} /\ dueRows' = {} /\ OnForge' = OnForge
        /\ UNCHANGED <<listed, touched, shut, second, turns, cursorAt, slid, cutShort>>
    BY DEF PageFails, OnForge
  <1>2. ListingTyped' /\ InTime'
    BY <1>1 DEF ListingTracked, ListingTyped, InTime
  <1>3. StillDue' /\ GoneIsRead' /\ ReadIsGone' /\ ListingInv'
    BY <1>1 DEF StillDue, GoneIsRead, ReadIsGone, ListingInv, NothingPassedOver, ReadOnce
  <1>. QED BY <1>2, <1>3 DEF ListingTracked

(* A listing of the forge, read page by page while the forge goes on, passes nothing over that   *)
(* was due when it began, but what the next one has, or where an edited comment, a closed issue  *)
(* or MaxPages comes in; and where nothing moves, no row comes twice (the List functions of      *)
(* forge.go, and pollPulls and pollComments that move the cursor behind them).                   *)
THEOREM ListingPassesNothingOver ==
  ListingSpec => []ListingInv
  <1>1. ListingInit => ListingTracked
    <2> SUFFICES ASSUME ListingInit PROVE ListingTracked
      OBVIOUS
    <2>1. /\ listed \in ListKinds /\ touched = [i \in Entries |-> IF i = 1 THEN 1 ELSE 0] /\ second = 1 /\ cursorAt = 0
          /\ pageNo = 0 /\ rowsRead = {} /\ dueRows = {} /\ slid = FALSE /\ cutShort = FALSE
      BY DEF ListingInit
    <2>2. slid \in BOOLEAN /\ cutShort \in BOOLEAN
      BY <2>1
    <2>3. ListingTyped
      BY <2>1, <2>2 DEF ListingTyped
    <2>4. \A k \in OnForge, j \in Entries : j < k => j \in OnForge
      <3>1. \A k \in OnForge : k = 1
        BY <2>1 DEF OnForge
      <3>2. \A j \in Entries : ~(j < 1)
        BY ListingAssumption
      <3>. QED BY <3>1, <3>2
    <2>5. InTime
      BY <2>1, <2>4 DEF InTime
    <2>. QED BY <2>1, <2>3, <2>5
         DEF ListingTracked, StillDue, GoneIsRead, ReadIsGone, ListingInv, NothingPassedOver, ReadOnce
  <1>2. ListingTracked /\ [ListingNext]_listingVars => ListingTracked'
    <2> SUFFICES ASSUME ListingTracked, [ListingNext]_listingVars PROVE ListingTracked'
      OBVIOUS
    <2>1. CASE \E i \in Entries : Appears(i) \/ Closes(i) \/ (Updates(i) /\ listed # "reviews")
      BY <2>1, ForgeKeeps DEF ForgeMoves
    <2>2. CASE ListingStarts
      BY <2>2, StartKeeps
    <2>3. CASE PageFails
      BY <2>3, FailKeeps
    <2>4. CASE ListPullRequests \/ ListReviews \/ ListReviewComments \/ ListIssueComments \/ ListCheckSuites \/ ListOpenIssues
      BY <2>4, PageTaken, PageKeeps
    <2>5. CASE UNCHANGED listingVars
      <3>1. UNCHANGED <<listed, touched, shut, second, cursorAt, pageNo, rowsRead, dueRows, slid, cutShort>>
        BY <2>5 DEF listingVars
      <3>2. /\ OnForge' = OnForge /\ RowsRead' = RowsRead /\ (Drifts' <=> Drifts) /\ (Settles' <=> Settles)
            /\ GonePast' = GonePast
        BY <3>1 DEF OnForge, RowsRead, Drifts, Settles, GonePast
      <3>3. ShownNow' = ShownNow
        BY <3>1, <3>2 DEF ShownNow
      <3>4. \A i : InFront(i)' = InFront(i)
        BY <3>1, <3>3 DEF InFront, ComesBefore, Newest
      <3>5. \A i : Place(i)' = Place(i)
        BY <3>4 DEF Place
      <3>6. ListingTyped' /\ InTime'
        BY <3>1, <3>2 DEF ListingTracked, ListingTyped, InTime
      <3>7. StillDue'
        BY <3>1, <3>2, <3>3 DEF ListingTracked, StillDue
      <3>8. GoneIsRead'
        BY <3>1, <3>2, <3>5 DEF ListingTracked, GoneIsRead
      <3>9. ReadIsGone'
        BY <3>1, <3>2, <3>3, <3>5 DEF ListingTracked, ReadIsGone
      <3>10. ListingInv'
        BY <3>1, <3>2 DEF ListingTracked, ListingInv, NothingPassedOver, ReadOnce, MayMiss
      <3>. QED BY <3>6, <3>7, <3>8, <3>9, <3>10 DEF ListingTracked
    <2>. QED BY <2>1, <2>2, <2>3, <2>4, <2>5 DEF ListingNext
  <1>3. ListingTracked => ListingInv
    BY DEF ListingTracked
  <1>. QED BY <1>1, <1>2, <1>3, PTL DEF ListingSpec
==============================================================================
