----------------------------- MODULE Supervisor -----------------------------
(***************************************************************************)
(* One run's supervisor, step by step: provisioning, launch, the select    *)
(* loop with its wall clock, and the terminal path, against everything     *)
(* that reaches the run from other goroutines: the admission hand-over,    *)
(* StopRun callers, the elicitation seam's park and resume, the container  *)
(* sweeper, shutdown and crashes.                                          *)
(*                                                                         *)
(* Time is abstract: an armed timer may fire whenever it likes.  The       *)
(* ticket, the messages and the elicitation rows are left out.             *)
(***************************************************************************)
EXTENDS RunStates, Naturals

CONSTANTS
  Callers,     \* goroutines that may each call StopRun once per process
  MaxParks,    \* bound: questions the agent asks
  MaxCrashes   \* bound: stops and crashes of the process

ASSUME SupervisorConstants == MaxParks \in Nat /\ MaxCrashes \in Nat

VARIABLES
  state,      \* runs.state
  placed,     \* the row names the container (SetProvisioned)
  adm,        \* admission and this run: "waiting", "admitted" (row written), "done"
  pc,         \* the supervisor goroutine; "none" when it is not in the map
  reattached, seed,   \* it was started by reconcile; over a row read as parked
  canceled,   \* its context is cancelled
  stop,       \* stopKind, "none" while no stop was requested
  handle,     \* the handle is set
  session,    \* the agent: "none", "alive", "told" to stop, "ok" or "error" once ended
  kind,       \* the outcome the terminal path was entered with
  hasInst,    \* the terminal path was given the instance
  container, token,
  parked, nudge, timer,  \* the supervisor's clock; timer is "armed", "horizon" or "off"
  notes,      \* SetRunState calls that have yet to call notePark
  caller,     \* StopRun calls
  stopping, up,          \* Scheduler.Stop has begun; the process runs
  parks, crashes

rowVars     == <<state, placed>>
supVars     == <<pc, reattached, seed, canceled, stop, handle, kind, hasInst>>
sessionVars == <<session, container, token>>
clockVars   == <<parked, nudge, timer>>
vars == <<rowVars, adm, supVars, sessionVars, clockVars, notes, caller, stopping, up,
          parks, crashes>>

FinishStages == {"preserve", "teardown", "terminal", "exit"}
Stages == {"none", "lookup", "mint", "prepare", "record", "start", "launch", "setHandle",
           "seed", "pump"} \cup FinishStages

\* A fresh supervisor struct, and no agent attached to it.
FreshSupervisor ==
  /\ canceled' = FALSE /\ stop' = "none" /\ handle' = FALSE
  /\ kind' = "none" /\ hasInst' = FALSE
  /\ parked' = FALSE /\ nudge' = FALSE /\ timer' = "off"

Init ==
  /\ state = "queued" /\ placed = FALSE /\ adm = "waiting"
  /\ pc = "none" /\ reattached = FALSE /\ seed = FALSE
  /\ canceled = FALSE /\ stop = "none" /\ handle = FALSE
  /\ session = "none" /\ kind = "none" /\ hasInst = FALSE
  /\ container = FALSE /\ token = FALSE
  /\ parked = FALSE /\ nudge = FALSE /\ timer = "off"
  /\ notes = {} /\ caller = [c \in Callers |-> "idle"]
  /\ stopping = FALSE /\ up = TRUE /\ parks = 0 /\ crashes = 0

------------------------------------------------------------------------------
(* Admission: the transition, then the supervisor. *)

Admit ==
  /\ up /\ ~stopping /\ adm = "waiting"
  /\ state' = AfterTransition(state, "provisioning")
  /\ adm' = IF TransitionRefused(state, "provisioning") THEN "done" ELSE "admitted"
  /\ UNCHANGED <<placed, supVars, sessionVars, clockVars, notes, caller, stopping, up,
                 parks, crashes>>

\* superviseFrom: not once Stop has begun.
StartSupervisor ==
  /\ up /\ adm = "admitted" /\ adm' = "done"
  /\ IF stopping
     THEN UNCHANGED <<supVars, clockVars>>
     ELSE /\ pc' = "lookup" /\ reattached' = FALSE /\ seed' = FALSE
          /\ FreshSupervisor
  /\ UNCHANGED <<rowVars, sessionVars, notes, caller, stopping, up, parks, crashes>>

------------------------------------------------------------------------------
(* supervise, up to the select loop. *)

\* Into the terminal path with outcome k, holding the instance or not.
EnterFinish(k, inst) ==
  /\ pc' = "preserve" /\ kind' = k /\ hasInst' = inst
  /\ UNCHANGED <<reattached, seed, canceled, stop, handle>>

GoTo(stage) ==
  /\ pc' = stage
  /\ UNCHANGED <<reattached, seed, canceled, stop, handle, kind, hasInst>>

AbandonRun == GoTo("none")

\* The agent row is read under the supervisor's context: cancelled, it reads as missing.
Lookup ==
  /\ up /\ pc = "lookup"
  /\ IF canceled THEN EnterFinish("failed", FALSE)
     ELSE GoTo(IF reattached THEN "launch" ELSE "mint")
  /\ UNCHANGED <<rowVars, adm, sessionVars, clockVars, notes, caller, stopping, up, parks,
                 crashes>>

MintToken ==
  /\ up /\ pc = "mint"
  /\ token' = TRUE
  /\ GoTo("prepare")
  /\ UNCHANGED <<rowVars, adm, session, container, clockVars, notes, caller, stopping, up,
                 parks, crashes>>

\* What supervise does with a provisioning error: abandoned at shutdown, else a requested
\* stop decides the outcome.
ProvisionFailed(inst) ==
  IF stopping THEN AbandonRun
  ELSE EnterFinish(IF stop = "none" THEN "failed" ELSE stop, inst)

\* Prepare fails when its context is cancelled, or for reasons of its own, and leaves no
\* container behind.
Prepare(ok) ==
  /\ up /\ pc = "prepare" /\ (ok => ~canceled)
  /\ IF ok THEN container' = TRUE /\ GoTo("record")
     ELSE ProvisionFailed(FALSE) /\ UNCHANGED container
  /\ UNCHANGED <<rowVars, adm, session, token, clockVars, notes, caller, stopping, up,
                 parks, crashes>>

SetProvisioned ==
  /\ up /\ pc = "record"
  /\ placed' = TRUE
  /\ GoTo("start")
  /\ UNCHANGED <<state, adm, sessionVars, clockVars, notes, caller, stopping, up, parks,
                 crashes>>

StartRunning ==
  /\ up /\ pc = "start"
  /\ state' = AfterTransition(state, "running")
  /\ IF TransitionRefused(state, "running") THEN ProvisionFailed(TRUE) ELSE GoTo("launch")
  /\ UNCHANGED <<placed, adm, sessionVars, clockVars, notes, caller, stopping, up, parks,
                 crashes>>

\* Launch execs under the supervisor's context; its error is a failed run whatever was
\* requested meanwhile.
Launch(ok) ==
  /\ up /\ pc = "launch" /\ (ok => ~canceled)
  /\ IF ok THEN session' = "alive" /\ GoTo("setHandle")
     ELSE /\ UNCHANGED session
          /\ IF stopping THEN AbandonRun ELSE EnterFinish("failed", TRUE)
  /\ UNCHANGED <<rowVars, adm, container, token, clockVars, notes, caller, stopping, up,
                 parks, crashes>>

\* handle.Stop reaches a session that has not ended.
Told == IF session = "alive" THEN "told" ELSE session

SetHandle ==
  /\ up /\ pc = "setHandle"
  /\ handle' = TRUE
  /\ session' = IF stop = "none" THEN session ELSE Told
  /\ pc' = "seed"
  /\ UNCHANGED <<reattached, seed, canceled, stop, kind, hasInst, rowVars, adm, container,
                 token, clockVars, notes, caller, stopping, up, parks, crashes>>

\* setParked: a repeat is a no-op; a change nudges the loop.
SetParked(p) ==
  /\ parked' = p
  /\ nudge' = (nudge \/ parked # p)

WallRemaining(p) == IF p THEN "horizon" ELSE "armed"

\* seedParked trusts the row as reconcile read it; then the timer is made.
SeedParked ==
  /\ up /\ pc = "seed"
  /\ IF seed THEN SetParked(TRUE) ELSE UNCHANGED <<parked, nudge>>
  /\ timer' = WallRemaining(parked')
  /\ GoTo("pump")
  /\ UNCHANGED <<rowVars, adm, sessionVars, notes, caller, stopping, up, parks, crashes>>

------------------------------------------------------------------------------
(* The select loop. *)

Ended == session \in {"ok", "error"}

\* A requested stop decides the outcome, else how the session ended.
outcomeOf == IF stop # "none" THEN stop ELSE IF session = "ok" THEN "completed" ELSE "failed"

\* ctx.Done: shutdown abandons the run; otherwise a stop raced the launch and the session
\* is waited out.
PumpContextDone ==
  /\ up /\ pc = "pump" /\ canceled
  /\ IF stopping THEN AbandonRun
     ELSE Ended /\ EnterFinish(outcomeOf, TRUE)
  /\ UNCHANGED <<rowVars, adm, sessionVars, clockVars, notes, caller, stopping, up, parks,
                 crashes>>

PumpParkNudge ==
  /\ up /\ pc = "pump" /\ nudge
  /\ nudge' = FALSE
  /\ timer' = WallRemaining(parked)
  /\ UNCHANGED <<rowVars, adm, supVars, sessionVars, parked, notes, caller, stopping, up,
                 parks, crashes>>

\* requestStop: the first one decides.
RequestStop(k) ==
  /\ stop' = IF stop = "none" THEN k ELSE stop
  /\ session' = IF stop = "none" /\ handle THEN Told ELSE session

PumpTimer ==
  /\ up /\ pc = "pump" /\ timer = "armed"
  /\ timer' = "off"
  /\ IF parked THEN UNCHANGED <<stop, session>> ELSE RequestStop("timed_out")
  /\ UNCHANGED <<rowVars, adm, pc, reattached, seed, canceled, handle, kind, hasInst,
                 container, token, parked, nudge, notes, caller, stopping, up, parks,
                 crashes>>

PumpWait ==
  /\ up /\ pc = "pump" /\ Ended
  /\ IF stopping THEN AbandonRun ELSE EnterFinish(outcomeOf, TRUE)
  /\ UNCHANGED <<rowVars, adm, sessionVars, clockVars, notes, caller, stopping, up, parks,
                 crashes>>

------------------------------------------------------------------------------
(* finish.  Its context is never cancelled. *)

PreserveAndPush ==
  /\ up /\ pc = "preserve"
  /\ GoTo("teardown")
  /\ UNCHANGED <<rowVars, adm, sessionVars, clockVars, notes, caller, stopping, up, parks,
                 crashes>>

TeardownKeepsToken ==
  /\ up /\ pc = "teardown"
  /\ container' = IF hasInst THEN FALSE ELSE container
  /\ GoTo("terminal")
  /\ UNCHANGED <<rowVars, adm, session, token, clockVars, notes, caller, stopping, up,
                 parks, crashes>>

Teardown ==
  /\ up /\ pc = "teardown"
  /\ token' = FALSE
  /\ container' = IF hasInst THEN FALSE ELSE container
  /\ GoTo("terminal")
  /\ UNCHANGED <<rowVars, adm, session, clockVars, notes, caller, stopping, up, parks,
                 crashes>>

TerminalTransition ==
  /\ up /\ pc = "terminal"
  /\ state' = AfterTransition(state, kind)
  /\ GoTo("exit")
  /\ UNCHANGED <<placed, adm, sessionVars, clockVars, notes, caller, stopping, up, parks,
                 crashes>>

\* The pull request, the ticket and the wake-up done, the goroutine leaves the map.
Exit ==
  /\ up /\ pc = "exit"
  /\ GoTo("none")
  /\ UNCHANGED <<rowVars, adm, sessionVars, clockVars, notes, caller, stopping, up, parks,
                 crashes>>

------------------------------------------------------------------------------
(* Other goroutines. *)

SessionEnds(how) ==
  /\ session \in {"alive", "told"}
  /\ session' = how
  /\ UNCHANGED <<rowVars, adm, supVars, container, token, clockVars, notes, caller, stopping,
                 up, parks, crashes>>

\* The sink's step cap.
StepCap ==
  /\ up /\ session = "alive" /\ pc \notin FinishStages \cup {"none"}
  /\ RequestStop("failed")
  /\ UNCHANGED <<rowVars, adm, pc, reattached, seed, canceled, handle, kind, hasInst,
                 container, token, clockVars, notes, caller, stopping, up, parks, crashes>>

\* StopRun reads the row and looks for a supervisor.
StopLookup(c) ==
  /\ up /\ caller[c] = "idle" /\ state \notin Terminal
  /\ IF pc # "none"
     THEN RequestStop("canceled") /\ caller' = [caller EXCEPT ![c] = "check"]
     ELSE UNCHANGED <<stop, session>> /\ caller' = [caller EXCEPT ![c] = "direct"]
  /\ UNCHANGED <<rowVars, adm, pc, reattached, seed, canceled, handle, kind, hasInst,
                 container, token, clockVars, notes, stopping, up, parks, crashes>>

\* With no handle yet, the supervisor's context is cancelled instead.
StopCheck(c) ==
  /\ up /\ caller[c] = "check"
  /\ caller' = [caller EXCEPT ![c] = "done"]
  /\ canceled' = (canceled \/ (pc # "none" /\ ~handle))
  /\ UNCHANGED <<rowVars, adm, pc, reattached, seed, stop, handle, kind, hasInst,
                 sessionVars, clockVars, notes, stopping, up, parks, crashes>>

\* Without a supervisor: cancel the row, then revoke the token.
StopDirect(c) ==
  /\ up /\ caller[c] = "direct"
  /\ state' = AfterTransition(state, "canceled")
  /\ caller' = [caller EXCEPT ![c] = IF TransitionRefused(state, "canceled") THEN "done"
                                     ELSE "revoke"]
  /\ UNCHANGED <<placed, adm, supVars, sessionVars, clockVars, notes, stopping, up, parks,
                 crashes>>

StopRevoke(c) ==
  /\ up /\ caller[c] = "revoke"
  /\ token' = FALSE
  /\ caller' = [caller EXCEPT ![c] = "done"]
  /\ UNCHANGED <<rowVars, adm, supVars, session, container, clockVars, notes, stopping, up,
                 parks, crashes>>

\* SetRunState: the agent's question over its token, a human's answer.  The transition
\* first, notePark after it.
Ask ==
  /\ up /\ parks < MaxParks /\ token /\ session = "alive"
  /\ transitionLegal(state, "needs_input")
  /\ state' = "needs_input" /\ notes' = notes \cup {"park"} /\ parks' = parks + 1
  /\ UNCHANGED <<placed, adm, supVars, sessionVars, clockVars, caller, stopping, up,
                 crashes>>

Answer ==
  /\ up /\ state \in Parked
  /\ state' = "running" /\ notes' = notes \cup {"resume"}
  /\ UNCHANGED <<placed, adm, supVars, sessionVars, clockVars, caller, stopping, up, parks,
                 crashes>>

NotePark(n) ==
  /\ up /\ n \in notes
  /\ notes' = notes \ {n}
  /\ IF pc # "none" THEN SetParked(n = "park") ELSE UNCHANGED <<parked, nudge>>
  /\ UNCHANGED <<rowVars, adm, supVars, sessionVars, timer, caller, stopping, up, parks,
                 crashes>>

\* The sandbox's sweeper removes the container of a terminal run.
Sweep ==
  /\ up /\ container /\ state \in Terminal
  /\ container' = FALSE
  /\ UNCHANGED <<rowVars, adm, supVars, session, token, clockVars, notes, caller, stopping,
                 up, parks, crashes>>

------------------------------------------------------------------------------
(* Shutdown, crash and restart. *)

Stop ==
  /\ up /\ ~stopping /\ crashes < MaxCrashes
  /\ stopping' = TRUE
  /\ canceled' = (canceled \/ pc # "none")
  /\ adm' = IF adm = "waiting" THEN "done" ELSE adm
  /\ UNCHANGED <<rowVars, pc, reattached, seed, stop, handle, kind, hasInst, sessionVars,
                 clockVars, notes, caller, up, parks, crashes>>

\* The process is gone, at a crash or when Stop has waited its goroutines out; the container
\* may be too.
ProcessEnds(survives) ==
  /\ up /\ crashes < MaxCrashes
  /\ up' = FALSE /\ stopping' = FALSE /\ crashes' = crashes + 1
  /\ pc' = "none" /\ reattached' = FALSE /\ seed' = FALSE /\ FreshSupervisor
  /\ session' = "none" /\ token' = FALSE /\ container' = (container /\ survives)
  /\ adm' = "done" /\ notes' = {} /\ caller' = [c \in Callers |-> "idle"]
  /\ UNCHANGED <<rowVars, parks>>

\* reconcileOne: a surviving container is supervised again, a lost one fails the run unless
\* it is parked.
Reconcile ==
  /\ ~up /\ up' = TRUE
  /\ adm' = IF state = "queued" THEN "waiting" ELSE "done"
  /\ IF state \in Active /\ placed /\ container
     THEN /\ pc' = "lookup" /\ reattached' = TRUE /\ seed' = (state \in Parked)
          /\ token' = TRUE
          /\ state' = IF state = "provisioning" THEN "running" ELSE state
     ELSE /\ state' = IF state \in Active \ Parked THEN "failed" ELSE state
          /\ UNCHANGED <<pc, reattached, seed, token>>
  /\ UNCHANGED <<placed, canceled, stop, handle, kind, hasInst, session, container, clockVars,
                 notes, caller, stopping, parks, crashes>>

------------------------------------------------------------------------------
Supervise ==
  \/ Lookup \/ MintToken \/ SetProvisioned \/ StartRunning \/ SetHandle \/ SeedParked
  \/ \E ok \in BOOLEAN : Prepare(ok) \/ Launch(ok)
  \/ PumpContextDone \/ PumpParkNudge \/ PumpWait
  \/ PreserveAndPush \/ Teardown \/ TerminalTransition \/ Exit

Others ==
  \/ Admit \/ StartSupervisor
  \/ \E how \in {"ok", "error"} : SessionEnds(how)
  \/ StepCap \/ PumpTimer
  \/ \E c \in Callers : StopLookup(c) \/ StopCheck(c) \/ StopDirect(c) \/ StopRevoke(c)
  \/ Ask \/ Answer \/ \E n \in {"park", "resume"} : NotePark(n)
  \/ Sweep

Process == Stop \/ (\E survives \in BOOLEAN : ProcessEnds(survives)) \/ Reconcile

Next == Supervise \/ Others \/ Process

Spec == Init /\ [][Next]_vars

\* Goroutines run, StopRun calls return, a session told to stop ends (it is killed after
\* the grace period), the sweeper comes round, a process told to stop exits and a
\* dead one is restarted.
Fairness ==
  /\ WF_vars(Supervise) /\ WF_vars(Admit \/ StartSupervisor)
  /\ WF_vars(session = "told" /\ \E how \in {"ok", "error"} : SessionEnds(how))
  /\ \A c \in Callers : WF_vars(StopCheck(c) \/ StopDirect(c) \/ StopRevoke(c))
  /\ \A n \in {"park", "resume"} : WF_vars(NotePark(n))
  /\ WF_vars(Sweep) /\ WF_vars(Reconcile)
  /\ WF_vars(stopping /\ \E survives \in BOOLEAN : ProcessEnds(survives))

FairSpec == Spec /\ Fairness

------------------------------------------------------------------------------
(* Properties. *)

RowTyped == state \in RunState /\ placed \in BOOLEAN /\ adm \in {"waiting", "admitted", "done"}
SupervisorTyped ==
  /\ pc \in Stages /\ reattached \in BOOLEAN /\ seed \in BOOLEAN /\ canceled \in BOOLEAN
  /\ stop \in {"none", "canceled", "timed_out", "failed"} /\ handle \in BOOLEAN
  /\ kind \in Terminal \cup {"none"} /\ hasInst \in BOOLEAN
SessionTyped ==
  /\ session \in {"none", "alive", "told", "ok", "error"}
  /\ container \in BOOLEAN /\ token \in BOOLEAN
ClockTyped == parked \in BOOLEAN /\ nudge \in BOOLEAN /\ timer \in {"armed", "horizon", "off"}
OthersTyped ==
  /\ notes \subseteq {"park", "resume"}
  /\ caller \in [Callers -> {"idle", "check", "direct", "revoke", "done"}]
  /\ stopping \in BOOLEAN /\ up \in BOOLEAN
  /\ parks \in 0..MaxParks /\ crashes \in 0..MaxCrashes

TypeOK == RowTyped /\ SupervisorTyped /\ SessionTyped /\ ClockTyped /\ OthersTyped

\* A run that is provisioning, or running or parked in a container, has a supervisor or is
\* about to get one, whatever stop, sweep or restart intervenes: no live container is
\* forgotten.
LiveIsSupervised ==
  up /\ ~stopping /\ (state = "provisioning" \/ (state \in {"running"} \cup Parked /\ container))
    => pc # "none" \/ adm = "admitted"

\* The single timer and the parked flag are kept consistent by the one-slot nudge channel:
\* when no nudge is pending, a parked run's timer is at the horizon, and a working run's is
\* armed unless it already fired and stopped the run.
ClockConsistent ==
  pc = "pump" /\ ~nudge =>
    IF parked THEN timer = "horizon" ELSE timer = "armed" \/ stop # "none"

\* A stop that found a session is delivered exactly once handle and stop request meet, in
\* whichever order: past setHandle no session lives on unaware of a requested stop.
StopReachesHandle ==
  handle /\ stop # "none" => session # "alive"

\* What the supervisor's stage says of the row it works on, whoever else writes it: a terminal
\* path ends in a terminal row because the outcome it was entered with is one the row allows.
Launched == {"launch", "setHandle", "seed", "pump"}
Launching == {"mint", "prepare", "record", "start"}
RowFitsStage ==
  /\ adm = "waiting" => state \in {"queued"} \cup Terminal
  /\ adm = "admitted" => state \in {"provisioning"} \cup Terminal
  /\ adm # "done" => pc = "none"
  /\ pc \in Launching \/ (pc = "lookup" /\ ~reattached) =>
       state \in {"provisioning"} \cup Terminal /\ stop # "timed_out"
  /\ pc \in Launched \/ (pc = "lookup" /\ reattached) => state \in {"running"} \cup Parked \cup Terminal
  /\ pc \in FinishStages => /\ state # "queued" /\ kind \in Terminal \ {"loop_stopped"}
                            /\ state = "provisioning" => kind \in {"failed", "canceled"}
  /\ pc = "exit" => state \in Terminal
  /\ state \in {"running"} \cup Parked \/ pc = "start" => placed

\* A supervisor without an agent has no handle, and nothing but rows and a container outlives
\* the process.
NothingLeftOver ==
  /\ pc \in Launching \cup {"lookup", "launch", "setHandle"} => ~handle
  /\ ~up => /\ pc = "none" /\ adm = "done" /\ ~stopping
            /\ ~handle /\ stop = "none" /\ session = "none"

\* What holds of the run, its clock and its session at every moment: a supervised run's
\* goroutine, callers, sweeper and reconciler never leave it unattended or untold.
SupervisorInv ==
  /\ TypeOK /\ RowFitsStage /\ NothingLeftOver
  /\ LiveIsSupervised /\ ClockConsistent /\ StopReachesHandle

\* A requested stop ends the run, unless the process stops first.
StopEndsRun == []<>(stop # "none" => state \in Terminal \/ stopping \/ ~up)

\* A terminal run eventually keeps neither container nor token.
TornDown == []<>(state \in Terminal => ~container /\ ~token)

\* And in the end a run that is stopped ends, and what has ended is cleaned up (StopRun,
\* finish, sweep).
SupervisionHolds == []SupervisorInv /\ StopEndsRun /\ TornDown

\* Comment: a live run is stopped through its supervisor, so that the artifact push and
\* teardown happen: no session works on for a run that is already canceled.
CanceledIsStopped == state = "canceled" /\ session = "alive" => stop # "none"

==============================================================================
