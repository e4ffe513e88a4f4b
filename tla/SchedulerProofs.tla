--------------------------- MODULE SchedulerProofs ---------------------------
(* Proofs about Scheduler, about Notify (what people are told of a run), about Lifecycle (the
   process the scheduler runs in) and about Prompt (what a run is told), for every value of their
   constants. *)
EXTENDS Scheduler, Notify, Lifecycle, Prompt, FiniteSetTheorems, SequenceTheorems,
        NaturalsInduction, WellFoundedInduction, TLAPS

(* The classes of states of states.go, by name. *)
LEMMA RunStateSets ==
  /\ Active \subseteq RunState /\ Terminal \subseteq RunState /\ Parked \subseteq Active
  /\ Active \cap Terminal = {} /\ "absent" \notin RunState
  /\ "queued" \notin Active /\ "queued" \notin Terminal
  BY DEF Active, Terminal, Parked, RunState

(* A transition leaves a state, whether it is refused or not. *)
LEMMA TransitionTyped ==
  ASSUME NEW s \in RunState, NEW to \in RunState
  PROVE  AfterTransition(s, to) \in RunState
  BY DEF AfterTransition

(* The arithmetic part of the constants' assumptions. *)
LEMMA Bounds ==
  /\ MaxRuns \in Nat /\ MaxDrags \in Nat /\ MaxCrashes \in Nat /\ GlobalCap \in Nat
  /\ AgentCap \in [Agents -> Nat]
  BY SchedulerConstants DEF SchedulerConstants

(* The initial state is well typed. *)
LEMMA TypeInit == Init => TypeOK
  <1> SUFFICES ASSUME Init PROVE TypeOK
    OBVIOUS
  <1>1. state \in [Runs -> RunState \cup {"absent"}]
    BY DEF Init
  <1>2. /\ agent \in [Runs -> Agents \cup {NoAgent}]
        /\ ticket \in [Runs -> Tickets \cup {NoTicket}]
        /\ hold \in [Runs -> {"none", "agent", "wip", "global"}]
    BY DEF Init
  <1>3. created \in 0..MaxRuns /\ drags \in 0..MaxDrags /\ crashes \in 0..MaxCrashes
    <2>1. created = 0 /\ drags = 0 /\ crashes = 0
      BY DEF Init
    <2> QED
      BY <2>1, Bounds
  <1>4. column \in [Tickets -> Columns]
    BY SchedulerConstants DEF SchedulerConstants, Init, Columns
  <1>5. /\ sup \in [Runs -> Stage]
        /\ stopSet \subseteq Runs /\ inst \subseteq Runs /\ canceling \subseteq Runs
        /\ phase \in {"up", "down", "reconciling"} /\ toReconcile \subseteq Runs
        /\ pc \in {"idle", "byAgent", "global", "next", "commit", "start"}
        /\ todo \subseteq Runs
    BY DEF Stage, Init
  <1>6. spent \in [Agents -> Nat] /\ byAgent \in [Agents -> Nat] /\ global \in Nat
    BY DEF Init
  <1>7. /\ columnTicket \in [RunningColumns -> Nat] /\ counted \subseteq RunningColumns
        /\ dest \in RunningColumns \cup {NoColumn}
    BY DEF Init
  <1> QED
    BY <1>1, <1>2, <1>3, <1>4, <1>5, <1>6, <1>7
    DEF TypeOK, RowsTyped, BoardTyped, SupervisionTyped, PassTyped

(* Which transitions keep a row's class: only admission makes a run active, and an end
   that comes after another changes nothing. *)
LEMMA TerminalTarget ==
  ASSUME NEW s \in RunState, NEW to \in Terminal
  PROVE  /\ AfterTransition(s, to) \in RunState
         /\ AfterTransition(s, to) \in Active => s \in Active
         /\ s \in Terminal => AfterTransition(s, to) = s
  BY RunStateSets DEF AfterTransition, transitionLegal, legalTransitions, RunState,
     Active, Parked, Terminal

(* Starting to work, parking and resuming need an active run and keep it active. *)
LEMMA LiveTarget ==
  ASSUME NEW s \in RunState, NEW to \in Parked \cup {"running"}, transitionLegal(s, to)
  PROVE  s \in Active /\ to \in Active
  BY DEF transitionLegal, legalTransitions, RunState, Active, Parked, Terminal

(* An admission that is not refused finds the run queued, or already admitted. *)
LEMMA AdmissionTarget ==
  ASSUME NEW s \in RunState, ~TransitionRefused(s, "provisioning")
  PROVE  s \in {"queued", "provisioning"}
  BY DEF TransitionRefused, transitionLegal, legalTransitions, RunState, Active, Parked,
     Terminal

(* The runs are finitely many. *)
LEMMA RunsFinite == IsFiniteSet(Runs)
  BY Bounds, FS_Interval DEF Runs

(* So are the active ones, of an agent and of the workspace. *)
LEMMA ActiveFinite ==
  /\ IsFiniteSet(ActiveRuns) /\ Cardinality(ActiveRuns) \in Nat
  /\ \A a \in Agents : IsFiniteSet(ActiveOf(a)) /\ Cardinality(ActiveOf(a)) \in Nat
  <1>1. ActiveRuns \subseteq Runs /\ \A a \in Agents : ActiveOf(a) \subseteq Runs
    BY DEF ActiveRuns, ActiveOf
  <1> QED
    BY <1>1, RunsFinite, FS_Subset, FS_CardinalityType

(* When no run becomes active, no count grows. *)
LEMMA FewerActive ==
  ASSUME ActiveRuns' \subseteq ActiveRuns,
         \A r \in ActiveRuns' : agent'[r] = agent[r]
  PROVE  /\ Cardinality(ActiveRuns)' <= Cardinality(ActiveRuns)
         /\ Cardinality(ActiveRuns)' \in Nat
         /\ \A a \in Agents : /\ Cardinality(ActiveOf(a))' <= Cardinality(ActiveOf(a))
                              /\ Cardinality(ActiveOf(a))' \in Nat
  <1>1. \A a \in Agents : ActiveOf(a)' \subseteq ActiveOf(a)
    BY DEF ActiveOf
  <1>2. /\ Cardinality(ActiveRuns') <= Cardinality(ActiveRuns)
        /\ Cardinality(ActiveRuns') \in Nat
    BY ActiveFinite, FS_Subset, FS_CardinalityType
  <1>3. \A a \in Agents : /\ Cardinality(ActiveOf(a)') <= Cardinality(ActiveOf(a))
                          /\ Cardinality(ActiveOf(a)') \in Nat
    BY <1>1, ActiveFinite, FS_Subset, FS_CardinalityType
  <1> QED
    BY <1>2, <1>3

(* An active row exists and has an agent. *)
LEMMA ActiveCreated ==
  ASSUME TypeOK, RowsInOrder
  PROVE  \A r \in ActiveRuns : r <= created /\ agent[r] \in Agents
  <1>1. \A r \in ActiveRuns : r \in Runs /\ state[r] # "absent"
    BY RunStateSets DEF ActiveRuns
  <1>2. \A r \in ActiveRuns : r <= created
    <2>1. \A r \in Runs : r \in Int
      BY Bounds DEF Runs
    <2>2. created \in Int
      BY Bounds DEF TypeOK, RowsTyped
    <2>3. \A r \in ActiveRuns : ~(r > created)
      BY <1>1 DEF RowsInOrder
    <2> QED
      BY <1>1, <2>1, <2>2, <2>3
  <1> QED
    BY <1>1, <1>2 DEF RowsInOrder

(* A step that leaves the admission pass alone and activates no run keeps the counters
   covering and the caps respected. *)
LEMMA QuietStep ==
  ASSUME CapsInv, UNCHANGED passVars, ActiveRuns' \subseteq ActiveRuns,
         \A r \in Runs : r <= created => agent'[r] = agent[r]
  PROVE  CountersCover' /\ CapsRespected'
  <1> USE DEF CapsInv
  <1>1. \A r \in ActiveRuns' : agent'[r] = agent[r]
    BY ActiveCreated DEF ActiveRuns
  <1>2. CapsRespected'
    BY <1>1, FewerActive, ActiveFinite, Bounds DEF CapsRespected
  <1>3. (pc \in {"global", "next", "commit", "start"} =>
           \A a \in Agents : Cardinality(ActiveOf(a)) <= byAgent[a])'
    BY <1>1, FewerActive, ActiveFinite DEF CountersCover, passVars, TypeOK, PassTyped
  <1>4. (pc \in {"next", "commit", "start"} => Cardinality(ActiveRuns) <= global)'
    BY <1>1, FewerActive, ActiveFinite DEF CountersCover, passVars, TypeOK, PassTyped
  <1>5. (pc = "commit" =>
           \A r \in Runs : Current(r) => ~AtAgentCap(agent[r]) /\ ~AtGlobalCap)'
    BY DEF CountersCover, RowsInOrder, passVars, Current, AtAgentCap, AtGlobalCap
  <1> QED
    BY <1>2, <1>3, <1>4, <1>5 DEF CountersCover

(* The special case in which no row is touched at all. *)
LEMMA SameRows ==
  ASSUME CapsInv, UNCHANGED <<rowVars, passVars>>
  PROVE  CountersCover' /\ CapsRespected'
  <1>1. ActiveRuns' = ActiveRuns /\ agent' = agent
    BY DEF ActiveRuns, rowVars
  <1> QED
    BY <1>1, QuietStep

(* What StopRun leaves of a row is well typed. *)
LEMMA StopRunTyped ==
  ASSUME TypeOK, NEW r \in Runs \cup {0}, StopRunEffect(r)
  PROVE  /\ stopSet' \subseteq Runs /\ canceling' \subseteq Runs
         /\ \A q \in canceling' \ canceling : q = r /\ r # 0 /\ state[r] \notin Terminal
  <1>1. stopSet \subseteq Runs /\ canceling \subseteq Runs
    BY DEF TypeOK, SupervisionTyped
  <1> QED
    BY <1>1 DEF StopRunEffect

(* Enqueue, with what it supersedes. *)
LEMMA EnqueueStep ==
  ASSUME CapsInv, NEW a \in Agents, NEW t \in Tickets \cup {NoTicket},
         NEW s \in Runs \cup {0}, Enqueue(a, t, s)
  PROVE  CapsInv'
  <1> USE DEF CapsInv
  <1>0. created \in 0..MaxRuns /\ created + 1 \in Runs /\ MaxRuns \in Nat
    BY Bounds DEF Enqueue, TypeOK, RowsTyped, Runs
  <1>1. TypeOK'
    <2>1. RowsTyped'
      BY <1>0, RunStateSets DEF Enqueue, TypeOK, RowsTyped, RunState
    <2>2. SupervisionTyped'
      BY StopRunTyped DEF Enqueue, TypeOK, SupervisionTyped, processVars
    <2>3. BoardTyped' /\ PassTyped'
      BY DEF Enqueue, TypeOK, BoardTyped, PassTyped, boardVars, passVars
    <2> QED
      BY <2>1, <2>2, <2>3 DEF TypeOK
  <1>2. RowsInOrder'
    <2>1. s # 0 => s <= created
      BY <1>0 DEF RowsInOrder, Enqueue, Runs
    <2>2. \A r \in canceling' : r <= created
      BY <2>1, StopRunTyped DEF Enqueue, RowsInOrder
    <2>3. (\A r \in Runs : r > created => state[r] = "absent")'
      BY <1>0 DEF Enqueue, RowsInOrder, Runs, TypeOK, RowsTyped
    <2>4. (\A r \in Runs : r <= created => state[r] \in RunState /\ agent[r] \in Agents)'
      BY <1>0 DEF Enqueue, RowsInOrder, Runs, TypeOK, RowsTyped, RunState
    <2>5. (\A r \in Runs : sup[r] # "none" => r <= created)'
      BY <1>0 DEF Enqueue, RowsInOrder, Runs
    <2>6. (\A r \in todo \cup canceling \cup toReconcile : r <= created)'
      BY <1>0, <2>2, StopRunTyped
      DEF Enqueue, RowsInOrder, Runs, TypeOK, PassTyped, SupervisionTyped, passVars,
          processVars
    <2> QED
      BY <2>3, <2>4, <2>5, <2>6 DEF RowsInOrder
  <1>3. ActiveRuns' \subseteq ActiveRuns
    BY <1>0, RunStateSets DEF Enqueue, ActiveRuns, TypeOK, RowsTyped
  <1>4. \A r \in Runs : r <= created => agent'[r] = agent[r]
    BY <1>0 DEF Enqueue, Runs, TypeOK, RowsTyped
  <1>5. CountersCover' /\ CapsRespected'
    BY <1>3, <1>4, QuietStep DEF Enqueue
  <1> QED
    BY <1>1, <1>2, <1>5

(* EnqueueLoopStopped: a row that is terminal from the start. *)
LEMMA EnqueueLoopStoppedStep ==
  ASSUME CapsInv, NEW a \in Agents, EnqueueLoopStopped(a)
  PROVE  CapsInv'
  <1> USE DEF CapsInv
  <1>0. created \in 0..MaxRuns /\ created + 1 \in Runs /\ MaxRuns \in Nat
    BY Bounds DEF EnqueueLoopStopped, TypeOK, RowsTyped, Runs
  <1>1. TypeOK'
    <2>1. RowsTyped'
      BY <1>0, RunStateSets DEF EnqueueLoopStopped, TypeOK, RowsTyped, RunState, Terminal
    <2>2. SupervisionTyped' /\ BoardTyped' /\ PassTyped'
      BY DEF EnqueueLoopStopped, TypeOK, SupervisionTyped, BoardTyped, PassTyped, boardVars,
             passVars, supVars, processVars
    <2> QED
      BY <2>1, <2>2 DEF TypeOK
  <1>2. RowsInOrder'
    BY <1>0 DEF EnqueueLoopStopped, RowsInOrder, Runs, TypeOK, RowsTyped, PassTyped,
                SupervisionTyped, RunState, Terminal, supVars, passVars, processVars
  <1>3. ActiveRuns' \subseteq ActiveRuns
    BY <1>0, RunStateSets DEF EnqueueLoopStopped, ActiveRuns, TypeOK, RowsTyped, Terminal
  <1>4. \A r \in Runs : r <= created => agent'[r] = agent[r]
    BY <1>0 DEF EnqueueLoopStopped, Runs, TypeOK, RowsTyped
  <1>5. CountersCover' /\ CapsRespected'
    BY <1>3, <1>4, QuietStep DEF EnqueueLoopStopped
  <1> QED
    BY <1>1, <1>2, <1>5

(* StopRun. *)
LEMMA StopRunStep ==
  ASSUME CapsInv, NEW r \in Runs, StopRun(r)
  PROVE  CapsInv'
  <1> USE DEF CapsInv
  <1>1. TypeOK'
    BY StopRunTyped DEF StopRun, TypeOK, RowsTyped, BoardTyped, SupervisionTyped, PassTyped,
                        rowVars, boardVars, processVars, passVars
  <1>2. RowsInOrder'
    <2>1. \A q \in canceling' : q <= created
      BY StopRunTyped DEF StopRun, RowsInOrder
    <2> QED
      BY <2>1 DEF StopRun, RowsInOrder, rowVars, processVars, passVars
  <1>3. CountersCover' /\ CapsRespected'
    BY SameRows DEF StopRun
  <1> QED
    BY <1>1, <1>2, <1>3

(* Steps of the board and the ledger. *)
LEMMA BoardStep ==
  ASSUME CapsInv,
         \/ \E t \in Tickets, c \in Columns : Drag(t, c)
         \/ \E r \in Runs : Usage(r)
         \/ NewDay
  PROVE  CapsInv'
  <1> USE DEF CapsInv
  <1>1. UNCHANGED <<rowVars, supVars, processVars, passVars>>
    BY DEF Drag, Usage, NewDay
  <1>2. BoardTyped'
    <2>1. CASE \E t \in Tickets, c \in Columns : Drag(t, c)
      BY <2>1, Bounds DEF Drag, TypeOK, BoardTyped
    <2>2. CASE \E r \in Runs : Usage(r)
      <3>1. PICK r \in Runs : Usage(r)
        BY <2>2
      <3>2. agent[r] \in Agents
        BY <3>1 DEF Usage, RowsInOrder
      <3> QED
        BY <3>1, <3>2 DEF Usage, TypeOK, BoardTyped, boardVars
    <2>3. CASE NewDay
      BY <2>3 DEF NewDay, TypeOK, BoardTyped, boardVars
    <2> QED
      BY <2>1, <2>2, <2>3
  <1>3. RowsTyped' /\ SupervisionTyped' /\ PassTyped'
    BY <1>1 DEF TypeOK, RowsTyped, SupervisionTyped, PassTyped, rowVars, supVars,
                processVars, passVars
  <1>4. RowsInOrder'
    BY <1>1 DEF RowsInOrder, rowVars, supVars, processVars, passVars
  <1>5. CountersCover' /\ CapsRespected'
    BY <1>1, SameRows
  <1> QED
    BY <1>2, <1>3, <1>4, <1>5 DEF TypeOK

(* One row changes state, and not into an active one unless it was active. *)
LEMMA OneRow ==
  ASSUME CapsInv, NEW r \in Runs, r <= created, NEW s \in RunState,
         s \in Active => state[r] \in Active,
         state' = [state EXCEPT ![r] = s], UNCHANGED <<agent, ticket, hold, created>>
  PROVE  /\ RowsTyped'
         /\ (\A q \in Runs : q > created => state[q] = "absent")'
         /\ (\A q \in Runs : q <= created => state[q] \in RunState /\ agent[q] \in Agents)'
         /\ ActiveRuns' \subseteq ActiveRuns
         /\ UNCHANGED passVars => CountersCover' /\ CapsRespected'
  <1> USE DEF CapsInv
  <1>1. RowsTyped'
    BY DEF TypeOK, RowsTyped
  <1>2. (\A q \in Runs : q > created => state[q] = "absent")'
    BY Bounds DEF TypeOK, RowsTyped, RowsInOrder, Runs
  <1>3. (\A q \in Runs : q <= created => state[q] \in RunState /\ agent[q] \in Agents)'
    BY DEF TypeOK, RowsTyped, RowsInOrder
  <1>4. ActiveRuns' \subseteq ActiveRuns
    BY DEF ActiveRuns, TypeOK, RowsTyped
  <1> QED
    BY <1>1, <1>2, <1>3, <1>4, QuietStep

(* StopRun's direct cancellation, after it found no supervisor. *)
LEMMA CancelDirectStep ==
  ASSUME CapsInv, NEW r \in Runs, CancelDirect(r)
  PROVE  CapsInv'
  <1> USE DEF CapsInv
  <1>1. r <= created /\ state[r] \in RunState
    BY DEF CancelDirect, RowsInOrder
  <1> DEFINE s == AfterTransition(state[r], "canceled")
  <1>2. s \in RunState /\ (s \in Active => state[r] \in Active)
    BY <1>1, TerminalTarget DEF Terminal
  <1>3. state' = [state EXCEPT ![r] = s] /\ UNCHANGED <<agent, ticket, hold, created>>
    BY DEF CancelDirect
  <1>4. SupervisionTyped' /\ BoardTyped' /\ PassTyped'
    BY DEF CancelDirect, TypeOK, SupervisionTyped, BoardTyped, PassTyped, boardVars,
           processVars, passVars
  <1>5. UNCHANGED passVars
    BY DEF CancelDirect
  <1> HIDE DEF s
  <1>6. RowsInOrder'
    BY <1>1, <1>2, <1>3, OneRow DEF CancelDirect, RowsInOrder, processVars, passVars
  <1> QED
    BY <1>1, <1>2, <1>3, <1>4, <1>5, <1>6, OneRow DEF TypeOK

(* Parks and answers keep a run active. *)
LEMMA ParkStep ==
  ASSUME CapsInv, NEW r \in Runs, NEW to \in Parked, Park(r, to) \/ Resume(r)
  PROVE  CapsInv'
  <1> USE DEF CapsInv
  <1>1. r <= created /\ state[r] \in RunState
    <2>1. CASE Park(r, to)
      BY <2>1 DEF Park, RowsInOrder
    <2>2. CASE Resume(r)
      BY <2>2, Bounds, RunStateSets
      DEF Resume, RowsInOrder, Parked, TypeOK, RowsTyped, Runs
    <2> QED
      BY <2>1, <2>2
  <1>2. /\ \E s \in RunState : /\ s \in Active => state[r] \in Active
                               /\ state' = [state EXCEPT ![r] = s]
        /\ UNCHANGED <<agent, ticket, hold, created, boardVars, spent, supVars, processVars,
                       passVars>>
    <2>1. CASE Park(r, to)
      <3>1. state[r] \in Active /\ to \in RunState
        BY <2>1, <1>1, LiveTarget, RunStateSets DEF Park
      <3> QED
        BY <2>1, <3>1 DEF Park
    <2>2. CASE Resume(r)
      BY <2>2, RunStateSets DEF Resume, Parked, Active, RunState
    <2> QED
      BY <2>1, <2>2
  <1>3. SupervisionTyped' /\ BoardTyped' /\ PassTyped'
    BY <1>2 DEF TypeOK, SupervisionTyped, BoardTyped, PassTyped, boardVars, supVars,
                processVars, passVars
  <1>4. RowsInOrder'
    BY <1>1, <1>2, OneRow DEF RowsInOrder, supVars, processVars, passVars
  <1> QED
    BY <1>1, <1>2, <1>3, <1>4, OneRow DEF TypeOK

(* Admission.  The pass's own reads and verdicts. *)
LEMMA PassReadStep ==
  ASSUME CapsInv, PassBegin \/ ReadByAgent \/ ReadGlobal \/ PassEnd
  PROVE  CapsInv'
  <1> USE DEF CapsInv
  <1>1. UNCHANGED <<rowVars, boardVars, spent, supVars, processVars>>
    BY DEF PassBegin, ReadByAgent, ReadGlobal, PassEnd
  <1>2. RowsTyped' /\ BoardTyped' /\ SupervisionTyped'
    BY <1>1 DEF TypeOK, RowsTyped, BoardTyped, SupervisionTyped, rowVars, boardVars, supVars,
                processVars
  <1>3. PassTyped'
    <2>1. CASE PassBegin
      BY <2>1 DEF PassBegin, TypeOK, PassTyped, QueuedRuns
    <2>2. CASE ReadByAgent
      BY <2>2, ActiveFinite DEF ReadByAgent, TypeOK, PassTyped
    <2>3. CASE ReadGlobal
      BY <2>3, ActiveFinite DEF ReadGlobal, TypeOK, PassTyped
    <2>4. CASE PassEnd
      BY <2>4 DEF PassEnd, ZeroCounters, TypeOK, PassTyped
    <2> QED
      BY <2>1, <2>2, <2>3, <2>4
  <1>4. \A r \in todo' : r <= created
    <2>1. \A r \in QueuedRuns : r <= created
      BY Bounds DEF QueuedRuns, RowsInOrder, TypeOK, RowsTyped, Runs
    <2> QED
      BY <2>1 DEF PassBegin, ReadByAgent, ReadGlobal, PassEnd, RowsInOrder
  <1>5. RowsInOrder'
    BY <1>1, <1>4 DEF RowsInOrder, rowVars, supVars, processVars
  <1>6. ActiveRuns' = ActiveRuns /\ \A a \in Agents : ActiveOf(a)' = ActiveOf(a)
    BY <1>1 DEF ActiveRuns, ActiveOf, rowVars
  <1>7. CapsRespected'
    BY <1>6 DEF CapsRespected
  <1>8. CountersCover'
    <2>1. CASE PassBegin \/ PassEnd
      BY <2>1 DEF PassBegin, PassEnd, CountersCover
    <2>2. CASE ReadByAgent
      BY <2>2, <1>6, ActiveFinite DEF ReadByAgent, CountersCover
    <2>3. CASE ReadGlobal
      BY <2>3, <1>6, ActiveFinite DEF ReadGlobal, CountersCover
    <2> QED
      BY <2>1, <2>2, <2>3
  <1> QED
    BY <1>2, <1>3, <1>5, <1>7, <1>8 DEF TypeOK

(* The count RememberCount keeps for a column is a natural number. *)
LEMMA RememberTyped ==
  ASSUME TypeOK, NEW t \in Tickets \cup {NoTicket}, RememberCount(t)
  PROVE  columnTicket' \in [RunningColumns -> Nat] /\ counted' \subseteq RunningColumns
  <1>1. CASE WipLimited(t)
    <2>1. WipDest(t) \in RunningColumns
      BY <1>1, SchedulerConstants DEF SchedulerConstants, WipLimited, WipDest
    <2>2. TicketCount(WipDest(t)) \in Nat
      <3>1. TicketsIn(WipDest(t)) \subseteq Tickets
        BY DEF TicketsIn
      <3>2. Cardinality(TicketsIn(WipDest(t))) \in Nat
        BY <3>1, SchedulerConstants, FS_Subset, FS_CardinalityType DEF SchedulerConstants
      <3> QED
        BY <2>1, <3>2 DEF TicketCount, TypeOK, PassTyped
    <2> QED
      BY <1>1, <2>1, <2>2 DEF RememberCount, TypeOK, PassTyped
  <1>2. CASE ~WipLimited(t)
    BY <1>2 DEF RememberCount, TypeOK, PassTyped
  <1> QED
    BY <1>1, <1>2

(* A held run stays queued; only a column's count may be remembered. *)
LEMMA AdmitHoldStep ==
  ASSUME CapsInv, NEW r \in Runs, NEW reason \in {"agent", "wip", "global"},
         AdmitHold(r, reason)
  PROVE  CapsInv'
  <1> USE DEF CapsInv
  <1>1. ticket[r] \in Tickets \cup {NoTicket}
    BY DEF TypeOK, RowsTyped
  <1>2. columnTicket' \in [RunningColumns -> Nat] /\ counted' \subseteq RunningColumns
    BY <1>1, RememberTyped DEF AdmitHold, TypeOK, PassTyped
  <1>3. TypeOK'
    <2>1. RowsTyped'
      BY DEF AdmitHold, SetHoldReason, TypeOK, RowsTyped
    <2>2. PassTyped'
      BY <1>2 DEF AdmitHold, TypeOK, PassTyped
    <2>3. BoardTyped' /\ SupervisionTyped'
      BY DEF AdmitHold, TypeOK, BoardTyped, SupervisionTyped, boardVars, supVars, processVars
    <2> QED
      BY <2>1, <2>2, <2>3 DEF TypeOK
  <1>4. RowsInOrder'
    BY DEF AdmitHold, RowsInOrder, supVars, processVars
  <1>5. ActiveRuns' = ActiveRuns /\ \A a \in Agents : ActiveOf(a)' = ActiveOf(a)
    BY DEF AdmitHold, ActiveRuns, ActiveOf
  <1>6. CapsRespected' /\ CountersCover'
    BY <1>5 DEF AdmitHold, CapsRespected, CountersCover
  <1> QED
    BY <1>3, <1>4, <1>6

(* A run that lost its row to a stop leaves the pass. *)
LEMMA AdmitFailStep ==
  ASSUME CapsInv, NEW r \in Runs, AdmitFail(r)
  PROVE  CapsInv'
  <1> USE DEF CapsInv
  <1>1. ticket[r] \in Tickets \cup {NoTicket} /\ r <= created /\ state[r] \in RunState
    BY DEF AdmitFail, Current, TypeOK, RowsTyped, RowsInOrder
  <1> DEFINE s == AfterTransition(state[r], "failed")
  <1>2. s \in RunState /\ (s \in Active => state[r] \in Active)
    BY <1>1, TerminalTarget DEF Terminal
  <1>3. state' = [state EXCEPT ![r] = s] /\ UNCHANGED <<agent, ticket, hold, created>>
    BY DEF AdmitFail
  <1> HIDE DEF s
  <1>4. PassTyped'
    BY <1>1, RememberTyped DEF AdmitFail, TypeOK, PassTyped
  <1>5. BoardTyped' /\ SupervisionTyped'
    BY DEF AdmitFail, TypeOK, BoardTyped, SupervisionTyped, boardVars, supVars, processVars
  <1>6. RowsInOrder'
    BY <1>1, <1>2, <1>3, OneRow DEF AdmitFail, RowsInOrder, supVars, processVars
  <1>7. ActiveRuns' \subseteq ActiveRuns /\ \A q \in ActiveRuns' : agent'[q] = agent[q]
    BY <1>1, <1>2, <1>3, OneRow
  <1>8. CapsRespected'
    BY <1>7, FewerActive, ActiveFinite, Bounds DEF CapsRespected
  <1>9. CountersCover'
    BY <1>7, FewerActive, ActiveFinite DEF AdmitFail, CountersCover, TypeOK, PassTyped
  <1> QED
    BY <1>1, <1>2, <1>3, <1>4, <1>5, <1>6, <1>8, <1>9, OneRow DEF TypeOK

(* The head of the pass is one run. *)
LEMMA CurrentUnique ==
  ASSUME TypeOK, NEW r \in Runs, NEW q \in Runs, Current(r), Current(q)
  PROVE  r = q
  BY Bounds DEF Current, Runs

(* Between check and commit there is room for the run. *)
LEMMA AdmitPassStep ==
  ASSUME CapsInv, NEW r \in Runs, AdmitPass(r)
  PROVE  CapsInv'
  <1> USE DEF CapsInv
  <1>1. ticket[r] \in Tickets \cup {NoTicket}
    BY DEF TypeOK, RowsTyped
  <1>2. WipDest(ticket[r]) \in RunningColumns \cup {NoColumn}
    BY SchedulerConstants DEF SchedulerConstants, WipDest
  <1>3. TypeOK'
    <2>1. PassTyped'
      BY <1>1, <1>2, RememberTyped DEF AdmitPass, TypeOK, PassTyped
    <2>2. RowsTyped' /\ BoardTyped' /\ SupervisionTyped'
      BY DEF AdmitPass, TypeOK, RowsTyped, BoardTyped, SupervisionTyped, rowVars, boardVars,
             supVars, processVars
    <2> QED
      BY <2>1, <2>2 DEF TypeOK
  <1>4. RowsInOrder'
    BY DEF AdmitPass, RowsInOrder, rowVars, supVars, processVars
  <1>5. ActiveRuns' = ActiveRuns /\ \A a \in Agents : ActiveOf(a)' = ActiveOf(a)
    BY DEF AdmitPass, ActiveRuns, ActiveOf, rowVars
  <1>6. CapsRespected'
    BY <1>5 DEF CapsRespected
  <1>7. \A q \in Runs : Current(q) => ~AtAgentCap(agent[q]) /\ ~AtGlobalCap
    BY CurrentUnique DEF AdmitPass, PassesLimits
  <1>8. CountersCover'
    BY <1>5, <1>7 DEF AdmitPass, CountersCover, rowVars, Current, AtAgentCap, AtGlobalCap
  <1> QED
    BY <1>3, <1>4, <1>6, <1>8

(* The supervisor of an admitted run starts. *)
LEMMA StartSupervisorStep ==
  ASSUME CapsInv, NEW r \in Runs, StartSupervisor(r)
  PROVE  CapsInv'
  <1> USE DEF CapsInv
  <1>1. TypeOK'
    BY DEF StartSupervisor, TypeOK, RowsTyped, BoardTyped, SupervisionTyped, PassTyped,
           rowVars, boardVars, processVars, Stage
  <1>2. RowsInOrder'
    BY DEF StartSupervisor, RowsInOrder, Current, TypeOK, SupervisionTyped, rowVars,
           processVars
  <1>3. ActiveRuns' = ActiveRuns /\ \A a \in Agents : ActiveOf(a)' = ActiveOf(a)
    BY DEF StartSupervisor, ActiveRuns, ActiveOf, rowVars
  <1>4. CapsRespected' /\ CountersCover'
    BY <1>3 DEF StartSupervisor, CapsRespected, CountersCover
  <1> QED
    BY <1>1, <1>2, <1>4

(* One more active run costs one slot, and one of its agent's. *)
LEMMA OneMoreActive ==
  ASSUME CapsInv, NEW r \in Runs, r <= created, agent' = agent,
         state' = [state EXCEPT ![r] = "provisioning"]
  PROVE  /\ Cardinality(ActiveRuns)' \in Nat
         /\ Cardinality(ActiveRuns)' <= Cardinality(ActiveRuns) + 1
         /\ \A a \in Agents :
              /\ Cardinality(ActiveOf(a))' \in Nat
              /\ Cardinality(ActiveOf(a))' <=
                   Cardinality(ActiveOf(a)) + (IF a = agent[r] THEN 1 ELSE 0)
  <1> USE DEF CapsInv
  <1>1. ActiveRuns' = ActiveRuns \cup {r}
    BY DEF ActiveRuns, Active, TypeOK, RowsTyped
  <1>2. \A a \in Agents :
          ActiveOf(a)' = IF a = agent[r] THEN ActiveOf(a) \cup {r} ELSE ActiveOf(a)
    BY <1>1 DEF ActiveOf
  <1>3. ASSUME NEW S, IsFiniteSet(S)
        PROVE  /\ Cardinality(S \cup {r}) <= Cardinality(S) + 1
               /\ Cardinality(S \cup {r}) \in Nat
    <2>1. Cardinality(S) \in Nat
      BY <1>3, FS_CardinalityType
    <2>2. Cardinality(S \cup {r}) = IF r \in S THEN Cardinality(S) ELSE Cardinality(S) + 1
      BY <1>3, FS_AddElement
    <2> QED
      BY <2>1, <2>2
  <1>4. /\ Cardinality(ActiveRuns') \in Nat
        /\ Cardinality(ActiveRuns') <= Cardinality(ActiveRuns) + 1
    BY <1>1, <1>3, ActiveFinite
  <1>5. \A a \in Agents :
          /\ Cardinality(ActiveOf(a)') \in Nat
          /\ Cardinality(ActiveOf(a)') <=
               Cardinality(ActiveOf(a)) + (IF a = agent[r] THEN 1 ELSE 0)
    <2> TAKE a \in Agents
    <2>1. CASE a = agent[r]
      BY <2>1, <1>2, <1>3, ActiveFinite
    <2>2. CASE a # agent[r]
      BY <2>2, <1>2, ActiveFinite
    <2> QED
      BY <2>1, <2>2
  <1> QED
    BY <1>4, <1>5

(* The commit takes the slot, and the counters say so. *)
LEMMA AdmitCommitStep ==
  ASSUME CapsInv, NEW r \in Runs, AdmitCommit(r)
  PROVE  CapsInv'
  <1> USE DEF CapsInv
  <1>1. r <= created /\ state[r] \in RunState /\ agent[r] \in Agents
    BY DEF AdmitCommit, Current, RowsInOrder
  <1>2. CASE TransitionRefused(state[r], "provisioning")
    <2>1. UNCHANGED <<rowVars, boardVars, spent, supVars, processVars, byAgent, global,
                      columnTicket, counted>>
          /\ pc' = "next" /\ todo' \subseteq todo /\ dest' = NoColumn
      BY <1>2 DEF AdmitCommit, rowVars
    <2>2. TypeOK'
      BY <2>1 DEF TypeOK, RowsTyped, BoardTyped, SupervisionTyped, PassTyped, rowVars,
                  boardVars, supVars, processVars
    <2>3. RowsInOrder'
      BY <2>1 DEF RowsInOrder, rowVars, supVars, processVars
    <2>4. ActiveRuns' = ActiveRuns /\ \A a \in Agents : ActiveOf(a)' = ActiveOf(a)
      BY <2>1 DEF ActiveRuns, ActiveOf, rowVars
    <2>5. CapsRespected' /\ CountersCover'
      BY <2>1, <2>4 DEF AdmitCommit, CapsRespected, CountersCover
    <2> QED
      BY <2>2, <2>3, <2>5
  <1>3. CASE ~TransitionRefused(state[r], "provisioning")
    <2>1. /\ state' = [state EXCEPT ![r] = "provisioning"]
          /\ hold' = [hold EXCEPT ![r] = "none"]
          /\ byAgent' = [byAgent EXCEPT ![agent[r]] = @ + 1] /\ global' = global + 1
          /\ pc' = "start" /\ UNCHANGED <<agent, ticket, created, todo>>
      BY <1>3 DEF AdmitCommit, Occupy
    <2>2. RowsTyped'
      BY <2>1 DEF TypeOK, RowsTyped, RunState, Active
    <2>3. PassTyped'
      <3>1. columnTicket' \in [RunningColumns -> Nat] /\ counted' \subseteq RunningColumns
        BY <1>3 DEF AdmitCommit, TypeOK, PassTyped
      <3> QED
        BY <1>1, <2>1, <3>1 DEF AdmitCommit, TypeOK, PassTyped
    <2>4. BoardTyped' /\ SupervisionTyped'
      BY DEF AdmitCommit, TypeOK, BoardTyped, SupervisionTyped, boardVars, supVars,
             processVars
    <2>5. RowsInOrder'
      BY <1>1, <2>1, Bounds DEF AdmitCommit, RowsInOrder, TypeOK, RowsTyped, RunState, Active,
                        Runs, supVars, processVars
    <2>6. /\ ~AtAgentCap(agent[r]) /\ ~AtGlobalCap
          /\ Cardinality(ActiveRuns) <= global
          /\ \A a \in Agents : Cardinality(ActiveOf(a)) <= byAgent[a]
      BY DEF AdmitCommit, CountersCover
    <2>7. global \in Nat /\ byAgent \in [Agents -> Nat]
      BY DEF TypeOK, PassTyped
    <2> DEFINE n == Cardinality(ActiveRuns)
               m(a) == Cardinality(ActiveOf(a))
    <2>A. /\ n \in Nat /\ n' \in Nat /\ n' <= n + 1
          /\ \A a \in Agents : /\ m(a) \in Nat /\ m(a)' \in Nat
                               /\ m(a)' <= m(a) + (IF a = agent[r] THEN 1 ELSE 0)
      BY <1>1, <2>1, OneMoreActive, ActiveFinite
    <2>B. /\ n <= global /\ \A a \in Agents : m(a) <= byAgent[a]
          /\ \A a \in Agents : AgentCap[a] > 0 => m(a) <= AgentCap[a]
      BY <2>6 DEF CapsRespected
    <2> HIDE DEF n, m
    <2>8. n' <= global' /\ \A a \in Agents : m(a)' <= byAgent'[a]
      <3>1. n' <= global'
        BY <2>1, <2>7, <2>A, <2>B
      <3>2. ASSUME NEW a \in Agents PROVE m(a)' <= byAgent'[a]
        <4>1. CASE a = agent[r]
          BY <4>1, <1>1, <2>1, <2>7, <2>A, <2>B
        <4>2. CASE a # agent[r]
          BY <4>2, <1>1, <2>1, <2>7, <2>A, <2>B
        <4> QED
          BY <4>1, <4>2
      <3> QED
        BY <3>1, <3>2
    <2>9. CountersCover'
      BY <2>1, <2>8 DEF CountersCover, n, m
    <2>10. CapsRespected'
      <3>1. GlobalCap > 0 => n' <= GlobalCap
        BY <2>6, <2>7, <2>A, <2>B, Bounds DEF AtGlobalCap
      <3>2. ASSUME NEW a \in Agents, AgentCap[a] > 0 PROVE m(a)' <= AgentCap[a]
        <4>0. AgentCap[a] \in Nat /\ byAgent[a] \in Nat
          BY <2>7, Bounds
        <4>1. CASE a = agent[r]
          <5>1. byAgent[a] < AgentCap[a]
            BY <4>0, <4>1, <3>2, <2>6 DEF AtAgentCap
          <5> QED
            BY <5>1, <4>0, <4>1, <2>A, <2>B
        <4>2. CASE a # agent[r]
          BY <4>0, <4>2, <3>2, <2>A, <2>B
        <4> QED
          BY <4>1, <4>2
      <3> QED
        BY <3>1, <3>2 DEF CapsRespected, n, m
    <2> QED
      BY <2>2, <2>3, <2>4, <2>5, <2>9, <2>10 DEF TypeOK
  <1> QED
    BY <1>2, <1>3

(* Supervisors. *)
LEMMA SupervisorStageStep ==
  ASSUME CapsInv, NEW r \in Runs, Prepared(r) \/ MoveToRunning(r)
  PROVE  CapsInv'
  <1> USE DEF CapsInv
  <1>1. UNCHANGED <<rowVars, drags, spent, stopSet, canceling, processVars, passVars>>
    BY DEF Prepared, MoveToRunning, boardVars
  <1>2. RowsTyped' /\ PassTyped'
    BY <1>1 DEF TypeOK, RowsTyped, PassTyped, rowVars, passVars
  <1>3. BoardTyped'
    BY <1>1, SchedulerConstants
    DEF SchedulerConstants, Prepared, MoveToRunning, MovedTo, TypeOK, BoardTyped, Columns,
        boardVars
  <1>4. SupervisionTyped'
    BY <1>1 DEF Prepared, MoveToRunning, TypeOK, SupervisionTyped, Stage, processVars
  <1>5. RowsInOrder'
    BY <1>1 DEF Prepared, MoveToRunning, RowsInOrder, TypeOK, SupervisionTyped, rowVars,
                processVars, passVars
  <1>6. CountersCover' /\ CapsRespected'
    BY <1>1, SameRows
  <1> QED
    BY <1>2, <1>3, <1>4, <1>5, <1>6 DEF TypeOK

(* An admitted run starts to work. *)
LEMMA StartRunningStep ==
  ASSUME CapsInv, NEW r \in Runs, StartRunning(r)
  PROVE  CapsInv'
  <1> USE DEF CapsInv
  <1>1. r <= created /\ state[r] \in RunState
    BY DEF StartRunning, RowsInOrder
  <1>2. "running" \in RunState /\ state[r] \in Active
    <2>1. state[r] = "running" \/ transitionLegal(state[r], "running")
      BY DEF StartRunning, TransitionRefused
    <2> QED
      BY <1>1, <2>1, LiveTarget DEF RunState, Active
  <1>3. TypeOK'
    <2>1. RowsTyped'
      BY <1>1, <1>2, OneRow DEF StartRunning
    <2>2. BoardTyped' /\ SupervisionTyped' /\ PassTyped'
      BY DEF StartRunning, TypeOK, BoardTyped, SupervisionTyped, PassTyped, boardVars, Stage,
             processVars, passVars
    <2> QED
      BY <2>1, <2>2 DEF TypeOK
  <1>4. RowsInOrder'
    <2>1. /\ (\A q \in Runs : q > created => state[q] = "absent")'
          /\ (\A q \in Runs : q <= created => state[q] \in RunState /\ agent[q] \in Agents)'
      BY <1>1, <1>2, OneRow DEF StartRunning
    <2> QED
      BY <1>1, <2>1 DEF StartRunning, RowsInOrder, TypeOK, SupervisionTyped, processVars,
                        passVars
  <1>5. CountersCover' /\ CapsRespected'
    BY <1>1, <1>2, OneRow DEF StartRunning
  <1> QED
    BY <1>3, <1>4, <1>5

(* A supervisor ends its run. *)
LEMMA FinishStep ==
  ASSUME CapsInv, NEW r \in Runs, NEW kind \in Terminal, NEW pr \in BOOLEAN,
         Finish(r, kind, pr)
  PROVE  CapsInv'
  <1> USE DEF CapsInv
  <1>1. r <= created /\ state[r] \in RunState
    BY DEF Finish, RowsInOrder
  <1> DEFINE s == AfterTransition(state[r], kind)
  <1>2. s \in RunState /\ (s \in Active => state[r] \in Active)
    BY <1>1, TerminalTarget
  <1>3. /\ state' = [state EXCEPT ![r] = s]
        /\ UNCHANGED <<agent, ticket, hold, created>> /\ UNCHANGED passVars
    BY DEF Finish
  <1>4. BoardTyped'
    BY SchedulerConstants DEF SchedulerConstants, Finish, MovedTo, TypeOK, BoardTyped, Columns
  <1>5. SupervisionTyped' /\ PassTyped'
    BY DEF Finish, TypeOK, SupervisionTyped, PassTyped, Stage, processVars, passVars
  <1> HIDE DEF s
  <1>6. RowsInOrder'
    <2>1. /\ (\A q \in Runs : q > created => state[q] = "absent")'
          /\ (\A q \in Runs : q <= created => state[q] \in RunState /\ agent[q] \in Agents)'
      BY <1>1, <1>2, <1>3, OneRow
    <2> QED
      BY <1>3, <2>1 DEF Finish, RowsInOrder, TypeOK, SupervisionTyped, processVars, passVars
  <1> QED
    BY <1>1, <1>2, <1>3, <1>4, <1>5, <1>6, OneRow DEF TypeOK

(* Restarts. *)
LEMMA CrashStep ==
  ASSUME CapsInv, NEW survivors \in SUBSET inst, Crash(survivors)
  PROVE  CapsInv'
  <1> USE DEF CapsInv
  <1>1. TypeOK'
    <2>1. RowsTyped' /\ BoardTyped'
      BY DEF Crash, TypeOK, RowsTyped, BoardTyped, rowVars, boardVars
    <2>2. SupervisionTyped'
      BY Bounds DEF Crash, TypeOK, SupervisionTyped, Stage
    <2>3. PassTyped'
      BY DEF Crash, ZeroCounters, TypeOK, PassTyped
    <2> QED
      BY <2>1, <2>2, <2>3 DEF TypeOK
  <1>2. RowsInOrder'
    BY DEF Crash, RowsInOrder, rowVars
  <1>3. ActiveRuns' = ActiveRuns /\ \A a \in Agents : ActiveOf(a)' = ActiveOf(a)
    BY DEF Crash, ActiveRuns, ActiveOf, rowVars
  <1>4. CapsRespected' /\ CountersCover'
    BY <1>3 DEF Crash, CapsRespected, CountersCover
  <1> QED
    BY <1>1, <1>2, <1>4

(* The next process reads the rows that a restart must look at. *)
LEMMA BootStep ==
  ASSUME CapsInv, Boot \/ AdmissionStarts
  PROVE  CapsInv'
  <1> USE DEF CapsInv
  <1>1. UNCHANGED <<rowVars, boardVars, spent, supVars, crashes, passVars>>
    BY DEF Boot, AdmissionStarts
  <1>2. toReconcile' \subseteq Runs /\ \A r \in toReconcile' : r <= created
    BY ActiveCreated DEF Boot, AdmissionStarts, ActiveRuns, TypeOK, SupervisionTyped
  <1>3. phase' \in {"up", "down", "reconciling"}
    BY DEF Boot, AdmissionStarts
  <1>4. TypeOK'
    BY <1>1, <1>2, <1>3 DEF TypeOK, RowsTyped, BoardTyped, SupervisionTyped, PassTyped,
                rowVars, boardVars, supVars, passVars
  <1>5. RowsInOrder'
    BY <1>1, <1>2 DEF RowsInOrder, rowVars, supVars, passVars
  <1>6. CountersCover' /\ CapsRespected'
    BY <1>1, SameRows
  <1> QED
    BY <1>4, <1>5, <1>6

(* Reconciliation of one row. *)
LEMMA ReconcileOneStep ==
  ASSUME CapsInv, NEW r \in Runs, ReconcileOne(r)
  PROVE  CapsInv'
  <1> USE DEF CapsInv
  <1>1. r <= created /\ state[r] \in RunState
    BY DEF ReconcileOne, RowsInOrder
  <1>2. PICK s \in RunState : /\ s \in Active => state[r] \in Active
                              /\ state' = [state EXCEPT ![r] = s]
    <2>1. CASE r \in inst
      BY <2>1, <1>1 DEF ReconcileOne, RunState, Active
    <2>2. CASE r \notin inst
      BY <2>2, <1>1, TerminalTarget DEF ReconcileOne, Terminal
    <2> QED
      BY <2>1, <2>2
  <1>3. UNCHANGED <<agent, ticket, hold, created>> /\ UNCHANGED passVars
    BY DEF ReconcileOne
  <1>4. SupervisionTyped' /\ BoardTyped' /\ PassTyped'
    BY DEF ReconcileOne, TypeOK, SupervisionTyped, BoardTyped, PassTyped, Stage, boardVars,
           passVars
  <1>5. RowsInOrder'
    <2>1. /\ (\A q \in Runs : q > created => state[q] = "absent")'
          /\ (\A q \in Runs : q <= created => state[q] \in RunState /\ agent[q] \in Agents)'
      BY <1>1, <1>2, <1>3, OneRow
    <2>2. \A q \in Runs : sup'[q] # "none" => q <= created
      BY <1>1 DEF ReconcileOne, RowsInOrder, TypeOK, SupervisionTyped
    <2> QED
      BY <1>3, <2>1, <2>2 DEF ReconcileOne, RowsInOrder, passVars
  <1> QED
    BY <1>1, <1>2, <1>3, <1>4, <1>5, OneRow DEF TypeOK

(* The initial state. *)
LEMMA CapsInit == Init => CapsInv
  <1> SUFFICES ASSUME Init PROVE CapsInv
    OBVIOUS
  <1>1. TypeOK
    BY TypeInit
  <1>2. RowsInOrder
    BY Bounds DEF Init, RowsInOrder, Runs
  <1>3. ActiveRuns = {} /\ \A a \in Agents : ActiveOf(a) = {}
    BY RunStateSets DEF Init, ActiveRuns, ActiveOf
  <1>4. CapsRespected
    BY <1>3, FS_EmptySet, Bounds DEF CapsRespected
  <1>5. CountersCover
    BY DEF Init, CountersCover
  <1> QED
    BY <1>1, <1>2, <1>4, <1>5 DEF CapsInv

(* Every step keeps the invariant. *)
LEMMA CapsStep == CapsInv /\ [Next]_vars => CapsInv'
  <1> SUFFICES ASSUME CapsInv, [Next]_vars PROVE CapsInv'
    OBVIOUS
  <1>1. CASE UNCHANGED vars
    <2>1. UNCHANGED <<rowVars, passVars>>
      BY <1>1 DEF vars
    <2>2. TypeOK' /\ RowsInOrder'
      BY <1>1 DEF CapsInv, TypeOK, RowsTyped, BoardTyped, SupervisionTyped, PassTyped,
          RowsInOrder, vars, rowVars, boardVars, supVars, processVars, passVars
    <2> QED
      BY <2>1, <2>2, SameRows DEF CapsInv
  <1>2. CASE Request
    <2>1. CASE \E a \in Agents, t \in Tickets \cup {NoTicket}, s \in Runs \cup {0} :
                  Enqueue(a, t, s)
      BY <2>1, EnqueueStep
    <2>2. CASE \E a \in Agents : EnqueueLoopStopped(a)
      BY <2>2, EnqueueLoopStoppedStep
    <2>3. CASE \E r \in Runs : StopRun(r)
      BY <2>3, StopRunStep
    <2>4. CASE \E r \in Runs : Resume(r)
      BY <2>4, ParkStep DEF Parked
    <2>5. CASE \E r \in Runs, to \in Parked : Park(r, to)
      BY <2>5, ParkStep
    <2>6. CASE \/ \E t \in Tickets, c \in Columns : Drag(t, c)
               \/ \E r \in Runs : Usage(r)
               \/ NewDay
      BY <2>6, BoardStep
    <2> QED
      BY <1>2, <2>1, <2>2, <2>3, <2>4, <2>5, <2>6 DEF Request
  <1>3. CASE Admission
    <2>1. CASE PassBegin \/ ReadByAgent \/ ReadGlobal \/ PassEnd
      BY <2>1, PassReadStep
    <2>2. CASE \E r \in Runs, reason \in {"agent", "wip", "global"} : AdmitHold(r, reason)
      BY <2>2, AdmitHoldStep
    <2>3. ASSUME NEW r \in Runs,
                 AdmitFail(r) \/ AdmitPass(r) \/ AdmitCommit(r) \/ StartSupervisor(r)
          PROVE  CapsInv'
      BY <2>3, AdmitFailStep, AdmitPassStep, AdmitCommitStep, StartSupervisorStep
    <2> QED
      BY <1>3, <2>1, <2>2, <2>3 DEF Admission
  <1>4. ASSUME NEW r \in Runs, Supervision(r) \/ CancelDirect(r) PROVE CapsInv'
    <2>1. CASE Prepared(r) \/ MoveToRunning(r)
      BY <2>1, SupervisorStageStep
    <2>2. CASE StartRunning(r)
      BY <2>2, StartRunningStep
    <2>3. CASE \E kind \in Terminal, pr \in BOOLEAN : Finish(r, kind, pr)
      BY <2>3, FinishStep
    <2>4. CASE CancelDirect(r)
      BY <2>4, CancelDirectStep
    <2> QED
      BY <1>4, <2>1, <2>2, <2>3, <2>4 DEF Supervision
  <1>5. CASE Process
    <2>1. CASE \E survivors \in SUBSET inst : Crash(survivors)
      BY <2>1, CrashStep
    <2>2. CASE Boot \/ AdmissionStarts
      BY <2>2, BootStep
    <2>3. CASE \E r \in Runs : ReconcileOne(r)
      BY <2>3, ReconcileOneStep
    <2> QED
      BY <1>5, <2>1, <2>2, <2>3 DEF Process
  <1> QED
    BY <1>1, <1>2, <1>3, <1>4, <1>5 DEF Next

(* The inductive invariant: rows are created in order, and from the moment an admission
   pass has counted active runs its counters bound the truth from above. *)
THEOREM CapsInvariant == Spec => []CapsInv
  BY CapsInit, CapsStep, PTL DEF Spec

(* Every variable keeps its type, whatever the number of runs, agents and tickets. *)
THEOREM TypeCorrect == Spec => []TypeOK
  <1>1. CapsInv => TypeOK
    BY DEF CapsInv
  <1> QED
    BY <1>1, CapsInvariant, PTL

(* Admission never exceeds an agent's concurrency cap or the workspace's container cap,
   for any caps, any number of agents and runs, stops and restarts at any moment. *)
THEOREM CapsHold == Spec => []CapsRespected
  <1>1. CapsInv => CapsRespected
    BY DEF CapsInv
  <1> QED
    BY <1>1, CapsInvariant, PTL

(* No step takes a row out of a terminal state. *)
LEMMA TerminalStep ==
  ASSUME CapsInv, Next
  PROVE  \A q \in Runs : state[q] \in Terminal => state'[q] = state[q]
  <1> USE DEF CapsInv
  <1> SUFFICES ASSUME NEW q \in Runs, state[q] \in Terminal PROVE state'[q] = state[q]
    OBVIOUS
  <1>0. /\ q <= created /\ q # created + 1 /\ state[q] \in RunState
        /\ state \in [Runs -> RunState \cup {"absent"}]
    <2>1. q \in Int /\ created \in Int /\ ~(q > created)
      BY Bounds, RunStateSets DEF Runs, TypeOK, RowsTyped, RowsInOrder
    <2> QED
      BY <2>1, RunStateSets DEF RowsInOrder, TypeOK, RowsTyped
  <1>1. CASE Request
    <2>1. CASE \E a \in Agents, t \in Tickets \cup {NoTicket}, s \in Runs \cup {0} :
                  Enqueue(a, t, s)
      BY <2>1, <1>0 DEF Enqueue
    <2>2. CASE \E a \in Agents : EnqueueLoopStopped(a)
      BY <2>2, <1>0 DEF EnqueueLoopStopped
    <2>3. CASE \E r \in Runs : StopRun(r)
      BY <2>3 DEF StopRun, rowVars
    <2>4. CASE \E r \in Runs : Resume(r)
      BY <2>4, <1>0, RunStateSets DEF Resume
    <2>5. CASE \E r \in Runs, to \in Parked : Park(r, to)
      BY <2>5, <1>0, LiveTarget, RunStateSets DEF Park
    <2>6. CASE \/ \E t \in Tickets, c \in Columns : Drag(t, c)
               \/ \E r \in Runs : Usage(r)
               \/ NewDay
      BY <2>6 DEF Drag, Usage, NewDay, rowVars
    <2> QED
      BY <1>1, <2>1, <2>2, <2>3, <2>4, <2>5, <2>6 DEF Request
  <1>2. CASE Admission
    <2>1. CASE PassBegin \/ ReadByAgent \/ ReadGlobal \/ PassEnd
      BY <2>1 DEF PassBegin, ReadByAgent, ReadGlobal, PassEnd, rowVars
    <2>2. CASE \E r \in Runs, reason \in {"agent", "wip", "global"} : AdmitHold(r, reason)
      BY <2>2 DEF AdmitHold
    <2>3. CASE \E r \in Runs : AdmitFail(r)
      <3>1. PICK r \in Runs : AdmitFail(r)
        BY <2>3
      <3> QED
        BY <3>1, <1>0, TerminalTarget DEF AdmitFail, Terminal
    <2>4. CASE \E r \in Runs : AdmitPass(r) \/ StartSupervisor(r)
      BY <2>4 DEF AdmitPass, StartSupervisor, rowVars
    <2>5. CASE \E r \in Runs : AdmitCommit(r)
      <3>1. PICK r \in Runs : AdmitCommit(r)
        BY <2>5
      <3>2. CASE TransitionRefused(state[r], "provisioning")
        BY <3>1, <3>2 DEF AdmitCommit
      <3>3. CASE ~TransitionRefused(state[r], "provisioning")
        <4>1. r # q
          BY <3>3, <1>0, AdmissionTarget DEF Terminal
        <4> QED
          BY <3>1, <3>3, <4>1, <1>0 DEF AdmitCommit
      <3> QED
        BY <3>2, <3>3
    <2> QED
      BY <1>2, <2>1, <2>2, <2>3, <2>4, <2>5 DEF Admission
  <1>3. ASSUME NEW r \in Runs, Supervision(r) \/ CancelDirect(r)
        PROVE  state'[q] = state[q]
    <2>1. CASE Prepared(r) \/ MoveToRunning(r)
      BY <2>1 DEF Prepared, MoveToRunning, rowVars
    <2>2. CASE StartRunning(r)
      <3>1. r # q
        <4>1. ASSUME transitionLegal(state[q], "running") PROVE FALSE
          BY <4>1, <1>0, LiveTarget, RunStateSets
        <4> QED
          BY <2>2, <4>1 DEF StartRunning, TransitionRefused, Terminal
      <3> QED
        BY <2>2, <3>1, <1>0 DEF StartRunning
    <2>3. CASE \E kind \in Terminal, pr \in BOOLEAN : Finish(r, kind, pr)
      BY <2>3, <1>0, TerminalTarget DEF Finish
    <2>4. CASE CancelDirect(r)
      BY <2>4, <1>0, TerminalTarget DEF CancelDirect, Terminal
    <2> QED
      BY <1>3, <2>1, <2>2, <2>3, <2>4 DEF Supervision
  <1>4. CASE Process
    <2>1. CASE \E survivors \in SUBSET inst : Crash(survivors)
      BY <2>1 DEF Crash, rowVars
    <2>2. CASE Boot \/ AdmissionStarts
      BY <2>2 DEF Boot, AdmissionStarts, rowVars
    <2>3. CASE \E r \in Runs : ReconcileOne(r)
      <3>1. PICK r \in Runs : ReconcileOne(r)
        BY <2>3
      <3> QED
        BY <3>1, <1>0, TerminalTarget, RunStateSets DEF ReconcileOne, Terminal
    <2> QED
      BY <1>4, <2>1, <2>2, <2>3 DEF Process
  <1> QED
    BY <1>1, <1>2, <1>3, <1>4 DEF Next

(* A terminal run stays as it ended: no late finish, cancel, admission, park, resume or
   reconciliation revives or relabels it. *)
THEOREM TerminalHolds == Spec => TerminalIsFinal
  <1>1. CapsInv /\ [Next]_vars
          => [\A r \in Runs : state[r] \in Terminal => state'[r] = state[r]]_vars
    BY TerminalStep
  <1> QED
    BY <1>1, CapsInvariant, PTL DEF Spec, TerminalIsFinal

------------------------------------------------------------------------------
(* First come, first served. *)

(* What holds a run that the pass has looked at, still true while the pass goes on. *)
HeldInPass(r) ==
  \/ hold[r] = "agent" /\ AtAgentCap(agent[r])
  \/ hold[r] = "wip" /\ ticket[r] # NoTicket
  \/ hold[r] = "global" /\ AtGlobalCap

(* A queued run the pass has no more, or never had, came after those it still has, or is
   held; and the run whose supervisor is about to start is not queued any more. *)
PassInOrder ==
  /\ pc # "idle" =>
       \A r \in QueuedRuns \ todo :
         \/ \A q \in todo : q < r
         \/ pc \in {"next", "commit", "start"} /\ HeldInPass(r)
  /\ pc = "start" => \A r \in Runs : Current(r) => state[r] # "queued"

OrderInv == CapsInv /\ PassInOrder

(* No transition leads to the queue. *)
LEMMA NeverRequeued ==
  ASSUME NEW s \in RunState \cup {"absent"}, NEW to \in RunState, to # "queued",
         AfterTransition(s, to) = "queued"
  PROVE  s = "queued"
  BY DEF AfterTransition

(* What is queued may be admitted, or fail. *)
LEMMA QueuedMayGo ==
  /\ ~TransitionRefused("queued", "provisioning")
  /\ AfterTransition("queued", "failed") = "failed"
  <1>1. transitionLegal("queued", "provisioning")
    BY DEF transitionLegal, legalTransitions, RunState, Active, Parked, Terminal
  <1>2. transitionLegal("queued", "failed")
    BY DEF transitionLegal, legalTransitions, RunState, Active, Parked, Terminal
  <1>. QED BY <1>1, <1>2 DEF TransitionRefused, AfterTransition

(* A step that queues nothing and leaves the pass alone keeps its order. *)
LEMMA QuietOrder ==
  ASSUME PassInOrder, UNCHANGED <<pc, todo, byAgent, global>>,
         \A r \in Runs : state'[r] = "queued" =>
           state[r] = "queued" /\ hold'[r] = hold[r] /\ agent'[r] = agent[r] /\ ticket'[r] = ticket[r]
  PROVE  PassInOrder'
  <1>1. QueuedRuns' \subseteq QueuedRuns
    BY DEF QueuedRuns
  <1>2. \A r \in QueuedRuns' : HeldInPass(r) => HeldInPass(r)'
    BY DEF QueuedRuns, HeldInPass, AtAgentCap, AtGlobalCap
  <1>3. pc' = "start" => \A r \in Runs : Current(r)' => state'[r] # "queued"
    BY DEF PassInOrder, Current
  <1>. QED BY <1>1, <1>2, <1>3 DEF PassInOrder

(* A new row comes after all that the pass has. *)
LEMMA EnqueueOrder ==
  ASSUME OrderInv, NEW a \in Agents, NEW t, NEW s, Enqueue(a, t, s)
  PROVE  PassInOrder'
  <1> DEFINE n == created + 1
  <1>1. /\ created \in Nat /\ created < MaxRuns /\ UNCHANGED <<pc, todo, byAgent, global, hold>>
        /\ state \in [Runs -> RunState \cup {"absent"}]
        /\ state' = [state EXCEPT ![n] = "queued"]
        /\ agent' = [agent EXCEPT ![n] = a] /\ ticket' = [ticket EXCEPT ![n] = t]
        /\ todo \subseteq Runs /\ \A q \in todo : q <= created
    BY Bounds DEF OrderInv, CapsInv, TypeOK, RowsTyped, PassTyped, RowsInOrder, Enqueue, passVars
  <1>2. MaxRuns \in Nat /\ \A q \in Runs : q \in Nat
    BY Bounds DEF Runs
  <1>3. \A q \in todo : q < n /\ q # n
    BY <1>1, <1>2
  <1> HIDE DEF n
  <1>4. \A r \in QueuedRuns' : r = n \/ (r \in QueuedRuns /\ agent'[r] = agent[r] /\ ticket'[r] = ticket[r])
    BY <1>1 DEF QueuedRuns
  <1>5. \A r \in QueuedRuns' : r # n /\ HeldInPass(r) => HeldInPass(r)'
    BY <1>1, <1>4 DEF HeldInPass, AtAgentCap, AtGlobalCap
  <1>6. pc' = "start" => \A r \in Runs : Current(r)' => state'[r] # "queued"
    <2> SUFFICES ASSUME pc = "start", NEW r \in Runs, Current(r)' PROVE state'[r] # "queued"
      BY <1>1
    <2>1. Current(r) /\ r # n
      BY <1>1, <1>3 DEF Current
    <2>2. state[r] # "queued"
      BY <2>1 DEF OrderInv, PassInOrder
    <2>. QED BY <2>1, <2>2, <1>1
  <1>. QED BY <1>1, <1>3, <1>4, <1>5, <1>6 DEF OrderInv, PassInOrder

(* What requests, supervisors and the process do besides queues nothing. *)
LEMMA OutsideOrder ==
  ASSUME OrderInv, NEW r \in Runs,
         \/ \E a \in Agents : EnqueueLoopStopped(a)
         \/ StopRun(r) \/ Resume(r) \/ \E to \in Parked : Park(r, to)
         \/ \E t \in Tickets, c \in Columns : Drag(t, c)
         \/ Usage(r) \/ NewDay \/ Supervision(r) \/ CancelDirect(r)
         \/ Boot \/ ReconcileOne(r) \/ AdmissionStarts
  PROVE  PassInOrder'
  <1>0. /\ PassInOrder /\ state \in [Runs -> RunState \cup {"absent"}] /\ created \in Nat
        /\ \A q \in Runs : q > created => state[q] = "absent"
        /\ DOMAIN agent = Runs
    BY Bounds DEF OrderInv, CapsInv, TypeOK, RowsTyped, RowsInOrder
  <1>00. "absent" # "queued" /\ Parked \subseteq RunState \ {"queued"} /\ Terminal \subseteq RunState \ {"queued"}
    BY DEF RunState, Active, Parked, Terminal
  <1>1. CASE \E a \in Agents : EnqueueLoopStopped(a)
    <2>1. PICK a \in Agents : EnqueueLoopStopped(a)
      BY <1>1
    <2>2. \A q \in Runs : state'[q] = "queued" => state[q] = "queued" /\ agent'[q] = agent[q]
      BY <2>1, <1>0 DEF EnqueueLoopStopped
    <2>. QED BY <1>0, <2>1, <2>2, QuietOrder DEF EnqueueLoopStopped, passVars
  <1>2. CASE \/ StopRun(r) \/ \E t \in Tickets, c \in Columns : Drag(t, c)
             \/ Usage(r) \/ NewDay \/ Prepared(r) \/ MoveToRunning(r) \/ Boot \/ AdmissionStarts
    <2>1. UNCHANGED <<rowVars, passVars>>
      BY <1>2 DEF StopRun, Drag, Usage, NewDay, Prepared, MoveToRunning, Boot, AdmissionStarts
    <2>2. UNCHANGED <<pc, todo, byAgent, global, state, hold, agent, ticket>>
      BY <2>1 DEF rowVars, passVars
    <2>. QED BY <2>2, <1>0, QuietOrder
  <1>3. ASSUME NEW to \in RunState, to # "queued",
               \/ state' = [state EXCEPT ![r] = to]
               \/ state' = [state EXCEPT ![r] = AfterTransition(@, to)]
               \/ state' = state,
               UNCHANGED <<hold, agent, ticket, passVars>>
        PROVE  PassInOrder'
    <2>1. \A q \in Runs : state'[q] = "queued" => state[q] = "queued"
      BY <1>0, <1>3, NeverRequeued
    <2>2. UNCHANGED <<pc, todo, byAgent, global>>
      BY <1>3 DEF passVars
    <2>. QED BY <2>1, <2>2, <1>3, <1>0, QuietOrder
  <1>4. CASE Resume(r) \/ StartRunning(r)
    BY <1>4, <1>3 DEF Resume, StartRunning, RunState, Active
  <1>5. CASE \E to \in Parked : Park(r, to)
    BY <1>5, <1>3, <1>00 DEF Park
  <1>6. CASE \E kind \in Terminal, pr \in BOOLEAN : Finish(r, kind, pr)
    BY <1>6, <1>3, <1>00 DEF Finish
  <1>7. CASE CancelDirect(r)
    BY <1>7, <1>3 DEF CancelDirect, RunState, Terminal
  <1>8. CASE ReconcileOne(r)
    <2>1. CASE r \in inst
      <3>1. state' = [state EXCEPT ![r] = "running"] \/ state' = state
        BY <2>1, <1>8, <1>0 DEF ReconcileOne
      <3>. QED BY <3>1, <1>8, <1>3 DEF ReconcileOne, RunState, Active
    <2>2. CASE r \notin inst
      <3>1. state' = [state EXCEPT ![r] = AfterTransition(@, "failed")] \/ state' = state
        BY <2>2, <1>8, <1>0 DEF ReconcileOne
      <3>. QED BY <3>1, <1>8, <1>3 DEF ReconcileOne, RunState, Terminal
    <2>. QED BY <2>1, <2>2
  <1>. QED BY <1>1, <1>2, <1>4, <1>5, <1>6, <1>7, <1>8 DEF Supervision

(* The pass takes all that is queued, and then the oldest it has. *)
LEMMA PassOrder ==
  ASSUME OrderInv,
         \/ PassBegin \/ ReadByAgent \/ ReadGlobal \/ PassEnd
         \/ \E survivors \in SUBSET inst : Crash(survivors)
  PROVE  PassInOrder'
  <1>1. CASE PassBegin
    BY <1>1 DEF PassBegin, PassInOrder, rowVars, QueuedRuns
  <1>2. CASE ReadByAgent \/ ReadGlobal
    <2>1. pc' \in {"global", "next"} /\ pc \in {"byAgent", "global"} /\ UNCHANGED <<todo, state>>
      BY <1>2 DEF ReadByAgent, ReadGlobal, rowVars
    <2>. QED BY <2>1 DEF OrderInv, PassInOrder, QueuedRuns
  <1>3. CASE PassEnd \/ \E survivors \in SUBSET inst : Crash(survivors)
    BY <1>3 DEF PassEnd, Crash, PassInOrder
  <1>. QED BY <1>1, <1>2, <1>3

(* A run that was looked at stays held while the pass goes on: counters only grow. *)
LEMMA LookedAt ==
  ASSUME OrderInv, NEW r \in Runs, Current(r), pc \in {"next", "commit", "start"},
         pc' \in {"next", "commit", "start"}, todo' \in {todo, todo \ {r}},
         UNCHANGED <<agent, ticket>>, \A a \in Agents : byAgent'[a] \in Nat /\ byAgent'[a] >= byAgent[a],
         global' \in Nat, global' >= global,
         \A q \in Runs : q # r => state'[q] = state[q] /\ hold'[q] = hold[q],
         r \in QueuedRuns' \ todo' => HeldInPass(r)',
         r \in QueuedRuns' => r \in QueuedRuns,
         pc' = "start" => r \in todo' /\ state'[r] # "queued"
  PROVE  PassInOrder'
  <1>1. \A q \in QueuedRuns : q <= created /\ agent[q] \in Agents
    <2>1. \A q \in Runs : q \in Nat /\ created \in Nat
      BY Bounds DEF Runs, OrderInv, CapsInv, TypeOK, RowsTyped
    <2>2. \A q \in QueuedRuns : q \in Runs /\ ~(q > created)
      BY <2>1 DEF QueuedRuns, OrderInv, CapsInv, RowsInOrder
    <2>. QED BY <2>1, <2>2 DEF OrderInv, CapsInv, RowsInOrder
  <1>2. /\ \A a \in Agents : byAgent[a] \in Nat /\ AgentCap[a] \in Nat
        /\ global \in Nat /\ GlobalCap \in Nat
    BY Bounds DEF OrderInv, CapsInv, TypeOK, PassTyped
  <1>3. \A q \in QueuedRuns : q # r /\ HeldInPass(q) => HeldInPass(q)'
    <2> SUFFICES ASSUME NEW q \in QueuedRuns, q # r, HeldInPass(q) PROVE HeldInPass(q)'
      OBVIOUS
    <2>1. q \in Runs /\ agent[q] \in Agents /\ hold'[q] = hold[q] /\ agent'[q] = agent[q] /\ ticket'[q] = ticket[q]
      BY <1>1 DEF QueuedRuns
    <2>2. AtAgentCap(agent[q]) => AtAgentCap(agent[q])'
      BY <1>2, <2>1 DEF AtAgentCap
    <2>3. AtGlobalCap => AtGlobalCap'
      BY <1>2 DEF AtGlobalCap
    <2>. QED BY <2>1, <2>2, <2>3 DEF HeldInPass
  <1>4. \A q \in QueuedRuns' : q \in QueuedRuns
    BY DEF QueuedRuns
  <1>5. todo' \subseteq todo
    OBVIOUS
  <1>6. \A q \in QueuedRuns' \ todo' : (\A p \in todo' : p < q) \/ HeldInPass(q)'
    <2> SUFFICES ASSUME NEW q \in QueuedRuns', q \notin todo', q # r
                 PROVE  (\A p \in todo' : p < q) \/ HeldInPass(q)'
      OBVIOUS
    <2>1. q \in QueuedRuns \ todo
      BY <1>4
    <2>2. (\A p \in todo : p < q) \/ HeldInPass(q)
      BY <2>1 DEF OrderInv, PassInOrder
    <2>. QED BY <2>1, <2>2, <1>3, <1>5
  <1>7. pc' = "start" => \A q \in Runs : Current(q)' => state'[q] # "queued"
    <2> SUFFICES ASSUME pc' = "start", NEW q \in Runs, Current(q)' PROVE q = r
      OBVIOUS
    <2>1. todo' = todo /\ r \in todo /\ q \in todo /\ q <= r /\ r <= q
      BY DEF Current
    <2>2. q \in Nat /\ r \in Nat
      BY Bounds DEF Runs
    <2>. QED BY <2>1, <2>2
  <1>. QED BY <1>6, <1>7 DEF PassInOrder

(* The verdicts of the pass. *)
LEMMA VerdictOrder ==
  ASSUME OrderInv, NEW r \in Runs,
         \/ \E reason \in {"agent", "wip", "global"} : AdmitHold(r, reason)
         \/ AdmitFail(r) \/ AdmitPass(r)
  PROVE  PassInOrder'
  <1>1. /\ Current(r) /\ pc = "next" /\ UNCHANGED <<agent, ticket, byAgent, global>>
        /\ pc' \in {"next", "commit"}
    BY DEF AdmitHold, AdmitFail, AdmitPass, rowVars
  <1>2. /\ \A a \in Agents : byAgent[a] \in Nat /\ byAgent'[a] = byAgent[a] /\ byAgent'[a] >= byAgent[a]
        /\ global \in Nat /\ global' >= global
        /\ state \in [Runs -> RunState \cup {"absent"}]
        /\ hold \in [Runs -> {"none", "agent", "wip", "global"}] /\ r \in todo
    BY <1>1 DEF OrderInv, CapsInv, TypeOK, RowsTyped, PassTyped, Current
  <1>3. CASE \E reason \in {"agent", "wip", "global"} : AdmitHold(r, reason)
    <2>1. PICK reason \in {"agent", "wip", "global"} : AdmitHold(r, reason)
      BY <1>3
    <2>2. /\ todo' = todo \ {r} /\ state' = state
          /\ hold' = IF state[r] = "queued" THEN [hold EXCEPT ![r] = reason] ELSE hold
      BY <2>1 DEF AdmitHold, SetHoldReason
    <2>3. r \in QueuedRuns' => HeldInPass(r)'
      <3>1. \/ reason = "agent" /\ AtAgentCap(agent[r])
            \/ reason = "wip" /\ ticket[r] # NoTicket
            \/ reason = "global" /\ AtGlobalCap
        BY <2>1 DEF AdmitHold, AtWipLimit, WipLimited
      <3>2. AtAgentCap(agent[r])' = AtAgentCap(agent[r]) /\ AtGlobalCap' = AtGlobalCap
        BY <1>1 DEF AtAgentCap, AtGlobalCap
      <3>3. r \in QueuedRuns' => hold'[r] = reason
        BY <2>2, <1>2 DEF QueuedRuns
      <3>. QED BY <3>1, <3>2, <3>3, <1>1 DEF HeldInPass
    <2>4. \A q \in Runs : q # r => state'[q] = state[q] /\ hold'[q] = hold[q]
      BY <2>2, <1>2
    <2>5. pc' = "next" /\ (r \in QueuedRuns' => r \in QueuedRuns)
      BY <2>1, <2>2, <1>1 DEF AdmitHold, QueuedRuns
    <2>. QED BY <1>1, <1>2, <2>2, <2>3, <2>4, <2>5, LookedAt
  <1>4. CASE AdmitFail(r)
    <2>1. /\ todo' = todo \ {r} /\ hold' = hold /\ pc' = "next"
          /\ state' = [state EXCEPT ![r] = AfterTransition(@, "failed")]
      BY <1>4, <1>1 DEF AdmitFail
    <2>2. r \notin QueuedRuns'
      BY <2>1, <1>2, QueuedMayGo, NeverRequeued DEF QueuedRuns, RunState, Terminal
    <2>3. \A q \in Runs : q # r => state'[q] = state[q] /\ hold'[q] = hold[q]
      BY <2>1, <1>2
    <2>. QED BY <1>1, <1>2, <2>1, <2>2, <2>3, LookedAt
  <1>5. CASE AdmitPass(r)
    <2>1. todo' = todo /\ hold' = hold /\ state' = state /\ pc' = "commit"
      BY <1>5 DEF AdmitPass, rowVars
    <2>2. r \in todo' /\ (r \in QueuedRuns' => r \in QueuedRuns)
      BY <2>1, <1>2 DEF QueuedRuns
    <2>. QED BY <1>1, <1>2, <2>1, <2>2, LookedAt
  <1>. QED BY <1>3, <1>4, <1>5

(* The commit, and the start of the supervisor. *)
LEMMA CommitOrder ==
  ASSUME OrderInv, NEW r \in Runs, AdmitCommit(r) \/ StartSupervisor(r)
  PROVE  PassInOrder'
  <1>1. /\ Current(r) /\ UNCHANGED <<agent, ticket>> /\ r \in todo
        /\ byAgent \in [Agents -> Nat] /\ global \in Nat
        /\ state \in [Runs -> RunState \cup {"absent"}]
        /\ hold \in [Runs -> {"none", "agent", "wip", "global"}]
    BY DEF OrderInv, CapsInv, TypeOK, RowsTyped, PassTyped, Current, AdmitCommit, StartSupervisor, rowVars
  <1>2. state[r] \in RunState
    <2>1. r \in Nat /\ created \in Nat /\ r <= created
      BY <1>1, Bounds DEF Runs, OrderInv, CapsInv, TypeOK, RowsTyped, RowsInOrder
    <2>. QED BY <2>1 DEF OrderInv, CapsInv, RowsInOrder
  <1>3. CASE AdmitCommit(r) /\ TransitionRefused(state[r], "provisioning")
    <2>1. pc = "commit" /\ pc' = "next" /\ todo' = todo \ {r} /\ UNCHANGED <<state, hold, byAgent, global>>
      BY <1>3 DEF AdmitCommit
    <2>2. state[r] # "queued"
      BY <1>3, QueuedMayGo
    <2>3. r \notin QueuedRuns'
      BY <2>1, <2>2 DEF QueuedRuns
    <2>4. /\ \A a \in Agents : byAgent'[a] \in Nat /\ byAgent'[a] >= byAgent[a]
          /\ global' \in Nat /\ global' >= global
      BY <2>1, <1>1
    <2>. QED BY <1>1, <2>1, <2>3, <2>4, LookedAt
  <1>4. CASE AdmitCommit(r) /\ ~TransitionRefused(state[r], "provisioning")
    <2>1. /\ pc = "commit" /\ pc' = "start" /\ todo' = todo
          /\ state' = [state EXCEPT ![r] = "provisioning"] /\ hold' = [hold EXCEPT ![r] = "none"]
          /\ byAgent' = [byAgent EXCEPT ![agent[r]] = @ + 1] /\ global' = global + 1
      BY <1>4 DEF AdmitCommit, Occupy
    <2>2. /\ \A a \in Agents : byAgent'[a] \in Nat /\ byAgent'[a] >= byAgent[a]
          /\ global' \in Nat /\ global' >= global
      BY <2>1, <1>1
    <2>3. r \notin QueuedRuns' /\ state'[r] # "queued"
      BY <2>1, <1>1 DEF QueuedRuns
    <2>4. \A q \in Runs : q # r => state'[q] = state[q] /\ hold'[q] = hold[q]
      BY <2>1, <1>1
    <2>. QED BY <1>1, <2>1, <2>2, <2>3, <2>4, LookedAt
  <1>5. CASE StartSupervisor(r)
    <2>1. pc = "start" /\ pc' = "next" /\ todo' = todo \ {r} /\ UNCHANGED <<state, hold, byAgent, global>>
      BY <1>5 DEF StartSupervisor, rowVars
    <2>2. state[r] # "queued"
      BY <2>1, <1>1 DEF OrderInv, PassInOrder
    <2>3. r \notin QueuedRuns'
      BY <2>1, <2>2 DEF QueuedRuns
    <2>4. /\ \A a \in Agents : byAgent'[a] \in Nat /\ byAgent'[a] >= byAgent[a]
          /\ global' \in Nat /\ global' >= global
      BY <2>1, <1>1
    <2>. QED BY <1>1, <2>1, <2>3, <2>4, LookedAt
  <1>. QED BY <1>3, <1>4, <1>5

LEMMA OrderInit == Init => OrderInv
  BY CapsInit DEF Init, OrderInv, PassInOrder

LEMMA OrderStep == OrderInv /\ [Next]_vars => OrderInv'
  <1> SUFFICES ASSUME OrderInv, [Next]_vars PROVE PassInOrder'
    BY CapsStep DEF OrderInv
  <1>1. CASE UNCHANGED vars
    <2>1. UNCHANGED <<pc, todo, byAgent, global, state, hold, agent, ticket>>
      BY <1>1 DEF vars, rowVars, passVars
    <2>. QED BY <2>1, QuietOrder DEF OrderInv
  <1>2. CASE Request
    <2>1. CASE \E a \in Agents, t \in Tickets \cup {NoTicket}, s \in Runs \cup {0} :
                  Enqueue(a, t, s)
      BY <2>1, EnqueueOrder
    <2>2. ASSUME \/ \E a \in Agents : EnqueueLoopStopped(a)
                 \/ \E t \in Tickets, c \in Columns : Drag(t, c)
                 \/ NewDay
          PROVE  PassInOrder'
      <3>1. CASE Runs # {}
        BY <2>2, <3>1, OutsideOrder
      <3>2. CASE Runs = {}
        BY <3>2 DEF PassInOrder, QueuedRuns
      <3>. QED BY <3>1, <3>2
    <2>3. ASSUME NEW r \in Runs, StopRun(r) \/ Resume(r) \/ Usage(r) \/ \E to \in Parked : Park(r, to)
          PROVE  PassInOrder'
      BY <2>3, OutsideOrder
    <2>. QED BY <1>2, <2>1, <2>2, <2>3 DEF Request
  <1>3. CASE Admission
    BY <1>3, PassOrder, VerdictOrder, CommitOrder DEF Admission
  <1>4. ASSUME NEW r \in Runs, Supervision(r) \/ CancelDirect(r)
        PROVE  PassInOrder'
    BY <1>4, OutsideOrder
  <1>5. CASE Process
    <2>1. CASE \E survivors \in SUBSET inst : Crash(survivors)
      BY <2>1, PassOrder
    <2>2. ASSUME Boot \/ AdmissionStarts PROVE PassInOrder'
      <3>1. CASE Runs # {}
        BY <2>2, <3>1, OutsideOrder
      <3>2. CASE Runs = {}
        BY <3>2 DEF PassInOrder, QueuedRuns
      <3>. QED BY <3>1, <3>2
    <2>3. CASE \E r \in Runs : ReconcileOne(r)
      BY <2>3, OutsideOrder
    <2>. QED BY <1>5, <2>1, <2>2, <2>3 DEF Process
  <1>. QED BY <1>1, <1>2, <1>3, <1>4, <1>5 DEF Next

(* Only a commit admits a run. *)
LEMMA OnlyCommitAdmits ==
  ASSUME OrderInv, Next, NEW new \in Runs, state[new] = "queued", state'[new] = "provisioning"
  PROVE  AdmitCommit(new)
  <1>1. /\ state \in [Runs -> RunState \cup {"absent"}]
        /\ \A q \in Runs : q = created + 1 => state[q] = "absent"
        /\ Terminal \subseteq RunState \ {"queued", "provisioning"}
        /\ Parked \subseteq RunState \ {"queued", "provisioning"} /\ "absent" # "queued"
    <2>1. created \in Nat /\ \A q \in Runs : q = created + 1 => q > created
      BY Bounds DEF OrderInv, CapsInv, TypeOK, RowsTyped
    <2>. QED BY <2>1 DEF OrderInv, CapsInv, TypeOK, RowsTyped, RowsInOrder, RunState, Active, Parked, Terminal
  <1>2. ASSUME NEW r \in Runs, NEW to \in RunState, to # "provisioning",
               \/ state' = [state EXCEPT ![r] = to]
               \/ state' = [state EXCEPT ![r] = AfterTransition(@, to)]
        PROVE  FALSE
    BY <1>1, <1>2 DEF AfterTransition
  <1>3. state' # state
    OBVIOUS
  <1>4. CASE Request
    <2>1. CASE \E a \in Agents, t \in Tickets \cup {NoTicket}, s \in Runs \cup {0} :
                  Enqueue(a, t, s)
      BY <2>1, <1>1 DEF Enqueue
    <2>2. CASE \E a \in Agents : EnqueueLoopStopped(a)
      BY <2>2, <1>1 DEF EnqueueLoopStopped
    <2>3. CASE \E r \in Runs : StopRun(r)
      BY <2>3, <1>3 DEF StopRun, rowVars
    <2>4. CASE \E r \in Runs : Resume(r)
      BY <2>4, <1>1 DEF Resume
    <2>5. CASE \E r \in Runs, to \in Parked : Park(r, to)
      BY <2>5, <1>1 DEF Park
    <2>6. CASE \/ \E t \in Tickets, c \in Columns : Drag(t, c)
               \/ \E r \in Runs : Usage(r)
               \/ NewDay
      BY <2>6, <1>3 DEF Drag, Usage, NewDay, rowVars
    <2>. QED BY <1>4, <2>1, <2>2, <2>3, <2>4, <2>5, <2>6 DEF Request
  <1>5. CASE Admission
    <2>1. CASE PassBegin \/ ReadByAgent \/ ReadGlobal \/ PassEnd
      BY <2>1, <1>3 DEF PassBegin, ReadByAgent, ReadGlobal, PassEnd, rowVars
    <2>2. CASE \E r \in Runs, reason \in {"agent", "wip", "global"} : AdmitHold(r, reason)
      BY <2>2, <1>3 DEF AdmitHold
    <2>3. CASE \E r \in Runs : AdmitFail(r)
      BY <2>3, <1>2 DEF AdmitFail, RunState, Terminal
    <2>4. CASE \E r \in Runs : AdmitPass(r) \/ StartSupervisor(r)
      BY <2>4, <1>3 DEF AdmitPass, StartSupervisor, rowVars
    <2>5. ASSUME NEW r \in Runs, AdmitCommit(r) PROVE AdmitCommit(new)
      <3>1. state' = state \/ state' = [state EXCEPT ![r] = "provisioning"]
        BY <2>5 DEF AdmitCommit
      <3>2. new = r
        BY <3>1, <1>1
      <3>. QED BY <3>2, <2>5
    <2>. QED BY <1>5, <2>1, <2>2, <2>3, <2>4, <2>5 DEF Admission
  <1>6. ASSUME NEW r \in Runs, Supervision(r) \/ CancelDirect(r) PROVE FALSE
    <2>1. CASE Prepared(r) \/ MoveToRunning(r)
      BY <2>1, <1>3 DEF Prepared, MoveToRunning, rowVars
    <2>2. CASE StartRunning(r)
      BY <2>2, <1>1 DEF StartRunning
    <2>3. CASE \E kind \in Terminal, pr \in BOOLEAN : Finish(r, kind, pr)
      BY <2>3, <1>1, <1>2 DEF Finish
    <2>4. CASE CancelDirect(r)
      BY <2>4, <1>2 DEF CancelDirect, RunState, Terminal
    <2>. QED BY <1>6, <2>1, <2>2, <2>3, <2>4 DEF Supervision
  <1>7. CASE Process
    <2>1. CASE \E survivors \in SUBSET inst : Crash(survivors)
      BY <2>1, <1>3 DEF Crash, rowVars
    <2>2. CASE Boot \/ AdmissionStarts
      BY <2>2, <1>3 DEF Boot, AdmissionStarts, rowVars
    <2>3. ASSUME NEW r \in Runs, ReconcileOne(r) PROVE FALSE
      BY <2>3, <1>1 DEF ReconcileOne, AfterTransition
    <2>. QED BY <1>7, <2>1, <2>2, <2>3 DEF Process
  <1>. QED BY <1>4, <1>5, <1>6, <1>7 DEF Next

(* When a run is admitted, an older one of its agent that still waits is held at a WIP limit. *)
LEMMA AdmissionOrder ==
  ASSUME OrderInv, NEW old \in Runs, NEW new \in Runs, old < new, agent[old] = agent[new],
         state[old] = "queued", AdmitCommit(new)
  PROVE  ticket[old] # NoTicket /\ hold[old] = "wip"
  <1>1. pc = "commit" /\ Current(new) /\ new \in todo /\ \A q \in todo : new <= q
    BY DEF AdmitCommit, Current
  <1>2. old \in Nat /\ new \in Nat
    BY Bounds DEF Runs
  <1>3. old \notin todo /\ old \in QueuedRuns
    BY <1>1, <1>2 DEF QueuedRuns
  <1>4. ~ \A q \in todo : q < old
    BY <1>1, <1>2
  <1>5. HeldInPass(old)
    BY <1>1, <1>3, <1>4 DEF OrderInv, PassInOrder
  <1>6. ~AtAgentCap(agent[old]) /\ ~AtGlobalCap
    BY <1>1 DEF OrderInv, CapsInv, CountersCover
  <1>. QED BY <1>5, <1>6 DEF HeldInPass

(* First come, first served: the pass walks the queue oldest first, its counters only grow,
   and what was enqueued or freed meanwhile waits for the next one (admitPass), for any
   number of runs, agents and tickets and any caps. *)
THEOREM AdmissionInOrder == Spec => NoOvertaking
  <1>1. OrderInv /\ [Next]_vars
          => [\A old, new \in Runs :
                /\ old < new /\ agent[old] = agent[new]
                /\ state[new] = "queued" /\ state'[new] = "provisioning"
                /\ state[old] = "queued"
                => ticket[old] # NoTicket /\ hold[old] = "wip"]_vars
    BY OnlyCommitAdmits, AdmissionOrder
  <1>2. Spec => []OrderInv
    BY OrderInit, OrderStep, PTL DEF Spec
  <1>. QED BY <1>1, <1>2, PTL DEF Spec, NoOvertaking


------------------------------------------------------------------------------
(* Notify. *)

AttentionRows == [copy : Copies \cup {Nothing}, state : {"unread", "read", "dismissed"}]

AttentionTyped ==
  /\ run \in Fates /\ ask \in [Asks -> {"unasked", "fresh", "due", "resolved"}]
  /\ routedTo \in Persons
  /\ row \in [Persons -> AttentionRows]
  /\ event \in {"none", "pending", "handling", "done"} /\ toUpdate \subseteq Persons \X AttentionRows
  /\ listed \subseteq Asks /\ escalating \in Asks \cup {Nothing} /\ target \in Persons
  /\ raced \in BOOLEAN

BoundsKept == reroutes \in 0..MaxReroutes /\ crashesN \in 0..MaxCrashesN

\* A row has a copy; the event is the end's, and after the end nobody escalates anew.
EndIsTold ==
  /\ \A u \in Persons : row[u].copy = Nothing => row[u] = NoRow
  /\ run = "live" <=> event = "none"
  /\ run # "live" /\ ~raced => escalating = Nothing
  /\ event # "handling" => toUpdate = {}

\* What the subscriber read is still what is there, but for an escalation that slipped in and
\* for what its reader did with it.
ReadIsThere(x) ==
  /\ row[x[1]] # NoRow
  /\ row[x[1]].copy = x[2].copy \/ row[x[1]].copy \in Asks
  /\ ~raced => row[x[1]].copy = x[2].copy
  /\ ~raced /\ x[2].state # "unread" => row[x[1]].state # "unread"

ShowsEnd(u) ==
  row[u] # NoRow => IF run = "canceled" THEN row[u].state # "unread" ELSE row[u].copy = TerminalCopy

UpdatesFit ==
  /\ \A x, y \in toUpdate : x[1] = y[1] => x = y
  /\ \A x \in toUpdate : ReadIsThere(x)
  /\ event \in {"handling", "done"} /\ ~raced =>
       \A u \in Persons : ShowsEnd(u) \/ \E x \in toUpdate : x[1] = u

AttentionTracked == AttentionTyped /\ BoundsKept /\ EndIsTold /\ UpdatesFit

(* A step of a person, the agent or the ticker that writes no row. *)
LEMMA NoRowWritten ==
  ASSUME AttentionTracked, AttentionTyped', BoundsKept', UNCHANGED <<run, row, event, toUpdate, raced>>,
         run # "live" /\ ~raced /\ escalating = Nothing => escalating' = Nothing
  PROVE  AttentionTracked' /\ ReadStaysRead
  <1>1. EndIsTold'
    BY DEF AttentionTracked, EndIsTold, NoRow
  <1>2. UpdatesFit'
    BY DEF AttentionTracked, UpdatesFit, ReadIsThere, ShowsEnd, TerminalCopy, NoRow
  <1>. QED BY <1>1, <1>2 DEF AttentionTracked, ReadStaysRead

LEMMA MarkKeeps ==
  ASSUME AttentionTracked, NEW u \in Persons, NEW s \in {"read", "dismissed"}, MarkState(u, s)
  PROVE  AttentionTracked' /\ ReadStaysRead
  <1>1. /\ row \in [Persons -> AttentionRows] /\ row[u] # NoRow
        /\ row' = [row EXCEPT ![u] = [row[u] EXCEPT !.state = s]]
        /\ UNCHANGED <<run, ask, routedTo, event, toUpdate, listed, escalating, target, raced, reroutes, crashesN>>
    BY DEF MarkState, tickVars, AttentionTracked, AttentionTyped
  <1> DEFINE new == [row[u] EXCEPT !.state = s]
  <1>2. new \in AttentionRows /\ new.copy = row[u].copy /\ new.state = s /\ row[u].copy # Nothing
    BY <1>1 DEF AttentionRows, AttentionTracked, EndIsTold
  <1> HIDE DEF new
  <1>3. /\ row' \in [Persons -> AttentionRows] /\ row'[u] = new
        /\ \A v \in Persons : v # u => row'[v] = row[v]
    BY <1>1, <1>2 DEF new
  <1>4. AttentionTyped' /\ BoundsKept'
    BY <1>1, <1>3 DEF AttentionTracked, AttentionTyped, BoundsKept
  <1>5. /\ row'[u] # NoRow /\ row'[u].copy = row[u].copy /\ row'[u].state # "unread"
    BY <1>2, <1>3 DEF NoRow
  <1>6. EndIsTold'
    BY <1>1, <1>2, <1>3 DEF AttentionTracked, EndIsTold, NoRow
  <1>7. ASSUME NEW x \in toUpdate PROVE ReadIsThere(x)'
    <2>1. x[1] \in Persons /\ ReadIsThere(x)
      BY DEF AttentionTracked, AttentionTyped, UpdatesFit
    <2>. QED BY <1>1, <1>3, <1>5, <2>1 DEF ReadIsThere, NoRow
  <1>8. ASSUME NEW v \in Persons, ShowsEnd(v) PROVE ShowsEnd(v)'
    BY <1>1, <1>3, <1>5, <1>8 DEF ShowsEnd, TerminalCopy, NoRow
  <1>9. UpdatesFit'
    BY <1>1, <1>7, <1>8 DEF AttentionTracked, UpdatesFit
  <1>10. ReadStaysRead
    BY <1>3, <1>5 DEF ReadStaysRead
  <1>. QED BY <1>4, <1>6, <1>9, <1>10 DEF AttentionTracked

LEMMA HandleKeeps ==
  ASSUME AttentionTracked, HandleRunEvent
  PROVE  AttentionTracked' /\ ReadStaysRead
  <1>1. /\ event = "pending" /\ toUpdate' = {<<u, row[u]>> : u \in {p \in Persons : row[p] # NoRow}}
        /\ event' = IF toUpdate' = {} THEN "done" ELSE "handling"
        /\ UNCHANGED <<run, ask, routedTo, row, listed, escalating, target, raced, reroutes, crashesN>>
    BY DEF HandleRunEvent, tickVars
  <1>2. row \in [Persons -> AttentionRows]
    BY DEF AttentionTracked, AttentionTyped
  <1>3. toUpdate' \subseteq Persons \X AttentionRows
    BY <1>1, <1>2
  <1>4. AttentionTyped' /\ BoundsKept'
    BY <1>1, <1>3 DEF AttentionTracked, AttentionTyped, BoundsKept
  <1>5. EndIsTold'
    BY <1>1 DEF AttentionTracked, EndIsTold, NoRow
  <1>6. \A x \in toUpdate' : x[1] \in Persons /\ x[2] = row[x[1]] /\ row[x[1]] # NoRow /\ x = <<x[1], x[2]>>
    BY <1>1
  <1>7. \A x, y \in toUpdate' : x[1] = y[1] => x = y
    BY <1>6
  <1>8. ASSUME NEW x \in toUpdate' PROVE ReadIsThere(x)'
    BY <1>1, <1>6 DEF ReadIsThere, NoRow
  <1>9. ASSUME NEW u \in Persons PROVE ShowsEnd(u)' \/ \E x \in toUpdate' : x[1] = u
    <2>1. CASE row[u] = NoRow
      BY <1>1, <2>1 DEF ShowsEnd, NoRow
    <2>2. CASE row[u] # NoRow
      <3>1. <<u, row[u]>> \in toUpdate' /\ <<u, row[u]>>[1] = u
        BY <1>1, <2>2
      <3>. QED BY <3>1
    <2>. QED BY <2>1, <2>2
  <1>10. UpdatesFit'
    BY <1>7, <1>8, <1>9 DEF UpdatesFit
  <1>. QED BY <1>1, <1>4, <1>5, <1>10 DEF AttentionTracked, ReadStaysRead

LEMMA UpdateKeeps ==
  ASSUME AttentionTracked, NEW x \in toUpdate, UpdateRow(x)
  PROVE  AttentionTracked' /\ ReadStaysRead
  <1> DEFINE u == x[1]
  <1>1. /\ row \in [Persons -> AttentionRows] /\ u \in Persons /\ x[2] \in AttentionRows
        /\ run \in Fates /\ toUpdate \subseteq Persons \X AttentionRows
        /\ ReadIsThere(x) /\ row[u].copy # Nothing
    BY DEF AttentionTracked, AttentionTyped, UpdatesFit, EndIsTold, ReadIsThere
  <1>2. /\ event = "handling" /\ toUpdate' = toUpdate \ {x}
        /\ event' = IF toUpdate' = {} THEN "done" ELSE "handling"
        /\ UNCHANGED <<run, ask, routedTo, listed, escalating, target, raced, reroutes, crashesN>>
    BY DEF UpdateRow, tickVars
  <1> DEFINE told == [copy |-> TerminalCopy, state |-> "unread"]
  <1> DEFINE gone == [row[u] EXCEPT !.state = "dismissed"]
  <1>3. /\ told \in AttentionRows /\ told.copy = TerminalCopy /\ told.state = "unread" /\ told # NoRow
        /\ gone \in AttentionRows /\ gone.copy = row[u].copy /\ gone.state = "dismissed" /\ gone # NoRow
        /\ TerminalCopy \in {"finished", "failed"}
    BY <1>1, NotifyAssumption DEF AttentionRows, NoRow, TerminalCopy, Copies
  <1>4. \/ run # "canceled" /\ x[2].copy # TerminalCopy /\ row' = [row EXCEPT ![u] = told]
        \/ run = "canceled" /\ x[2].state # "dismissed" /\ row' = [row EXCEPT ![u] = gone]
        \/ run # "canceled" /\ x[2].copy = TerminalCopy /\ row' = row
        \/ run = "canceled" /\ x[2].state = "dismissed" /\ row' = row
    BY DEF UpdateRow, Upsert
  <1> HIDE DEF told, gone
  <1>5. /\ row' \in [Persons -> AttentionRows]
        /\ \A v \in Persons : v # u => row'[v] = row[v]
        /\ \/ run # "canceled" /\ x[2].copy # TerminalCopy /\ row'[u] = told
           \/ run = "canceled" /\ x[2].state # "dismissed" /\ row'[u] = gone
           \/ run # "canceled" /\ x[2].copy = TerminalCopy /\ row'[u] = row[u]
           \/ run = "canceled" /\ x[2].state = "dismissed" /\ row'[u] = row[u]
    BY <1>1, <1>3, <1>4
  <1> HIDE DEF u
  <1>6. AttentionTyped' /\ BoundsKept'
    BY <1>2, <1>5 DEF AttentionTracked, AttentionTyped, BoundsKept
  <1>7. row'[u].copy # Nothing /\ row'[u] # NoRow
    BY <1>1, <1>3, <1>5, NotifyAssumption DEF NoRow, Copies
  <1>8. EndIsTold'
    <2>1. \A v \in Persons : row'[v].copy = Nothing => row'[v] = NoRow'
      BY <1>5, <1>7 DEF AttentionTracked, EndIsTold, NoRow
    <2>. QED BY <1>2, <2>1 DEF AttentionTracked, EndIsTold
  <1>9. ASSUME NEW y \in toUpdate' PROVE ReadIsThere(y)'
    <2>1. y[1] \in Persons /\ ReadIsThere(y) /\ y[1] # u
      BY <1>1, <1>2 DEF AttentionTracked, UpdatesFit, u
    <2>. QED BY <1>2, <1>5, <2>1 DEF ReadIsThere, NoRow
  <1>10. ~raced => ShowsEnd(u)'
    <2> SUFFICES ASSUME ~raced PROVE ShowsEnd(u)'
      OBVIOUS
    <2>1. row[u].copy = x[2].copy /\ (x[2].state # "unread" => row[u].state # "unread")
      BY <1>1 DEF ReadIsThere, u
    <2>. QED BY <1>2, <1>3, <1>5, <2>1 DEF ShowsEnd, TerminalCopy
  <1>11. ASSUME NEW v \in Persons, ~raced PROVE ShowsEnd(v)' \/ \E y \in toUpdate' : y[1] = v
    <2>1. CASE v = u
      BY <1>10, <1>11, <2>1
    <2>2. CASE v # u
      <3>1. ShowsEnd(v) \/ \E y \in toUpdate : y[1] = v
        BY <1>2, <1>11 DEF AttentionTracked, UpdatesFit
      <3>2. ShowsEnd(v) => ShowsEnd(v)'
        BY <1>2, <1>5, <2>2 DEF ShowsEnd, TerminalCopy, NoRow
      <3>3. \A y \in toUpdate : y[1] = v => y \in toUpdate'
        BY <1>2, <2>2 DEF u
      <3>. QED BY <3>1, <3>2, <3>3
    <2>. QED BY <2>1, <2>2
  <1>12. UpdatesFit'
    BY <1>2, <1>9, <1>11 DEF AttentionTracked, UpdatesFit
  <1>13. ReadStaysRead
    <2> SUFFICES ASSUME NEW v \in Persons, row[v].state # "unread", row'[v].state = "unread"
                 PROVE  row'[v].copy # row[v].copy
      BY DEF ReadStaysRead
    <2>1. v = u
      BY <1>5
    <2>2. x[2].copy # TerminalCopy /\ row'[u] = told
      BY <1>3, <1>5, <2>1
    <2>3. row[u].copy = x[2].copy \/ row[u].copy \in Asks
      BY <1>1 DEF ReadIsThere, u
    <2>. QED BY <1>3, <2>1, <2>2, <2>3, NotifyAssumption
  <1>. QED BY <1>6, <1>8, <1>12, <1>13 DEF AttentionTracked

LEMMA EscalateOneKeeps ==
  ASSUME AttentionTracked, EscalateOne
  PROVE  AttentionTracked' /\ ReadStaysRead
  <1>1. /\ row \in [Persons -> AttentionRows] /\ target \in Persons /\ escalating \in Asks
        /\ run = "live" \/ raced
    BY DEF AttentionTracked, AttentionTyped, EndIsTold, EscalateOne
  <1> DEFINE told == [copy |-> escalating, state |-> "unread"]
  <1>2. /\ row' = row \/ (row[target].copy # escalating /\ row' = [row EXCEPT ![target] = told])
        /\ escalating' = Nothing
        /\ UNCHANGED <<run, ask, routedTo, event, toUpdate, listed, target, raced, reroutes, crashesN>>
    BY DEF EscalateOne, Upsert
  <1>3. told \in AttentionRows /\ told.copy = escalating /\ told # NoRow /\ escalating # Nothing
    BY <1>1, NotifyAssumption DEF AttentionRows, NoRow, Copies
  <1> HIDE DEF told
  <1>4. /\ row' \in [Persons -> AttentionRows]
        /\ \A v \in Persons : v # target => row'[v] = row[v]
        /\ row'[target] = row[target] \/ (row[target].copy # escalating /\ row'[target] = told)
    BY <1>1, <1>2, <1>3
  <1>5. AttentionTyped' /\ BoundsKept'
    BY <1>2, <1>4 DEF AttentionTracked, AttentionTyped, BoundsKept
  <1>6. EndIsTold'
    <2>1. \A v \in Persons : row'[v].copy = Nothing => row'[v] = NoRow'
      BY <1>3, <1>4 DEF AttentionTracked, EndIsTold, NoRow
    <2>. QED BY <1>2, <2>1 DEF AttentionTracked, EndIsTold
  <1>7. ASSUME NEW x \in toUpdate PROVE ReadIsThere(x)'
    <2>1. x[1] \in Persons /\ ReadIsThere(x) /\ raced
      BY <1>1 DEF AttentionTracked, AttentionTyped, UpdatesFit, EndIsTold
    <2>. QED BY <1>1, <1>2, <1>3, <1>4, <2>1 DEF ReadIsThere, NoRow
  <1>8. event \in {"handling", "done"} => raced
    BY <1>1 DEF AttentionTracked, EndIsTold
  <1>9. UpdatesFit'
    BY <1>2, <1>7, <1>8 DEF AttentionTracked, UpdatesFit
  <1>10. ReadStaysRead
    BY <1>3, <1>4 DEF ReadStaysRead
  <1>. QED BY <1>5, <1>6, <1>9, <1>10 DEF AttentionTracked

LEMMA RunEndsKeeps ==
  ASSUME AttentionTracked, NEW kind \in Fates \ {"live"}, RunEnds(kind)
  PROVE  AttentionTracked' /\ ReadStaysRead
  <1>1. /\ run = "live" /\ run' = kind /\ event' = "pending" /\ raced' = (escalating # Nothing)
        /\ ask' = [e \in Asks |-> IF e \in Pending THEN "resolved" ELSE ask[e]]
        /\ UNCHANGED <<routedTo, row, toUpdate, listed, escalating, target, reroutes, crashesN>>
    BY DEF RunEnds, tickVars
  <1>2. toUpdate = {}
    BY <1>1 DEF AttentionTracked, EndIsTold
  <1>3. AttentionTyped'
    <2>1. ask' \in [Asks -> {"unasked", "fresh", "due", "resolved"}]
      BY <1>1 DEF AttentionTracked, AttentionTyped
    <2>2. raced' \in BOOLEAN
      BY <1>1
    <2>. QED BY <1>1, <2>1, <2>2 DEF AttentionTracked, AttentionTyped
  <1>4. BoundsKept' /\ EndIsTold'
    BY <1>1, <1>2 DEF AttentionTracked, BoundsKept, EndIsTold, NoRow
  <1>5. UpdatesFit'
    BY <1>1, <1>2 DEF UpdatesFit
  <1>. QED BY <1>1, <1>3, <1>4, <1>5 DEF AttentionTracked, ReadStaysRead

LEMMA NotifyCrashKeeps ==
  ASSUME AttentionTracked, NotifyCrash
  PROVE  AttentionTracked' /\ ReadStaysRead
  <1>1. /\ event' \in {"none", "pending", "done"} /\ (event' = "none" <=> event = "none")
        /\ event' = "done" => event = "done"
        /\ listed' = {} /\ escalating' = Nothing /\ toUpdate' = {} /\ crashesN < MaxCrashesN /\ crashesN' = crashesN + 1
        /\ UNCHANGED <<run, ask, routedTo, row, target, raced, reroutes>>
    BY DEF NotifyCrash, AttentionTracked, AttentionTyped
  <1>2. AttentionTyped'
    BY <1>1 DEF AttentionTracked, AttentionTyped
  <1>3. BoundsKept'
    BY <1>1, NotifyAssumption DEF AttentionTracked, BoundsKept
  <1>4. EndIsTold'
    BY <1>1 DEF AttentionTracked, EndIsTold, NoRow
  <1>5. ASSUME NEW v \in Persons, event' = "done", ~raced PROVE ShowsEnd(v)'
    <2>1. toUpdate = {} /\ event = "done"
      BY <1>1, <1>5 DEF AttentionTracked, EndIsTold
    <2>2. ShowsEnd(v)
      BY <1>5, <2>1 DEF AttentionTracked, UpdatesFit
    <2>. QED BY <1>1, <2>2 DEF ShowsEnd, TerminalCopy, NoRow
  <1>6. UpdatesFit'
    BY <1>1, <1>5 DEF UpdatesFit
  <1>. QED BY <1>1, <1>2, <1>3, <1>4, <1>6 DEF AttentionTracked, ReadStaysRead

LEMMA AttentionStarts == NotifyInit => AttentionTracked
  <1> SUFFICES ASSUME NotifyInit PROVE AttentionTracked
    OBVIOUS
  <1>1. routedTo \in Persons
    BY NotifyAssumption DEF NotifyInit
  <1>2. AttentionTyped
    <2>1. row \in [Persons -> AttentionRows] /\ ask \in [Asks -> {"unasked", "fresh", "due", "resolved"}]
      BY DEF NotifyInit, NoRow, AttentionRows
    <2>. QED BY <1>1, <2>1 DEF NotifyInit, AttentionTyped, Fates
  <1>3. BoundsKept
    BY NotifyAssumption DEF NotifyInit, BoundsKept
  <1>4. EndIsTold /\ UpdatesFit
    BY DEF NotifyInit, EndIsTold, UpdatesFit
  <1>. QED BY <1>2, <1>3, <1>4 DEF AttentionTracked

LEMMA AttentionSteps ==
  ASSUME AttentionTracked, NotifyNext
  PROVE  AttentionTracked' /\ ReadStaysRead
  <1>1. ASSUME NEW e \in Asks, AgentAsks(e) \/ SixtySeconds(e) \/ Answered(e) \/ LookAtRun(e)
        PROVE  AttentionTracked' /\ ReadStaysRead
    <2>1. UNCHANGED <<run, row, event, toUpdate, raced>>
      BY <1>1 DEF AgentAsks, SixtySeconds, Answered, LookAtRun
    <2>2. run # "live" /\ ~raced /\ escalating = Nothing => escalating' = Nothing
      BY <1>1 DEF AgentAsks, SixtySeconds, Answered, LookAtRun, tickVars
    <2>3. AttentionTyped'
      <3>1. ask' \in [Asks -> {"unasked", "fresh", "due", "resolved"}]
        BY <1>1 DEF AgentAsks, SixtySeconds, Answered, LookAtRun, AttentionTracked, AttentionTyped
      <3>2. routedTo' \in Persons /\ listed' \subseteq Asks /\ escalating' \in Asks \cup {Nothing} /\ target' \in Persons
        BY <1>1 DEF AgentAsks, SixtySeconds, Answered, LookAtRun, tickVars, AttentionTracked, AttentionTyped
      <3>. QED BY <2>1, <3>1, <3>2 DEF AttentionTracked, AttentionTyped
    <2>4. BoundsKept'
      BY <1>1 DEF AgentAsks, SixtySeconds, Answered, LookAtRun, AttentionTracked, BoundsKept
    <2>. QED BY <2>1, <2>2, <2>3, <2>4, NoRowWritten
  <1>2. ASSUME NEW u \in Persons, Reassigned(u)
        PROVE  AttentionTracked' /\ ReadStaysRead
    <2>1. AttentionTyped'
      BY <1>2 DEF Reassigned, tickVars, AttentionTracked, AttentionTyped
    <2>2. BoundsKept'
      BY <1>2, NotifyAssumption DEF Reassigned, AttentionTracked, BoundsKept
    <2>. QED BY <1>2, <2>1, <2>2, NoRowWritten DEF Reassigned, tickVars
  <1>3. CASE Escalate
    <2>1. AttentionTyped' /\ BoundsKept'
      BY <1>3 DEF Escalate, AttentionTracked, AttentionTyped, BoundsKept
    <2>. QED BY <1>3, <2>1, NoRowWritten DEF Escalate
  <1>. QED BY <1>1, <1>2, <1>3, MarkKeeps, HandleKeeps, UpdateKeeps, EscalateOneKeeps, RunEndsKeeps,
              NotifyCrashKeeps DEF NotifyNext

(* Whatever the people, questions, reroutes and crashes: once its end has been handled a run
   asks nothing of anybody any more and tells how it ended, unless an escalation raced with
   the end, and what somebody has read comes back only with another copy (handleRunEvent,
   escalateOne, Upsert). *)
THEOREM AttentionHolds == NotifySpec => AttentionIsTrue
  <1>1. AttentionTracked /\ [NotifyNext]_notifyVars => AttentionTracked'
    <2> SUFFICES ASSUME AttentionTracked, [NotifyNext]_notifyVars PROVE AttentionTracked'
      OBVIOUS
    <2>1. CASE UNCHANGED notifyVars
      <3>1. AttentionTyped' /\ BoundsKept'
        BY <2>1 DEF notifyVars, AttentionTracked, AttentionTyped, BoundsKept
      <3>. QED BY <2>1, <3>1, NoRowWritten DEF notifyVars
    <2>. QED BY <2>1, AttentionSteps
  <1>2. AttentionTracked => NotifyTypeOK /\ EndIsShown
    <2> SUFFICES ASSUME AttentionTracked PROVE NotifyTypeOK /\ EndIsShown
      OBVIOUS
    <2>1. NotifyTypeOK
      BY DEF AttentionTracked, AttentionTyped, AttentionRows, BoundsKept, NotifyTypeOK
    <2>2. EndIsShown
      BY DEF AttentionTracked, EndIsTold, UpdatesFit, ShowsEnd, EndIsShown
    <2>. QED BY <2>1, <2>2
  <1>3. AttentionTracked /\ AttentionTracked' /\ [NotifyNext]_notifyVars
          => [NotifyTypeOK' /\ EndIsShown' /\ ReadStaysRead]_notifyVars
    <2> SUFFICES ASSUME AttentionTracked, AttentionTracked', NotifyNext
                 PROVE  NotifyTypeOK' /\ EndIsShown' /\ ReadStaysRead
      OBVIOUS
    <2>1. (NotifyTypeOK /\ EndIsShown)'
      BY <1>2, PTL
    <2>. QED BY <2>1, AttentionSteps
  <1>. QED BY <1>1, <1>3, AttentionStarts, PTL DEF NotifySpec, AttentionIsTrue


------------------------------------------------------------------------------
(* Lifecycle. *)

(* What serve defers, in order. *)
DeferredCalls == <<"store", "kernel", "notify", "demote", "triage", "scheduler">>
Stacked(n) == deferred = [i \in 1..n |-> DeferredCalls[i]]

(* Where serve is tells what is deferred, and what is deferred what may run. *)
Framed(n) ==
  /\ Stacked(n)
  /\ serving \in {"migrate", "init"} => n = 1
  /\ serving \in {"tickers", "stopping"} => n = 2
  /\ serving \in {"listen", "start"} => n = 5
  /\ serving = "serve" => n = 6
  /\ serving = "unwind" => n >= 1
  /\ serving = "exited" => n = 0
  /\ "notify" \in tickers => n >= 3
  /\ "demote" \in tickers => n >= 4
  /\ "triage" \in tickers => n >= 5
  /\ "store" \in running <=> n >= 1
  /\ "bus" \in running <=> n >= 2
  /\ "engine" \in running => n >= 2
  /\ "scheduler" \in running => n = 6
  /\ "http" \in running => serving = "serve"

OneClaimEach(k) == \A i, j \in Modules : i < k /\ j < k /\ i # j => claims[i] # claims[j]

(* The modules are registered, and then started, one after the other. *)
InTurn ==
  /\ nextModule >= 1
  /\ serving \in {"migrate", "init", "tickers", "listen"} => startedMods = {}
  /\ serving \in {"migrate", "tickers", "listen"} => nextModule = 1
  /\ serving = "start" => startedMods = 1..(nextModule - 1)
  /\ serving = "serve" => startedMods = Modules
  /\ serving = "init" => OneClaimEach(nextModule) /\ \A i \in Modules : i < nextModule => port[claims[i]] # 0
  /\ serving \in {"tickers", "listen", "start", "serve"} \/ startedMods # {} => OneClaimEach(NumModules + 1)

(* A fair share of the time, and what m of them make. *)
FairShare == StopTime \div NumModules
Owed(m) == m * FairShare

(* The modules are stopped one after the other, and the time left is enough for the rest. *)
StopsInTurn(n) ==
  /\ serving \notin {"stopping", "unwind", "exited"} \/ (serving = "unwind" /\ n >= 2) =>
       timeLeft = StopTime /\ \A m \in Modules : stopOf[m] = "no"
  /\ serving = "stopping" => \A m \in Modules :
       (m > nextModule => stopOf[m] \in {"returned", "left"}) /\ (m < nextModule => stopOf[m] = "no")
  /\ serving \in {"unwind", "exited"} /\ n <= 1 /\ startedMods # {} => \A m \in Modules : stopOf[m] \in {"returned",
     "left"}
  /\ \A m \in Modules : stopOf[m] # "no" => share[m] >= FairShare
  /\ serving = "stopping" /\ (nextModule \in Modules /\ stopOf[nextModule] = "called") =>
       share[nextModule] = timeLeft \div nextModule /\ timeLeft >= Owed(nextModule)
  /\ serving = "stopping" /\ ~(nextModule \in Modules /\ stopOf[nextModule] = "called") => timeLeft >= Owed(nextModule - 1)

TrackedAt(n) == Framed(n) /\ InTurn /\ StopsInTurn(n)
LifecycleTracked == LifecycleTypeOK /\ \E n \in 0..6 : TrackedAt(n)

(* Who has at least m fair shares can give the next of m modules one, and keeps the others'. *)
LEMMA ShareSuffices ==
  ASSUME NEW t \in Nat, NEW m \in Nat \ {0}, NEW q \in Nat, t >= m * q
  PROVE  t \div m \in Nat /\ t \div m >= q /\ t \div m <= t /\ t - (t \div m) >= (m - 1) * q
  <1>1. PICK d : d = t \div m
    OBVIOUS
  <1>2. d \in Int /\ m * d <= t /\ t < m * d + m
    BY <1>1
  <1>3. d \in Nat
    <2>1. d >= 0
      <3> SUFFICES ASSUME d <= -1 PROVE FALSE
        BY <1>2
      <3>1. m * d + m <= 0
        <4>1. m * d + m = m * (d + 1)
          BY <1>2
        <4>2. d + 1 <= 0 /\ d + 1 \in Int
          BY <1>2
        <4>. QED BY <4>1, <4>2
      <3>. QED BY <1>2, <3>1
    <2>. QED BY <1>2, <2>1
  <1>4. d >= q
    <2> SUFFICES ASSUME d + 1 <= q PROVE FALSE
      BY <1>3
    <2>1. m * (d + 1) <= m * q
      BY <1>3
    <2>2. m * (d + 1) = m * d + m
      BY <1>3
    <2>. QED BY <1>2, <2>1, <2>2
  <1>5. (m - 1) * q <= (m - 1) * d
    BY <1>3, <1>4
  <1>6. (m - 1) * d = m * d - d
    BY <1>3
  <1>7. (m - 1) * d \in Nat /\ (m - 1) * q \in Int /\ m * d \in Int
    BY <1>3
  <1>. QED BY <1>1, <1>2, <1>3, <1>4, <1>5, <1>6, <1>7

(* Every module's fair share is some time, and together they are at most what there is. *)
LEMMA FairShares ==
  /\ FairShare \in Nat /\ FairShare >= 1 /\ Owed(NumModules) <= StopTime
  /\ \A m \in 0..(NumModules + 1) : Owed(m) \in Nat /\ (m >= 1 => Owed(m) >= 1)
  <1>1. NumModules \in Nat \ {0} /\ StopTime \in Nat /\ StopTime >= NumModules * 1
    BY LifecycleAssumption
  <1>2. FairShare \in Nat /\ FairShare >= 1
    BY <1>1, ShareSuffices DEF FairShare
  <1>3. NumModules * (StopTime \div NumModules) <= StopTime
    BY <1>1
  <1>4. ASSUME NEW m \in 0..(NumModules + 1) PROVE Owed(m) \in Nat /\ (m >= 1 => Owed(m) >= 1)
    BY <1>1, <1>2 DEF Owed
  <1>. QED BY <1>2, <1>3, <1>4 DEF FairShare, Owed

(* The deferred calls grow and shrink at the end. *)
LEMMA StackMoves ==
  ASSUME NEW n \in 0..6, Stacked(n)
  PROVE  /\ Len(deferred) = n
         /\ n >= 1 => deferred[Len(deferred)] = DeferredCalls[n]
         /\ n >= 1 /\ Popped => Stacked(n - 1)'
         /\ \A x : n < 6 /\ x = DeferredCalls[n + 1] /\ deferred' = Append(deferred, x) => Stacked(n + 1)'
         /\ n = 2 /\ deferred' = deferred \o <<"notify", "demote", "triage">> => Stacked(5)'
         /\ UNCHANGED deferred => Stacked(n)'
  <1>1. deferred = [i \in 1..n |-> DeferredCalls[i]] /\ Len(deferred) = n
    BY DEF Stacked
  <1>2. n >= 1 => deferred[Len(deferred)] = DeferredCalls[n]
    BY <1>1
  <1>3. ASSUME n >= 1, Popped PROVE Stacked(n - 1)'
    <2>1. deferred' = [i \in 1..(n - 1) |-> deferred[i]]
      BY <1>1, <1>3 DEF Popped
    <2>2. \A i \in 1..(n - 1) : i \in 1..n
      OBVIOUS
    <2>3. [i \in 1..(n - 1) |-> deferred[i]] = [i \in 1..(n - 1) |-> DeferredCalls[i]]
      BY <1>1, <2>2
    <2>. QED BY <2>1, <2>3 DEF Stacked
  <1>4. ASSUME NEW x, n < 6, x = DeferredCalls[n + 1], deferred' = Append(deferred, x) PROVE Stacked(n + 1)'
    <2>1. deferred' = [i \in 1..(n + 1) |-> IF i \in 1..n THEN deferred[i] ELSE x]
      BY <1>1, <1>4
    <2>2. \A i \in 1..(n + 1) : i \in 1..n \/ i = n + 1
      OBVIOUS
    <2>3. [i \in 1..(n + 1) |-> IF i \in 1..n THEN deferred[i] ELSE x] = [i \in 1..(n + 1) |-> DeferredCalls[i]]
      BY <1>1, <1>4, <2>2
    <2>. QED BY <2>1, <2>3 DEF Stacked
  <1>5. ASSUME n = 2, deferred' = deferred \o <<"notify", "demote", "triage">> PROVE Stacked(5)'
    <2>1. deferred = <<"store", "kernel">>
      BY <1>1, <1>5 DEF DeferredCalls
    <2>2. PICK S : S = {"store", "kernel", "notify", "demote", "triage"}
      OBVIOUS
    <2>3. PICK s : s = <<"notify", "demote", "triage">>
      OBVIOUS
    <2>4. deferred \in Seq(S) /\ s \in Seq(S) /\ Len(deferred) = 2 /\ Len(s) = 3 /\ deferred' = deferred \o s
      BY <1>5, <2>1, <2>2, <2>3
    <2>5. deferred' \in Seq(S) /\ Len(deferred') = Len(deferred) + Len(s)
          /\ \A i \in 1..(Len(deferred) + Len(s)) : deferred'[i] = IF i <= Len(deferred) THEN deferred[i] ELSE s[i - Len(deferred)]
      BY <2>4, ConcatProperties
    <2>6. deferred'[1] = "store" /\ deferred'[2] = "kernel" /\ deferred'[3] = "notify" /\ deferred'[4] = "demote"
          /\ deferred'[5] = "triage"
      BY <2>1, <2>3, <2>4, <2>5
    <2>7. Len(deferred') = 5
      BY <2>4, <2>5
    <2>8. deferred' = [i \in 1..5 |-> deferred'[i]]
      <3>1. PICK d \in Seq(S) : d = deferred'
        BY <2>5
      <3>2. d \in [1..Len(d) -> S] /\ Len(d) = 5
        BY <2>7, <3>1, LenProperties
      <3>. QED BY <3>1, <3>2
    <2>9. \A i \in 1..5 : deferred'[i] = DeferredCalls[i]
      BY <2>6 DEF DeferredCalls
    <2>. QED BY <2>8, <2>9 DEF Stacked
  <1>6. UNCHANGED deferred => Stacked(n)'
    BY DEF Stacked
  <1>. QED BY <1>1, <1>2, <1>3, <1>4, <1>5, <1>6

(* What runs next is the last that was deferred. *)
LEMMA WhichDeferred ==
  ASSUME NEW n \in 0..6, Framed(n), NEW what, Deferred(what)
  PROVE  n >= 1 /\ what = DeferredCalls[n]
  BY StackMoves DEF Framed, Deferred

(* A signal cancels the context and moves nothing. *)
LEMMA SignalKeeps ==
  ASSUME LifecycleTypeOK, NEW n \in 0..6, TrackedAt(n), Signal
  PROVE  LifecycleTypeOK' /\ n \in 0..6 /\ TrackedAt(n)'
  <1>1. Framed(n) /\ InTurn /\ StopsInTurn(n) /\ NumModules \in Nat \ {0}
    BY LifecycleAssumption DEF TrackedAt
  <1>2. LifecycleTypeOK'
    BY <1>1 DEF LifecycleTypeOK, InTurn, Modules, Signal, bootVars, moduleVars, stopVars
  <1>3. n \in 0..6 /\ Stacked(n)'
    BY <1>1, StackMoves DEF Framed, Signal
  <1>4. Framed(n)'
    BY <1>1, <1>3 DEF Framed, LifecycleTypeOK, Signal
  <1>5. InTurn'
    BY <1>1 DEF InTurn, OneClaimEach, LifecycleTypeOK, Modules, Signal, bootVars, moduleVars, stopVars
  <1>6. StopsInTurn(n)'
    BY <1>1 DEF Framed, StopsInTurn, InTurn, LifecycleTypeOK, Modules, Signal, bootVars, moduleVars, stopVars
  <1>. QED BY <1>2, <1>3, <1>4, <1>5, <1>6 DEF TrackedAt

(* A failing migration leaves only the store to close. *)
LEMMA MigrateKeeps ==
  ASSUME LifecycleTypeOK, NEW n \in 0..6, TrackedAt(n), Migrate
  PROVE  LifecycleTypeOK' /\ n \in 0..6 /\ TrackedAt(n)'
  <1>1. Framed(n) /\ InTurn /\ StopsInTurn(n) /\ NumModules \in Nat \ {0}
    BY LifecycleAssumption DEF TrackedAt
  <1>2. LifecycleTypeOK'
    BY <1>1 DEF LifecycleTypeOK, InTurn, Modules, Migrate, Returns, bootVars, moduleVars, stopVars
  <1>3. n \in 0..6 /\ Stacked(n)'
    BY <1>1, StackMoves DEF Framed, Migrate, Returns
  <1>4. Framed(n)'
    BY <1>1, <1>3 DEF Framed, LifecycleTypeOK, Migrate, Returns
  <1>5. InTurn'
    BY <1>1 DEF InTurn, OneClaimEach, LifecycleTypeOK, Modules, Migrate, Returns, bootVars, moduleVars, stopVars
  <1>6. StopsInTurn(n)'
    BY <1>1 DEF Framed, StopsInTurn, InTurn, LifecycleTypeOK, Modules, Migrate, Returns, bootVars, moduleVars,
       stopVars
  <1>. QED BY <1>2, <1>3, <1>4, <1>5, <1>6 DEF TrackedAt

(* A module that is taken in has an id no module before it has. *)
LEMMA InitModuleKeeps ==
  ASSUME LifecycleTypeOK, NEW n \in 0..6, TrackedAt(n), InitModule
  PROVE  LifecycleTypeOK' /\ n \in 0..6 /\ TrackedAt(n)'
  <1>1. Framed(n) /\ InTurn /\ StopsInTurn(n) /\ NumModules \in Nat \ {0}
    BY LifecycleAssumption DEF TrackedAt
  <1>2. LifecycleTypeOK'
    <2>1. UNCHANGED <<signaled, claims, swallows, modState, startedMods, stopOf, share, timeLeft, tickers, running>>
      BY DEF InitModule, moduleVars, stopVars
    <2>2. serving' \in {"init", "unwind"} /\ nextModule \in 0..NumModules /\ nextModule' \in {nextModule, nextModule + 1}
      BY <1>1 DEF LifecycleTypeOK, InitModule, Returns
    <2>3. serving = "init" /\ nextModule \in Modules
      BY <1>1, <2>2 DEF InitModule, InTurn, Modules, LifecycleTypeOK
    <2>4. port' \in [PortIds -> Modules \cup {0}]
      BY <2>3 DEF LifecycleTypeOK, InitModule
    <2>5. nextModule' \in 0..(NumModules + 1)
      BY <1>1, <2>2
    <2>. QED BY <2>1, <2>2, <2>4, <2>5 DEF LifecycleTypeOK
  <1>3. n \in 0..6 /\ Stacked(n)'
    BY <1>1, StackMoves DEF Framed, InitModule, Fails, Returns
  <1>4. Framed(n)'
    BY <1>1, <1>3 DEF Framed, LifecycleTypeOK, InitModule, Fails, Returns
  <1>5. InTurn'
    <2>1. serving = "init" /\ nextModule \in Modules /\ startedMods = {} /\ UNCHANGED <<startedMods, claims>>
      BY <1>1 DEF InitModule, InTurn, Modules, LifecycleTypeOK, bootVars, moduleVars
    <2>2. CASE serving' = "unwind" /\ UNCHANGED nextModule
      BY <1>1, <2>1, <2>2 DEF InTurn
    <2>3. CASE serving' = "init" /\ nextModule' = nextModule + 1 /\ port[claims[nextModule]] = 0
      <3>1. \A i \in Modules : claims[i] \in PortIds
        BY DEF LifecycleTypeOK
      <3>2. port' = [port EXCEPT ![claims[nextModule]] = nextModule]
        BY <2>3 DEF InitModule
      <3>3. port \in [PortIds -> Modules \cup {0}] /\ nextModule \in Nat /\ nextModule # 0
        BY <2>1, <1>1 DEF LifecycleTypeOK, Modules
      <3>4. \A i \in Modules : i < nextModule + 1 => i = nextModule \/ i < nextModule
        BY <3>3 DEF Modules
      <3>5. \A i \in Modules : i < nextModule => port[claims[i]] # 0 /\ claims[i] # claims[nextModule]
        BY <1>1, <2>1, <2>3 DEF InTurn
      <3>6. \A i \in Modules : i < nextModule + 1 => port'[claims[i]] # 0
        BY <2>1, <3>1, <3>2, <3>3, <3>4, <3>5
      <3>7. OneClaimEach(nextModule + 1)
        BY <1>1, <2>1, <3>4, <3>5 DEF OneClaimEach, InTurn
      <3>8. nextModule' >= 1
        BY <2>3, <3>3
      <3>. QED BY <2>1, <2>3, <3>6, <3>7, <3>8 DEF InTurn, OneClaimEach
    <2>. QED BY <2>1, <2>2, <2>3 DEF InitModule, Fails, Returns
  <1>6. StopsInTurn(n)'
    BY <1>1 DEF Framed, StopsInTurn, InTurn, LifecycleTypeOK, Modules, InitModule, Fails, Returns, bootVars,
       moduleVars, stopVars
  <1>. QED BY <1>2, <1>3, <1>4, <1>5, <1>6 DEF TrackedAt

(* When all are in, no two modules have one id. *)
LEMMA BusStartKeeps ==
  ASSUME LifecycleTypeOK, NEW n \in 0..6, TrackedAt(n), BusStart
  PROVE  LifecycleTypeOK' /\ 2 \in 0..6 /\ TrackedAt(2)'
  <1>1. Framed(n) /\ InTurn /\ StopsInTurn(n) /\ NumModules \in Nat \ {0}
    BY LifecycleAssumption DEF TrackedAt
  <1>2. LifecycleTypeOK'
    <2>1. UNCHANGED <<signaled, claims, swallows, port, modState, startedMods, stopOf, share, timeLeft, tickers>>
      BY DEF BusStart, bootVars, moduleVars, stopVars
    <2>2. serving' \in {"tickers", "unwind"} /\ nextModule' \in 0..(NumModules + 1)
      BY <1>1 DEF BusStart, Returns
    <2>3. running' \subseteq {"store", "bus", "engine", "scheduler", "http"}
      BY DEF BusStart, LifecycleTypeOK
    <2>. QED BY <2>1, <2>2, <2>3 DEF LifecycleTypeOK
  <1>3. 2 \in 0..6 /\ Stacked(2)'
    BY <1>1, StackMoves DEF Framed, DeferredCalls, BusStart, Returns
  <1>4. Framed(2)'
    BY <1>1, <1>3 DEF Framed, LifecycleTypeOK, DeferredCalls, BusStart, Returns
  <1>5. InTurn'
    BY <1>1 DEF InTurn, OneClaimEach, LifecycleTypeOK, Modules, BusStart, Returns, bootVars, moduleVars, stopVars
  <1>6. StopsInTurn(2)'
    BY <1>1 DEF Framed, StopsInTurn, InTurn, LifecycleTypeOK, Modules, DeferredCalls, BusStart, Returns, bootVars,
       moduleVars, stopVars
  <1>. QED BY <1>2, <1>3, <1>4, <1>5, <1>6 DEF TrackedAt

(* Each ticker has its wait. *)
LEMMA TickersStartKeeps ==
  ASSUME LifecycleTypeOK, NEW n \in 0..6, TrackedAt(n), TickersStart
  PROVE  LifecycleTypeOK' /\ 5 \in 0..6 /\ TrackedAt(5)'
  <1>1. Framed(n) /\ InTurn /\ StopsInTurn(n) /\ NumModules \in Nat \ {0}
    BY LifecycleAssumption DEF TrackedAt
  <1>2. LifecycleTypeOK'
    BY <1>1 DEF LifecycleTypeOK, InTurn, Modules, TickerNames, TickersStart, StartTickers, bootVars, moduleVars,
       stopVars
  <1>3. 5 \in 0..6 /\ Stacked(5)'
    BY <1>1, StackMoves DEF Framed, TickerNames, TickersStart, StartTickers
  <1>4. Framed(5)'
    BY <1>1, <1>3 DEF Framed, LifecycleTypeOK, TickerNames, TickersStart, StartTickers
  <1>5. InTurn'
    BY <1>1 DEF InTurn, OneClaimEach, LifecycleTypeOK, Modules, TickersStart, StartTickers, bootVars, moduleVars,
       stopVars
  <1>6. StopsInTurn(5)'
    BY <1>1 DEF Framed, StopsInTurn, InTurn, LifecycleTypeOK, Modules, TickersStart, StartTickers, bootVars,
       moduleVars, stopVars
  <1>. QED BY <1>2, <1>3, <1>4, <1>5, <1>6 DEF TrackedAt

(* A port in use ends serve before any module runs. *)
LEMMA ListenKeeps ==
  ASSUME LifecycleTypeOK, NEW n \in 0..6, TrackedAt(n), Listen
  PROVE  LifecycleTypeOK' /\ n \in 0..6 /\ TrackedAt(n)'
  <1>1. Framed(n) /\ InTurn /\ StopsInTurn(n) /\ NumModules \in Nat \ {0}
    BY LifecycleAssumption DEF TrackedAt
  <1>2. LifecycleTypeOK'
    BY <1>1 DEF LifecycleTypeOK, InTurn, Modules, Listen, Returns, bootVars, moduleVars, stopVars
  <1>3. n \in 0..6 /\ Stacked(n)'
    BY <1>1, StackMoves DEF Framed, Listen, Returns
  <1>4. Framed(n)'
    BY <1>1, <1>3 DEF Framed, LifecycleTypeOK, Listen, Returns
  <1>5. InTurn'
    BY <1>1 DEF InTurn, OneClaimEach, LifecycleTypeOK, Modules, Listen, Returns, bootVars, moduleVars, stopVars
  <1>6. StopsInTurn(n)'
    BY <1>1 DEF Framed, StopsInTurn, InTurn, LifecycleTypeOK, Modules, Listen, Returns, bootVars, moduleVars, stopVars
  <1>. QED BY <1>2, <1>3, <1>4, <1>5, <1>6 DEF TrackedAt

(* The modules are started in turn. *)
LEMMA StartModuleKeeps ==
  ASSUME LifecycleTypeOK, NEW n \in 0..6, TrackedAt(n), StartModule
  PROVE  LifecycleTypeOK' /\ n \in 0..6 /\ TrackedAt(n)'
  <1>1. Framed(n) /\ InTurn /\ StopsInTurn(n) /\ NumModules \in Nat \ {0}
    BY LifecycleAssumption DEF TrackedAt
  <1>2. LifecycleTypeOK'
    BY <1>1 DEF LifecycleTypeOK, InTurn, Modules, StartModule, bootVars, moduleVars, stopVars
  <1>3. n \in 0..6 /\ Stacked(n)'
    BY <1>1, StackMoves DEF Framed, StartModule
  <1>4. Framed(n)'
    BY <1>1, <1>3 DEF Framed, LifecycleTypeOK, StartModule
  <1>5. InTurn'
    BY <1>1 DEF InTurn, OneClaimEach, LifecycleTypeOK, Modules, StartModule, bootVars, moduleVars, stopVars
  <1>6. StopsInTurn(n)'
    BY <1>1 DEF Framed, StopsInTurn, InTurn, LifecycleTypeOK, Modules, StartModule, bootVars, moduleVars, stopVars
  <1>. QED BY <1>2, <1>3, <1>4, <1>5, <1>6 DEF TrackedAt

(* What a module says of itself moves nothing else. *)
LEMMA SetModuleStateKeeps ==
  ASSUME LifecycleTypeOK, NEW n \in 0..6, TrackedAt(n), NEW m \in Modules, NEW h \in {"ready", "degraded"},
     SetModuleState(m, h)
  PROVE  LifecycleTypeOK' /\ n \in 0..6 /\ TrackedAt(n)'
  <1>1. Framed(n) /\ InTurn /\ StopsInTurn(n) /\ NumModules \in Nat \ {0}
    BY LifecycleAssumption DEF TrackedAt
  <1>2. LifecycleTypeOK'
    BY <1>1 DEF LifecycleTypeOK, InTurn, Modules, SetModuleState, bootVars, moduleVars, stopVars
  <1>3. n \in 0..6 /\ Stacked(n)'
    BY <1>1, StackMoves DEF Framed, SetModuleState
  <1>4. Framed(n)'
    BY <1>1, <1>3 DEF Framed, LifecycleTypeOK, SetModuleState
  <1>5. InTurn'
    BY <1>1 DEF InTurn, OneClaimEach, LifecycleTypeOK, Modules, SetModuleState, bootVars, moduleVars, stopVars
  <1>6. StopsInTurn(n)'
    BY <1>1 DEF Framed, StopsInTurn, InTurn, LifecycleTypeOK, Modules, SetModuleState, bootVars, moduleVars, stopVars
  <1>. QED BY <1>2, <1>3, <1>4, <1>5, <1>6 DEF TrackedAt

(* A server that fails is down. *)
LEMMA ServeFailsKeeps ==
  ASSUME LifecycleTypeOK, NEW n \in 0..6, TrackedAt(n), ServeFails
  PROVE  LifecycleTypeOK' /\ n \in 0..6 /\ TrackedAt(n)'
  <1>1. Framed(n) /\ InTurn /\ StopsInTurn(n) /\ NumModules \in Nat \ {0}
    BY LifecycleAssumption DEF TrackedAt
  <1>2. LifecycleTypeOK'
    BY <1>1 DEF LifecycleTypeOK, InTurn, Modules, ServeFails, Returns, bootVars, moduleVars, stopVars
  <1>3. n \in 0..6 /\ Stacked(n)'
    BY <1>1, StackMoves DEF Framed, ServeFails, Returns
  <1>4. Framed(n)'
    BY <1>1, <1>3 DEF Framed, LifecycleTypeOK, ServeFails, Returns
  <1>5. InTurn'
    BY <1>1 DEF InTurn, OneClaimEach, LifecycleTypeOK, Modules, ServeFails, Returns, bootVars, moduleVars, stopVars
  <1>6. StopsInTurn(n)'
    BY <1>1 DEF Framed, StopsInTurn, InTurn, LifecycleTypeOK, Modules, ServeFails, Returns, bootVars, moduleVars,
       stopVars
  <1>. QED BY <1>2, <1>3, <1>4, <1>5, <1>6 DEF TrackedAt

(* A server that is shut down is down. *)
LEMMA ShutsDownKeeps ==
  ASSUME LifecycleTypeOK, NEW n \in 0..6, TrackedAt(n), ShutsDown
  PROVE  LifecycleTypeOK' /\ n \in 0..6 /\ TrackedAt(n)'
  <1>1. Framed(n) /\ InTurn /\ StopsInTurn(n) /\ NumModules \in Nat \ {0}
    BY LifecycleAssumption DEF TrackedAt
  <1>2. LifecycleTypeOK'
    BY <1>1 DEF LifecycleTypeOK, InTurn, Modules, ShutsDown, Returns, bootVars, moduleVars, stopVars
  <1>3. n \in 0..6 /\ Stacked(n)'
    BY <1>1, StackMoves DEF Framed, ShutsDown, Returns
  <1>4. Framed(n)'
    BY <1>1, <1>3 DEF Framed, LifecycleTypeOK, ShutsDown, Returns
  <1>5. InTurn'
    BY <1>1 DEF InTurn, OneClaimEach, LifecycleTypeOK, Modules, ShutsDown, Returns, bootVars, moduleVars, stopVars
  <1>6. StopsInTurn(n)'
    BY <1>1 DEF Framed, StopsInTurn, InTurn, LifecycleTypeOK, Modules, ShutsDown, Returns, bootVars, moduleVars,
       stopVars
  <1>. QED BY <1>2, <1>3, <1>4, <1>5, <1>6 DEF TrackedAt

(* A ticker that ends is gone. *)
LEMMA TickerExitsKeeps ==
  ASSUME LifecycleTypeOK, NEW n \in 0..6, TrackedAt(n), NEW t \in TickerNames, TickerExits(t)
  PROVE  LifecycleTypeOK' /\ n \in 0..6 /\ TrackedAt(n)'
  <1>1. Framed(n) /\ InTurn /\ StopsInTurn(n) /\ NumModules \in Nat \ {0}
    BY LifecycleAssumption DEF TrackedAt
  <1>2. LifecycleTypeOK'
    BY <1>1 DEF LifecycleTypeOK, InTurn, Modules, TickerNames, TickerExits, TickersEnd, bootVars, moduleVars, stopVars
  <1>3. n \in 0..6 /\ Stacked(n)'
    BY <1>1, StackMoves DEF Framed, TickerNames, TickerExits, TickersEnd
  <1>4. Framed(n)'
    BY <1>1, <1>3 DEF Framed, LifecycleTypeOK, TickerNames, TickerExits, TickersEnd
  <1>5. InTurn'
    BY <1>1 DEF InTurn, OneClaimEach, LifecycleTypeOK, Modules, TickerExits, TickersEnd, bootVars, moduleVars,
       stopVars
  <1>6. StopsInTurn(n)'
    BY <1>1 DEF Framed, StopsInTurn, InTurn, LifecycleTypeOK, Modules, TickerExits, TickersEnd, bootVars, moduleVars,
       stopVars
  <1>. QED BY <1>2, <1>3, <1>4, <1>5, <1>6 DEF TrackedAt

(* A wait is popped when its ticker is gone. *)
LEMMA WaitedKeeps ==
  ASSUME LifecycleTypeOK, NEW n \in 0..6, TrackedAt(n), NEW t \in TickerNames, Waited(t)
  PROVE  LifecycleTypeOK' /\ n - 1 \in 0..6 /\ TrackedAt(n - 1)'
  <1>1. Framed(n) /\ InTurn /\ StopsInTurn(n) /\ NumModules \in Nat \ {0}
    BY LifecycleAssumption DEF TrackedAt
  <1>0. n \in 3..5 /\ serving = "unwind"
    BY <1>1, WhichDeferred DEF DeferredCalls, TickerNames, Waited, Deferred
  <1>2. LifecycleTypeOK'
    BY <1>1, <1>0 DEF LifecycleTypeOK, InTurn, Modules, TickerNames, Waited, bootVars, moduleVars, stopVars
  <1>3. n - 1 \in 0..6 /\ Stacked(n - 1)'
    BY <1>1, <1>0, StackMoves, WhichDeferred DEF Framed, Deferred, DeferredCalls, TickerNames, Waited
  <1>4. Framed(n - 1)'
    BY <1>1, <1>0, <1>3, WhichDeferred DEF Framed, LifecycleTypeOK, Deferred, DeferredCalls, TickerNames, Waited
  <1>5. InTurn'
    BY <1>1, <1>0 DEF InTurn, OneClaimEach, LifecycleTypeOK, Modules, Deferred, Waited, bootVars, moduleVars, stopVars
  <1>6. StopsInTurn(n - 1)'
    BY <1>1, <1>0, WhichDeferred DEF Framed, StopsInTurn, InTurn, LifecycleTypeOK, Modules, Deferred, DeferredCalls,
       Waited, bootVars, moduleVars, stopVars
  <1>. QED BY <1>2, <1>3, <1>4, <1>5, <1>6 DEF TrackedAt

(* The scheduler is the last that was deferred. *)
LEMMA SchedulerStopKeeps ==
  ASSUME LifecycleTypeOK, NEW n \in 0..6, TrackedAt(n), SchedulerStop
  PROVE  LifecycleTypeOK' /\ 5 \in 0..6 /\ TrackedAt(5)'
  <1>1. Framed(n) /\ InTurn /\ StopsInTurn(n) /\ NumModules \in Nat \ {0}
    BY LifecycleAssumption DEF TrackedAt
  <1>2. LifecycleTypeOK'
    BY <1>1 DEF LifecycleTypeOK, InTurn, Modules, SchedulerStop, bootVars, moduleVars, stopVars
  <1>3. 5 \in 0..6 /\ Stacked(5)'
    BY <1>1, StackMoves, WhichDeferred DEF Framed, Deferred, DeferredCalls, SchedulerStop
  <1>4. Framed(5)'
    BY <1>1, <1>3, WhichDeferred DEF Framed, LifecycleTypeOK, Deferred, DeferredCalls, SchedulerStop
  <1>5. InTurn'
    BY <1>1 DEF InTurn, OneClaimEach, LifecycleTypeOK, Modules, Deferred, SchedulerStop, bootVars, moduleVars,
       stopVars
  <1>6. StopsInTurn(5)'
    BY <1>1, WhichDeferred DEF Framed, StopsInTurn, InTurn, LifecycleTypeOK, Modules, Deferred, DeferredCalls,
       SchedulerStop, bootVars, moduleVars, stopVars
  <1>. QED BY <1>2, <1>3, <1>4, <1>5, <1>6 DEF TrackedAt

(* When the modules are stopped, all the time there is is left. *)
LEMMA KernelStopKeeps ==
  ASSUME LifecycleTypeOK, NEW n \in 0..6, TrackedAt(n), KernelStop
  PROVE  LifecycleTypeOK' /\ n \in 0..6 /\ TrackedAt(n)'
  <1>1. Framed(n) /\ InTurn /\ StopsInTurn(n) /\ NumModules \in Nat \ {0}
    BY LifecycleAssumption DEF TrackedAt
  <1>2. LifecycleTypeOK'
    BY <1>1 DEF LifecycleTypeOK, InTurn, Modules, KernelStop, bootVars, moduleVars, stopVars
  <1>3. n \in 0..6 /\ Stacked(n)'
    BY <1>1, StackMoves, WhichDeferred DEF Framed, Deferred, DeferredCalls, KernelStop
  <1>4. Framed(n)'
    BY <1>1, <1>3, WhichDeferred DEF Framed, LifecycleTypeOK, Deferred, DeferredCalls, KernelStop
  <1>5. InTurn'
    BY <1>1 DEF InTurn, OneClaimEach, LifecycleTypeOK, Modules, Deferred, KernelStop, bootVars, moduleVars, stopVars
  <1>6. StopsInTurn(n)'
    BY <1>1, WhichDeferred, FairShares DEF Framed, StopsInTurn, InTurn, LifecycleTypeOK, Modules, Deferred,
       DeferredCalls, KernelStop, bootVars, moduleVars, stopVars
  <1>. QED BY <1>2, <1>3, <1>4, <1>5, <1>6 DEF TrackedAt

(* The next module is called in time, with a fair share at least. *)
LEMMA StopModuleKeeps ==
  ASSUME LifecycleTypeOK, NEW n \in 0..6, TrackedAt(n), StopModule
  PROVE  LifecycleTypeOK' /\ n \in 0..6 /\ TrackedAt(n)'
  <1>1. Framed(n) /\ InTurn /\ StopsInTurn(n) /\ NumModules \in Nat \ {0}
    BY LifecycleAssumption DEF TrackedAt
  <1>0. PICK m \in Modules : /\ m = nextModule - 1 /\ m >= 1 /\ nextModule' = m /\ timeLeft >= Owed(m) /\ timeLeft > 0
                            /\ stopOf' = [stopOf EXCEPT ![m] = "called"]
                            /\ share' = [share EXCEPT ![m] = timeLeft \div m]
                            /\ timeLeft \div m \in 0..StopTime /\ timeLeft \div m >= FairShare
    <2>1. PICK m \in Modules : m = nextModule - 1 /\ m \in Nat \ {0} /\ m >= 1 /\ m \in 0..(NumModules + 1)
      BY <1>1 DEF StopModule, InTurn, LifecycleTypeOK, Modules
    <2>2. timeLeft \in Nat /\ timeLeft <= StopTime /\ StopTime \in Nat
      BY LifecycleAssumption DEF LifecycleTypeOK
    <2>3. timeLeft >= Owed(m) /\ Owed(m) >= 1 /\ Owed(m) \in Nat
      <3>1. serving = "stopping" /\ ~(nextModule \in Modules /\ stopOf[nextModule] = "called")
        BY DEF StopModule, Settled
      <3>2. timeLeft >= Owed(nextModule - 1)
        BY <1>1, <3>1 DEF StopsInTurn
      <3>. QED BY <2>1, <3>2, FairShares
    <2>4. timeLeft \div m \in Nat /\ timeLeft \div m >= FairShare /\ timeLeft \div m <= timeLeft
      BY <2>1, <2>2, <2>3, FairShares, ShareSuffices DEF Owed
    <2>5. timeLeft > 0 /\ timeLeft \div m \in 0..StopTime
      BY <2>2, <2>3, <2>4
    <2>6. nextModule' = m /\ stopOf' = [stopOf EXCEPT ![m] = "called"] /\ share' = [share EXCEPT ![m] = timeLeft \div m]
      <3>1. /\ nextModule' = m /\ stopOf' = [stopOf EXCEPT ![m] = IF timeLeft > 0 THEN "called" ELSE "left"]
            /\ share' = [share EXCEPT ![m] = ShareOf(m)]
        BY <2>1 DEF StopModule
      <3>2. ShareOf(m) = timeLeft \div m
        BY DEF ShareOf
      <3>. QED BY <2>5, <3>1, <3>2
    <2>7. m >= 1
      BY <2>1
    <2>. QED BY <2>1, <2>3, <2>4, <2>5, <2>6, <2>7
  <1>2. LifecycleTypeOK'
    BY <1>1, <1>0 DEF LifecycleTypeOK, Modules, StopModule, bootVars, moduleVars, stopVars
  <1>3. n \in 0..6 /\ Stacked(n)'
    BY <1>1, <1>0, StackMoves DEF Framed, StopModule, Settled, ShareOf
  <1>4. Framed(n)'
    BY <1>1, <1>0, <1>3 DEF Framed, LifecycleTypeOK, StopModule, Settled, ShareOf
  <1>5. InTurn'
    BY <1>1, <1>0 DEF InTurn, LifecycleTypeOK, Modules, OneClaimEach, StopModule, bootVars, moduleVars
  <1>6. StopsInTurn(n)'
    <2>1. serving = "stopping" /\ serving' = "stopping" /\ UNCHANGED timeLeft /\ nextModule = m + 1 /\ Settled(nextModule)
      BY <1>1, <1>0 DEF StopModule, LifecycleTypeOK, InTurn
    <2>2. stopOf'[m] = "called" /\ share'[m] = timeLeft \div m
          /\ \A j \in Modules : j # m => stopOf'[j] = stopOf[j] /\ share'[j] = share[j]
      BY <1>0 DEF LifecycleTypeOK
    <2>3. \A j \in Modules : (j > m => j = nextModule \/ j > nextModule) /\ (j < m => j < nextModule)
      BY <1>1, <1>0, <2>1 DEF Modules
    <2>4. \A j \in Modules : (j > m => stopOf'[j] \in {"returned", "left"}) /\ (j < m => stopOf'[j] = "no")
      <3>1. \A j \in Modules : j = m => ~(j > m) /\ ~(j < m)
        BY <1>0 DEF Modules
      <3>. QED BY <1>1, <2>1, <2>2, <2>3, <3>1 DEF StopsInTurn, Settled
    <2>5. \A j \in Modules : stopOf'[j] # "no" => share'[j] >= FairShare
      BY <1>1, <1>0, <2>2 DEF StopsInTurn
    <2>. QED BY <1>0, <2>1, <2>2, <2>4, <2>5 DEF StopsInTurn, FairShare, Owed
  <1>. QED BY <1>2, <1>3, <1>4, <1>5, <1>6 DEF TrackedAt

(* However much of its share it takes, the rest have theirs. *)
LEMMA StopReturnsKeeps ==
  ASSUME LifecycleTypeOK, NEW n \in 0..6, TrackedAt(n), StopReturns
  PROVE  LifecycleTypeOK' /\ n \in 0..6 /\ TrackedAt(n)'
  <1>1. Framed(n) /\ InTurn /\ StopsInTurn(n) /\ NumModules \in Nat \ {0}
    BY LifecycleAssumption DEF TrackedAt
  <1>0. PICK m \in Modules, took \in Nat, s \in {"returned", "left"} :
          /\ m = nextModule /\ timeLeft' = timeLeft - took /\ stopOf' = [stopOf EXCEPT ![m] = s] /\ stopOf[m] = "called"
          /\ timeLeft' \in 0..StopTime /\ timeLeft' >= Owed(m - 1)
    <2>1. PICK m \in Modules : m = nextModule /\ m \in Nat \ {0} /\ m \in 0..(NumModules + 1) /\ m - 1 \in 0..(NumModules + 1)
      BY <1>1 DEF StopReturns, Modules
    <2>2. timeLeft \in Nat /\ timeLeft <= StopTime /\ StopTime \in Nat
      BY LifecycleAssumption DEF LifecycleTypeOK
    <2>3. stopOf[m] = "called" /\ share[m] = timeLeft \div m /\ timeLeft >= Owed(m)
      BY <1>1, <2>1 DEF StopReturns, StopsInTurn
    <2>4. share[m] \in Nat /\ share[m] <= timeLeft /\ timeLeft - share[m] >= Owed(m - 1)
      BY <2>1, <2>2, <2>3, FairShares, ShareSuffices DEF Owed
    <2>5. PICK took \in 0..share[m] : timeLeft' = timeLeft - took
      BY <2>1 DEF StopReturns
    <2>6. PICK s \in {"returned", "left"} : stopOf' = [stopOf EXCEPT ![m] = s]
      BY <2>1 DEF StopReturns
    <2>7. Owed(m - 1) \in Nat
      BY <2>1, FairShares
    <2>8. took \in Nat /\ timeLeft' \in 0..StopTime /\ timeLeft' >= Owed(m - 1)
      BY <2>2, <2>4, <2>5, <2>7
    <2>. QED BY <2>1, <2>3, <2>5, <2>6, <2>8
  <1>2. LifecycleTypeOK'
    BY <1>1, <1>0 DEF LifecycleTypeOK, Modules, StopReturns, bootVars, moduleVars, stopVars
  <1>3. n \in 0..6 /\ Stacked(n)'
    BY <1>1, <1>0, StackMoves DEF Framed, StopReturns
  <1>4. Framed(n)'
    BY <1>1, <1>0, <1>3 DEF Framed, LifecycleTypeOK, StopReturns
  <1>5. InTurn'
    BY <1>1, <1>0 DEF InTurn, LifecycleTypeOK, Modules, OneClaimEach, StopReturns, bootVars, moduleVars
  <1>6. StopsInTurn(n)'
    <2>1. serving = "stopping" /\ serving' = "stopping" /\ UNCHANGED <<nextModule, share>>
      BY DEF StopReturns
    <2>2. stopOf'[m] = s /\ \A j \in Modules : j # m => stopOf'[j] = stopOf[j]
      BY <1>0 DEF LifecycleTypeOK
    <2>3. \A j \in Modules : (j > m => stopOf'[j] \in {"returned", "left"}) /\ (j < m => stopOf'[j] = "no")
      <3>1. \A j \in Modules : j = m => ~(j > m) /\ ~(j < m)
        BY <1>0 DEF Modules
      <3>. QED BY <1>1, <1>0, <2>1, <2>2, <3>1 DEF StopsInTurn
    <2>4. \A j \in Modules : stopOf'[j] # "no" => share'[j] >= FairShare
      BY <1>1, <1>0, <2>1, <2>2 DEF StopsInTurn
    <2>. QED BY <1>0, <2>1, <2>2, <2>3, <2>4 DEF StopsInTurn, FairShare, Owed
  <1>. QED BY <1>2, <1>3, <1>4, <1>5, <1>6 DEF TrackedAt

(* The bus goes when every module is settled. *)
LEMMA BusAndEngineStopKeeps ==
  ASSUME LifecycleTypeOK, NEW n \in 0..6, TrackedAt(n), BusAndEngineStop
  PROVE  LifecycleTypeOK' /\ 1 \in 0..6 /\ TrackedAt(1)'
  <1>1. Framed(n) /\ InTurn /\ StopsInTurn(n) /\ NumModules \in Nat \ {0}
    BY LifecycleAssumption DEF TrackedAt
  <1>2. LifecycleTypeOK'
    BY <1>1 DEF LifecycleTypeOK, InTurn, Modules, BusAndEngineStop, Settled, bootVars, moduleVars, stopVars
  <1>3. 1 \in 0..6 /\ Stacked(1)'
    BY <1>1, StackMoves DEF Framed, BusAndEngineStop, Settled
  <1>4. Framed(1)'
    BY <1>1, <1>3 DEF Framed, LifecycleTypeOK, BusAndEngineStop, Settled
  <1>5. InTurn'
    BY <1>1 DEF InTurn, OneClaimEach, LifecycleTypeOK, Modules, BusAndEngineStop, Settled, bootVars, moduleVars,
       stopVars
  <1>6. StopsInTurn(1)'
    BY <1>1, FairShares DEF Framed, StopsInTurn, InTurn, LifecycleTypeOK, Modules, BusAndEngineStop, Settled,
       bootVars, moduleVars, stopVars
  <1>. QED BY <1>2, <1>3, <1>4, <1>5, <1>6 DEF TrackedAt

(* The store is the first that was deferred. *)
LEMMA StoreCloseKeeps ==
  ASSUME LifecycleTypeOK, NEW n \in 0..6, TrackedAt(n), StoreClose
  PROVE  LifecycleTypeOK' /\ 0 \in 0..6 /\ TrackedAt(0)'
  <1>1. Framed(n) /\ InTurn /\ StopsInTurn(n) /\ NumModules \in Nat \ {0}
    BY LifecycleAssumption DEF TrackedAt
  <1>0. n = 1 /\ serving = "unwind"
    BY <1>1, WhichDeferred DEF DeferredCalls, StoreClose, Deferred
  <1>2. LifecycleTypeOK'
    BY <1>1, <1>0 DEF LifecycleTypeOK, InTurn, Modules, StoreClose, bootVars, moduleVars, stopVars
  <1>3. 0 \in 0..6 /\ Stacked(0)'
    BY <1>1, <1>0, StackMoves, WhichDeferred DEF Framed, Deferred, DeferredCalls, StoreClose
  <1>4. Framed(0)'
    BY <1>1, <1>0, <1>3, WhichDeferred DEF Framed, LifecycleTypeOK, Deferred, DeferredCalls, StoreClose
  <1>5. InTurn'
    BY <1>1, <1>0 DEF InTurn, OneClaimEach, LifecycleTypeOK, Modules, Deferred, StoreClose, bootVars, moduleVars,
       stopVars
  <1>6. StopsInTurn(0)'
    BY <1>1, <1>0, WhichDeferred DEF Framed, StopsInTurn, InTurn, LifecycleTypeOK, Modules, Deferred, DeferredCalls,
       StoreClose, bootVars, moduleVars, stopVars
  <1>. QED BY <1>2, <1>3, <1>4, <1>5, <1>6 DEF TrackedAt

(* The scheduler starts last, when every module has been started. *)
LEMMA SchedulerStartKeeps ==
  ASSUME LifecycleTypeOK, NEW n \in 0..6, TrackedAt(n), SchedulerStart
  PROVE  LifecycleTypeOK' /\ \E k \in 0..6 : TrackedAt(k)'
  <1>1. Framed(n) /\ InTurn /\ StopsInTurn(n) /\ NumModules \in Nat \ {0}
    BY LifecycleAssumption DEF TrackedAt
  <1>2. LifecycleTypeOK'
    BY <1>1 DEF LifecycleTypeOK, SchedulerStart, Returns, bootVars, moduleVars, stopVars
  <1>3. serving = "start" /\ n = 5 /\ startedMods = Modules
    BY <1>1 DEF SchedulerStart, Framed, InTurn, LifecycleTypeOK, Modules
  <1>4. CASE serving' = "serve"
    <2>1. Stacked(6)'
      BY <1>1, <1>3, <1>4, StackMoves DEF SchedulerStart, Returns, Framed, DeferredCalls
    <2>2. Framed(6)'
      BY <1>1, <1>3, <1>4, <2>1 DEF SchedulerStart, Returns, Framed
    <2>3. InTurn' /\ StopsInTurn(6)'
      BY <1>1, <1>3, <1>4 DEF SchedulerStart, InTurn, OneClaimEach, StopsInTurn, bootVars, moduleVars, stopVars
    <2>. QED BY <1>2, <2>2, <2>3 DEF TrackedAt
  <1>5. CASE serving' = "unwind" /\ UNCHANGED <<deferred, running>>
    <2>1. Framed(5)'
      BY <1>1, <1>3, <1>5, StackMoves DEF SchedulerStart, Framed
    <2>2. InTurn' /\ StopsInTurn(5)'
      BY <1>1, <1>3, <1>5 DEF SchedulerStart, InTurn, OneClaimEach, StopsInTurn, bootVars, moduleVars, stopVars
    <2>. QED BY <1>2, <2>1, <2>2 DEF TrackedAt
  <1>. QED BY <1>4, <1>5 DEF SchedulerStart, Returns

LEMMA LifecycleStep == LifecycleTracked /\ [LifecycleNext]_serveVars => LifecycleTracked'
  <1> SUFFICES ASSUME LifecycleTracked, [LifecycleNext]_serveVars PROVE LifecycleTracked'
    OBVIOUS
  <1>1. PICK n \in 0..6 : TrackedAt(n)
    BY DEF LifecycleTracked
  <1>2. LifecycleTypeOK
    BY DEF LifecycleTracked
  <1>3. ASSUME LifecycleTypeOK', \E k \in 0..6 : TrackedAt(k)' PROVE LifecycleTracked'
    BY <1>3 DEF LifecycleTracked
  <1>4. CASE Signal
    BY <1>1, <1>2, <1>3, <1>4, SignalKeeps
  <1>5. CASE Migrate
    BY <1>1, <1>2, <1>3, <1>5, MigrateKeeps
  <1>6. CASE InitModule
    BY <1>1, <1>2, <1>3, <1>6, InitModuleKeeps
  <1>7. CASE BusStart
    BY <1>1, <1>2, <1>3, <1>7, BusStartKeeps
  <1>8. CASE TickersStart
    BY <1>1, <1>2, <1>3, <1>8, TickersStartKeeps
  <1>9. CASE Listen
    BY <1>1, <1>2, <1>3, <1>9, ListenKeeps
  <1>10. CASE StartModule
    BY <1>1, <1>2, <1>3, <1>10, StartModuleKeeps
  <1>11. ASSUME NEW m \in Modules, NEW h \in {"ready", "degraded"}, SetModuleState(m, h) PROVE LifecycleTracked'
    BY <1>1, <1>2, <1>3, <1>11, SetModuleStateKeeps
  <1>12. CASE ServeFails
    BY <1>1, <1>2, <1>3, <1>12, ServeFailsKeeps
  <1>13. CASE ShutsDown
    BY <1>1, <1>2, <1>3, <1>13, ShutsDownKeeps
  <1>14. ASSUME NEW t \in TickerNames, TickerExits(t) PROVE LifecycleTracked'
    BY <1>1, <1>2, <1>3, <1>14, TickerExitsKeeps
  <1>15. ASSUME NEW t \in TickerNames, Waited(t) PROVE LifecycleTracked'
    BY <1>1, <1>2, <1>3, <1>15, WaitedKeeps
  <1>16. CASE SchedulerStop
    BY <1>1, <1>2, <1>3, <1>16, SchedulerStopKeeps
  <1>17. CASE KernelStop
    BY <1>1, <1>2, <1>3, <1>17, KernelStopKeeps
  <1>18. CASE StopModule
    BY <1>1, <1>2, <1>3, <1>18, StopModuleKeeps
  <1>19. CASE StopReturns
    BY <1>1, <1>2, <1>3, <1>19, StopReturnsKeeps
  <1>20. CASE BusAndEngineStop
    BY <1>1, <1>2, <1>3, <1>20, BusAndEngineStopKeeps
  <1>21. CASE StoreClose
    BY <1>1, <1>2, <1>3, <1>21, StoreCloseKeeps
  <1>22. CASE SchedulerStart
    BY <1>1, <1>2, <1>3, <1>22, SchedulerStartKeeps
  <1>23. CASE UNCHANGED serveVars
    <2>1. LifecycleTypeOK'
      BY <1>2, <1>23 DEF LifecycleTypeOK, serveVars
    <2>2. TrackedAt(n)'
      BY <1>1, <1>23 DEF TrackedAt, Framed, Stacked, InTurn, OneClaimEach, StopsInTurn, serveVars
    <2>. QED BY <1>3, <2>1, <2>2
  <1>. QED BY <1>4, <1>5, <1>6, <1>7, <1>8, <1>9, <1>10, <1>11, <1>12, <1>13, <1>14, <1>15, <1>16, <1>17, <1>18,
     <1>19, <1>20, <1>21, <1>22, <1>23 DEF LifecycleNext, ServeSteps

LEMMA LifecycleStarts == LifecycleInit => LifecycleTracked
  <1> SUFFICES ASSUME LifecycleInit PROVE LifecycleTracked
    OBVIOUS
  <1>1. LifecycleTypeOK
    <2>1. /\ serving = "migrate" /\ signaled = FALSE /\ claims \in [Modules -> PortIds] /\ swallows \subseteq Modules
          /\ port \in [PortIds -> Modules \cup {0}] /\ modState \in [Modules -> {"ready",
             "degraded"}] /\ startedMods = {}
          /\ stopOf \in [Modules -> {"no", "called", "returned", "left"}] /\ tickers = {} /\ running = {"store"}
      BY DEF LifecycleInit
    <2>2. nextModule \in 0..(NumModules + 1) /\ timeLeft \in 0..StopTime
      BY LifecycleAssumption DEF LifecycleInit
    <2>3. share \in [Modules -> 0..StopTime]
      <3>1. 0 \in 0..StopTime
        BY LifecycleAssumption
      <3>. QED BY <3>1 DEF LifecycleInit
    <2>. QED BY <2>1, <2>2, <2>3 DEF LifecycleTypeOK
  <1>2. Stacked(1)
    BY DEF LifecycleInit, Stacked, DeferredCalls
  <1>3. Framed(1)
    BY <1>2 DEF LifecycleInit, Framed
  <1>4. InTurn /\ StopsInTurn(1)
    BY DEF LifecycleInit, InTurn, StopsInTurn
  <1>. QED BY <1>1, <1>3, <1>4 DEF LifecycleTracked, TrackedAt

LEMMA LifecycleFollows == LifecycleTracked => LifecycleInv
  <1> SUFFICES ASSUME LifecycleTypeOK, NEW n \in 0..6, TrackedAt(n) PROVE LifecycleInv
    BY DEF LifecycleTracked
  <1>1. Framed(n) /\ InTurn /\ StopsInTurn(n)
    BY DEF TrackedAt
  <1>2. ASSUME NEW m \in Modules, stopOf[m] # "no" PROVE n <= 2 /\ serving # "serve"
    BY <1>1, <1>2 DEF Framed, StopsInTurn, LifecycleTypeOK
  <1>3. LayersHold
    <2>1. "store" \notin running => tickers = {} /\ running = {}
      <3> SUFFICES ASSUME "store" \notin running PROVE tickers = {} /\ running = {}
        OBVIOUS
      <3>1. n = 0
        BY <1>1 DEF Framed
      <3>2. serving # "serve"
        BY <1>1, <3>1 DEF Framed
      <3>. QED BY <1>1, <3>1, <3>2 DEF Framed, LifecycleTypeOK, TickerNames
    <2>2. "http" \in running => "bus" \in running /\ startedMods = Modules
      BY <1>1 DEF Framed, InTurn
    <2>3. \A m \in Modules : stopOf[m] # "no" => tickers = {} /\ running \cap {"scheduler", "http"} = {}
      BY <1>1, <1>2 DEF Framed, LifecycleTypeOK, TickerNames
    <2>4. "bus" \notin running /\ startedMods # {} => \A m \in Modules : Settled(m)
      <3> SUFFICES ASSUME "bus" \notin running, startedMods # {} PROVE \A m \in Modules : stopOf[m] \in {"returned",
         "left"}
        BY DEF Settled
      <3>1. n <= 1 /\ serving \notin {"migrate", "init"}
        BY <1>1 DEF Framed, InTurn
      <3>2. serving \in {"unwind", "exited"}
        BY <1>1, <3>1 DEF Framed, LifecycleTypeOK
      <3>. QED BY <1>1, <3>1, <3>2 DEF StopsInTurn
    <2>. QED BY <2>1, <2>2, <2>3, <2>4 DEF LayersHold
  <1>4. EveryShareIsLeft
    <2>1. ASSUME NEW m \in Modules, stopOf[m] # "no" PROVE share[m] > 0 /\ share[m] >= StopTime \div NumModules
      <3>1. share[m] >= FairShare /\ share[m] \in Int
        BY <1>1, <2>1, LifecycleAssumption DEF StopsInTurn, LifecycleTypeOK
      <3>. QED BY <3>1, FairShares DEF FairShare
    <2>. QED BY <2>1 DEF EveryShareIsLeft
  <1>5. OneAdapterPerId
    BY <1>1, LifecycleAssumption DEF InTurn, OneClaimEach, OneAdapterPerId, Modules
  <1>. QED BY <1>3, <1>4, <1>5 DEF LifecycleInv

(* On every path out of serve, for any number of modules, any ids and any time to stop: what runs
   has what it needs below it, every module is called in time with a fair share of what there is,
   and what is served has one adapter under each id. *)
THEOREM LifecycleHolds == LifecycleSpec => []LifecycleInv
  BY LifecycleStarts, LifecycleStep, LifecycleFollows, PTL DEF LifecycleSpec


------------------------------------------------------------------------------
(* The prompt: what one provider leaves out another has.                     *)

\* What an occurrence is made of.
LEMMA OccurrenceIs ==
  /\ DOMAIN Occurrences = 1 .. Len(Occurrences) /\ Len(Occurrences) \in Nat
  /\ \A i \in DOMAIN Occurrences : WhatOf(i).comment \in Comments \cup {NoComment}
  <1>1. DOMAIN Occurrences = 1 .. Len(Occurrences) /\ Len(Occurrences) \in Nat
    BY PromptAssumption
  <1>2. ASSUME NEW i \in DOMAIN Occurrences
        PROVE  WhatOf(i).comment \in Comments \cup {NoComment}
    <2> DEFINE S == [kind : {"review", "review_comment", "agent_review"},
                     review : {Occurrences[j].review : j \in DOMAIN Occurrences},
                     comment : Comments \cup {NoComment}]
    <2>1. Occurrences \in Seq(S)
      BY PromptAssumption
    <2>2. Occurrences[i] \in S
      <3>. HIDE DEF S
      <3>. QED BY <2>1
    <2>. QED BY <2>2 DEF WhatOf
  <1>. QED BY <1>1, <1>2

\* A row of a comment is of the comment's review.
LEMMA RowOfComment ==
  ASSUME NEW i \in DOMAIN Occurrences, WhatOf(i).comment # NoComment
  PROVE  /\ WhatOf(i).comment \in Comments
         /\ WhatOf(i).review = ReviewOf[WhatOf(i).comment]
         /\ Word(i) = <<"comment", WhatOf(i).comment>>
  <1>1. WhatOf(i).comment \in Comments
    BY OccurrenceIs
  <1>2. WhatOf(i).review = ReviewOf[WhatOf(i).comment]
    BY PromptAssumption DEF WhatOf
  <1>. QED BY <1>1, <1>2 DEF Word

\* A summary's word is not a comment's, and a word says what it is of.
LEMMA WordsDiffer ==
  /\ \A a, b : <<"summary", a>> # <<"comment", b>>
  /\ \A a, b : <<"summary", a>> = <<"summary", b>> => a = b
  /\ \A a, b : <<"comment", a>> = <<"comment", b>> => a = b
  OBVIOUS

\* A word of a comment is that of the comment's row.
LEMMA WordOfComment ==
  ASSUME NEW i \in DOMAIN Occurrences, NEW c, Word(i) = <<"comment", c>>
  PROVE  WhatOf(i).comment = c /\ c # NoComment
  <1>1. WhatOf(i).comment # NoComment
    BY WordsDiffer DEF Word
  <1>2. Word(i) = <<"comment", WhatOf(i).comment>>
    BY <1>1 DEF Word
  <1>. QED BY <1>1, <1>2, WordsDiffer

------------------------------------------------------------------------------
(* The threads of the forge.                                                 *)

\* Two threads of one grouping have nothing in common.
LEMMA GroupsAreApart ==
  ASSUME NEW opener, NEW s \in Grouped(opener), NEW t \in Grouped(opener), s # t
  PROVE  s \cap t = {}
  BY DEF Grouped

\* Whatever is visible is in a thread, which is of what is visible.
LEMMA GroupsHaveAll ==
  ASSUME NEW opener
  PROVE  /\ \A c \in Visible : \E t \in Grouped(opener) : c \in t
         /\ \A t \in Grouped(opener) : t \subseteq Visible
  <1>1. ASSUME NEW c \in Visible
        PROVE  \E t \in Grouped(opener) : c \in t
    <2>1. {d \in Visible : opener[d] = opener[c]} \in Grouped(opener)
      BY DEF Grouped
    <2>. QED BY <2>1
  <1>2. ASSUME NEW t \in Grouped(opener)
        PROVE  t \subseteq Visible
    BY DEF Grouped
  <1>. QED BY <1>1, <1>2

\* What is answered can be seen.
LEMMA AnsweredIsVisible ==
  ASSUME happened \in 0 .. Len(Occurrences), NEW c \in Visible, InReplyTo[c] # NoComment
  PROVE  InReplyTo[c] \in Visible
  <1>1. c \in Comments /\ InReplyTo[c] \in Comments
    BY PromptAssumption DEF Visible
  <1>2. PICK i \in Past : Shows(i, c)
    BY DEF Visible
  <1>3. i \in DOMAIN Occurrences /\ i \in Nat
    BY <1>2, OccurrenceIs DEF Past
  <1>4. PICK j \in 1 .. i : Shows(j, InReplyTo[c])
    BY <1>1, <1>2, <1>3, ReplyAssumption
  <1>5. j \in Past
    BY <1>2, <1>3, <1>4, OccurrenceIs DEF Past
  <1>. QED BY <1>1, <1>4, <1>5 DEF Visible

\* The step of rootOf, and the hops it makes.
HopFrom(c) == IF c \in Visible /\ InReplyTo[c] # NoComment THEN InReplyTo[c] ELSE c
HopsOf(f, n, c) ==
  /\ f = [h \in 0 .. n |-> f[h]]
  /\ f[0] = c /\ \A h \in 1 .. n : f[h] = HopFrom(f[h - 1])

\* However many there are to make, they can be made.
LEMMA HopsAreMade ==
  ASSUME NEW c \in Comments, NEW n \in Nat
  PROVE  \E f : HopsOf(f, n, c)
  <1> DEFINE T == {k \in Nat : ~ \E f : HopsOf(f, k, c)}
  <1>. SUFFICES T = {}
    OBVIOUS
  <1>. SUFFICES ASSUME T # {} PROVE FALSE
    OBVIOUS
  <1>1. PICK k \in T : \A j \in T : ~ (<<j, k>> \in OpToRel(<, Nat))
    BY NatLessThanWellFounded, WFMin
  <1>2. \A j \in Nat : j < k => \E f : HopsOf(f, j, c)
    BY <1>1 DEF OpToRel
  <1>3. k # 0
    <2>1. HopsOf([h \in 0 .. 0 |-> c], 0, c)
      BY DEF HopsOf
    <2>. QED BY <2>1
  <1>4. k \in Nat /\ k - 1 \in Nat /\ k - 1 < k
    BY <1>3
  <1>5. PICK f : HopsOf(f, k - 1, c)
    BY <1>2, <1>4
  <1> DEFINE g == [h \in 0 .. k |-> IF h = k THEN HopFrom(f[k - 1]) ELSE f[h]]
  <1>8. g = [h \in 0 .. k |-> g[h]]
    OBVIOUS
  <1>9. g[0] = c
    BY <1>4, <1>5, <1>3 DEF HopsOf
  <1>10. ASSUME NEW h \in 1 .. k
         PROVE  g[h] = HopFrom(g[h - 1])
    <2>1. h - 1 \in 0 .. k /\ h - 1 # k /\ h \in 0 .. k
      BY <1>4
    <2>2. g[h - 1] = f[h - 1]
      BY <2>1
    <2>3. CASE h = k
      BY <2>1, <2>2, <2>3
    <2>4. CASE h # k
      <3>1. h \in 1 .. (k - 1) /\ g[h] = f[h]
        BY <1>4, <2>1, <2>4
      <3>. QED BY <3>1, <2>2, <1>5 DEF HopsOf
    <2>. QED BY <2>3, <2>4
  <1>11. HopsOf(g, k, c)
    <2>. HIDE DEF g
    <2>. QED BY <1>8, <1>9, <1>10 DEF HopsOf
  <1>. QED BY <1>11

\* Whatever hops are made, after MaxHops of them they are at the comment that opened the thread.
LEMMA HopsReachTheOpener ==
  ASSUME happened \in 0 .. Len(Occurrences), NEW c \in Visible, NEW f, HopsOf(f, MaxHops, c)
  PROVE  f[MaxHops] = ThreadOf[c]
  <1>1. PICK depth \in [Comments -> 0 .. MaxHops] : \A d \in Comments :
          IF InReplyTo[d] = NoComment THEN ThreadOf[d] = d
          ELSE depth[InReplyTo[d]] < depth[d] /\ ThreadOf[InReplyTo[d]] = ThreadOf[d]
    BY ReplyAssumption
  <1>2. MaxHops \in Nat /\ c \in Comments
    BY PromptAssumption DEF Visible
  <1> DEFINE Far(h) == /\ f[h] \in Visible /\ ThreadOf[f[h]] = ThreadOf[c]
                       /\ \/ InReplyTo[f[h]] = NoComment
                          \/ depth[f[h]] <= MaxHops - h
             T == {h \in 0 .. MaxHops : ~Far(h)}
  <1>3. T = {}
    <2>. SUFFICES ASSUME T # {} PROVE FALSE
      OBVIOUS
    <2>1. T \subseteq Nat
      BY <1>2
    <2>2. PICK k \in T : \A j \in T : ~ (<<j, k>> \in OpToRel(<, Nat))
      BY <2>1, NatLessThanWellFounded, WFMin
    <2>3. k \in 0 .. MaxHops /\ ~Far(k)
      OBVIOUS
    <2>4. k # 0
      <3>1. Far(0)
        BY <1>1, <1>2 DEF HopsOf
      <3>. QED BY <3>1, <2>3
    <2>5. k - 1 \in 0 .. MaxHops /\ k \in 1 .. MaxHops /\ k \in Nat
      BY <2>3, <2>4, <1>2
    <2>6. Far(k - 1)
      <3>1. k - 1 \notin T
        <4>1. <<k - 1, k>> \in OpToRel(<, Nat)
          BY <2>5, <1>2 DEF OpToRel
        <4>. QED BY <4>1, <2>2
      <3>. QED BY <3>1, <2>5
    <2>7. f[k] = HopFrom(f[k - 1])
      BY <2>5 DEF HopsOf
    <2> DEFINE d == f[k - 1]
    <2>8. d \in Visible /\ d \in Comments /\ ThreadOf[d] = ThreadOf[c]
      BY <2>6 DEF Visible
    <2>9. CASE InReplyTo[d] = NoComment
      <3>1. f[k] = d
        BY <2>7, <2>9 DEF HopFrom
      <3>2. Far(k)
        BY <3>1, <2>8, <2>9
      <3>. QED BY <3>2, <2>3
    <2>10. CASE InReplyTo[d] # NoComment
      <3>1. f[k] = InReplyTo[d]
        BY <2>7, <2>8, <2>10 DEF HopFrom
      <3>2. InReplyTo[d] \in Visible
        BY <2>8, <2>10, AnsweredIsVisible
      <3>3. InReplyTo[d] \in Comments
        BY <3>2 DEF Visible
      <3>4. depth[InReplyTo[d]] < depth[d] /\ ThreadOf[InReplyTo[d]] = ThreadOf[d]
        BY <1>1, <2>8, <2>10
      <3>5. depth[d] <= MaxHops - (k - 1)
        BY <2>6, <2>10
      <3>6. depth[d] \in Nat /\ depth[InReplyTo[d]] \in Nat
        BY <1>1, <1>2, <2>8, <3>3
      <3>7. depth[InReplyTo[d]] <= MaxHops - k
        <4>. HIDE DEF d
        <4>. QED BY <3>4, <3>5, <3>6, <2>5, <1>2
      <3>8. Far(k)
        BY <3>1, <3>2, <3>4, <3>7, <2>8
      <3>. QED BY <3>8, <2>3
    <2>. QED BY <2>9, <2>10
  <1>4. Far(MaxHops)
    <2>1. MaxHops \in 0 .. MaxHops
      BY <1>2
    <2>. QED BY <2>1, <1>3
  <1>5. f[MaxHops] \in Comments
    BY <1>4 DEF Visible
  <1>6. InReplyTo[f[MaxHops]] = NoComment
    <2>. SUFFICES ASSUME InReplyTo[f[MaxHops]] # NoComment PROVE FALSE
      OBVIOUS
    <2>1. InReplyTo[f[MaxHops]] \in Comments
      BY <1>5, PromptAssumption
    <2>2. depth[InReplyTo[f[MaxHops]]] < depth[f[MaxHops]]
      BY <1>1, <1>5
    <2>3. depth[f[MaxHops]] <= MaxHops - MaxHops
      BY <1>4
    <2>4. depth[f[MaxHops]] \in Nat /\ depth[InReplyTo[f[MaxHops]]] \in Nat
      BY <1>1, <1>2, <1>5, <2>1
    <2>. QED BY <2>2, <2>3, <2>4, <1>2
  <1>. QED BY <1>4, <1>5, <1>6, <1>1

\* So the listing puts a comment in the thread it is in.
LEMMA RootIsTheOpener ==
  ASSUME happened \in 0 .. Len(Occurrences), NEW c \in Visible
  PROVE  RootOf(c) = ThreadOf[c]
  <1>1. c \in Comments /\ MaxHops \in Nat
    BY PromptAssumption DEF Visible
  <1> DEFINE Hop(f) == [h \in 0 .. MaxHops |->
                          IF h = 0 THEN c
                          ELSE IF f[h - 1] \in Visible /\ InReplyTo[f[h - 1]] # NoComment
                               THEN InReplyTo[f[h - 1]] ELSE f[h - 1]]
             hop == CHOOSE f : f = Hop(f)
  <1>2. PICK f : HopsOf(f, MaxHops, c)
    BY <1>1, HopsAreMade
  <1>3. f = Hop(f)
    <2>1. f = [h \in 0 .. MaxHops |-> f[h]]
      BY <1>2 DEF HopsOf
    <2>2. ASSUME NEW h \in 0 .. MaxHops
          PROVE  f[h] = Hop(f)[h]
      <3>1. CASE h = 0
        BY <1>2, <3>1 DEF HopsOf
      <3>2. CASE h # 0
        <4>1. h \in 1 .. MaxHops
          BY <3>2, <1>1
        <4>. QED BY <4>1, <3>2, <1>2 DEF HopsOf, HopFrom
      <3>. QED BY <3>1, <3>2
    <2>. QED BY <2>1, <2>2
  <1>4. hop = Hop(hop)
    BY <1>3
  <1>5. HopsOf(hop, MaxHops, c)
    <2>1. ASSUME NEW g, g = Hop(g)
          PROVE  HopsOf(g, MaxHops, c)
      <3>1. g = [h \in 0 .. MaxHops |-> g[h]]
        BY <2>1
      <3>2. \A h \in 0 .. MaxHops : g[h] = IF h = 0 THEN c ELSE HopFrom(g[h - 1])
        BY <2>1 DEF HopFrom
      <3>3. 0 \in 0 .. MaxHops /\ \A h \in 1 .. MaxHops : h \in 0 .. MaxHops /\ h # 0
        BY <1>1
      <3>. QED BY <3>1, <3>2, <3>3 DEF HopsOf
    <2>. HIDE DEF Hop, hop
    <2>. QED BY <2>1, <1>4
  <1>6. RootOf(c) = hop[MaxHops]
    BY DEF RootOf
  <1>. QED BY <1>5, <1>6, HopsReachTheOpener

\* The two readings of the threads agree.
LEMMA ReadingsAgree ==
  ASSUME happened \in 0 .. Len(Occurrences)
  PROVE  RestThreads = GraphThreads
  <1> DEFINE root == [c \in Visible |-> RootOf(c)]
  <1>1. \A c \in Visible : root[c] = ThreadOf[c]
    BY RootIsTheOpener
  <1>2. Grouped(root) = Grouped(ThreadOf)
    <2>. HIDE DEF root
    <2>1. \A o : {c \in Visible : root[c] = o} = {c \in Visible : ThreadOf[c] = o}
      BY <1>1
    <2>2. {root[c] : c \in Visible} = {ThreadOf[c] : c \in Visible}
      BY <1>1
    <2>3. ASSUME NEW t \in Grouped(root)
          PROVE  t \in Grouped(ThreadOf)
      <3>1. PICK o \in {root[c] : c \in Visible} : t = {c \in Visible : root[c] = o}
        BY DEF Grouped
      <3>2. t = {c \in Visible : ThreadOf[c] = o} /\ o \in {ThreadOf[c] : c \in Visible}
        BY <2>1, <2>2, <3>1
      <3>. QED BY <3>2 DEF Grouped
    <2>4. ASSUME NEW t \in Grouped(ThreadOf)
          PROVE  t \in Grouped(root)
      <3>1. PICK o \in {ThreadOf[c] : c \in Visible} : t = {c \in Visible : ThreadOf[c] = o}
        BY DEF Grouped
      <3>2. t = {c \in Visible : root[c] = o} /\ o \in {root[c] : c \in Visible}
        BY <2>1, <2>2, <3>1
      <3>. QED BY <3>2 DEF Grouped
    <2>. QED BY <2>3, <2>4
  <1>. QED BY <1>2 DEF RestThreads, GraphThreads

\* What the preview shows is there whatever is found, and before the rest.
LEMMA PreviewComesFirst ==
  ASSUME NEW found
  PROVE  /\ PreviewItems \subseteq WikiItems(found)
         /\ \A p \in PreviewItems, q \in WikiItems(found) \ PreviewItems : PageBefore(p, q)
  <1>1. PreviewItems \subseteq WikiItems(found)
    BY DEF PreviewItems, WikiItems
  <1>2. ASSUME NEW p \in PreviewItems, NEW q \in WikiItems(found) \ PreviewItems
        PROVE  PageBefore(p, q)
    <2>1. ScopeOf[p] = Groups[1]
      BY DEF PreviewItems, WikiItems
    <2>2. ScopeOf[q] = Groups[2] \/ ScopeOf[q] = Groups[3]
      BY DEF PreviewItems, WikiItems
    <2>3. {1, 2, 3} \subseteq DOMAIN Groups
      BY DEF Groups
    <2>. QED BY <2>1, <2>2, <2>3 DEF PageBefore
  <1>. QED BY <1>1, <1>2

LEMMA PreviewHolds ==
  ASSUME happened \in 0 .. Len(Occurrences)
  PROVE  PreviewIsPromised
  BY ReadingsAgree, PreviewComesFirst DEF PreviewIsPromised

------------------------------------------------------------------------------
(* What a prompt is, step by step.                                           *)

PromptShaped ==
  /\ prompt = [step |-> prompt.step, cause |-> prompt.cause, known |-> prompt.known,
               wiki |-> prompt.wiki, event |-> prompt.event, history |-> prompt.history,
               seen |-> prompt.seen, older |-> prompt.older, ticket |-> prompt.ticket,
               review |-> prompt.review, unread |-> prompt.unread, moves |-> prompt.moves]
  /\ prompt.review = [summary |-> prompt.review.summary, threads |-> prompt.review.threads,
                      resolved |-> prompt.review.resolved, fragment |-> prompt.review.fragment]

\* Of the events table and the forge.
TableHolds ==
  /\ happened \in 0 .. Len(Occurrences) /\ recorded \subseteq Past /\ settled \subseteq Visible
  /\ \A i \in recorded : WhatOf(i).comment \in Visible \cup {NoComment}

\* What the history saw of the rows, and how it went apart.
HistoryIs ==
  \E before \in SUBSET recorded :
    /\ prompt.seen = Words(before)
    /\ prompt.history \cup prompt.older = Words(DropCausingReview(before, prompt.cause))

\* The forge's threads have whatever the history saw of the causing review.
SeenIsSaid ==
  \A c \in Comments :
    /\ <<"comment", c>> \in prompt.seen
    /\ WhatOf(prompt.cause).review # NoReview /\ ReviewOf[c] = WhatOf(prompt.cause).review
    => c \in Said \cup prompt.review.resolved

ThreadsApart == \A s, t \in prompt.review.threads : s # t => s.says \cap t.says = {}

\* The section as it goes to be completed.
SectionSoFar ==
  /\ ReviewSection /\ ~prompt.unread
  /\ WhatOf(prompt.cause).kind = "review" => prompt.review.summary
  /\ prompt.review.fragment =>
       prompt.review.threads = FragmentOnly(prompt.cause, TRUE).threads
  /\ ~prompt.review.fragment => SeenIsSaid /\ ThreadsApart

StepHolds ==
  /\ prompt.step \notin {"none", "failed"} => prompt.cause \in recorded
  /\ prompt.step \in {"none", "cause", "wiki", "event", "history", "ticket", "summary"} =>
       prompt.review = NoSection /\ ~prompt.unread
  /\ prompt.step \in {"history", "ticket", "summary", "threads", "stored", "files", "note", "done"} =>
       prompt.event = {Word(prompt.cause)}
  /\ prompt.step \in {"ticket", "summary", "threads", "stored", "files", "note", "done"} => HistoryIs
  /\ prompt.step = "threads" =>
       /\ ReviewSection /\ ~prompt.unread
       /\ ~prompt.review.fragment /\ prompt.review.threads = {} /\ prompt.review.resolved = {}
       /\ WhatOf(prompt.cause).kind = "review" => prompt.review.summary
  /\ prompt.step = "stored" => SectionSoFar

PromptTracked == PromptShaped /\ TableHolds /\ StepHolds /\ BoundaryMovesOnly

\* The moves of the others leave the prompt as it is, but for their count.
LEMMA MeanwhileKeeps ==
  ASSUME PromptShaped, Meanwhile
  PROVE  /\ PromptShaped'
         /\ prompt'.step = prompt.step /\ prompt'.cause = prompt.cause /\ prompt'.known = prompt.known
         /\ prompt'.event = prompt.event /\ prompt'.history = prompt.history
         /\ prompt'.seen = prompt.seen /\ prompt'.older = prompt.older
         /\ prompt'.review = prompt.review /\ prompt'.unread = prompt.unread
  BY DEF PromptShaped, Meanwhile

\* What could be seen can be seen when more has happened.
LEMMA VisibleStays ==
  ASSUME happened \in 0 .. Len(Occurrences), happened' \in {happened, happened + 1}
  PROVE  Visible \subseteq Visible' /\ Past \subseteq Past'
  <1>1. happened \in Nat /\ happened <= happened'
    BY OccurrenceIs
  <1>2. Past \subseteq Past'
    BY <1>1 DEF Past
  <1>. QED BY <1>2 DEF Visible, Shows, WhatOf

\* What the history saw stays what it saw.
LEMMA HistoryStays ==
  ASSUME HistoryIs, recorded \subseteq recorded', prompt'.cause = prompt.cause,
         prompt'.seen = prompt.seen, prompt'.history = prompt.history, prompt'.older = prompt.older
  PROVE  HistoryIs'
  <1>1. PICK before \in SUBSET recorded :
          /\ prompt.seen = Words(before)
          /\ prompt.history \cup prompt.older = Words(DropCausingReview(before, prompt.cause))
    BY DEF HistoryIs
  <1>2. Words(before)' = Words(before)
    BY DEF Words, Word, WhatOf
  <1>3. Words(DropCausingReview(before, prompt.cause))' = Words(DropCausingReview(before, prompt.cause))
    BY DEF Words, Word, DropCausingReview, WhatOf
  <1>4. before \in SUBSET recorded'
    OBVIOUS
  <1>. QED BY <1>1, <1>2, <1>3, <1>4 DEF HistoryIs

\* So a prompt stays what it is while rows are added.
LEMMA OthersKeep ==
  ASSUME PromptTracked, Meanwhile, recorded \subseteq recorded'
  PROVE  PromptShaped' /\ StepHolds' /\ BoundaryMovesOnly'
  <1>1. /\ PromptShaped'
        /\ prompt'.step = prompt.step /\ prompt'.cause = prompt.cause /\ prompt'.known = prompt.known
        /\ prompt'.event = prompt.event /\ prompt'.history = prompt.history
        /\ prompt'.seen = prompt.seen /\ prompt'.older = prompt.older
        /\ prompt'.review = prompt.review /\ prompt'.unread = prompt.unread
    BY MeanwhileKeeps DEF PromptTracked
  <1>2. BoundaryMovesOnly'
    BY <1>1 DEF PromptTracked, BoundaryMovesOnly, InSection, Said, ReviewSection, WhatOf
  <1>3. HistoryIs => HistoryIs'
    BY <1>1, HistoryStays
  <1>4. ReviewSection' = ReviewSection
    BY <1>1 DEF ReviewSection, WhatOf
  <1>5. SectionSoFar => SectionSoFar'
    BY <1>1, <1>4 DEF SectionSoFar, SeenIsSaid, ThreadsApart, Said, FragmentOnly, ThreadOfRow, WhatOf
  <1>6. Word(prompt.cause)' = Word(prompt.cause) /\ WhatOf(prompt.cause)' = WhatOf(prompt.cause)
    BY <1>1 DEF Word, WhatOf
  <1>7. StepHolds'
    BY <1>1, <1>3, <1>4, <1>5, <1>6 DEF PromptTracked, StepHolds, NoSection
  <1>. QED BY <1>1, <1>2, <1>7

LEMMA TrackedInit == PromptInit => PromptTracked
  <1>. SUFFICES ASSUME PromptInit PROVE PromptTracked
    OBVIOUS
  <1>1. happened = 0 /\ recorded = {} /\ settled = {} /\ prompt = NoPrompt
    BY DEF PromptInit
  <1>2. PromptShaped
    BY <1>1 DEF PromptShaped, NoPrompt, NoSection
  <1>3. TableHolds
    BY <1>1, OccurrenceIs DEF TableHolds
  <1>4. prompt.step = "none" /\ prompt.review = NoSection /\ prompt.unread = FALSE
    BY <1>1 DEF NoPrompt
  <1>5. StepHolds
    BY <1>4 DEF StepHolds
  <1>6. BoundaryMovesOnly
    BY <1>4 DEF BoundaryMovesOnly
  <1>. QED BY <1>2, <1>3, <1>5, <1>6 DEF PromptTracked

\* What happens, what is recorded, settled and edited, while there is a prompt or none.
LEMMA TrackedMeanwhile ==
  ASSUME PromptTracked,
         \/ Happen
         \/ \E i \in DOMAIN Occurrences : RecordRow(i)
         \/ \E t \in Comments : Settle(t)
         \/ \E p \in ToSet(Tree) : EditPage(p)
  PROVE  PromptTracked'
  <1>1. Meanwhile /\ recorded \subseteq recorded'
    BY DEF Happen, RecordRow, Settle, EditPage
  <1>2. PromptShaped' /\ StepHolds' /\ BoundaryMovesOnly'
    BY <1>1, OthersKeep
  <1>3. TableHolds
    BY DEF PromptTracked
  <1>4. happened' \in 0 .. Len(Occurrences) /\ happened' \in {happened, happened + 1}
    BY <1>3, OccurrenceIs DEF TableHolds, Happen, RecordRow, Settle, EditPage
  <1>5. Visible \subseteq Visible' /\ Past \subseteq Past'
    BY <1>3, <1>4, VisibleStays DEF TableHolds
  <1>6. recorded' \subseteq Past'
    BY <1>3, <1>5 DEF TableHolds, Happen, RecordRow, Settle, EditPage
  <1>7. settled' \subseteq Visible'
    BY <1>3, <1>5 DEF TableHolds, Happen, RecordRow, Settle, EditPage
  <1>8. \A i \in recorded' : WhatOf(i).comment \in Visible \cup {NoComment}
    BY <1>3 DEF TableHolds, Happen, RecordRow, Settle, EditPage, WhatOf
  <1>9. TableHolds'
    BY <1>4, <1>5, <1>6, <1>7, <1>8 DEF TableHolds, WhatOf
  <1>. QED BY <1>2, <1>9 DEF PromptTracked

\* The steps of a prompt change nothing else.
LEMMA TableStays ==
  ASSUME TableHolds, UNCHANGED <<happened, recorded, settled, livePages>>
  PROVE  TableHolds' /\ Visible' = Visible /\ PRRows' = PRRows /\ PRRows = recorded
  <1>1. Visible' = Visible /\ Past' = Past
    BY DEF Visible, Past, Shows, WhatOf
  <1>2. PRRows = recorded
    BY DEF TableHolds, PRRows
  <1>. QED BY <1>1, <1>2 DEF TableHolds, WhatOf, PRRows

\* The steps that only read: up to the history, and past the section.
LEMMA TrackedReading ==
  ASSUME PromptTracked,
         \/ \E i \in DOMAIN Occurrences : Assemble(i)
         \/ ReadCause \/ ReadPages \/ ReadEvent \/ ReadTicket \/ ReadFails
  PROVE  PromptTracked'
  <1>1. UNCHANGED <<happened, recorded, settled, livePages>>
    BY DEF Assemble, ReadCause, ReadPages, ReadEvent, ReadTicket, ReadFails, At
  <1>2. TableHolds'
    BY <1>1, TableStays DEF PromptTracked
  <1>3. PromptShaped /\ StepHolds
    BY DEF PromptTracked
  <1>4. CASE \E i \in DOMAIN Occurrences : Assemble(i)
    <2>1. PICK i \in recorded : prompt.step = "none" /\ prompt' = [prompt EXCEPT !.step = "cause", !.cause = i]
      BY <1>4 DEF Assemble
    <2>2. /\ PromptShaped' /\ prompt'.step = "cause" /\ prompt'.cause = i
          /\ prompt'.review = prompt.review /\ prompt'.unread = prompt.unread
      BY <1>3, <2>1 DEF PromptShaped
    <2>3. StepHolds'
      BY <1>1, <1>3, <2>1, <2>2 DEF StepHolds, NoSection
    <2>4. BoundaryMovesOnly'
      BY <2>2 DEF BoundaryMovesOnly
    <2>. QED BY <1>2, <2>2, <2>3, <2>4 DEF PromptTracked
  <1>5. CASE ReadCause
    <2>1. /\ prompt.step = "cause" /\ PromptShaped' /\ prompt'.step = "wiki" /\ prompt'.cause = prompt.cause
          /\ prompt'.review = prompt.review /\ prompt'.unread = prompt.unread
      BY <1>3, <1>5 DEF ReadCause, At, PromptShaped
    <2>2. StepHolds'
      BY <1>1, <1>3, <2>1 DEF StepHolds, NoSection
    <2>3. BoundaryMovesOnly'
      BY <2>1 DEF BoundaryMovesOnly
    <2>. QED BY <1>2, <2>1, <2>2, <2>3 DEF PromptTracked
  <1>6. CASE ReadPages
    <2>1. /\ prompt.step = "wiki" /\ PromptShaped' /\ prompt'.step = "event" /\ prompt'.cause = prompt.cause
          /\ prompt'.review = prompt.review /\ prompt'.unread = prompt.unread
      BY <1>3, <1>6 DEF ReadPages, At, PromptShaped
    <2>2. StepHolds'
      BY <1>1, <1>3, <2>1 DEF StepHolds, NoSection
    <2>3. BoundaryMovesOnly'
      BY <2>1 DEF BoundaryMovesOnly
    <2>. QED BY <1>2, <2>1, <2>2, <2>3 DEF PromptTracked
  <1>7. CASE ReadEvent
    <2>1. /\ prompt.step = "event" /\ PromptShaped' /\ prompt'.step = "history" /\ prompt'.cause = prompt.cause
          /\ prompt'.review = prompt.review /\ prompt'.unread = prompt.unread
          /\ prompt'.event = {Word(prompt.cause)}
      BY <1>3, <1>7 DEF ReadEvent, At, PromptShaped
    <2>2. prompt'.event = {Word(prompt.cause)}'
      BY <2>1 DEF Word, WhatOf
    <2>3. StepHolds'
      BY <1>1, <1>3, <2>1, <2>2 DEF StepHolds, NoSection
    <2>4. BoundaryMovesOnly'
      BY <2>1 DEF BoundaryMovesOnly
    <2>. QED BY <1>2, <2>1, <2>3, <2>4 DEF PromptTracked
  <1>8. CASE ReadTicket
    <2>1. /\ prompt.step = "ticket" /\ PromptShaped' /\ prompt'.step = "summary" /\ prompt'.cause = prompt.cause
          /\ prompt'.review = prompt.review /\ prompt'.unread = prompt.unread
          /\ prompt'.event = prompt.event /\ prompt'.history = prompt.history
          /\ prompt'.seen = prompt.seen /\ prompt'.older = prompt.older
      BY <1>3, <1>8 DEF ReadTicket, At, PromptShaped
    <2>2. prompt'.event = {Word(prompt.cause)}'
      <3>1. prompt.event = {Word(prompt.cause)}
        BY <1>3, <2>1 DEF StepHolds
      <3>2. Word(prompt.cause)' = Word(prompt.cause)
        BY <1>3, <2>1 DEF Word, WhatOf
      <3>. QED BY <3>1, <3>2, <1>3, <2>1
    <2>3. HistoryIs'
      <3>1. HistoryIs
        BY <1>1, <1>3, <2>1 DEF StepHolds
      <3>. QED BY <3>1, <1>1, <1>3, <2>1, HistoryStays
    <2>4. StepHolds'
      BY <1>1, <1>3, <2>1, <2>2, <2>3 DEF StepHolds, NoSection
    <2>5. BoundaryMovesOnly'
      BY <2>1 DEF BoundaryMovesOnly
    <2>. QED BY <1>2, <2>1, <2>4, <2>5 DEF PromptTracked
  <1>9. CASE ReadFails
    <2>1. prompt' = [NoPrompt EXCEPT !.step = "failed"]
      BY <1>9 DEF ReadFails
    <2>2. PromptShaped' /\ prompt'.step = "failed"
      BY <2>1 DEF PromptShaped, NoPrompt, NoSection
    <2>3. StepHolds' /\ BoundaryMovesOnly'
      BY <2>2 DEF StepHolds, BoundaryMovesOnly
    <2>. QED BY <1>2, <2>2, <2>3 DEF PromptTracked
  <1>. QED BY <1>4, <1>5, <1>6, <1>7, <1>8, <1>9

\* The history is all of what it saw, but for the review it leaves to its section.
LEMMA TrackedHistory ==
  ASSUME PromptTracked, ReadHistory
  PROVE  PromptTracked'
  <1>1. UNCHANGED <<happened, recorded, settled, livePages>> /\ prompt.step = "history"
    BY DEF ReadHistory, At
  <1>2. TableHolds' /\ PRRows = recorded
    BY <1>1, TableStays DEF PromptTracked
  <1>3. PromptShaped /\ StepHolds
    BY DEF PromptTracked
  <1> DEFINE before == HistoryBefore(PRRows, prompt.cause)
             prior == DropCausingReview(before, prompt.cause)
  <1>4. prompt' = [prompt EXCEPT !.step = "ticket", !.history = Words(NewestOf(prior)),
                     !.seen = Words(before), !.older = Words(prior \ NewestOf(prior))]
    BY DEF ReadHistory
  <1>5. /\ PromptShaped' /\ prompt'.step = "ticket" /\ prompt'.cause = prompt.cause
        /\ prompt'.review = prompt.review /\ prompt'.unread = prompt.unread
        /\ prompt'.event = prompt.event /\ prompt'.history = Words(NewestOf(prior))
        /\ prompt'.seen = Words(before) /\ prompt'.older = Words(prior \ NewestOf(prior))
    <2>. HIDE DEF before, prior
    <2>. QED BY <1>3, <1>4 DEF PromptShaped
  <1>6. before \subseteq recorded
    BY <1>2 DEF HistoryBefore
  <1>7. NewestOf(prior) \subseteq prior
    BY DEF NewestOf
  <1>8. prompt'.history \cup prompt'.older = Words(prior)
    <2>. HIDE DEF prior
    <2>. QED BY <1>5, <1>7 DEF Words
  <1>9. HistoryIs'
    <2>1. before \in SUBSET recorded'
      BY <1>1, <1>6
    <2>2. prompt'.seen = Words(before) /\ prompt'.history \cup prompt'.older = Words(DropCausingReview(before, prompt'.cause))
      BY <1>5, <1>8
    <2>3. \E b \in SUBSET recorded' : prompt'.seen = Words(b) /\ prompt'.history \cup prompt'.older = Words(DropCausingReview(b, prompt'.cause))
      <3>. HIDE DEF before, prior
      <3>. QED BY <2>1, <2>2
    <2>. QED BY <2>3 DEF HistoryIs, Words, Word, WhatOf, DropCausingReview
  <1>10. prompt'.event = {Word(prompt.cause)}'
    <2>1. prompt.event = {Word(prompt.cause)}
      BY <1>1, <1>3, <1>5 DEF StepHolds
    <2>2. Word(prompt.cause)' = Word(prompt.cause)
      BY <1>1, <1>3, <1>5 DEF Word, WhatOf
    <2>. QED BY <2>1, <2>2, <1>1, <1>3, <1>5
  <1>11. StepHolds'
    <2>. HIDE DEF before, prior
    <2>. QED BY <1>1, <1>3, <1>5, <1>9, <1>10 DEF StepHolds, NoSection
  <1>12. BoundaryMovesOnly'
    BY <1>5 DEF BoundaryMovesOnly
  <1>. QED BY <1>2, <1>5, <1>11, <1>12 DEF PromptTracked

\* What a history says is what was said before the causing review.
LEMMA HistoryBeforeReview ==
  ASSUME TableHolds, HistoryIs, prompt.cause \in recorded
  PROVE  \E before \in SUBSET recorded :
           /\ before \subseteq DOMAIN Occurrences
           /\ prompt.seen = Words(before)
           /\ prompt.history \cup prompt.older = Words(DropCausingReview(before, prompt.cause))
  <1>1. recorded \subseteq DOMAIN Occurrences
    BY OccurrenceIs DEF TableHolds, Past
  <1>. QED BY <1>1 DEF HistoryIs

\* A row the history saw and left out is of the causing review.
LEMMA LeftOut ==
  ASSUME NEW before, NEW i \in before, i \notin DropCausingReview(before, prompt.cause)
  PROVE  /\ WhatOf(prompt.cause).kind \in {"review", "review_comment"}
         /\ WhatOf(prompt.cause).review # NoReview
         /\ WhatOf(i).review = WhatOf(prompt.cause).review
  BY DEF DropCausingReview

\* A run of no review has no section on one: nothing is left out for it.
LEMMA TrackedSkip ==
  ASSUME PromptTracked, SkipReview
  PROVE  PromptTracked'
  <1>1. UNCHANGED <<happened, recorded, settled, livePages>> /\ prompt.step = "summary" /\ ~ReviewSection
    BY DEF SkipReview, At
  <1>2. TableHolds'
    BY <1>1, TableStays DEF PromptTracked
  <1>3. PromptShaped /\ StepHolds /\ TableHolds
    BY DEF PromptTracked
  <1>4. /\ PromptShaped' /\ prompt'.step = "files" /\ prompt'.cause = prompt.cause
        /\ prompt'.review = prompt.review /\ prompt'.unread = prompt.unread
        /\ prompt'.event = prompt.event /\ prompt'.history = prompt.history
        /\ prompt'.seen = prompt.seen /\ prompt'.older = prompt.older /\ prompt'.known = prompt.known
    BY <1>3 DEF SkipReview, PromptShaped
  <1>5. prompt'.event = {Word(prompt.cause)}'
    <2>1. prompt.event = {Word(prompt.cause)}
      BY <1>1, <1>3, <1>4 DEF StepHolds
    <2>2. Word(prompt.cause)' = Word(prompt.cause)
      BY <1>1, <1>3, <1>4 DEF Word, WhatOf
    <2>. QED BY <2>1, <2>2, <1>1, <1>3, <1>4
  <1>6. HistoryIs'
    <2>1. HistoryIs
      BY <1>1, <1>3, <1>4 DEF StepHolds
    <2>. QED BY <2>1, <1>1, <1>3, <1>4, HistoryStays
  <1>7. StepHolds'
    BY <1>1, <1>3, <1>4, <1>5, <1>6 DEF StepHolds
  <1>8. ASSUME prompt.known
        PROVE  prompt.seen = prompt.history \cup prompt.older
    <2>1. PICK before \in SUBSET recorded :
            /\ prompt.seen = Words(before)
            /\ prompt.history \cup prompt.older = Words(DropCausingReview(before, prompt.cause))
      BY <1>1, <1>3 DEF StepHolds, HistoryIs
    <2>2. DropCausingReview(before, prompt.cause) = before
      BY <1>1, <1>8 DEF DropCausingReview, ReviewSection
    <2>. QED BY <2>1, <2>2
  <1>9. prompt.review.threads = {} /\ ReviewSection' = ReviewSection
    BY <1>1, <1>3, <1>4 DEF StepHolds, NoSection, ReviewSection, WhatOf
  <1>10. BoundaryMovesOnly'
    <2>. SUFFICES ASSUME prompt.known
                  PROVE  BoundaryMovesOnly'
      BY <1>4 DEF BoundaryMovesOnly
    <2>1. prompt'.seen = prompt'.history \cup prompt'.older
      BY <1>4, <1>8
    <2>2. ~ReviewSection' /\ prompt'.review.threads = {}
      BY <1>1, <1>4, <1>9
    <2>. QED BY <2>1, <2>2 DEF BoundaryMovesOnly
  <1>. QED BY <1>2, <1>4, <1>7, <1>10 DEF PromptTracked

\* A fragment has the thread of the causing comment.
LEMMA FragmentIs ==
  ASSUME NEW cause, NEW partial
  PROVE  LET f == FragmentOnly(cause, partial)
         IN /\ f = [summary |-> f.summary, threads |-> f.threads, resolved |-> f.resolved,
                    fragment |-> f.fragment]
            /\ f.fragment = TRUE /\ f.resolved = {} /\ f.threads = FragmentOnly(cause, TRUE).threads
            /\ WhatOf(cause).kind = "review" => f.summary
  BY DEF FragmentOnly

LEMMA TrackedFragment ==
  ASSUME PromptTracked, NoForge \/ ThreadsFail
  PROVE  PromptTracked'
  <1>1. /\ UNCHANGED <<happened, recorded, settled, livePages>>
        /\ prompt.step \in {"summary", "threads"} /\ ReviewSection
    BY DEF NoForge, ThreadsFail, At, PromptTracked, StepHolds
  <1>2. TableHolds'
    BY <1>1, TableStays DEF PromptTracked
  <1>3. PromptShaped /\ StepHolds
    BY DEF PromptTracked
  <1>4. PICK partial : prompt' = [prompt EXCEPT !.step = "stored", !.review = FragmentOnly(prompt.cause, partial)]
    BY DEF NoForge, ThreadsFail
  <1> DEFINE f == FragmentOnly(prompt.cause, partial)
  <1>5. /\ f = [summary |-> f.summary, threads |-> f.threads, resolved |-> f.resolved, fragment |-> f.fragment]
        /\ f.fragment = TRUE /\ f.threads = FragmentOnly(prompt.cause, TRUE).threads
        /\ WhatOf(prompt.cause).kind = "review" => f.summary
    BY FragmentIs
  <1>. HIDE DEF f
  <1>6. /\ PromptShaped' /\ prompt'.step = "stored" /\ prompt'.cause = prompt.cause
        /\ prompt'.review = f /\ prompt'.unread = prompt.unread
        /\ prompt'.event = prompt.event /\ prompt'.history = prompt.history
        /\ prompt'.seen = prompt.seen /\ prompt'.older = prompt.older /\ prompt'.known = prompt.known
    <2>1. prompt' = [prompt EXCEPT !.step = "stored", !.review = f]
      BY <1>4 DEF f
    <2>. QED BY <1>3, <1>5, <2>1 DEF PromptShaped
  <1>7. prompt'.event = {Word(prompt.cause)}'
    <2>1. prompt.event = {Word(prompt.cause)}
      BY <1>1, <1>3, <1>6 DEF StepHolds
    <2>2. Word(prompt.cause)' = Word(prompt.cause)
      BY <1>1, <1>3, <1>6 DEF Word, WhatOf
    <2>. QED BY <2>1, <2>2, <1>1, <1>3, <1>6
  <1>8. HistoryIs'
    <2>1. HistoryIs
      BY <1>1, <1>3, <1>6 DEF StepHolds
    <2>. QED BY <2>1, <1>1, <1>3, <1>6, HistoryStays
  <1>9. SectionSoFar'
    <2>1. ~prompt.unread /\ ReviewSection'
      BY <1>1, <1>3, <1>6 DEF StepHolds, ReviewSection, WhatOf
    <2>2. FragmentOnly(prompt.cause, TRUE)' = FragmentOnly(prompt.cause, TRUE)
      BY <1>6 DEF FragmentOnly, ThreadOfRow, WhatOf
    <2>3. WhatOf(prompt.cause)' = WhatOf(prompt.cause)
      BY <1>6 DEF WhatOf
    <2>. QED BY <1>5, <1>6, <2>1, <2>2, <2>3 DEF SectionSoFar
  <1>10. StepHolds'
    BY <1>1, <1>3, <1>6, <1>7, <1>8, <1>9 DEF StepHolds
  <1>11. BoundaryMovesOnly'
    BY <1>6 DEF BoundaryMovesOnly
  <1>. QED BY <1>2, <1>6, <1>10, <1>11 DEF PromptTracked

LEMMA TrackedSummary ==
  ASSUME PromptTracked, ReadSummary
  PROVE  PromptTracked'
  <1>1. /\ UNCHANGED <<happened, recorded, settled, livePages>>
        /\ prompt.step = "summary" /\ ReviewSection
    BY DEF ReadSummary, At
  <1>2. TableHolds'
    BY <1>1, TableStays DEF PromptTracked
  <1>3. PromptShaped /\ StepHolds
    BY DEF PromptTracked
  <1>4. PICK read \in BOOLEAN :
          prompt' = [prompt EXCEPT !.step = "threads",
                       !.review.summary = \/ WhatOf(prompt.cause).kind = "review"
                                          \/ read /\ WhatOf(prompt.cause).review # NoReview]
    BY DEF ReadSummary
  <1> DEFINE said == WhatOf(prompt.cause).kind = "review" \/ (read /\ WhatOf(prompt.cause).review # NoReview)
             r == [prompt.review EXCEPT !.summary = said]
  <1>5. prompt' = [prompt EXCEPT !.step = "threads", !.review = r]
    BY <1>3, <1>4 DEF PromptShaped
  <1>6. /\ r = [summary |-> r.summary, threads |-> r.threads, resolved |-> r.resolved, fragment |-> r.fragment]
        /\ r.summary = said /\ r.threads = prompt.review.threads
        /\ r.resolved = prompt.review.resolved /\ r.fragment = prompt.review.fragment
    <2>. HIDE DEF said
    <2>. QED BY <1>3 DEF PromptShaped
  <1>. HIDE DEF r
  <1>7. /\ PromptShaped' /\ prompt'.step = "threads" /\ prompt'.cause = prompt.cause
        /\ prompt'.review = r /\ prompt'.unread = prompt.unread
        /\ prompt'.event = prompt.event /\ prompt'.history = prompt.history
        /\ prompt'.seen = prompt.seen /\ prompt'.older = prompt.older /\ prompt'.known = prompt.known
    BY <1>3, <1>5, <1>6 DEF PromptShaped
  <1>8. prompt'.event = {Word(prompt.cause)}'
    <2>1. prompt.event = {Word(prompt.cause)}
      BY <1>1, <1>3, <1>7 DEF StepHolds
    <2>2. Word(prompt.cause)' = Word(prompt.cause)
      BY <1>1, <1>3, <1>7 DEF Word, WhatOf
    <2>. QED BY <2>1, <2>2, <1>1, <1>3, <1>7
  <1>9. HistoryIs'
    <2>1. HistoryIs
      BY <1>1, <1>3, <1>7 DEF StepHolds
    <2>. QED BY <2>1, <1>1, <1>3, <1>7, HistoryStays
  <1>10. ReviewSection' /\ WhatOf(prompt.cause)' = WhatOf(prompt.cause)
    BY <1>1, <1>7 DEF ReviewSection, WhatOf
  <1>11. ~r.fragment /\ r.threads = {} /\ r.resolved = {} /\ ~prompt.unread
    BY <1>1, <1>3, <1>6 DEF StepHolds, NoSection
  <1>12. WhatOf(prompt.cause).kind = "review" => r.summary
    BY <1>6
  <1>13. StepHolds'
    BY <1>1, <1>3, <1>7, <1>8, <1>9, <1>10, <1>11, <1>12 DEF StepHolds
  <1>14. BoundaryMovesOnly'
    BY <1>7 DEF BoundaryMovesOnly
  <1>. QED BY <1>2, <1>7, <1>13, <1>14 DEF PromptTracked

\* What was seen of the causing review is in a thread the forge has, and that thread is the review's.
LEMMA TrackedThreads ==
  ASSUME PromptTracked, ReadThreads
  PROVE  PromptTracked'
  <1>1. /\ UNCHANGED <<happened, recorded, settled, livePages>>
        /\ prompt.step = "threads"
    BY DEF ReadThreads, At
  <1>2. TableHolds' /\ TableHolds
    BY <1>1, TableStays DEF PromptTracked
  <1>3. PromptShaped /\ StepHolds
    BY DEF PromptTracked
  <1>4. PICK opener, mine, closed :
          /\ mine = ThreadsOfReview(Grouped(opener), prompt.cause) /\ closed \subseteq mine
          /\ prompt' = [prompt EXCEPT !.step = "stored", !.review.resolved = UNION closed,
                          !.review.threads = {[row |-> 0, says |-> t] : t \in mine \ closed}]
    <2>1. PICK reading \in {"graphql", "listing"} :
            LET threads == IF reading = "graphql" THEN GraphThreads ELSE RestThreads
                own == ThreadsOfReview(threads, prompt.cause)
                shut == {t \in own : reading = "graphql" /\ t \cap settled # {}}
            IN prompt' = [prompt EXCEPT !.step = "stored", !.review.resolved = UNION shut,
                            !.review.threads = {[row |-> 0, says |-> t] : t \in own \ shut}]
      BY DEF ReadThreads
    <2> DEFINE op == IF reading = "graphql" THEN ThreadOf ELSE [c \in Visible |-> RootOf(c)]
               own == ThreadsOfReview(Grouped(op), prompt.cause)
               shut == {t \in own : reading = "graphql" /\ t \cap settled # {}}
    <2>2. Grouped(op) = IF reading = "graphql" THEN GraphThreads ELSE RestThreads
      BY DEF GraphThreads, RestThreads
    <2>3. /\ own = ThreadsOfReview(Grouped(op), prompt.cause) /\ shut \subseteq own
          /\ prompt' = [prompt EXCEPT !.step = "stored", !.review.resolved = UNION shut,
                          !.review.threads = {[row |-> 0, says |-> t] : t \in own \ shut}]
      BY <2>1, <2>2
    <2>. HIDE DEF op, own, shut
    <2>. QED BY <2>3
  <1> DEFINE threads == {[row |-> 0, says |-> t] : t \in mine \ closed}
             r == [prompt.review EXCEPT !.resolved = UNION closed, !.threads = threads]
  <1>5. prompt' = [prompt EXCEPT !.step = "stored", !.review = r]
    <2>. HIDE DEF threads
    <2>1. prompt' = [prompt EXCEPT !.step = "stored", !.review.resolved = UNION closed, !.review.threads = threads]
      BY <1>4 DEF threads
    <2>. QED BY <1>3, <2>1 DEF PromptShaped
  <1>6. /\ r = [summary |-> r.summary, threads |-> r.threads, resolved |-> r.resolved, fragment |-> r.fragment]
        /\ r.summary = prompt.review.summary /\ r.threads = threads
        /\ r.resolved = UNION closed /\ r.fragment = prompt.review.fragment
    <2> DEFINE gone == UNION closed
               old == prompt.review
    <2>1. old = [summary |-> old.summary, threads |-> old.threads,
                 resolved |-> old.resolved, fragment |-> old.fragment]
      BY <1>3 DEF PromptShaped
    <2>2. r = [old EXCEPT !.resolved = gone, !.threads = threads]
      OBVIOUS
    <2>. HIDE DEF threads, gone, old, r
    <2>3. /\ r = [summary |-> r.summary, threads |-> r.threads, resolved |-> r.resolved, fragment |-> r.fragment]
          /\ r.summary = old.summary /\ r.threads = threads /\ r.resolved = gone /\ r.fragment = old.fragment
      BY <2>1, <2>2
    <2>. QED BY <2>3 DEF gone, old
  <1>. HIDE DEF r
  <1>7. /\ PromptShaped' /\ prompt'.step = "stored" /\ prompt'.cause = prompt.cause
        /\ prompt'.review = r /\ prompt'.unread = prompt.unread
        /\ prompt'.event = prompt.event /\ prompt'.history = prompt.history
        /\ prompt'.seen = prompt.seen /\ prompt'.older = prompt.older /\ prompt'.known = prompt.known
    BY <1>3, <1>5, <1>6 DEF PromptShaped
  <1>8. prompt'.event = {Word(prompt.cause)}'
    <2>1. prompt.event = {Word(prompt.cause)}
      BY <1>1, <1>3, <1>7 DEF StepHolds
    <2>2. Word(prompt.cause)' = Word(prompt.cause)
      BY <1>1, <1>3, <1>7 DEF Word, WhatOf
    <2>. QED BY <2>1, <2>2, <1>1, <1>3, <1>7
  <1>9. HistoryIs'
    <2>1. HistoryIs
      BY <1>1, <1>3, <1>7 DEF StepHolds
    <2>. QED BY <2>1, <1>1, <1>3, <1>7, HistoryStays
  <1>10. ReviewSection' /\ WhatOf(prompt.cause)' = WhatOf(prompt.cause)
    BY <1>1, <1>3, <1>7 DEF StepHolds, ReviewSection, WhatOf
  <1>11. ASSUME NEW c \in Comments, <<"comment", c>> \in prompt.seen,
                WhatOf(prompt.cause).review # NoReview, ReviewOf[c] = WhatOf(prompt.cause).review
         PROVE  \E t \in mine : c \in t
    <2>1. prompt.cause \in recorded /\ HistoryIs
      BY <1>1, <1>3 DEF StepHolds
    <2>2. PICK before \in SUBSET recorded :
            before \subseteq DOMAIN Occurrences /\ prompt.seen = Words(before)
      BY <1>2, <2>1, HistoryBeforeReview
    <2>3. PICK i \in before : Word(i) = <<"comment", c>>
      BY <1>11, <2>2 DEF Words
    <2>4. WhatOf(i).comment = c /\ c # NoComment
      BY <2>2, <2>3, WordOfComment
    <2>5. c \in Visible
      BY <1>2, <2>2, <2>3, <2>4 DEF TableHolds
    <2>6. PICK t \in Grouped(opener) : c \in t
      BY <2>5, GroupsHaveAll
    <2>7. ThreadInReview(t, WhatOf(prompt.cause).review)
      BY <1>11, <2>6 DEF ThreadInReview
    <2>8. t \in mine
      BY <1>4, <1>11, <2>6, <2>7 DEF ThreadsOfReview
    <2>. QED BY <2>6, <2>8
  <1> DEFINE open == UNION {t.says : t \in threads}
             gone == UNION closed
  <1>12. ASSUME NEW c, NEW t \in mine, c \in t
         PROVE  c \in open \/ c \in gone
    <2>1. CASE t \notin closed
      <3>1. [row |-> 0, says |-> t] \in threads
        BY <1>12, <2>1
      <3>2. [row |-> 0, says |-> t].says = t
        OBVIOUS
      <3>3. \E u \in threads : c \in u.says
        <4>. HIDE DEF threads
        <4>. QED BY <1>12, <3>1, <3>2
      <3>. QED BY <3>3
    <2>2. CASE t \in closed
      <3>1. c \in gone
        BY <1>12, <2>2
      <3>. QED BY <3>1
    <2>. QED BY <2>1, <2>2
  <1>13. SeenIsSaid'
    <2>1. Said' = open /\ prompt'.review.resolved = gone
      BY <1>6, <1>7 DEF Said
    <2>2. ASSUME NEW c \in Comments, <<"comment", c>> \in prompt'.seen,
                 WhatOf(prompt.cause)'.review # NoReview, ReviewOf[c] = WhatOf(prompt.cause)'.review
          PROVE  c \in Said' \cup prompt'.review.resolved
      <3>. HIDE DEF open, gone, threads
      <3>1. PICK t \in mine : c \in t
        BY <1>7, <1>10, <1>11, <2>2
      <3>2. c \in open \/ c \in gone
        BY <3>1, <1>12
      <3>. QED BY <3>2, <2>1
    <2>. HIDE DEF threads
    <2>. QED BY <2>2 DEF SeenIsSaid
  <1>14. ThreadsApart'
    <2>1. mine \subseteq Grouped(opener)
      BY <1>4 DEF ThreadsOfReview
    <2>2. ASSUME NEW s \in threads, NEW t \in threads, s # t
          PROVE  s.says \cap t.says = {}
      <3>1. PICK a \in mine, b \in mine : s = [row |-> 0, says |-> a] /\ t = [row |-> 0, says |-> b]
        OBVIOUS
      <3>2. a # b /\ s.says = a /\ t.says = b
        BY <2>2, <3>1
      <3>. QED BY <2>1, <3>2, GroupsAreApart
    <2>. QED BY <1>6, <1>7, <2>2 DEF ThreadsApart
  <1>. HIDE DEF threads
  <1>15. ~prompt.unread /\ ~prompt.review.fragment
         /\ (WhatOf(prompt.cause).kind = "review" => prompt.review.summary)
    BY <1>1, <1>3 DEF StepHolds
  <1>16. SectionSoFar'
    BY <1>6, <1>7, <1>10, <1>13, <1>14, <1>15 DEF SectionSoFar
  <1>17. StepHolds'
    BY <1>1, <1>3, <1>7, <1>8, <1>9, <1>16 DEF StepHolds
  <1>18. BoundaryMovesOnly'
    BY <1>7 DEF BoundaryMovesOnly
  <1>. QED BY <1>2, <1>7, <1>17, <1>18 DEF PromptTracked

\* The threads of rows that are of different comments have nothing in common.
LEMMA RowsApart ==
  ASSUME NEW i \in DOMAIN Occurrences, NEW j \in DOMAIN Occurrences,
         WhatOf(i).comment # NoComment, i # j
  PROVE  ThreadOfRow(i).says \cap ThreadOfRow(j).says = {}
  BY PromptAssumption DEF ThreadOfRow, WhatOf

\* What is completed has all that the history saw, once.
LEMMA FragmentCompleted ==
  ASSUME NEW cause \in DOMAIN Occurrences, NEW rows, rows \subseteq DOMAIN Occurrences
  PROVE  LET all == FragmentOnly(cause, TRUE).threads \cup StoredThreads(rows, cause)
         IN /\ \A s, t \in all : s # t => s.says \cap t.says = {}
            /\ \A i \in rows :
                 /\ WhatOf(i).comment # NoComment
                 /\ WhatOf(cause).review # NoReview /\ WhatOf(i).review = WhatOf(cause).review
                 => \E t \in all : WhatOf(i).comment \in t.says
  <1> DEFINE all == FragmentOnly(cause, TRUE).threads \cup StoredThreads(rows, cause)
             of == {j \in {cause} : WhatOf(j).comment # NoComment}
                   \cup {j \in RestOfReview(rows, cause) : WhatOf(j).comment \notin {NoComment, WhatOf(cause).comment}}
  <1>1. all = {ThreadOfRow(i) : i \in of}
    <2>1. FragmentOnly(cause, TRUE).threads = {ThreadOfRow(i) : i \in {j \in {cause} : WhatOf(j).comment # NoComment}}
      BY DEF FragmentOnly
    <2>. QED BY <2>1 DEF StoredThreads
  <1>2. of \subseteq DOMAIN Occurrences /\ \A i \in of : WhatOf(i).comment # NoComment
    BY DEF RestOfReview
  <1>3. ASSUME NEW s \in all, NEW t \in all, s # t
        PROVE  s.says \cap t.says = {}
    <2>. HIDE DEF of, all
    <2>1. PICK i \in of, j \in of : s = ThreadOfRow(i) /\ t = ThreadOfRow(j)
      BY <1>1
    <2>2. i # j
      BY <1>3, <2>1
    <2>. QED BY <1>2, <2>1, <2>2, RowsApart
  <1>4. ASSUME NEW i \in rows, WhatOf(i).comment # NoComment,
               WhatOf(cause).review # NoReview, WhatOf(i).review = WhatOf(cause).review
        PROVE  \E t \in all : WhatOf(i).comment \in t.says
    <2>1. CASE WhatOf(i).comment = WhatOf(cause).comment
      <3>1. cause \in of
        BY <1>4, <2>1
      <3>2. ThreadOfRow(cause) \in all /\ WhatOf(i).comment \in ThreadOfRow(cause).says
        BY <1>1, <2>1, <3>1 DEF ThreadOfRow
      <3>. QED BY <3>2
    <2>2. CASE WhatOf(i).comment # WhatOf(cause).comment
      <3>1. i \in RestOfReview(rows, cause)
        BY <1>4, <2>2 DEF RestOfReview
      <3>2. i \in of
        BY <1>4, <2>2, <3>1
      <3>3. ThreadOfRow(i) \in all /\ WhatOf(i).comment \in ThreadOfRow(i).says
        BY <1>1, <3>2 DEF ThreadOfRow
      <3>. QED BY <3>3
    <2>. QED BY <2>1, <2>2
  <1>. QED BY <1>3, <1>4

\* What the section is once it is completed: all it needs was read.
Completed ==
  /\ \/ prompt.review.summary
     \/ ~StoredSummary(recorded, prompt.cause) /\ WhatOf(prompt.cause).kind # "review"
  /\ SeenIsSaid /\ ThreadsApart

\* Then the boundary has moved words and lost none.
ReadyToHold ==
  /\ TableHolds /\ HistoryIs /\ prompt.cause \in recorded /\ prompt.event = {Word(prompt.cause)}
  /\ prompt.known /\ ~prompt.unread => Completed

LEMMA BoundaryHolds == ReadyToHold => BoundaryMovesOnly
  <1>. SUFFICES ASSUME TableHolds, HistoryIs, prompt.cause \in recorded,
                       prompt.event = {Word(prompt.cause)},
                       prompt.known /\ ~prompt.unread => Completed
                PROVE  BoundaryMovesOnly
    BY DEF ReadyToHold
  <1>. SUFFICES ASSUME prompt.known, ~prompt.unread
                PROVE  /\ prompt.seen \subseteq prompt.event \cup prompt.history \cup InSection \cup prompt.older
                                                \cup {<<"comment", c>> : c \in prompt.review.resolved}
                       /\ WhatOf(prompt.cause).review # NoReview /\ ReviewSection =>
                            prompt.history \cap InSection \subseteq
                              {<<"comment", c>> : c \in {d \in Comments : ReviewOf[d] # WhatOf(prompt.cause).review}}
                       /\ ThreadsApart
    BY DEF BoundaryMovesOnly, ThreadsApart
  <1>1. PICK before \in SUBSET recorded :
          /\ before \subseteq DOMAIN Occurrences
          /\ prompt.seen = Words(before)
          /\ prompt.history \cup prompt.older = Words(DropCausingReview(before, prompt.cause))
    BY HistoryBeforeReview
  <1>2. Completed
    OBVIOUS
  <1>3. ASSUME NEW w \in prompt.seen, w \notin prompt.event, w \notin prompt.history, w \notin prompt.older
        PROVE  w \in InSection \cup {<<"comment", c>> : c \in prompt.review.resolved}
    <2>1. PICK i \in before : w = Word(i)
      BY <1>1 DEF Words
    <2>2. i \notin DropCausingReview(before, prompt.cause)
      BY <1>1, <1>3, <2>1 DEF Words
    <2>3. /\ WhatOf(prompt.cause).review # NoReview
          /\ WhatOf(i).review = WhatOf(prompt.cause).review
      BY <2>2, LeftOut
    <2>4. i # prompt.cause
      BY <1>3, <2>1
    <2>5. CASE WhatOf(i).comment = NoComment
      <3>1. w = <<"summary", WhatOf(prompt.cause).review>>
        BY <2>1, <2>3, <2>5 DEF Word
      <3>2. StoredSummary(recorded, prompt.cause)
        BY <2>3, <2>4, <2>5 DEF StoredSummary, RestOfReview
      <3>3. prompt.review.summary
        BY <1>2, <3>2 DEF Completed
      <3>. QED BY <3>1, <3>3 DEF InSection
    <2>6. CASE WhatOf(i).comment # NoComment
      <3> DEFINE c == WhatOf(i).comment
      <3>1. c \in Comments /\ ReviewOf[c] = WhatOf(prompt.cause).review /\ w = <<"comment", c>>
        BY <1>1, <2>1, <2>3, <2>6, RowOfComment
      <3>2. c \in Said \cup prompt.review.resolved
        <4>. HIDE DEF c
        <4>. QED BY <1>2, <1>3, <2>3, <3>1 DEF Completed, SeenIsSaid
      <3>. HIDE DEF c
      <3>. QED BY <3>1, <3>2 DEF InSection
    <2>. QED BY <2>5, <2>6
  <1>4. ASSUME WhatOf(prompt.cause).review # NoReview, ReviewSection, NEW w \in prompt.history \cap InSection
        PROVE  \E c \in Comments : ReviewOf[c] # WhatOf(prompt.cause).review /\ w = <<"comment", c>>
    <2>1. PICK i \in DropCausingReview(before, prompt.cause) : w = Word(i)
      BY <1>1, <1>4 DEF Words
    <2>2. i \in DOMAIN Occurrences /\ WhatOf(i).review # WhatOf(prompt.cause).review
      BY <1>1, <1>4 DEF DropCausingReview, ReviewSection
    <2>3. WhatOf(i).comment # NoComment
      <3>. SUFFICES ASSUME WhatOf(i).comment = NoComment PROVE FALSE
        OBVIOUS
      <3>1. w = <<"summary", WhatOf(i).review>>
        BY <2>1 DEF Word
      <3>2. w = <<"summary", WhatOf(prompt.cause).review>> \/ \E c \in Said : w = <<"comment", c>>
        BY <1>4 DEF InSection
      <3>. QED BY <2>2, <3>1, <3>2, WordsDiffer
    <2>4. WhatOf(i).comment \in Comments /\ WhatOf(i).review = ReviewOf[WhatOf(i).comment]
          /\ w = <<"comment", WhatOf(i).comment>>
      BY <2>1, <2>2, <2>3, RowOfComment
    <2>. QED BY <2>2, <2>4
  <1>5. WhatOf(prompt.cause).review # NoReview /\ ReviewSection =>
          prompt.history \cap InSection \subseteq
            {<<"comment", c>> : c \in {d \in Comments : ReviewOf[d] # WhatOf(prompt.cause).review}}
    BY <1>4
  <1>6. ThreadsApart
    BY <1>2 DEF Completed
  <1>. QED BY <1>3, <1>5, <1>6

LEMMA BoundaryHoldsNext == (ReadyToHold => BoundaryMovesOnly)'
  BY BoundaryHolds, PTL

LEMMA TrackedStored ==
  ASSUME PromptTracked, ReadStored
  PROVE  PromptTracked'
  <1>1. /\ UNCHANGED <<happened, recorded, settled, livePages>>
        /\ prompt.step = "stored"
    BY DEF ReadStored, At
  <1>2. TableHolds' /\ TableHolds /\ PRRows = recorded
    BY <1>1, TableStays DEF PromptTracked
  <1>3. PromptShaped /\ StepHolds /\ SectionSoFar /\ prompt.cause \in recorded /\ HistoryIs
    BY <1>1 DEF PromptTracked, StepHolds
  <1> DEFINE needed == prompt.review.fragment \/ ~prompt.review.summary
             whole == CompleteFromStore(prompt.review, recorded, prompt.cause)
  <1>4. PICK read \in BOOLEAN :
          prompt' = [prompt EXCEPT !.step = "files", !.unread = needed /\ ~read,
                       !.review = IF needed /\ read THEN whole ELSE prompt.review]
    BY <1>2, <1>3 DEF ReadStored, PromptShaped
  <1>5. /\ whole = [summary |-> whole.summary, threads |-> whole.threads, resolved |-> whole.resolved,
                    fragment |-> whole.fragment]
        /\ whole.summary = (prompt.review.summary \/ StoredSummary(recorded, prompt.cause))
        /\ whole.threads = IF prompt.review.fragment
                           THEN prompt.review.threads \cup StoredThreads(recorded, prompt.cause)
                           ELSE prompt.review.threads
        /\ whole.resolved = prompt.review.resolved
    <2> DEFINE old == prompt.review
               sum == StoredSummary(recorded, prompt.cause)
               rest == StoredThreads(recorded, prompt.cause)
    <2>1. old = [summary |-> old.summary, threads |-> old.threads,
                 resolved |-> old.resolved, fragment |-> old.fragment]
      BY <1>3 DEF PromptShaped
    <2>2. whole = [old EXCEPT !.summary = @ \/ sum, !.threads = IF old.fragment THEN @ \cup rest ELSE @]
      BY DEF CompleteFromStore
    <2>. HIDE DEF old, sum, rest, whole
    <2>3. whole = [summary |-> old.summary \/ sum,
                   threads |-> IF old.fragment THEN old.threads \cup rest ELSE old.threads,
                   resolved |-> old.resolved, fragment |-> old.fragment]
      BY <2>1, <2>2
    <2>4. /\ whole.summary = (old.summary \/ sum)
          /\ whole.threads = IF old.fragment THEN old.threads \cup rest ELSE old.threads
          /\ whole.resolved = old.resolved /\ whole.fragment = old.fragment
      BY <2>3
    <2>5. whole = [summary |-> whole.summary, threads |-> whole.threads, resolved |-> whole.resolved,
                   fragment |-> whole.fragment]
      BY <2>3, <2>4
    <2>. QED BY <2>4, <2>5 DEF old, sum, rest
  <1> DEFINE r == IF needed /\ read THEN whole ELSE prompt.review
  <1>. HIDE DEF whole
  <1>6. r = [summary |-> r.summary, threads |-> r.threads, resolved |-> r.resolved, fragment |-> r.fragment]
    BY <1>3, <1>5 DEF PromptShaped
  <1>7. /\ PromptShaped' /\ prompt'.step = "files" /\ prompt'.cause = prompt.cause
        /\ prompt'.review = r /\ prompt'.unread = (needed /\ ~read)
        /\ prompt'.event = prompt.event /\ prompt'.history = prompt.history
        /\ prompt'.seen = prompt.seen /\ prompt'.older = prompt.older /\ prompt'.known = prompt.known
    <2> DEFINE un == needed /\ ~read
    <2>1. prompt' = [prompt EXCEPT !.step = "files", !.unread = un, !.review = r]
      BY <1>4
    <2>. HIDE DEF r, un
    <2>2. /\ PromptShaped' /\ prompt'.step = "files" /\ prompt'.cause = prompt.cause
          /\ prompt'.review = r /\ prompt'.unread = un
          /\ prompt'.event = prompt.event /\ prompt'.history = prompt.history
          /\ prompt'.seen = prompt.seen /\ prompt'.older = prompt.older /\ prompt'.known = prompt.known
      BY <1>3, <1>6, <2>1 DEF PromptShaped
    <2>. QED BY <2>2 DEF un
  <1>8. prompt'.event = {Word(prompt.cause)}'
    <2>1. prompt.event = {Word(prompt.cause)}
      BY <1>1, <1>7 DEF PromptTracked, StepHolds
    <2>2. Word(prompt.cause)' = Word(prompt.cause)
      BY <1>1, <1>7 DEF Word, WhatOf
    <2>. QED BY <2>1, <2>2, <1>1, <1>7
  <1>9. HistoryIs'
    <2>1. HistoryIs
      BY <1>1, <1>3, <1>7
    <2>. QED BY <2>1, <1>1, <1>3, <1>7, HistoryStays
  <1>10. recorded \subseteq DOMAIN Occurrences
    BY <1>2, OccurrenceIs DEF TableHolds, Past
  <1>11. ASSUME ~prompt'.unread
         PROVE  Completed'
    <2>1. (needed /\ read /\ r = whole) \/ (~needed /\ r = prompt.review)
      BY <1>7, <1>11
    <2>2. /\ WhatOf(prompt.cause)' = WhatOf(prompt.cause)
          /\ StoredSummary(recorded, prompt.cause)' = StoredSummary(recorded, prompt.cause)
      BY <1>1, <1>7 DEF StoredSummary, RestOfReview, WhatOf
    <2>3. prompt'.review.summary \/ (~StoredSummary(recorded, prompt.cause) /\ WhatOf(prompt.cause).kind # "review")
      <3>1. WhatOf(prompt.cause).kind = "review" => prompt.review.summary
        BY <1>3 DEF SectionSoFar
      <3>. QED BY <1>5, <1>7, <2>1, <3>1
    <2>4. CASE prompt.review.fragment
      <3>1. r = whole
        BY <2>1, <2>4
      <3>2. prompt.review.threads = FragmentOnly(prompt.cause, TRUE).threads
        BY <1>3, <2>4 DEF SectionSoFar
      <3>3. r.threads = FragmentOnly(prompt.cause, TRUE).threads \cup StoredThreads(recorded, prompt.cause)
        BY <1>5, <2>4, <3>1, <3>2
      <3>4. prompt.cause \in DOMAIN Occurrences
        BY <1>3, <1>10
      <3>5. ThreadsApart'
        BY <1>7, <1>10, <3>3, <3>4, FragmentCompleted DEF ThreadsApart
      <3>6. ASSUME NEW c \in Comments, <<"comment", c>> \in prompt.seen,
                   WhatOf(prompt.cause).review # NoReview, ReviewOf[c] = WhatOf(prompt.cause).review
            PROVE  \E t \in r.threads : c \in t.says
        <4>1. PICK before \in SUBSET recorded :
                before \subseteq DOMAIN Occurrences /\ prompt.seen = Words(before)
          BY <1>2, <1>3, HistoryBeforeReview
        <4>2. PICK i \in before : Word(i) = <<"comment", c>>
          BY <3>6, <4>1 DEF Words
        <4>3. i \in recorded /\ i \in DOMAIN Occurrences /\ WhatOf(i).comment = c /\ c # NoComment
          BY <4>1, <4>2, WordOfComment
        <4>4. WhatOf(i).review = WhatOf(prompt.cause).review
          BY <3>6, <4>3, RowOfComment
        <4>. QED BY <1>10, <3>3, <3>4, <3>6, <4>3, <4>4, FragmentCompleted
      <3>7. SeenIsSaid'
        BY <1>7, <2>2, <3>6 DEF SeenIsSaid, Said
      <3>. QED BY <1>7, <2>2, <2>3, <3>5, <3>7 DEF Completed
    <2>5. CASE ~prompt.review.fragment
      <3>1. r.threads = prompt.review.threads /\ r.resolved = prompt.review.resolved
        BY <1>5, <2>1, <2>5
      <3>2. SeenIsSaid /\ ThreadsApart
        BY <1>3, <2>5 DEF SectionSoFar
      <3>. HIDE DEF r
      <3>3. ThreadsApart'
        BY <1>7, <3>1, <3>2 DEF ThreadsApart
      <3>4. SeenIsSaid'
        BY <1>7, <2>2, <3>1, <3>2 DEF SeenIsSaid, Said
      <3>. QED BY <1>7, <2>2, <2>3, <3>3, <3>4 DEF Completed
    <2>. QED BY <2>4, <2>5
  <1>12. prompt'.cause \in recorded'
    BY <1>1, <1>3, <1>7
  <1>13. BoundaryMovesOnly'
    <2>1. ReadyToHold'
      BY <1>2, <1>8, <1>9, <1>11, <1>12 DEF ReadyToHold
    <2>. QED BY <2>1, BoundaryHoldsNext
  <1>14. StepHolds'
    BY <1>7, <1>8, <1>9, <1>12 DEF StepHolds
  <1>. QED BY <1>2, <1>7, <1>13, <1>14 DEF PromptTracked

\* What comes after the section changes nothing before it.
LEMMA TrackedEnd ==
  ASSUME PromptTracked, ListFiles \/ HandOver
  PROVE  PromptTracked'
  <1>1. /\ UNCHANGED <<happened, recorded, settled, livePages>>
        /\ prompt.step \in {"files", "note"}
    BY DEF ListFiles, HandOver, At
  <1>2. TableHolds'
    BY <1>1, TableStays DEF PromptTracked
  <1>3. PromptShaped /\ StepHolds /\ BoundaryMovesOnly
    BY DEF PromptTracked
  <1>4. /\ PromptShaped' /\ prompt'.step \in {"note", "done"} /\ prompt'.cause = prompt.cause
        /\ prompt'.review = prompt.review /\ prompt'.unread = prompt.unread
        /\ prompt'.event = prompt.event /\ prompt'.history = prompt.history
        /\ prompt'.seen = prompt.seen /\ prompt'.older = prompt.older /\ prompt'.known = prompt.known
    BY <1>3 DEF ListFiles, HandOver, PromptShaped
  <1>5. prompt'.event = {Word(prompt.cause)}'
    <2>1. prompt.event = {Word(prompt.cause)}
      BY <1>1, <1>3, <1>4 DEF StepHolds
    <2>2. Word(prompt.cause)' = Word(prompt.cause)
      BY <1>1, <1>3, <1>4 DEF Word, WhatOf
    <2>. QED BY <2>1, <2>2, <1>1, <1>3, <1>4
  <1>6. HistoryIs'
    <2>1. HistoryIs
      BY <1>1, <1>3, <1>4 DEF StepHolds
    <2>. QED BY <2>1, <1>1, <1>3, <1>4, HistoryStays
  <1>7. StepHolds'
    BY <1>1, <1>3, <1>4, <1>5, <1>6 DEF StepHolds
  <1>8. BoundaryMovesOnly'
    BY <1>1, <1>3, <1>4 DEF BoundaryMovesOnly, InSection, Said, ReviewSection, WhatOf
  <1>. QED BY <1>2, <1>4, <1>7, <1>8 DEF PromptTracked

\* Every prompt that is put together, whatever happens on its pull request meanwhile and whichever
\* reads fail, has what its history left out in its section (completeFromStore), once; and what
\* the preview of an agent's context shows is what its runs get first (PreviewContext).
THEOREM PromptIsWhole == PromptSpec => []PromptInv
  <1>1. PromptInit => PromptTracked
    BY TrackedInit
  <1>2. PromptTracked /\ [PromptNext]_promptVars => PromptTracked'
    <2>. SUFFICES ASSUME PromptTracked, [PromptNext]_promptVars
                  PROVE  PromptTracked'
      OBVIOUS
    <2>1. CASE UNCHANGED promptVars
      <3>1. UNCHANGED <<happened, recorded, settled, livePages>> /\ prompt' = prompt
        BY <2>1 DEF promptVars
      <3>2. TableHolds'
        BY <3>1, TableStays DEF PromptTracked
      <3>3. PromptShaped' /\ BoundaryMovesOnly'
        BY <3>1 DEF PromptTracked, PromptShaped, BoundaryMovesOnly, InSection, Said, ReviewSection, WhatOf
      <3>4. HistoryIs' = HistoryIs /\ SectionSoFar' = SectionSoFar
        BY <3>1 DEF HistoryIs, Words, Word, DropCausingReview, WhatOf, SectionSoFar, ReviewSection,
                    FragmentOnly, ThreadOfRow, SeenIsSaid, ThreadsApart, Said
      <3>5. StepHolds'
        BY <3>1, <3>4 DEF PromptTracked, StepHolds, ReviewSection, Word, WhatOf, NoSection
      <3>. QED BY <3>2, <3>3, <3>5 DEF PromptTracked
    <2>2. CASE \/ Happen
               \/ \E i \in DOMAIN Occurrences : RecordRow(i)
               \/ \E t \in Comments : Settle(t)
               \/ \E p \in ToSet(Tree) : EditPage(p)
      BY <2>2, TrackedMeanwhile
    <2>3. CASE \/ \E i \in DOMAIN Occurrences : Assemble(i)
               \/ ReadCause \/ ReadPages \/ ReadEvent \/ ReadTicket \/ ReadFails
      BY <2>3, TrackedReading
    <2>4. CASE ReadHistory
      BY <2>4, TrackedHistory
    <2>5. CASE SkipReview
      BY <2>5, TrackedSkip
    <2>6. CASE NoForge \/ ThreadsFail
      BY <2>6, TrackedFragment
    <2>7. CASE ReadSummary
      BY <2>7, TrackedSummary
    <2>8. CASE ReadThreads
      BY <2>8, TrackedThreads
    <2>9. CASE ReadStored
      BY <2>9, TrackedStored
    <2>10. CASE ListFiles \/ HandOver
      BY <2>10, TrackedEnd
    <2>. QED BY <2>1, <2>2, <2>3, <2>4, <2>5, <2>6, <2>7, <2>8, <2>9, <2>10 DEF PromptNext
  <1>3. PromptTracked => PromptInv
    BY PreviewHolds DEF PromptTracked, TableHolds, PromptInv
  <1>. QED BY <1>1, <1>2, <1>3, PTL DEF PromptSpec
==============================================================================
