------------------------------ MODULE Scheduler ------------------------------
(***************************************************************************)
(* The run scheduler over all runs of a workspace: enqueueing, the single  *)
(* admission goroutine with its four checks, the supervisors that hold the *)
(* slots, stop requests, and crash recovery.  What one supervisor does in  *)
(* detail is module Supervisor; here a supervisor is a stage.              *)
(*                                                                         *)
(* The admission ticker may start a pass at any moment, so the wake        *)
(* channel, which only shortens the wait, is not a variable.  Store reads  *)
(* and writes succeed.                                                     *)
(***************************************************************************)
EXTENDS RunStates, Integers, FiniteSets, FiniteSetsExt

CONSTANTS
  MaxRuns,        \* bound: how many run rows are ever created
  Agents,
  NoAgent,        \* the agent of a row not yet created
  Tickets,
  NoTicket,       \* a free-floating run
  AgentCap,       \* agents.concurrency_cap, 0 for none
  GlobalCap,      \* workspace max_concurrent_containers, 0 for none
  RunningColumns, \* the board's running-category columns
  OtherColumns,   \* every other column
  FirstRunning,   \* the running-category column of least position
  ReviewColumn,   \* the one review-category column, for a ticket with an open pull request
  InitialBoards,  \* where the tickets may be when the workspace is first looked at
  NoColumn,       \* an admission that moves no ticket
  WIPLimit,       \* columns.wip_limit of the running columns, 0 for none
  DailyBudget,    \* the project's daily budget, 0 for none
  DailyCap,       \* agents.daily_cap_cents, 0 for none
  MaxSpend,       \* bound: units of money spent per day
  MaxDrags,       \* bound: tickets moved by hand
  MaxCrashes      \* bound: restarts of the process

ASSUME SchedulerConstants ==
  /\ MaxRuns \in Nat /\ GlobalCap \in Nat /\ DailyBudget \in Nat
  /\ MaxSpend \in Nat /\ MaxDrags \in Nat /\ MaxCrashes \in Nat
  /\ AgentCap \in [Agents -> Nat] /\ DailyCap \in [Agents -> Nat]
  /\ WIPLimit \in [RunningColumns -> Nat]
  /\ FirstRunning \in RunningColumns /\ ReviewColumn \in OtherColumns
  /\ InitialBoards \subseteq [Tickets -> RunningColumns \cup OtherColumns]
  /\ RunningColumns \cap OtherColumns = {}
  /\ IsFiniteSet(Tickets)
  /\ NoAgent \notin Agents /\ NoTicket \notin Tickets /\ NoColumn \notin RunningColumns

Runs    == 1..MaxRuns
Columns == RunningColumns \cup OtherColumns

VARIABLES
  state,      \* runs.state, "absent" before the row exists
  agent,      \* runs.agent_id
  ticket,     \* runs.ticket_id
  hold,       \* runs.hold_reason: which limit holds a queued run, "none" when empty
  created,    \* rows created so far; ids follow (queued_at, seq)
  column,     \* tickets.column_id
  spent,      \* the day's spend per agent
  sup,        \* the supervisors map: what stage a run's supervisor is in
  stopSet,    \* supervisors that were asked to stop
  inst,       \* runs whose container is alive and recorded on the row
  canceling,  \* StopRun calls that found no supervisor and have yet to cancel
  phase,      \* "up", "down" or "reconciling"
  toReconcile,
  pc,         \* the admission goroutine
  todo,       \* the queued runs the pass has yet to look at
  byAgent, global,
  columnTicket, counted,  \* admitCounters; counted is the key set of columnTicket
  dest,       \* the running column of the run about to be admitted
  drags, crashes

rowVars     == <<state, agent, ticket, hold, created>>
boardVars   == <<column, drags>>
supVars     == <<sup, stopSet, inst, canceling>>
processVars == <<phase, toReconcile, crashes>>
passVars    == <<pc, todo, byAgent, global, columnTicket, counted, dest>>
vars == <<rowVars, boardVars, spent, supVars, processVars, passVars>>

Stage == {"none", "provisioning", "prepared", "moving", "pumping"}

ActiveRuns      == {r \in Runs : state[r] \in Active}
ActiveOf(a)     == {r \in ActiveRuns : agent[r] = a}
TicketsIn(c)    == {t \in Tickets : column[t] = c}
ProjectSpent    == MapThenSumSet(LAMBDA a : spent[a], Agents)
QueuedRuns      == {r \in Runs : state[r] = "queued"}

CurrentNewest(r) == r \in todo /\ \A q \in todo : r >= q

\* The run the pass looks at next: the oldest it has left.
Current(r) == r \in todo /\ \A q \in todo : r <= q

ZeroCounters ==
  /\ byAgent' = [a \in Agents |-> 0]
  /\ global' = 0
  /\ columnTicket' = [c \in RunningColumns |-> 0] /\ counted' = {}
  /\ dest' = NoColumn

Init ==
  /\ state = [r \in Runs |-> "absent"]
  /\ agent = [r \in Runs |-> NoAgent] /\ ticket = [r \in Runs |-> NoTicket]
  /\ hold = [r \in Runs |-> "none"]
  /\ created = 0
  /\ column \in InitialBoards
  /\ spent = [a \in Agents |-> 0]
  /\ sup = [r \in Runs |-> "none"]
  /\ stopSet = {} /\ inst = {} /\ canceling = {}
  /\ phase = "up" /\ toReconcile = {}
  /\ pc = "idle" /\ todo = {}
  /\ byAgent = [a \in Agents |-> 0] /\ global = 0
  /\ columnTicket = [c \in RunningColumns |-> 0] /\ counted = {}
  /\ dest = NoColumn
  /\ drags = 0 /\ crashes = 0

------------------------------------------------------------------------------
(* Requests.  Triggers are live before reconciliation is over, the HTTP API only after. *)

\* StopRun: nothing for a terminal run; a live supervisor is told to stop; without one
\* the caller goes on to cancel the row itself.
StopRunEffect(r) ==
  /\ stopSet' = IF r # 0 /\ state[r] \notin Terminal /\ sup[r] # "none"
                THEN stopSet \cup {r} ELSE stopSet
  /\ canceling' = IF r # 0 /\ state[r] \notin Terminal /\ sup[r] = "none"
                  THEN canceling \cup {r} ELSE canceling

\* A new queued row; when the guard elected a run to supersede, that run is stopped.
Enqueue(a, t, superseded) ==
  /\ phase # "down" /\ created < MaxRuns
  /\ superseded # 0 => state[superseded] \notin Terminal \cup {"absent"}
  /\ created' = created + 1
  /\ state' = [state EXCEPT ![created + 1] = "queued"]
  /\ agent' = [agent EXCEPT ![created + 1] = a]
  /\ ticket' = [ticket EXCEPT ![created + 1] = t]
  /\ StopRunEffect(superseded)
  /\ UNCHANGED <<hold, boardVars, spent, sup, inst, processVars, passVars>>

\* A run the loop guard refused: created terminal, never queued.
EnqueueLoopStopped(a) ==
  /\ phase # "down" /\ created < MaxRuns
  /\ created' = created + 1
  /\ state' = [state EXCEPT ![created + 1] = "loop_stopped"]
  /\ agent' = [agent EXCEPT ![created + 1] = a]
  /\ UNCHANGED <<ticket, hold, boardVars, spent, supVars, processVars, passVars>>

StopRun(r) ==
  /\ phase = "up" /\ r \in 1..created /\ state[r] \notin Terminal
  /\ StopRunEffect(r)
  /\ UNCHANGED <<rowVars, boardVars, spent, sup, inst, processVars, passVars>>

\* The rest of a StopRun call that saw no supervisor.
CancelDirect(r) ==
  /\ phase # "down" /\ r \in canceling
  /\ state' = [state EXCEPT ![r] = AfterTransition(@, "canceled")]
  /\ canceling' = canceling \ {r}
  /\ UNCHANGED <<agent, ticket, hold, created, boardVars, spent, sup, stopSet, inst,
                 processVars, passVars>>

\* The elicitation seam: the agent's question parks its run, a human's answer resumes
\* it, supervisor or none.
Park(r, to) ==
  /\ phase = "up" /\ sup[r] = "pumping" /\ to \in Parked
  /\ transitionLegal(state[r], to)
  /\ state' = [state EXCEPT ![r] = to]
  /\ UNCHANGED <<agent, ticket, hold, created, boardVars, spent, supVars, processVars,
                 passVars>>

Resume(r) ==
  /\ phase = "up" /\ state[r] \in Parked
  /\ state' = [state EXCEPT ![r] = "running"]
  /\ UNCHANGED <<agent, ticket, hold, created, boardVars, spent, supVars, processVars,
                 passVars>>

\* A ticket dragged by hand: no column refuses it.
Drag(t, c) ==
  /\ phase = "up" /\ drags < MaxDrags /\ column[t] # c
  /\ column' = [column EXCEPT ![t] = c]
  /\ drags' = drags + 1
  /\ UNCHANGED <<rowVars, spent, supVars, processVars, passVars>>

Usage(r) ==
  /\ sup[r] = "pumping" /\ ProjectSpent < MaxSpend
  /\ spent' = [spent EXCEPT ![agent[r]] = @ + 1]
  /\ UNCHANGED <<rowVars, boardVars, supVars, processVars, passVars>>

\* Budgets are kept per UTC day.
NewDay ==
  /\ ProjectSpent > 0
  /\ spent' = [a \in Agents |-> 0]
  /\ UNCHANGED <<rowVars, boardVars, supVars, processVars, passVars>>

------------------------------------------------------------------------------
(* The admission goroutine.  Each read of admitPass is a step of its own. *)

PassBegin ==
  /\ phase = "up" /\ pc = "idle" /\ QueuedRuns # {}
  /\ todo' = QueuedRuns
  /\ pc' = "byAgent"
  /\ UNCHANGED <<rowVars, boardVars, spent, supVars, processVars, byAgent, global,
                 columnTicket, counted, dest>>

ReadByAgent ==
  /\ phase = "up" /\ pc = "byAgent"
  /\ byAgent' = [a \in Agents |-> Cardinality(ActiveOf(a))]
  /\ pc' = "global"
  /\ UNCHANGED <<rowVars, boardVars, spent, supVars, processVars, todo, global,
                 columnTicket, counted, dest>>

ReadGlobal ==
  /\ phase = "up" /\ pc = "global"
  /\ global' = Cardinality(ActiveRuns)
  /\ pc' = "next"
  /\ UNCHANGED <<rowVars, boardVars, spent, supVars, processVars, todo, byAgent,
                 columnTicket, counted, dest>>

PassEnd ==
  /\ phase = "up" /\ pc = "next" /\ todo = {}
  /\ pc' = "idle"
  /\ ZeroCounters
  /\ UNCHANGED <<rowVars, boardVars, spent, supVars, processVars, todo>>

AtAgentCap(a) == AgentCap[a] > 0 /\ byAgent[a] >= AgentCap[a]
AtGlobalCap   == GlobalCap > 0 /\ global >= GlobalCap
OverBudget(a) == \/ DailyBudget > 0 /\ ProjectSpent >= DailyBudget
                 \/ DailyCap[a] > 0 /\ spent[a] >= DailyCap[a]

\* The ticket's own column when it is already a running one, else the first of them.
WipDest(t) == IF t = NoTicket THEN NoColumn
              ELSE IF column[t] \in RunningColumns THEN column[t] ELSE FirstRunning

\* The limit is looked at only for a ticket that would enter the column, and the
\* column's tickets are counted once per pass.
WipLimited(t) ==
  t # NoTicket /\ WipDest(t) # column[t] /\ WIPLimit[WipDest(t)] > 0

TicketCount(c) == IF c \in counted THEN columnTicket[c] ELSE Cardinality(TicketsIn(c))

AtWipLimit(t) == WipLimited(t) /\ TicketCount(WipDest(t)) >= WIPLimit[WipDest(t)]

RememberCount(t) ==
  IF WipLimited(t)
  THEN /\ columnTicket' = [columnTicket EXCEPT ![WipDest(t)] = TicketCount(WipDest(t))]
       /\ counted' = counted \cup {WipDest(t)}
  ELSE UNCHANGED <<columnTicket, counted>>

\* The hold reason is written only while the row is still queued.
SetHoldReason(r, reason) ==
  hold' = IF state[r] = "queued" THEN [hold EXCEPT ![r] = reason] ELSE hold

\* admitOne's verdict on the run at the head of the pass: the first limit that is
\* reached holds it, an exhausted budget ends it, otherwise it is about to be admitted.
AdmitHold(r, reason) ==
  /\ phase = "up" /\ pc = "next" /\ Current(r)
  /\ \/ reason = "agent" /\ AtAgentCap(agent[r]) /\ UNCHANGED <<columnTicket, counted>>
     \/ /\ reason = "wip" /\ ~AtAgentCap(agent[r]) /\ AtWipLimit(ticket[r])
        /\ RememberCount(ticket[r])
     \/ /\ reason = "global" /\ ~AtAgentCap(agent[r]) /\ ~AtWipLimit(ticket[r])
        /\ AtGlobalCap
        /\ RememberCount(ticket[r])
  /\ SetHoldReason(r, reason)
  /\ todo' = todo \ {r}
  /\ UNCHANGED <<state, agent, ticket, created, boardVars, spent, supVars, processVars,
                 pc, byAgent, global, dest>>

PassesLimits(r) ==
  ~AtAgentCap(agent[r]) /\ ~AtWipLimit(ticket[r]) /\ ~AtGlobalCap

AdmitFail(r) ==
  /\ phase = "up" /\ pc = "next" /\ Current(r)
  /\ PassesLimits(r) /\ OverBudget(agent[r])
  /\ state' = [state EXCEPT ![r] = AfterTransition(@, "failed")]
  /\ RememberCount(ticket[r])
  /\ todo' = todo \ {r}
  /\ UNCHANGED <<agent, ticket, hold, created, boardVars, spent, supVars, processVars,
                 pc, byAgent, global, dest>>

AdmitPass(r) ==
  /\ phase = "up" /\ pc = "next" /\ Current(r)
  /\ PassesLimits(r) /\ ~OverBudget(agent[r])
  /\ RememberCount(ticket[r])
  /\ dest' = WipDest(ticket[r])
  /\ pc' = "commit"
  /\ UNCHANGED <<rowVars, boardVars, spent, supVars, processVars, todo, byAgent, global>>

OccupyGlobalOnly(a) == global' = global + 1 /\ UNCHANGED byAgent

Occupy(a) ==
  /\ byAgent' = [byAgent EXCEPT ![a] = @ + 1]
  /\ global' = global + 1

\* The transition to provisioning.  A run that was canceled since the pass read it is
\* skipped; an admitted one occupies the pass's counters.
AdmitCommit(r) ==
  /\ phase = "up" /\ pc = "commit" /\ Current(r)
  /\ IF TransitionRefused(state[r], "provisioning")
     THEN /\ pc' = "next" /\ todo' = todo \ {r}
          /\ UNCHANGED <<state, hold, byAgent, global, columnTicket, counted>>
     ELSE /\ pc' = "start" /\ UNCHANGED todo
          /\ state' = [state EXCEPT ![r] = "provisioning"]
          /\ hold' = [hold EXCEPT ![r] = "none"]
          /\ Occupy(agent[r])
          /\ IF dest = NoColumn THEN UNCHANGED <<columnTicket, counted>>
             ELSE /\ columnTicket' = [columnTicket EXCEPT ![dest] = @ + 1]
                  /\ counted' = counted \cup {dest}
  /\ dest' = NoColumn
  /\ UNCHANGED <<agent, ticket, created, boardVars, spent, supVars, processVars>>

\* startSupervisor: at most one per run.
StartSupervisor(r) ==
  /\ phase = "up" /\ pc = "start" /\ Current(r)
  /\ sup' = [sup EXCEPT ![r] = IF @ = "none" THEN "provisioning" ELSE @]
  /\ pc' = "next" /\ todo' = todo \ {r}
  /\ UNCHANGED <<rowVars, boardVars, spent, stopSet, inst, canceling, processVars, byAgent,
                 global, columnTicket, counted, dest>>

------------------------------------------------------------------------------
(* Supervisors. *)

\* The container is up and its reference is on the row.
Prepared(r) ==
  /\ sup[r] = "provisioning"
  /\ inst' = inst \cup {r}
  /\ sup' = [sup EXCEPT ![r] = "prepared"]
  /\ UNCHANGED <<rowVars, boardVars, spent, stopSet, canceling, processVars, passVars>>

StartRunning(r) ==
  /\ sup[r] = "prepared" /\ ~TransitionRefused(state[r], "running")
  /\ state' = [state EXCEPT ![r] = "running"]
  /\ sup' = [sup EXCEPT ![r] = "moving"]
  /\ UNCHANGED <<agent, ticket, hold, created, boardVars, spent, stopSet, inst, canceling,
                 processVars, passVars>>

\* MoveTicketToCategory: to the end of the first column of the category, unless the
\* ticket is already in one; no limit is consulted.
MovedTo(c, t) == IF t = NoTicket THEN column ELSE [column EXCEPT ![t] = c]

MoveToRunning(r) ==
  LET t == ticket[r] IN
  /\ sup[r] = "moving"
  /\ column' = IF t # NoTicket /\ column[t] \notin RunningColumns
               THEN MovedTo(FirstRunning, t) ELSE column
  /\ sup' = [sup EXCEPT ![r] = "pumping"]
  /\ UNCHANGED <<rowVars, drags, spent, stopSet, inst, canceling, processVars, passVars>>

\* What a supervised run may end as.  It may always fail; a requested stop cancels it and
\* rules out completion; a wall clock runs only once the agent does.
Outcomes(r) ==
  {"failed"} \cup (IF r \in stopSet THEN {"canceled"} ELSE {})
             \cup (IF sup[r] = "pumping" THEN {"timed_out"} ELSE {})
             \cup (IF sup[r] = "pumping" /\ r \notin stopSet THEN {"completed"} ELSE {})

\* finish: teardown, terminal transition, and the ticket follows a pull request.
Finish(r, kind, pr) ==
  LET t == ticket[r] IN
  /\ sup[r] \in {"provisioning", "prepared", "pumping"} /\ kind \in Outcomes(r)
  /\ sup[r] = "prepared" => TransitionRefused(state[r], "running")
  /\ state' = [state EXCEPT ![r] = AfterTransition(@, kind)]
  /\ column' = IF kind = "completed" /\ pr /\ t # NoTicket
               THEN MovedTo(ReviewColumn, t) ELSE column
  /\ sup' = [sup EXCEPT ![r] = "none"]
  /\ stopSet' = stopSet \ {r} /\ inst' = inst \ {r}
  /\ UNCHANGED <<agent, ticket, hold, created, drags, spent, canceling, processVars,
                 passVars>>

------------------------------------------------------------------------------
(* The process stops, cleanly or not: goroutines and maps are gone, rows and the      *)
(* containers that survive remain.                                                    *)

Crash(survivors) ==
  /\ phase # "down" /\ crashes < MaxCrashes /\ survivors \subseteq inst
  /\ crashes' = crashes + 1
  /\ phase' = "down" /\ toReconcile' = {}
  /\ sup' = [r \in Runs |-> "none"]
  /\ stopSet' = {} /\ canceling' = {} /\ inst' = survivors
  /\ pc' = "idle" /\ todo' = {} /\ ZeroCounters
  /\ UNCHANGED <<rowVars, boardVars, spent>>

BootSkipsProvisioning ==
  /\ phase = "down"
  /\ phase' = "reconciling"
  /\ toReconcile' = {r \in ActiveRuns : state[r] # "provisioning"}
  /\ UNCHANGED <<rowVars, boardVars, spent, supVars, crashes, passVars>>

Boot ==
  /\ phase = "down"
  /\ phase' = "reconciling" /\ toReconcile' = ActiveRuns
  /\ UNCHANGED <<rowVars, boardVars, spent, supVars, crashes, passVars>>

\* A surviving container is supervised again, a provisioning row first moves to running;
\* without one, a parked row is left alone and any other fails.
ReconcileOne(r) ==
  /\ phase = "reconciling" /\ r \in toReconcile
  /\ toReconcile' = toReconcile \ {r}
  /\ IF r \in inst
     THEN /\ state' = [state EXCEPT ![r] = IF @ = "provisioning" THEN "running" ELSE @]
          /\ sup' = [sup EXCEPT ![r] = "pumping"]
     ELSE /\ state' = [state EXCEPT ![r] = IF @ \in Parked THEN @
                                            ELSE AfterTransition(@, "failed")]
          /\ UNCHANGED sup
  /\ UNCHANGED <<agent, ticket, hold, created, boardVars, spent, stopSet, inst, canceling,
                 phase, crashes, passVars>>

AdmissionStarts ==
  /\ phase = "reconciling" /\ toReconcile = {}
  /\ phase' = "up"
  /\ UNCHANGED <<rowVars, boardVars, spent, supVars, toReconcile, crashes, passVars>>

------------------------------------------------------------------------------
Request ==
  \/ \E a \in Agents, t \in Tickets \cup {NoTicket}, s \in Runs \cup {0} :
        Enqueue(a, t, s)
  \/ \E a \in Agents : EnqueueLoopStopped(a)
  \/ \E r \in Runs : StopRun(r) \/ Resume(r)
  \/ \E r \in Runs, to \in Parked : Park(r, to)
  \/ \E t \in Tickets, c \in Columns : Drag(t, c)
  \/ \E r \in Runs : Usage(r)
  \/ NewDay

Admission ==
  \/ PassBegin \/ ReadByAgent \/ ReadGlobal \/ PassEnd
  \/ \E r \in Runs, reason \in {"agent", "wip", "global"} : AdmitHold(r, reason)
  \/ \E r \in Runs : AdmitFail(r) \/ AdmitPass(r) \/ AdmitCommit(r) \/ StartSupervisor(r)

Supervision(r) ==
  \/ Prepared(r) \/ StartRunning(r) \/ MoveToRunning(r)
  \/ \E kind \in Terminal, pr \in BOOLEAN : Finish(r, kind, pr)

Process ==
  \/ \E survivors \in SUBSET inst : Crash(survivors)
  \/ Boot
  \/ \E r \in Runs : ReconcileOne(r)
  \/ AdmissionStarts

Next == Request \/ Admission \/ (\E r \in Runs : Supervision(r) \/ CancelDirect(r)) \/ Process

Spec == Init /\ [][Next]_vars

\* The admission ticker never stops, goroutines run, StopRun calls return, a process
\* that died is started again, and a session that is not waiting on a human ends (its
\* wall clock sees to that).  Nothing obliges a human to answer.
Fairness ==
  /\ WF_vars(Admission)
  /\ WF_vars(Boot \/ AdmissionStarts) /\ \A r \in Runs : WF_vars(ReconcileOne(r))
  /\ \A r \in Runs : WF_vars(CancelDirect(r))
  /\ \A r \in Runs : WF_vars(state[r] \notin Parked /\ Supervision(r))

FairSpec == Spec /\ Fairness

------------------------------------------------------------------------------
(* Properties. *)

RowsTyped ==
  /\ state \in [Runs -> RunState \cup {"absent"}]
  /\ agent \in [Runs -> Agents \cup {NoAgent}]
  /\ ticket \in [Runs -> Tickets \cup {NoTicket}]
  /\ hold \in [Runs -> {"none", "agent", "wip", "global"}]
  /\ created \in 0..MaxRuns

BoardTyped ==
  /\ column \in [Tickets -> Columns] /\ spent \in [Agents -> Nat]
  /\ drags \in 0..MaxDrags

SupervisionTyped ==
  /\ sup \in [Runs -> Stage]
  /\ stopSet \subseteq Runs /\ inst \subseteq Runs /\ canceling \subseteq Runs
  /\ phase \in {"up", "down", "reconciling"} /\ toReconcile \subseteq Runs
  /\ crashes \in 0..MaxCrashes

PassTyped ==
  /\ pc \in {"idle", "byAgent", "global", "next", "commit", "start"}
  /\ todo \subseteq Runs
  /\ byAgent \in [Agents -> Nat] /\ global \in Nat
  /\ columnTicket \in [RunningColumns -> Nat] /\ counted \subseteq RunningColumns
  /\ dest \in RunningColumns \cup {NoColumn}

TypeOK == RowsTyped /\ BoardTyped /\ SupervisionTyped /\ PassTyped

\* The concurrency cap of an agent and the workspace's container cap are never exceeded,
\* although admitPass counts once per pass and lets other goroutines free slots, stop
\* runs and enqueue between its reads and its writes.
CapsRespected ==
  /\ \A a \in Agents : AgentCap[a] > 0 => Cardinality(ActiveOf(a)) <= AgentCap[a]
  /\ GlobalCap > 0 => Cardinality(ActiveRuns) <= GlobalCap

\* Why CapsRespected is inductive.  Rows: ids are handed out in order and everything that
\* names a run names a created one.
RowsInOrder ==
  /\ \A r \in Runs : r > created => state[r] = "absent"
  /\ \A r \in Runs : r <= created => state[r] \in RunState /\ agent[r] \in Agents
  /\ \A r \in Runs : sup[r] # "none" => r <= created
  /\ \A r \in todo \cup canceling \cup toReconcile : r <= created

\* Counters: from the moment a pass has read a count until it ends, the count is at least
\* the truth, and between check and commit there is still room for the current run.
CountersCover ==
  /\ pc \in {"global", "next", "commit", "start"} =>
       \A a \in Agents : Cardinality(ActiveOf(a)) <= byAgent[a]
  /\ pc \in {"next", "commit", "start"} => Cardinality(ActiveRuns) <= global
  /\ pc = "commit" =>
       \A r \in Runs : Current(r) => ~AtAgentCap(agent[r]) /\ ~AtGlobalCap

CapsInv == TypeOK /\ RowsInOrder /\ CountersCover /\ CapsRespected

\* A terminal row never changes state again, whatever stop, finish or admission still
\* holds a stale view of it (transition re-checks the table against the row).
TerminalIsFinal ==
  [][\A r \in Runs : state[r] \in Terminal => state'[r] = state[r]]_vars

\* Of two runs of one agent the older is still queued when the younger is admitted only
\* because its own ticket is held at a WIP limit: the pass walks the queue oldest first,
\* its counters only grow, and what was enqueued or freed meanwhile waits for the next.
NoOvertaking ==
  [][\A old, new \in Runs :
       /\ old < new /\ agent[old] = agent[new]
       /\ state[new] = "queued" /\ state'[new] = "provisioning"
       /\ state[old] = "queued"
       => ticket[old] # NoTicket /\ hold[old] = "wip"]_vars

\* Every queued run is eventually admitted or ended unless a run keeps a slot that no
\* supervisor will end on its own: one parked on a human, or one that a human's answer
\* set running after its container was lost.
QueueDrains ==
  \A r \in Runs :
    state[r] = "queued" ~>
      \/ state[r] # "queued"
      \/ \E q \in ActiveRuns : state[q] \in Parked \/ (state[q] = "running" /\ sup[q] = "none")

\* Doc: the running column's limit is enforcing.  The scheduler never moves a ticket into
\* a column that is at its WIP limit.
WipEnforced ==
  [][\A c \in RunningColumns :
       WIPLimit[c] > 0 /\ ~(TicketsIn(c)' \subseteq TicketsIn(c)) /\ drags' = drags
       => Cardinality(TicketsIn(c)) < WIPLimit[c]]_vars

\* Doc: after a restart an answered question resumes its run.  A running row always has
\* a supervisor behind it (reconciliation apart).
RunningIsSupervised ==
  phase = "up" => \A r \in Runs : state[r] = "running" => sup[r] # "none"

==============================================================================
