# Formal models of lexicode

TLA+ models of lexicode: the program that turns a ticket, a trigger or a click into
an agent run in a container, keeps it within its limits, lets it ask a human, carries
its work to the forge, and survives its own restarts. Every definition is translated
from the Go source under `src/`; `PROJECT.json` maps each one to its lines, and lists
the components, the hazards of the code with the properties that are about them, the
runs, the mutants and the theorems.

## 1. The system

lexicode is one Go process over one SQLite file (WAL; one writer connection, so
every statement is atomic and statements of different goroutines interleave). The
parts that keep state or run concurrently:

| part | source | state | operations | talks to |
|---|---|---|---|---|
| run state machine | `kernel/sched/states.go`, `kernel/store/runstate.go` | `runs.state` | `transition` (compare-and-set loop), `SetRunState` | everyone that ends, parks or resumes a run |
| admission | `kernel/sched/admission.go`, `scheduler.go` | one pass's counters | `Enqueue`, `EnqueueLoopStopped`, `admitPass` every 2 s or on `Wake` | store, supervisors, board |
| supervisors | `kernel/sched/supervisor.go`, `sink.go`, `preserve.go` | one struct and goroutine per live run: stop request, handle, parked clock | provision, launch, select loop, `finish`; `StopRun`, `TakeoverRun`, `NotifySteering` | sandbox, runtime, token registry, forge |
| reconciliation | `kernel/sched/reconcile.go` | none | `reconcileOne` per row found active at boot | sandbox, token registry |
| MCP server, elicitations | `service/mcp` | token registry, waiters map, `elicitations` rows | `ask_human`, `request_approval`, `submit_review`, `Resolve`, `await`, expiry | agents (over HTTP), humans, `SetRunState`, forge |
| runs service | `service/runs` | `runs`, branches, pull requests | stop, takeover, acknowledge, create, inbox; branch, push, pull request, prompt | scheduler, forge, sandbox |
| event bus | `kernel/bus` | `events` and `event_deliveries` rows, one queue per subscriber | `Publish`, `Emit`, `dispatch`, recovery in `Start`, `Stop` | trigger engine, notifier, SSE hub |
| trigger engine, loop guard, rules | `service/triggers`, `kernel/guard` | work queue, firings, the cause chain, rule rows | `handle`, `process`, `fire`, `Evaluate` (five layers), patch | bus, scheduler |
| agent runtime, steering | `module/claudecode`, `run_messages` | a session, queued messages | launch, stop with grace period, wait, stream parsing, `Steer` | supervisors |
| sandbox, egress proxy | `module/docker` | containers, networks, proxy registry | prepare, reattach, destroy, hourly sweep; authenticate, decide, tunnel | supervisors |
| forge poller and adapter | `module/github` | poll cursors, budget, health | five passes a tick; reviews, pull requests, threads | bus, forge |
| cron | `module/cron` | cursor per rule | scan at start and each minute | bus |
| SSE hub | `kernel/httpx/sse.go` | ring buffer, clients | publish, replay, drop slow clients | bus, browsers |
| board, tickets, triage, wiki, notifications, agents, projects, secrets, accounts, import | `service/*`, `kernel/auth`, `kernel/secrets` | their tables | requests that read, decide and write | store, bus |
| process | `cmd/lexicode/serve.go`, `kernel/module.go`, `registry.go` | what is started | boot order, degraded modules, shutdown shares | all |
| web client | `web/` | browser cache | reducers over SSE frames | HTTP API |

What is hard here: admission decides on counts it read earlier; a run is touched by
its supervisor, by stop requests, by the elicitation seam, by the sweeper and by
reconciliation, with no lock across two of their steps; a stop may arrive before
there is anything to stop; one context is cancelled for two different reasons; a
human's answer, the call's expiry, the client's hang-up and the end of the run race
for one row; most services read a row, decide, and write the whole row back in a
later transaction; the forge goes on while it is read; the process may die between
any two writes and containers may or may not survive it.

What makes the main components correct, in a sentence each:

- **admission**: no cap is exceeded whatever is enqueued, stopped, parked or finished
  while a pass runs; the oldest run of an agent goes first; what waits is admitted
  once there is room; a terminal row stays as it is.
- **supervision**: nothing live is left without a supervisor; a stop reaches the
  session, and ends the run, whenever it comes; what ended is torn down.
- **elicitations**: one human decides; no answer is lost on a call that waits; what is
  resolved stays resolved.
- **bus**: an accepted event reaches every matching subscriber at least once, at most
  once per process, and is recorded done only after all of them handled it.
- **trigger engine**: an event is evaluated once per trigger however often it is
  delivered, and evaluated by all of its triggers.
- **loop guard**: agents that set each other off stop at the depth limit; a burst, or
  one review, starts one run; one run of a rule is current on a subject.
- **work of a run**: what a run says it pushed is on the remote, and no work is lost
  without a word.
- **forge**: news is told once and in order, old activity stays quiet, a review is
  posted at most once per tool call.
- **egress**: a token opens the network for the run that holds it now, and whatever
  is let through is visible on that run.
- **services**: rows that requests write whole, from what they read before, still fit
  each other: boards keep their columns, histories have no gaps, nobody uninvited is a
  member, a process that is up can open its secrets.

## 2. Modules

Core:

| module | models | notes |
|---|---|---|
| `RunStates` | the states and `legalTransitions` of `states.go`, and `transition` | one atomic step: the code's loop re-reads the row and writes with the state it read as a guard, so what happens is what one atomic read-check-write does |
| `Scheduler` | all runs of a workspace: `Enqueue`, the admission pass, stops, parks, finishes, crashes and reconciliation | extends `RunStates`; a supervisor is reduced to a stage |
| `Supervisor` | one run in full detail: `supervise`, `pump`, `finish`, the `StopRun` callers, the clock | extends `RunStates`; its own container and token |
| `Elicitation` | one run's questions and approvals | extends `RunStates`; calls and responders as goroutines |
| `EventDelivery` | the abstract promise of the bus | two variables, no queues |
| `Bus` | `Publish`, `dispatch`, subscriber goroutines, trackers, recovery, `Stop` | implements `EventDelivery` |
| `TriggerEngine` | the bus handler, project queues, workers and firings | one subscriber's bus queue, order kept; also holds its proofs |
| `LoopGuard` | the layers over events, runs and firings, with `Enqueue`'s supersession | the worker's loop is the one of `TriggerEngine` |

Around a run:

| module | models | notes |
|---|---|---|
| `Session` | steering messages from the request to the agent's stdin, turns, tool rows, `Stop` with its grace period, `Wait` | the agent and its pipes are external: it reads stdin at the end of a turn and leaves when it is closed |
| `Containers` | `Prepare` step by step, `Reattach`, `Destroy`, the sweeper with its owner mark, the relay and the shared image build | every daemon call may fail; several Lexicodes use one daemon |
| `Egress` | registrations and tokens of the proxy, the decision, the log with its window, tunnels | counts are the sets of the decisions they count |
| `Delivery` | a run's branch, the commit and push at its end, its outcome, its pull request | a commit is the run that made it; a branch is a set of runs |
| `Approvals` | what decides a tool call: rules, autonomy, a human's card, remembered answers | how a parked call waits is in `Elicitation` |
| `Prompt` | the prompt put together provider by provider while the pull request goes on | every read may fail; events are their places in the order of occurrence, sections the sets of what they say |
| `Desk` | stop, takeover, acknowledge, create as read, audit, note and stop; the inbox read list by list | supervision is reduced to "the first stop counts" |
| `Attribution` | to which agent and run the poller puts down what it sees; branch names and markers | texts are sequences of what the poller looks for |

Events, forge and time:

| module | models | notes |
|---|---|---|
| `Rules` | a rule under concurrent patches, its validation and evaluation | recursive conditions: RECURSIVE, hence TLC only |
| `Schedule` | the cron scan, catch-up, lookback, expressions | |
| `Triage` | items from rules, human verbs, the two wakers, `move_ticket` | |
| `Poller` | the baseline row by row and five passes of a tick, cursors and missing ones, ETag, health, crashes | |
| `RepoLink` | connect, rotate, disconnect against the poller's worker registry | |
| `Listing` | a listing read page by page while the forge goes on | |
| `ForgeClient` | the transport (gate, retries, sleep), `submit_review`, health causes | |

Services and process:

| module | models | notes |
|---|---|---|
| `Ordering` | fractional and gapped positions under drags | a position is a natural number; halving rounds down; a list is a set and the relation `Before` |
| `Tickets` | ticket and column rows under concurrent requests | |
| `Wiki` | pages, versions, proposals, demotion | |
| `Notify` | the attention row of a run | |
| `Accounts` | owner, invites, sessions that slide, log-out, sweep | |
| `Hub` | fan-out, ring, replay, slow connections | a frame is its number |
| `Roster` | a project, its agents, their directives, deletion with its cascade | |
| `Secrets` | the key file, sealed rows, the environment of a run | |
| `Bootstrap` | the import of a repository, which may fail anywhere and be sent again | |
| `Lifecycle` | boot order, degraded modules, ports, shutdown | |

`MC…` modules give the constants values and join modules for TLC (section 3);
`SchedulerProofs`, `BusProofs`, `LoopGuardProofs`, `ElicitationProofs`,
`SupervisorProofs` and `ServiceProofs` hold theorems (section 6).

How state and actions correspond, for the core:

- **`Scheduler`**: `state`, `agent`, `ticket`, `hold` are columns of `runs`; ids follow
  `(queued_at, seq)`, so "the order `ByStates` returns" is the order of the numbers.
  `column` is `tickets.column_id`, `spent` the day's ledger. `pc` and the counters are the
  locals of `admitPass`: `PassBegin`, `ReadByAgent` and `ReadGlobal` are its three reads,
  each its own step, and each queued run then goes through `AdmitHold`, or `AdmitPass`
  (the checks) and `AdmitCommit` (the transition and the supervisor). `sup` is the
  supervisors map. A stop that found no supervisor is in `canceling` until it writes, so
  that admission can come between. `Crash` forgets everything that is not a row or a
  container, and `Boot`/`ReconcileOne` do what `reconcile.go` does per row.
- **`Supervisor`**: `pc` walks `lookup`, `mint`, `prepare`, `record`, `start`, `launch`,
  `setHandle`, `seed`, `pump` and then `preserve`, `teardown`, `terminal`, `exit`, one
  action per stage. The select cases of `pump` are `PumpContextDone`, `PumpParkNudge` (with
  the timer it drains), `PumpTimer` and `PumpWait`; the steering case is in `Session`. A
  `StopRun` caller is at `StopLookup`, `StopCheck`, `StopDirect` or `StopRevoke`.
  `SetRunState` and the `notePark` after it are two steps, since no lock holds them together.
- **`Elicitation`**: a tool call goes from `Call` over `Lookup`, `OpenElicitation`, `Park`
  and `Register` to one of `Return`, `Reread`, `Receive`, `Expire`, `HangUp`; a respond request over
  `RememberRule`, `Resolve`, `ResolveResumes` and `Wake`; the run's end over `RevokeRun`,
  `CancelPendingElicitations` and `EndRun`.
- **`Bus`**: `stage[e]` is where the goroutine that publishes or recovers `e` is, `todo`
  and `full` what its two passes have left, `remaining`, `anyFailed` and `reported` the
  tracker, `at[s]` and `holds[s]` a subscriber's goroutine. `born` stands for `created_at`
  against `bootedAt`.
- **`TriggerEngine`**: `at[p]` is where the worker of project `p` is in `fire`: `pick`,
  `decide`, `act`, `write`, `emit`. Which triggers match an event is the constant
  `Listening`; conditions and guard are one free verdict.
- **`LoopGuard`**: events and runs are tables with the columns the layers read. The probes
  of `store/runs.go` and `store/events.go` are operators of the same names, and
  `chainDepth` is a recursive function over hops. The worker's decision (`Evaluate`),
  the row (`Enqueue`), the stop (`StopRun`), the rewrite (`Supersede`) and the firing
  (`WriteFiring`) are separate steps. Agents act through `AgentActs`, also after their
  runs are over; others through `OutsiderActs`, whose events may be polled `Delay` later
  than they occurred.

In the service modules a request is a worker with a program counter: what it reads
outside its transaction is one step and goes into its own variable, the transaction is
a later step, and where the code writes a whole row the model writes the whole row it
read. The comment at the head of each module says what its data stand for.

## 3. Runs

Modules that share no state are explored by one run in turn: a variable `focus`,
chosen in the initial state and never changed, says which of them moves; the others
stand still in one initial state each (`MCBoard`, `MCRestart`, `MCWorkspace`,
`MCSupervisor`, `MCElicitation`, `MCTriggerTriage`, `MCLoopGuard`). Such a run is the
sum of the runs it joins; a property of one component is checked where that one moves
and holds trivially elsewhere.

| run | focus | question | result |
|---|---|---|---|
| `scheduler_board` | runs | first-come first-served per agent with tickets, a WIP limit, budgets, drags or a crash (`NoOvertaking`) | holds |
| | roster, secrets | agents, directives and a project under three requests (`RosterInv`); the key, sealed rows and a run's environment (`SecretsInv`) | holds |
| | prompt, listing | a prompt loses and repeats nothing while the pull request goes on (`PromptInv`); a listing read page by page (`ListingInv`) | holds |
| `restart` | runs | caps and finality across a crash (`CapsInv`), the queue drains (`QueueDrains`) | holds |
| | wiki, poller, link, serve | `WikiHolds`, `NewsIsTold`, `OneWorkerOrNone`, `SignalEndsIt` | holds |
| `supervisor` | supervisor | one run against stoppers, clock, sweeper, shutdown, crash (`SupervisionHolds`) | holds |
| | containers, egress | `ContainersGo`, `EgressInv` | holds |
| `elicitation` | elicitation | two calls, two humans, expiry, hang-up, end of run, restart (`ElicitationInv`, `AnswerReturns`) | holds |
| | session | `SessionInv`, `SessionMovesOn` | holds |
| `bus` | – | delivery, trackers, stop, recovery, refinement of `EventDelivery` (`BusInv`, `PendingIsServed`, `ImplementsDelivery`) | holds |
| `trigger_triage` | engine, triage | evaluation over redelivery while the backlog fits the queues (`EngineInv`, `FiredNeverReruns`, `AckedIsEvaluated`); `TriageHolds` | holds |
| `loop_guard` | guard | chains, bursts, reviews, supersession (`OneRunPerBurst`, `Succession`) | holds |
| | rules, schedule, desk, attribution | `RulesInv`, `ScheduleKept`, `DeskHolds`, `AttributionHolds` | holds |
| `workspace` | order, tickets, approvals, accounts, delivery | `DragsAreExact`, `BoardConsistent`, `PolicyHolds`, `AccountsInv`, `DeliveryInv` | holds |
| | transport, scopes, notify, hub, bootstrap | `ForgeClientInv` (both), `AttentionIsTrue`, `HubInv`, `BootstrapInv` | holds |
| `scheduler_wip` | runs | is the WIP limit enforcing? | violated, section 7 |
| `scheduler_zombie` | runs | is every running row supervised? | violated, section 7 |
| `supervisor_direct` | – | does a canceled run's agent stop? | violated, section 7 |
| `trigger_backlog` | engine | are all acked events evaluated when the backlog does not fit? | violated: deadlock, section 7 |

A property may name several facts (`SupervisionHolds` is the invariant of the supervisor,
that a stop ends the run, and that what ended is torn down); the conjuncts stand, each
with its comment, above it. Each property of a passing run has a mutant of the model, a
plausible bug in the mapped code, that TLC finds to violate it (`mutants` in
`PROJECT.json`; the mutated forms stand before the definitions they replace, named after
them).

To run one: `tlc -workers 2 -config MCBus.cfg Bus`. The module of each configuration is
in `PROJECT.json`.

### Bounds, and why they are enough

A bound is a named constant in the guard of the action it limits, or a conjunct of the
MC module with a comment.

- **scheduler**: two runs, one agent capped at one and a global cap of one (restart), or
  one agent with a WIP limit of one, a daily budget of one and two tickets in the backlog
  (board): every cap, WIP or recovery situation is about one holder and one waiter. One
  crash reaches every state reconciliation can find; a second finds the same rows. The
  caps themselves are proved for all values (section 6). A drag, a crash or money spent,
  not several: each is about one decision of the pass.
- **supervisor**: one run by construction. Two callers are the least for two stops that
  meet in `requestStop`; one park and one crash are enough for each to hit every stage.
- **containers**: two runs, two owners, one crash or engine fault; the first run's owner is
  fixed by symmetry. **egress**: one run, two tokens and policies, three requests for one
  host, a log window of two ticks, two ticks of clock.
- **elicitation**: two calls (same request or different), two humans, one row at a time: the
  races are about one row. One restart. **session**: one launch, pipes of one message, two
  messages, numbered by the time the request took; other writers append to the transcript
  only while a tool call is open.
- **bus**: three events with no, one and two matching subscribers, queues of depth one, so
  that every queue is full at some time; two processes.
- **trigger engine**: three events; a bus queue of two (one) and a project queue of one are
  the least depths at which the backlog just fits (does not). **triage**: two tickets,
  three verbs, a clock of two.
- **loop guard**: three events, three runs and depth limit two let a chain reach the limit
  and be refused; two rules are the least for agents that answer each other. A crash comes
  only after `Enqueue` wrote its row (before, it leaves nothing), and not together with a
  run that a human asked for or with human words outside reviews. Only human events outside
  reviews are polled late; the clock stands until the first event. With a hop cap of 64 and
  three events the cap itself is never reached here; the theorem covers it.
- **rules**: three patchers, five conditions. **schedule**: five minutes around the end of a
  February and of a Saturday, two expressions, a lookback of three, one fault, one rule.
  **desk**: either one run's items in the inbox and one dismissing person, or two clerks, the
  second begun within the first, with one failed write; a third job only ever queued.
  **attribution**: three runs of two agents whose names begin alike, a third whose name has
  an accent, three templates, two pushes, slugs of five; one event behind the opening per
  behaviour, since none tells of another.
- **roster**: three requests that begin in order, two ids. **secrets**: two editors, two rows,
  two keys, the key removed at most once. **prompt**: six occurrences (an agent's review
  with a comment, a person's with two, one of them a reply to the agent's, and a reply of no
  review), history of two, two hops, one move; the wiki is edited only while there is at most one
  occurrence, and the pull request moves between the reading of the history and the last
  reading of the store: before, it is as if it had been there, after, as if it came later.
  **listing**: three entries, pages of one, two pages, six kinds of listing.
- **wiki**: two pages, two editors, three edits, two days. **poller**: one pull request, two
  changes, one fault, which is enough for a crash at any point, also between two rows of the
  baseline; a comment listing is complete from a cursor on and may end early without one, which
  two comments tell apart. **link**: two users, whose requests begin within each other, two
  repositories. **serve**: two modules, two port ids, a stop time of four.
- **order**: three cards, two lanes, a gap of two, five drops: a gap is exhausted and
  renumbered. **tickets**: two slots, four columns, two workers, three requests.
  **approvals**: two calls, one human, two cards, two rules. **accounts**: two
  addresses (one is the first owner, by symmetry), two clients, a lifetime of four.
  **delivery**: two runs that may share a name, both or neither on the pull request, one
  fault. **transport**: two attempts, one sleep. **scopes**: five passes. **notify**: two
  persons, two asks, one rerouting, one crash. **hub**: one tab wanting one topic, six
  frames, a ring of two, a buffer of one. **bootstrap**: an issue, a document; the second
  apply is for a part of what the first is for.

`CHECK_DEADLOCK FALSE` is set because a workspace where nothing is queued, or a process that
stopped for good, has no next step, and the bounds end every behaviour.

## 4. Fairness

Weak fairness only, and only of steps the code takes by itself. In a sum each condition is
conjoined with its `focus`, so that it asks nothing of a component that stands still.

- the admission ticker fires every two seconds; each supervisor, subscriber and worker is a
  goroutine that is never blocked by another once its step is enabled; a `StopRun` call
  runs on to its end; `Boot` and reconciliation follow a start.
- In `Supervisor`, a session that was told to stop does end: `Stop` sends the signal,
  waits for the grace period and kills. A session that was not told anything may run for
  ever, as an agent may.
- In `Elicitation`, calls and respond requests go on; that a human answers is not assumed,
  nor that a client hangs up.
- In `Session`, requests, the supervisor's loop and the reader of the stream go on; the
  agent reads what is on its stdin at the end of a turn, leaves when it is closed, and is
  killed when it was stopped. That a turn ends is not assumed.
- In `Bus`, a handler returns: `deliver` calls it with the bus's context.
- In `TriggerEngine`, the handler and the workers, and nothing else: no restart, stop or
  publisher is assumed to come.
- In `Containers`, a prepare, a terminal path and a reconciliation go on, and each owner's
  sweeper comes round; in `Wiki`, `Triage` and `Poller` the ticker of the component; in
  `RepoLink` the poller's two subscriptions; in `Lifecycle` the steps of `serve` itself.

Humans, agents, crashes, drags, money spent, the forge and every clock are never fair. The
properties of the kind "this never stays so" are written `[]<>(\A …)`, one formula over all
elements, which is equivalent here to one leads-to per element because what is served stays
served.

## 5. What is abstracted

Store statements are atomic and succeed, except where a failure path is control that is
modelled (a failed provision, a refused outcome, a failed handler, a failed emit or audit).
Texts, directives, payloads and messages are model values, or sequences of what the code
looks for in them. Transcripts and the wording of notices are left out. Time is either
abstract (a timer that is armed may fire) or a small counter. Randomness (tokens, ids) is
"one not used before".

## 6. Proofs

All proofs are checked by TLAPS, for every value of the constants; the assumptions are
the named `ASSUME`s on constants in the modules (`SchedulerConstants`, `BusConstants`,
`EngineConstants`, `GuardConstants`, `ElicitationConstants`, `SupervisorConstants`, …), which
say that limits are numbers, that "none" values are not in the sets they mark, and that ids
are numbers from one. Each `…Invariant` theorem is proved from: `Init` implies the invariant,
every step keeps it (a lemma per action or group of actions, in it one step per conjunct),
and the invariant implies the property.

- **`SchedulerProofs`**. `CapsInvariant`: `CapsInv` is
  inductive. `CapsRespected` alone is not: between the checks and the commit of an admission
  the pass relies on counters it read earlier. The strengthening says that from the moment a
  counter is read it is at least the number of active runs of that agent, respectively of
  the workspace, and not more than the limit where a run is about to be committed
  (`CountersCover`). It is kept because only the pass itself makes a run active: every other
  actor can only lower the true count. `RowsInOrder` keeps rows that do not exist out of
  the counts. Two lemmas on cardinalities carry the arithmetic. Corollaries: `CapsHold`,
  `TypeCorrect`; and `TerminalHolds` from the transition table.
  `AdmissionInOrder` proves the action property `NoOvertaking`. Its strengthening
  `PassInOrder` says of a queued run the pass no longer has that it came after all it still has,
  or is held for a reason that stays true while the pass goes on, because the counters only
  grow: so an older run of the agent that is passed over when a younger one is admitted can
  only be waiting at a WIP limit.
  `AttentionHolds` (of `Notify`, the action property `AttentionIsTrue`): what the subscriber has
  read to update is still as it read it (`ReadIsThere`), except for an escalation that got
  between the two, which is what the code leaves open and the property excuses.
  `LifecycleHolds` (of `Lifecycle`, the safety part of `SignalEndsIt`): where `serve` is tells how
  many of its six deferred calls stand, and their number tells what may run (`Framed`), on every
  path out; the modules register, start and stop in turn (`InTurn`, `StopsInTurn`). The time left
  when a module is called is at least its fair share times the modules still to be stopped, and
  `ShareSuffices` (about integer division) keeps it so however much of its share it takes.
  `PromptIsWhole` (of `Prompt`): a word is followed from the reading of the history on. What the
  history saw is recorded (`HistoryIs`), rows stay, and a recorded comment can be seen on the
  forge; so a later reading of the threads has it in a thread of the review (`SeenIsSaid`), and
  where that reading fails the store has it (`FragmentCompleted`), however the pull request went
  on in between. That nothing is there twice rests on a comment being one event. The other half of
  `PromptInv`, that the comment listing makes the threads the forge has (`ReadingsAgree`), needs
  of the forge (`ReplyAssumption`) that replies lead back to the opener of their thread within the
  64 hops of `rootOf`: `HopsAreMade` shows that the walk exists, `HopsReachTheOpener` where it
  ends, both by the least number of hops for which they would fail.
- **`BusProofs`**. `BusInvariant`: an event is, per subscriber, in one
  place (still to be offered, queued, being handled, or reported: `InOnePlace`), a tracker
  counts exactly the subscribers that have not reported (`TrackerCounts`), and one subscriber
  at most finalizes (`OneFinalizer`). `NoFalseDone`, `DeliveredOnce` and
  `NoSendOnClosed` follow from it, and so does that every step of the bus is one of
  `EventDelivery` or a stutter (`BusImplementsDelivery`): only with the invariant is the
  step that writes `done` a `Complete`.
  `TriageIsSafe` (of `Triage`, the safety part of `TriageHolds`): a settled item is left alone by
  every verb and waker (`SettledStay`); a ticket that is merged into is settled, and the one merged
  away was not, so no earlier merge points at it and the new one closes no circle; what the
  handler has heard or listed was touched (`HeardIsTouched`).
  `NewsIsTrue` (of `Poller`, the safety part of `NewsIsTold`): behind the baseline a cursor has no
  row or is no older than it (`RowsHold`), no pass makes a row (`RowsKept`, `TouchKeeps`), and the
  reviews that are older belong to pull requests whose own cursor is not (`BehindBaseline`); what is new about the pull request at
  hand is on the bus or still to be emitted (`AtHandIsTold`). That a cursor has a greatest value
  to move to is the lemma `Greatest`.
  `OnePollerHolds` (of `RepoLink`, the safety part of `OneWorkerOrNone`): `OnePoller` is inductive
  once rows are typed; whoever takes the registry's entry away cancels the worker in it
  (`CancelKeeps`), and a worker is registered only where nobody was (`SpawnKeeps`), in a free slot
  that exists (`LeastSlot`).
- **`TriggerEngine`** (its proofs stand in the module). `EngineInvariant`: events stay with the
  worker of their project, and what a worker is about to act on or to record has no
  firing yet, since only that worker writes firings of its project. From it the action
  property `FiredNeverReruns` (`RedeliveryIsSafe`).
- **`LoopGuardProofs`**. `CoalesceInvariant`: between `Evaluate` and
  `Enqueue` no run of the trigger on the subject enters the window or gets the review
  (`VerdictHolds`), because only that worker starts runs of the trigger; rows of runs and
  recorded events are never rewritten, and the rows of stopped loops count for no probe. It
  carries `OneRunPerWindow` (`DebounceHolds`) and `OneRunPerReview` (`ReviewHolds`), crashes
  included: the probes read the table of runs, which a crash does not touch. The model fixes
  what the proof uses of time: the clock does not move within one evaluation. In the code
  `queued_at` is read a moment after the probe, which only widens the distance between two
  runs.
  `SuccessionHolds` (from `GuardInvariant`) is that loops end. A chain is a set of runs each
  started by an event of the one before; unattended, if no human acted on its subject after
  it began. The heart is `WalkClimbs`: `chainDepth`, which walks back hop by hop from an
  event, counts at least the runs of the unattended chain behind it, so that the verdict of
  `Evaluate` (`TooDeep`) bounds the length of what `Enqueue` then extends (`VerdictCounts`,
  `DepthVerdict`). It needs that events name only runs that were there when they were
  written and runs only earlier events (`Rows`), so that chains are finite, have a last run and
  are walked in descending order; and it is shown by the least hop at which it would fail,
  since induction over data is not available. That a human's word is polled late only makes the
  walk shorter than it might be where a human did step in. `LineInv` carries the heirs: the
  elected run is the line's newest that nobody asked to stop, every other one is over, asked
  or the one being replaced (`OldAreAsked`, `ElectedIsNewest`), every run is the one of a firing
  unless the worker is about to write it (`HasFiring`), and a rewritten firing names a later run of
  the same line (`HasHeir`).
  `DeskIsKept` (of `Desk`): a request past its audit is in the trail, so whatever it leaves
  on a run or tells its supervisor has its entry (`AskBacked`, `Backed`); a takeover leaves its
  note before it asks for the stop, and notes are never taken back, so the next run of the
  ticket finds one. Of the inbox: after each of the three reads, what needed somebody all
  along and belongs to a list already read is in the answer (`ReadSoFar`).
  `ScheduleHolds` (of `Schedule`): what a scan is about to publish is the latest minute due since
  the cursor (`Latest`), and nothing is published that is later than the minute a scan is of; the
  cursor is the baseline or behind what was fired last, so whatever lies before it is outrun.
  `WikiIsGuarded` (of `Wiki`, the safety part of `WikiHolds`): what is written back was copied
  from the page it is written to and differs from it in nothing that is decided once (`Twin`: what a
  proposal targets, the version it was written against), and its text is a human's or
  approved (`Cleared`), for what was cleared when it was read is cleared for good. Versions only
  grow (`Onward`), so one that equals the proposal's base at the check and is free in the
  transaction is still the base.
- **`ElicitationProofs`**. `ElicitationInvariant`: rows are opened in order, a parked call owns the
  row it waits on, its waiter belongs to it, and what it will be told is what is stored.
  Corollaries: one response is stored however many humans answer (`OneHumanDecides`), and one
  that is stored before or while the call registers is not missed (`NoAnswerIsLost`): the
  call re-reads its row after it registered, and the responder stores before it wakes.
  `SessionInvariant` (of `Session`): the list of the supervisor holds queued messages, each
  once, and what was accepted is marked but for its head (`ListIsQueued`,
  `AcceptedIsMarked`), so no message is taken twice; that a list in order exists is shown once,
  by the least size at which it would not (`CanBeListed`). For rows, the adapter's numbers
  of a call are those of its own rows and no other row is the call's (`NumbersAreRight`);
  it is kept because the agent announces a call once and before its result
  (`StreamInOrder`). `HubInvariant`: the ring is the last frames without a hole (`RingAligned`),
  an id it still holds is all its tab knows (`TabFollows`), and what is queued for a live
  connection is in order and misses nothing the tab wants (`Backlog`, `Complete`), so what
  `register` replays closes exactly the gap. `AttributionNames` (of `Attribution`):
  who opened the pull request is who its marker names, a run's commit carries its trailer, and
  a text in an agent's own words has that agent's marker alone (`OfferIsMarked`,
  `TipIsMarked`, `TextIsMarked`); what the poller says follows from these, whichever signal it
  reads, and the run that is looked up is one of the agent's and not of long ago
  (`CauseIsItsOwn`). Assumed of the constants: runs belong to agents of the project, and the
  empty agent id is none of theirs.
- **`SupervisorProofs`**. `SupervisorInvariant` (the safety part of `SupervisionHolds`): the row
  fits the supervisor's stage, no live container goes unattended, the parked clock and the
  timer agree, and a requested stop has reached the session; the stage of each `StopRun`
  caller is what ties a request to the context it cancels.
  `EgressInvariant`: a token is accepted only for the run that holds it now, every
  decision is spoken of exactly once (an activity, a count, or a request about to report it),
  and what is let through is visible on its run. `ForgeClientInvariant`: however the forge
  answers, a call asks a bounded number of times and leaves at most one review, the event
  about it says what the forge accepted, and between two passes the card shows what is refused.
  `ListingPassesNothingOver`: the argument counts how many come before an item (`Place`). While a
  list is read nothing that is due gets fewer before it (`PlacesRise`), so what the pages have gone
  past was read, or was updated since and is younger than everything read (`GoneIsRead`): the
  cursor does not pass it. Where nothing moves, what was read keeps its place (`ReadIsGone`), so
  it comes once and what is left at MaxPages is no older than the cursor.
  `ContainersInvariant` (of `Containers`, the safety part of `ContainersGo`): where a run's
  supervisor is says what its row, its container and the clone's remote can be
  (`RunIsSound`), what a sweep has decided to remove is over and stays over
  (`SweepsAreSound`), and the maker of the relay that is there knows how far it is
  (`RelayIsSound`); the row names its container only after the clone has lost its credential,
  so whatever a restart reattaches to has lost it too.
- **`ServiceProofs`**: the invariants of services whose requests overlap. `AccountsInvariant`
  (a session extended by a late request is still one that was not ended: writes of an
  extension only touch rows that are there); `BoardInvariant` (whole rows are written back,
  but the move that empties a column is one transaction with its deletion);
  `SecretsInvariant`; `RosterInvariant` (histories have no gaps because the version is read in
  the transaction that writes it; stale rows are ones that were true once:
  `StaleRowsAreSound`); `PolicyInvariant`; `DeliveryInvariant` (what the pushing steps will
  claim is tied to what is on the remote at each stage); `BootstrapInvariant` (what a request is
  about to import has no row yet, or another request is at it too: `AtHandIsFresh`). And of the
  order of what people drag, an action property: `DragsAlwaysLand`. A list in order is a finite
  set with the relation `Before`, so the last and the first of it are found by counting
  (`SomeIsLast`: the item with the fewest behind it has none), and one statement, `Placed`,
  says of a new position what both ways to it promise: a midpoint that is between its
  neighbours (`MidPlaces`) and a renumbering, where an item's place is how many come before it
  (`RenumberedPlaces`). It needs only that positions are numbers and 0 is of nothing on a list
  (`OrderTyped`, inductive), that ids are finitely many numbers, and a gap that is not 0
  (`OrderingAssumption`); not how often a gap can be halved.

Only model-checked:

- liveness (`QueueDrains`, `StopEndsRun`, `TornDown`, `AnswerReturns`, `SessionMovesOn`,
  `PendingIsServed`, `AckedIsEvaluated`, `SweptInTheEnd`, `CommentsDelivered`, `SnoozesEnd`,
  `ExpiredIsDemoted`, `DisconnectedStops`, `SignalEnds`), which TLAPS cannot prove;
- `Rules`, whose conditions are trees evaluated by a RECURSIVE operator, out of the prover's
  reach;
- the part `BranchIsTheAgents` of `Attribution`'s: what folding a sequence of any length yields
  needs an induction over it.

## 7. Where the code and its documents disagree

Shown by a run:

1. `scheduler_wip`: a WIP limit can be exceeded by admission, because the ticket of an
   admitted run enters the column only after provisioning.
2. `scheduler_zombie`: a parked run whose container did not survive a restart is set running
   by the human's answer, with nothing behind it.
3. `supervisor_direct`: `StopRun` that looked for a supervisor just before admission started
   one cancels the row of a live session.
4. `trigger_backlog`: the worker publishes `trigger.fired` into the queue its own handler
   serves; once both queues are full the two wait for each other.

Met while modelling; the models have the behaviour. Some modules state what the document
says as a definition with the comment "Not so", which no run checks: `ConnectIsQuiet` and
`GoneIsNotOpened` (`Poller`; `poller.go:22-23`, `:537-538`), `OnlyUnarchiveRestores`
(`Tickets`; `service/tickets/service.go:121`), `TwoLevels` (`Wiki`;
`migrations/0001_init.up.sql:280`), `ConnectedIsPolled`, `PollsFromItsBaseline` and
`TokenOpensRepo` (`RepoLink`), `OneRulePerRemember` (`Approvals`;
`plan/03-contracts.md:350`), `NoneForgotten` (`Session`; `runmessages.go:60-61`) and
`OwnBranches` (`Delivery`; `prep.go:147`).

Scheduling and supervision:

- `supervisor.go:93`: a stop or a shutdown that cancels the context before the first read
  ends the run as failed; the comment at `:556` has it canceled, and `scheduler.go:255` has
  runs left for the next boot.
- `states.go:106`: the transition and the `notePark` after it are two steps; a park and its
  answer can interleave so that the clock of a working run is stopped.
- `supervisor.go:643`: pending elicitations are canceled, and queued steering dropped, before
  the terminal transition; an elicitation opened in between stays pending.
- `admission.go:161`: the counter of tickets in a column starts at one instead of the
  column's count when a commit finds no entry.
- `scheduler.go:466`: a crash inside `Enqueue`, between the new row and the stop of the one
  it replaces, leaves two current runs of a rule on one subject.
- `module/claudecode/runtime.go:95`: a reattached container gets a new agent process beside
  one that may still run.

Questions and approvals:

- `tools.go:67-76`: two identical calls may both open a row; a call whose park is refused
  leaves a question open with the run not parked.
- `server.go:256`, `:274-276`: an expired question leaves its run parked; an answer stored
  while nobody waits is never found by the re-asked call, which looks for pending rows only,
  although the comment says it is.
- `http.go:123`: the rule of an "always allow" is written before the response is stored, and
  stays when the response loses the race.

Events and rules:

- `engine.go:281`: a crash between the actions and the firing row repeats the actions at
  redelivery; `engine.go:30-32` calls re-dispatch always safe.
- `layers.go:203`: for a rule with two `run_agent` actions only the newest run is elected, so
  the earlier run of the other agent is not replaced. `layers.go:335`: the walk ends after
  64 hops, and a depth limit above that is accepted and never reached.
- `tickets/move.go:185`: an auto-started run has no cause and no user, so a chain through
  `move_ticket` starts counting anew.
- A `PATCH` of a rule racing another writes the old `enabled` back; `{"all": null}` passes
  validation but evaluates to false where `{"all": []}` is true; the value of a leaf is not
  type-checked.
- Cron: after a failed emit "the next minute's scan retries this firing" (`source.go`), but if
  the next minute matches too the newer one fires and the failed one is skipped; an edited or
  re-enabled rule may fire for a minute before the edit; a crash between the emit and the
  cursor, with an edit to an expression matching the same minute, fires twice; a scan longer
  than a minute skips a boundary.
- Attribution takes the first marker of a body while the program appends its own at the end:
  an agent that quotes another's marked text is put down to the quoted agent; one that
  quotes an unknown marker counts as human and resets the depth; a person who quotes an
  agent, pushes onto its branch, or merges or closes its pull request counts as the agent. An
  event naming a run that is not in the database is refused by the foreign key, and its pass
  then fails every tick. A template `{agent}-…` cannot tell "dev" from "dev 2"; the slugs of
  the branch builder and of attribution fold accents and long names differently.

Work of a run:

- Two runs may be given one branch name (`prep.go:147` looks before it takes); an agent that
  switched branches gets "nothing was pushed" though it pushed elsewhere; a crash between the
  terminal transition and `OpenForRun` leaves no pull request for ever; `reconcile.go:44-67`
  writes a partial-work row whenever the run has a branch; a failed commit does not push
  earlier commits; a pull request closed or squash-merged during a run is opened again.
- Prompt: the history leaves out the fragments of the causing review, which its own section
  is to show; when that section's read fails, only a warning is left and the fragments are in
  neither ("it may only ever move content, never lose it", `review.go`). A lone comment's
  thread is repeated in both.
- Desk: the takeover note is rendered at `Enqueue`, so a run already queued starts without it,
  though `supervisor.go:584` says "injected into the prompt of the next run on the same
  ticket"; two takeovers overwrite each other's note; a takeover is answered 200 although the
  run ended in between; a stop accepted before a crash is forgotten; three requests are
  audited after the act, and answer 500 though done when that fails.

Forge:

- Health reports of a spent and of a fresh budget may arrive in the other order
  (`health.go:6-8`); a write that slept through a reset is not sent again, its body being
  read; a `POST` retried after a 5xx may be done twice; `resourceDenied` races
  `forgetResources`.
- A crash within the baseline (`poller.go:429-440`) leaves the rows that come after the one it
  wrote missing for ever: `baseline_done` is in each row, and the first says that all is done. A
  pass without its row tolerates that (`:690`, `:789`), lists from the beginning of time, announces
  comments and checks from before the project was connected, and fails in `touchCursor`
  (`:970-972`), so the row is never written, the pass backs off every time, and in a repository
  with more comments than 50 pages a new one is never announced, until the repository is
  disconnected and connected again. `OldStaysQuiet` and `CommentsDelivered` except exactly the
  resource whose row is missing; one resource of the model stands for both comment listings.
- Listings: an edited comment or a closed issue moves those behind it onto a page already
  read, and the cursor passes them; beyond 50 pages of 100 pulls or reviews are lost.

Sandbox and egress:

- The relay is shared by Lexicodes with different ports, and two starts of it race
  (`relay.go`); a shared image build ends with the context of the run that began it.
- `Proxy.Stop` "closes … every live connection, tunnels included", but `http.Server.Close` does
  not close hijacked ones; tunnels outlive `Unregister`; a decision logged after it re-creates
  an entry kept for ever; a request authenticated before a re-registration is decided under
  the old policy.

Services:

- Notify: two open elicitations overwrite each other's row each tick, which makes it unread
  every ten seconds; the race "harmless" in `escalateOne` leaves a question for an ended run;
  marking by id marks newer content.
- Hub: a killed connection may still be written to and then skips a frame that replay never
  repeats.
- Accounts: a login verified before a revocation gets its session after it.
- Lifecycle: an address in use, and any other error after the tickers started, leaves the
  deferred waits on tickers that only a signal ends: the process hangs, where `serve.go:447`
  has it reported as a start-up error. Handlers cut off after the grace period may still use
  the store.
- Roster: a patch of a stale row un-archives an agent though "archive is the end of the
  line"; a patch racing `SaveDirective` writes the old pointer back, after which every
  changed directive is refused; `DeleteProject` checks for active runs outside the cascade's
  transaction; settings saved "one control at a time" lose one of two quick edits.
- Bootstrap: two applies at once duplicate tickets, pages and triggers although "importing
  twice never duplicates"; a stale preview overwrites a description written since; the
  project and repository rows are written back over newer ones.
- Secrets: `store/secrets.go:16-19` has set and rename serialised through `ByName`, which is a
  plain read: two workspace rows of one name; a rename racing a set writes the old
  ciphertext, a set racing a rename the old name; a crash between the creation of the key
  file and its write leaves an empty one that refuses to boot.

## 8. Not modelled

HTTP routing and encoding, JSON-RPC and the stream format, the store's SQL and migrations
(a statement is atomic, a transaction one step), the web client (it keeps a cache and
decides nothing), interpolation and the backtest of rules, validation of actions and loop
settings, settings of the workspace and of repositories, slugs, tags, backlinks and search,
`set_step` and `check_criterion`, exec streams and image layers, the scope checks of
`Verify`, a rule's own notice, hashing and encryption (taken as what they promise). The
notes of `components` in `PROJECT.json` say per component what is left out.
