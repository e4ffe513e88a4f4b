-------------------------------- MODULE Bus --------------------------------
(***************************************************************************)
(* The persist-then-dispatch event bus.  Publish writes the event's row,   *)
(* then offers it to every matching subscriber's bounded queue; each       *)
(* subscriber's goroutine handles what is queued and reports to the        *)
(* event's tracker, and whoever reports last records the outcome in the    *)
(* row.  A boot re-dispatches the rows an earlier process left pending.    *)
(*                                                                         *)
(* A channel operation, an operation on a tracker's atomics and a          *)
(* statement on the store are one step each.  Events are numbered in the   *)
(* order of their rows (created_at, id); an event's number stands for its  *)
(* dedupe key, so that publishing one twice finds the row present.         *)
(***************************************************************************)
EXTENDS Integers, Sequences, FiniteSets

CONSTANTS
  MaxEvents,   \* bound: events published
  NumSubs,     \* subscriptions, in the order they were registered
  Matches,     \* Matches[e]: the subscriptions whose kind or topic matches event e
  BufferSize,  \* depth of each subscriber's queue
  MaxBoots     \* bound: processes, the first included

Events == 1..MaxEvents
Subs   == 1..NumSubs

ASSUME BusConstants ==
  /\ MaxEvents \in Nat /\ NumSubs \in Nat /\ MaxBoots \in Nat
  /\ BufferSize \in Nat \ {0}
  /\ Matches \in [Events -> SUBSET Subs]

VARIABLES
  row,        \* events.dispatch_state, "absent" before the row exists
  born,       \* the process that wrote the row (created_at against bootedAt)
  created,    \* rows written
  boot, up, stopped, closed,   \* processes so far; running; Stop called; queues closed
  stage,      \* the dispatch call of each event in this process
  todo, full, \* its subscribers not offered yet, and those whose queue was full
  remaining, anyFailed,        \* its tracker
  queue,      \* each subscriber's channel
  at, holds,  \* each subscriber's goroutine: where, and with which event
  recovery, backlog, \* Start: "list", "redispatch" or "over"; rows it has yet to re-dispatch
  handled,    \* history: subscribers whose handler returned nil, over all processes
  reported    \* history: subscribers that reported to the tracker of this process

rowVars  == <<row, born, created>>
dispVars == <<stage, todo, full>>
trackVars == <<remaining, anyFailed, reported>>
subVars  == <<at, holds>>
lifeVars == <<boot, up, stopped, closed>>
recVars  == <<recovery, backlog>>
vars == <<rowVars, dispVars, trackVars, queue, subVars, lifeVars, recVars, handled>>

IsLeast(x, S) == x \in S /\ \A y \in S : x <= y

\* In flight: counted in Bus.dispatches.
Dispatching == {"first", "wait", "vacuous"}
Stages == {"none", "enter", "refused", "queued", "abandoned"} \cup Dispatching

NoDispatch == [e \in Events |-> "none"]
NoSubs     == [e \in Events |-> {}]

Init ==
  /\ row = [e \in Events |-> "absent"] /\ born = [e \in Events |-> 0] /\ created = 0
  /\ boot = 1 /\ up = TRUE /\ stopped = FALSE /\ closed = FALSE
  /\ handled = NoSubs
  /\ stage = NoDispatch /\ todo = NoSubs /\ full = NoSubs
  /\ remaining = [e \in Events |-> 0] /\ anyFailed = [e \in Events |-> FALSE]
  /\ reported = NoSubs
  /\ queue = [s \in Subs |-> <<>>]
  /\ at = [s \in Subs |-> "idle"] /\ holds = [s \in Subs |-> 0]
  /\ recovery = "list" /\ backlog = {}

------------------------------------------------------------------------------
(* Publish and dispatch. *)

\* Publish persists first, also on a stopped bus.  A key already in the table is
\* ErrDuplicate: nothing is inserted and nothing delivered.
Publish ==
  /\ up /\ created < MaxEvents
  /\ LET e == created + 1 IN
     /\ row[e] = "absent"
     /\ row' = [row EXCEPT ![e] = "pending"] /\ born' = [born EXCEPT ![e] = boot]
     /\ created' = e
     /\ stage' = [stage EXCEPT ![e] = "enter"]
  /\ UNCHANGED <<todo, full, trackVars, queue, subVars, lifeVars, recVars, handled>>

DispatchMiscounts(e) ==
  /\ up /\ stage[e] = "enter" /\ ~stopped
  /\ stage' = [stage EXCEPT ![e] = IF Matches[e] = {} THEN "vacuous" ELSE "first"]
  /\ todo' = [todo EXCEPT ![e] = Matches[e]]
  /\ remaining' = [remaining EXCEPT ![e] = 1]
  /\ UNCHANGED <<full, rowVars, anyFailed, reported, queue, subVars, lifeVars, recVars, handled>>

\* Under the bus's lock: a stopped bus leaves the row pending, else the matching
\* subscribers are collected and the dispatch is counted in.
Dispatch(e) ==
  /\ up /\ stage[e] = "enter"
  /\ IF stopped
     THEN /\ stage' = [stage EXCEPT ![e] = "refused"]
          /\ UNCHANGED <<todo, remaining>>
     ELSE /\ stage' = [stage EXCEPT ![e] = IF Matches[e] = {} THEN "vacuous" ELSE "first"]
          /\ todo' = [todo EXCEPT ![e] = Matches[e]]
          /\ remaining' = [remaining EXCEPT ![e] = Cardinality(Matches[e])]
  /\ UNCHANGED <<full, rowVars, anyFailed, reported, queue, subVars, lifeVars, recVars, handled>>

\* No subscriber: acked at once, if the store takes it.
FinalizeVacuous(e, written) ==
  /\ up /\ stage[e] = "vacuous"
  /\ row' = IF written THEN [row EXCEPT ![e] = "done"] ELSE row
  /\ stage' = [stage EXCEPT ![e] = "queued"]
  /\ UNCHANGED <<born, created, todo, full, trackVars, queue, subVars, lifeVars, recVars, handled>>

Room(s) == Len(queue[s]) < BufferSize

\* First pass: a full queue is passed over.
Offer(e) ==
  /\ up /\ stage[e] = "first"
  /\ \E s \in Subs :
     /\ IsLeast(s, todo[e])
     /\ todo' = [todo EXCEPT ![e] = @ \ {s}]
     /\ IF Room(s)
        THEN queue' = [queue EXCEPT ![s] = Append(@, e)] /\ UNCHANGED full
        ELSE full' = [full EXCEPT ![e] = @ \cup {s}] /\ UNCHANGED queue
     /\ stage' = [stage EXCEPT ![e] =
                    IF todo[e] # {s} THEN "first" ELSE IF full'[e] = {} THEN "queued" ELSE "wait"]
  /\ UNCHANGED <<rowVars, trackVars, subVars, lifeVars, recVars, handled>>

\* Second pass: wait for room in each queue that was full.
OfferBlocking(e) ==
  /\ up /\ stage[e] = "wait"
  /\ \E s \in Subs :
     /\ IsLeast(s, full[e]) /\ Room(s)
     /\ queue' = [queue EXCEPT ![s] = Append(@, e)]
     /\ full' = [full EXCEPT ![e] = @ \ {s}]
     /\ stage' = [stage EXCEPT ![e] = IF full[e] = {s} THEN "queued" ELSE "wait"]
  /\ UNCHANGED <<rowVars, todo, trackVars, subVars, lifeVars, recVars, handled>>

\* The publisher's context is cancelled, or the bus stopped, while it waits for room: the
\* remaining subscribers never get the event in this process.
Abandon(e) ==
  /\ up /\ stage[e] = "wait"
  /\ stage' = [stage EXCEPT ![e] = "abandoned"]
  /\ full' = [full EXCEPT ![e] = {}]
  /\ UNCHANGED <<rowVars, todo, trackVars, queue, subVars, lifeVars, recVars, handled>>

------------------------------------------------------------------------------
(* Subscriber goroutines. *)

Consume(s) ==
  /\ up /\ at[s] = "idle" /\ queue[s] # <<>>
  /\ at' = [at EXCEPT ![s] = "handle"] /\ holds' = [holds EXCEPT ![s] = Head(queue[s])]
  /\ queue' = [queue EXCEPT ![s] = Tail(@)]
  /\ UNCHANGED <<rowVars, dispVars, trackVars, lifeVars, recVars, handled>>

\* The handler returns nil, or an error (a panic is one).
Deliver(s, ok) ==
  /\ up /\ at[s] = "handle"
  /\ handled' = IF ok THEN [handled EXCEPT ![holds[s]] = @ \cup {s}] ELSE handled
  /\ at' = [at EXCEPT ![s] = IF ok THEN "report" ELSE "fail"]
  /\ UNCHANGED <<rowVars, dispVars, trackVars, queue, holds, lifeVars, recVars>>

\* tracker.report: an error is stored before the count goes down.
ReportError(s) ==
  /\ up /\ at[s] = "fail"
  /\ anyFailed' = [anyFailed EXCEPT ![holds[s]] = TRUE]
  /\ at' = [at EXCEPT ![s] = "report"]
  /\ UNCHANGED <<rowVars, dispVars, remaining, reported, queue, holds, lifeVars, recVars, handled>>

\* The count goes down; whoever takes it to zero records the outcome.
Report(s) ==
  /\ up /\ at[s] = "report"
  /\ LET e == holds[s] IN
     /\ remaining' = [remaining EXCEPT ![e] = @ - 1]
     /\ reported' = [reported EXCEPT ![e] = @ \cup {s}]
     /\ at' = [at EXCEPT ![s] = IF remaining[e] = 1 THEN "finalize" ELSE "idle"]
  /\ UNCHANGED <<rowVars, dispVars, anyFailed, queue, holds, lifeVars, recVars, handled>>

FinalizeIgnoresErrors(s, written) ==
  /\ up /\ at[s] = "finalize"
  /\ row' = IF written THEN [row EXCEPT ![holds[s]] = "done"] ELSE row
  /\ at' = [at EXCEPT ![s] = "idle"]
  /\ UNCHANGED <<born, created, dispVars, trackVars, queue, holds, lifeVars, recVars, handled>>

\* finalize; when the store refuses, the outcome is logged and the row stays as it is.
Finalize(s, written) ==
  /\ up /\ at[s] = "finalize"
  /\ LET e == holds[s] IN
     row' = IF written THEN [row EXCEPT ![e] = IF anyFailed[e] THEN "failed" ELSE "done"]
            ELSE row
  /\ at' = [at EXCEPT ![s] = "idle"]
  /\ UNCHANGED <<born, created, dispVars, trackVars, queue, holds, lifeVars, recVars, handled>>

------------------------------------------------------------------------------
(* Boot recovery, Stop, and the end of the process. *)

ListOlder ==
  /\ up /\ recovery = "list"
  /\ recovery' = "redispatch"
  /\ backlog' = {e \in Events : row[e] = "pending" /\ born[e] + 1 < boot}
  /\ UNCHANGED <<rowVars, dispVars, trackVars, queue, subVars, lifeVars, handled>>

\* Start reads the pending rows and skips those of its own process.
ListPending ==
  /\ up /\ recovery = "list"
  /\ recovery' = "redispatch"
  /\ backlog' = {e \in Events : row[e] = "pending" /\ born[e] < boot}
  /\ UNCHANGED <<rowVars, dispVars, trackVars, queue, subVars, lifeVars, handled>>

\* Rows of earlier processes whose re-dispatch has begun.
Recovered == {e \in Events : born[e] < boot /\ stage[e] # "none"}

\* One after the other, oldest first: the next once the last is queued everywhere.  An
\* abandoned one ends Start with an error.
Redispatch ==
  /\ up /\ recovery = "redispatch"
  /\ \A e \in Recovered : stage[e] = "queued"
  /\ \E e \in Events :
     /\ IsLeast(e, backlog)
     /\ stage' = [stage EXCEPT ![e] = "enter"]
     /\ backlog' = backlog \ {e}
  /\ UNCHANGED <<rowVars, todo, full, trackVars, queue, subVars, lifeVars, recovery, handled>>

StartFails == \E e \in Recovered : stage[e] \in {"refused", "abandoned"}

StartReturns ==
  /\ up /\ recovery = "redispatch"
  /\ \/ backlog = {} /\ \A e \in Recovered : stage[e] = "queued"
     \/ StartFails
  /\ recovery' = "over"
  /\ UNCHANGED <<rowVars, dispVars, trackVars, queue, subVars, lifeVars, backlog, handled>>

\* Stop waits for the dispatches in flight before it closes the queues.
Stop ==
  /\ up /\ ~stopped /\ stopped' = TRUE
  /\ UNCHANGED <<rowVars, dispVars, trackVars, queue, subVars, boot, up, closed, recVars, handled>>

CloseQueues ==
  /\ up /\ stopped /\ ~closed
  /\ \A e \in Events : stage[e] \notin Dispatching
  /\ closed' = TRUE
  /\ UNCHANGED <<rowVars, dispVars, trackVars, queue, subVars, boot, up, stopped, recVars, handled>>

\* The process ends, by a crash at any point or after Stop, and with it all but the rows.
ProcessEnds ==
  /\ up /\ boot < MaxBoots /\ up' = FALSE /\ stopped' = FALSE /\ closed' = FALSE
  /\ stage' = NoDispatch /\ todo' = NoSubs /\ full' = NoSubs
  /\ remaining' = [e \in Events |-> 0] /\ anyFailed' = [e \in Events |-> FALSE]
  /\ reported' = NoSubs
  /\ queue' = [s \in Subs |-> <<>>]
  /\ at' = [s \in Subs |-> "idle"] /\ holds' = [s \in Subs |-> 0]
  /\ recovery' = "list" /\ backlog' = {}
  /\ UNCHANGED <<rowVars, boot, handled>>

Boot ==
  /\ ~up /\ up' = TRUE /\ boot' = boot + 1
  /\ UNCHANGED <<rowVars, dispVars, trackVars, queue, subVars, stopped, closed, recVars, handled>>

------------------------------------------------------------------------------
DispatchSteps(e) ==
  \/ Dispatch(e) \/ Offer(e) \/ OfferBlocking(e)
  \/ \E written \in BOOLEAN : FinalizeVacuous(e, written)

SubscriberSteps(s) ==
  \/ Consume(s) \/ ReportError(s) \/ Report(s)
  \/ \E ok \in BOOLEAN : Deliver(s, ok) \/ Finalize(s, ok)

Next ==
  \/ Publish
  \/ \E e \in Events : DispatchSteps(e) \/ Abandon(e)
  \/ \E s \in Subs : SubscriberSteps(s)
  \/ ListPending \/ Redispatch \/ StartReturns
  \/ Stop \/ CloseQueues \/ ProcessEnds \/ Boot

Spec == Init /\ [][Next]_vars

\* Goroutines run and handlers return; a boot whose recovery fails is stopped by serve; a
\* dead process is started again.  Nothing obliges anyone to publish, stop or give up.
Fairness ==
  /\ \A e \in Events : WF_vars(DispatchSteps(e))
  /\ \A s \in Subs : WF_vars(SubscriberSteps(s))
  /\ WF_vars(ListPending \/ Redispatch \/ StartReturns) /\ WF_vars(StartFails /\ Stop)
  /\ WF_vars(CloseQueues) /\ WF_vars(Boot)

FairSpec == Spec /\ Fairness

------------------------------------------------------------------------------
(* Properties. *)

TypeOK ==
  /\ row \in [Events -> {"absent", "pending", "done", "failed"}]
  /\ born \in [Events -> Nat] /\ created \in 0..MaxEvents
  /\ boot \in Nat /\ up \in BOOLEAN /\ stopped \in BOOLEAN /\ closed \in BOOLEAN
  /\ stage \in [Events -> Stages]
  /\ todo \in [Events -> SUBSET Subs] /\ full \in [Events -> SUBSET Subs]
  /\ remaining \in [Events -> Nat] /\ anyFailed \in [Events -> BOOLEAN]
  /\ reported \in [Events -> SUBSET Subs]
  /\ queue \in [Subs -> Seq(Events)]
  /\ at \in [Subs -> {"idle", "handle", "fail", "report", "finalize"}]
  /\ holds \in [Subs -> 0..MaxEvents]
  /\ recovery \in {"list", "redispatch", "over"} /\ backlog \subseteq Events
  /\ handled \in [Events -> SUBSET Subs]
\* Where an event can be in the current process, for one subscriber.
Queued(e, s)  == \E i \in 1..Len(queue[s]) : queue[s][i] = e
Handling(e, s) == at[s] \in {"handle", "fail", "report"} /\ holds[s] = e

\* A row is 'done' only when every matching subscriber's handler returned nil for it:
\* abandoned enqueues, errors, a stop and a crash anywhere between the queueing and the
\* last report never record a false 'done'.
NoFalseDone == \A e \in Events : row[e] = "done" => Matches[e] \subseteq handled[e]

\* Within one process a subscriber sees an event once: what is in its queue is there once,
\* is not being handled and was not handled, although recovery re-dispatches old rows while
\* new ones are published and settled.
DeliveredOnce ==
  \A s \in Subs :
    /\ \A i, j \in 1..Len(queue[s]) : queue[s][i] = queue[s][j] => i = j
    /\ \A e \in Events : Queued(e, s) => ~Handling(e, s) /\ s \notin reported[e]

\* Stop closes the queues only when no dispatch can still send on one (a send on a closed
\* channel would panic the publisher), and none begins afterwards.
NoSendOnClosed == closed => \A e \in Events : stage[e] \notin Dispatching

\* Why the three above are inductive.  Rows and dispatches: a row is pending from its
\* insertion until it settles, and stays so while a dispatch of it is under way.
RowsFollow ==
  \A e \in Events :
    /\ row[e] = "absent" => stage[e] = "none"
    /\ e > created => row[e] = "absent"
    /\ stage[e] \in {"enter", "first", "wait", "vacuous"} => row[e] = "pending"
    /\ e \in backlog => row[e] = "pending" /\ stage[e] = "none"
    /\ stage[e] = "vacuous" => Matches[e] = {}
    /\ stage[e] # "none" => up /\ (recovery = "list" => born[e] = boot)

\* The two lists of a dispatch call: disjoint, of matching subscribers, and empty once the
\* pass they belong to is over.
ListsFollow ==
  \A e \in Events :
    /\ todo[e] \subseteq Matches[e] /\ full[e] \subseteq Matches[e] /\ todo[e] \cap full[e] = {}
    /\ stage[e] = "first" <=> todo[e] # {}
    /\ stage[e] \notin {"first", "wait"} => full[e] = {}
    /\ stage[e] = "wait" => full[e] # {}

\* For one subscriber an event is in one place at a time: still to be offered, queued,
\* being handled, or reported; and only while its row is pending.
InOnePlace ==
  \A e \in Events, s \in Subs :
    Queued(e, s) \/ Handling(e, s) =>
      /\ s \in Matches[e] /\ s \notin todo[e] \cup full[e] \cup reported[e]
      /\ row[e] = "pending"
      /\ stage[e] \notin {"none", "enter", "refused", "vacuous"}

\* The tracker counts the subscribers that have not reported, those included that will
\* never be offered the event; a report without an error means a handler returned nil.
TrackerCounts ==
  \A e \in Events :
    /\ reported[e] \subseteq Matches[e] \ (todo[e] \cup full[e])
    /\ stage[e] \in {"none", "enter", "refused", "vacuous"} => reported[e] = {}
    /\ stage[e] \in {"vacuous", "first", "wait", "queued", "abandoned"} =>
         remaining[e] = Cardinality(Matches[e] \ reported[e])
    /\ ~anyFailed[e] => reported[e] \subseteq handled[e]

\* One subscriber finalizes an event, after everyone has reported.
OneFinalizer ==
  \A s \in Subs :
    /\ at[s] = "report" => s \in handled[holds[s]] \/ anyFailed[holds[s]]
    /\ at[s] # "idle" => holds[s] \in Events
    /\ at[s] = "finalize" =>
         /\ s \in reported[holds[s]] /\ reported[holds[s]] = Matches[holds[s]]
         /\ row[holds[s]] = "pending"
         /\ \A t \in Subs : at[t] = "finalize" /\ holds[t] = holds[s] => t = s

BusInv ==
  /\ TypeOK /\ RowsFollow /\ ListsFollow /\ InOnePlace /\ TrackerCounts /\ OneFinalizer
  /\ NoFalseDone /\ DeliveredOnce /\ NoSendOnClosed /\ (closed => stopped)

\* No persisted event stays unserved: again and again every pending row has been reported
\* on by all its subscribers, in this process or after a restart, unless its publisher gave
\* up, or the bus was stopped and no boot follows.
PendingIsServed ==
  []<>(\A e \in Events :
         row[e] = "pending" => reported[e] = Matches[e] \/ stage[e] = "abandoned" \/ stopped)

\* What the bus promises, without queues, trackers, stops and crashes.
Delivery == INSTANCE EventDelivery
              WITH Events <- Events, Matches <- Matches, row <- row, handled <- handled

\* The bus implements that promise.
ImplementsDelivery == Delivery!Spec

------------------------------------------------------------------------------
\* For TLC: two subscribers, and events for both, for one and for none.
MCMatches == [e \in Events |-> CASE e = 1 -> {1, 2} [] e = 2 -> {1} [] OTHER -> {}]
==============================================================================
