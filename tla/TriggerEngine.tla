--------------------------- MODULE TriggerEngine ---------------------------
(***************************************************************************)
(* The trigger engine on the bus.  Its one subscription routes each event  *)
(* to the FIFO queue of the event's project and acks; the project's worker *)
(* takes an event through every enabled trigger that matches it: firing    *)
(* pre-flight, conditions and guard, actions, the firing row, and the      *)
(* trigger.fired event, which the worker itself publishes on the bus.      *)
(*                                                                         *)
(* Of the bus this module keeps what the engine meets (Bus has the rest):  *)
(* the event's row, the engine's queue, redelivery of pending rows after a *)
(* restart.  The other subscribers ack when they like.  What conditions    *)
(* and guard decide is a nondeterministic verdict here.                    *)
(***************************************************************************)
EXTENDS Naturals, Sequences, FiniteSets, SequenceTheorems, TLAPS

CONSTANTS
  MaxEvents,    \* bound: events of other publishers
  Projects,
  ProjectOf,    \* the project of each event
  NumTriggers,  \* triggers, in creation order
  Listening,    \* Listening[e]: the enabled triggers of its project that match e
  BufferSize,   \* depth of the engine's queue on the bus
  QueueSize,    \* depth of a project's queue
  MaxBoots      \* bound: processes, the first included

Events   == 1..MaxEvents
Triggers == 1..NumTriggers
Fired    == 0      \* a trigger.fired event on the engine's own queue

ASSUME EngineConstants ==
  /\ MaxEvents \in Nat /\ NumTriggers \in Nat /\ MaxBoots \in Nat
  /\ BufferSize \in Nat \ {0} /\ QueueSize \in Nat \ {0}
  /\ ProjectOf \in [Events -> Projects]
  /\ Listening \in [Events -> SUBSET Triggers]

VARIABLES
  row, born, created,    \* events.dispatch_state, the process that wrote the row, rows written
  boot, up, stopped,     \* processes so far; running; Engine.Stop called
  sending,    \* events whose dispatch has yet to reach the engine's queue
  inbox,      \* the engine's queue on the bus
  hand,       \* the event the bus handler is routing, or Fired if none
  acked,      \* events the handler returned nil for, in this process
  queue,      \* each project's queue
  at, ev, left, tr,      \* each project's worker: step, event, triggers to come, trigger
  firings,    \* trigger_firings, unique on (trigger, event)
  effects     \* how often a trigger's actions ran for an event

busVars    == <<row, born, created, sending, inbox>>
workerVars == <<at, ev, left, tr>>
lifeVars   == <<boot, up, stopped>>
vars == <<busVars, lifeVars, hand, acked, queue, workerVars, firings, effects>>

Pairs == Triggers \X Events

Init ==
  /\ row = [e \in Events |-> "absent"] /\ born = [e \in Events |-> 0] /\ created = 0
  /\ boot = 1 /\ up = TRUE /\ stopped = FALSE
  /\ sending = {} /\ inbox = <<>> /\ hand = Fired /\ acked = {}
  /\ queue = [p \in Projects |-> <<>>]
  /\ at = [p \in Projects |-> "idle"] /\ ev = [p \in Projects |-> 0]
  /\ left = [p \in Projects |-> {}] /\ tr = [p \in Projects |-> 0]
  /\ firings = {} /\ effects = [x \in Pairs |-> 0]

------------------------------------------------------------------------------
(* The bus, as the engine meets it. *)

Publish ==
  /\ up /\ ~stopped /\ created < MaxEvents
  /\ created' = created + 1
  /\ row' = [row EXCEPT ![created + 1] = "pending"]
  /\ born' = [born EXCEPT ![created + 1] = boot]
  /\ sending' = sending \cup {created + 1}
  /\ UNCHANGED <<inbox, lifeVars, hand, acked, queue, workerVars, firings, effects>>

Room == Len(inbox) < BufferSize

\* A publisher gets its event onto the engine's queue; recovery sends oldest first.
Send(e) ==
  /\ up /\ ~stopped /\ e \in sending /\ Room
  /\ born[e] < boot => \A d \in sending : born[d] < boot => e <= d
  /\ sending' = sending \ {e} /\ inbox' = Append(inbox, e)
  /\ UNCHANGED <<row, born, created, lifeVars, hand, acked, queue, workerVars, firings, effects>>

\* Every subscriber has acked: the last one's report records it.
Settle(e) ==
  /\ up /\ e \in acked /\ row[e] = "pending"
  /\ row' = [row EXCEPT ![e] = "done"]
  /\ UNCHANGED <<born, created, sending, inbox, lifeVars, hand, acked, queue, workerVars,
                 firings, effects>>

------------------------------------------------------------------------------
(* The bus handler: one goroutine. *)

\* handle: the engine's own events are acked at once; after Stop the rest are refused, and
\* their rows are marked failed.
Handle ==
  /\ up /\ hand = Fired /\ inbox # <<>>
  /\ inbox' = Tail(inbox)
  /\ LET e == Head(inbox) IN
     IF e = Fired THEN UNCHANGED <<hand, row>>
     ELSE IF stopped THEN row' = [row EXCEPT ![e] = "failed"] /\ UNCHANGED hand
     ELSE hand' = e /\ UNCHANGED row
  /\ UNCHANGED <<born, created, sending, lifeVars, acked, queue, workerVars, firings, effects>>

\* The event goes to its project's queue, which is the ack; a full queue blocks the handler
\* until there is room or the engine stops.
Route ==
  /\ up /\ hand # Fired
  /\ LET p == ProjectOf[hand] IN
     \/ /\ Len(queue[p]) < QueueSize
        /\ queue' = [queue EXCEPT ![p] = Append(@, hand)]
        /\ acked' = acked \cup {hand} /\ UNCHANGED row
     \/ /\ stopped
        /\ row' = [row EXCEPT ![hand] = "failed"]
        /\ UNCHANGED <<queue, acked>>
  /\ hand' = Fired
  /\ UNCHANGED <<born, created, sending, inbox, lifeVars, workerVars, firings, effects>>

------------------------------------------------------------------------------
(* A project's worker. *)

Work(p) ==
  /\ up /\ ~stopped /\ at[p] = "idle" /\ queue[p] # <<>>
  /\ queue' = [queue EXCEPT ![p] = Tail(@)]
  /\ ev' = [ev EXCEPT ![p] = Head(queue[p])]
  /\ left' = [left EXCEPT ![p] = Listening[Head(queue[p])]]
  /\ at' = [at EXCEPT ![p] = "pick"]
  /\ UNCHANGED <<busVars, lifeVars, hand, acked, tr, firings, effects>>

PickUnchecked(p) ==
  /\ up /\ at[p] = "pick"
  /\ IF left[p] = {}
     THEN at' = [at EXCEPT ![p] = "idle"] /\ UNCHANGED <<left, tr>>
     ELSE \E t \in left[p] :
            /\ \A u \in left[p] : t <= u
            /\ left' = [left EXCEPT ![p] = @ \ {t}] /\ tr' = [tr EXCEPT ![p] = t]
            /\ at' = [at EXCEPT ![p] = "decide"]
  /\ UNCHANGED <<busVars, lifeVars, hand, acked, queue, ev, firings, effects>>

PickReturns(p) ==
  /\ up /\ at[p] = "pick"
  /\ IF left[p] = {}
     THEN at' = [at EXCEPT ![p] = "idle"] /\ UNCHANGED <<left, tr>>
     ELSE \E t \in left[p] :
            /\ \A u \in left[p] : t <= u
            /\ left' = [left EXCEPT ![p] = @ \ {t}] /\ tr' = [tr EXCEPT ![p] = t]
            /\ at' = [at EXCEPT ![p] = IF <<t, ev[p]>> \in firings THEN "idle" ELSE "decide"]
  /\ UNCHANGED <<busVars, lifeVars, hand, acked, queue, ev, firings, effects>>

\* fire: the next trigger in creation order; one that has a firing for this event is skipped.
Pick(p) ==
  /\ up /\ at[p] = "pick"
  /\ IF left[p] = {}
     THEN at' = [at EXCEPT ![p] = "idle"] /\ UNCHANGED <<left, tr>>
     ELSE \E t \in left[p] :
            /\ \A u \in left[p] : t <= u
            /\ left' = [left EXCEPT ![p] = @ \ {t}] /\ tr' = [tr EXCEPT ![p] = t]
            /\ at' = [at EXCEPT ![p] = IF <<t, ev[p]>> \in firings THEN "pick" ELSE "decide"]
  /\ UNCHANGED <<busVars, lifeVars, hand, acked, queue, ev, firings, effects>>

Pair(p) == <<tr[p], ev[p]>>

\* Conditions and guard; without their consent the firing is recorded with its reason.
Decide(p, proceed) ==
  /\ up /\ at[p] = "decide"
  /\ at' = [at EXCEPT ![p] = IF proceed THEN "act" ELSE "write"]
  /\ UNCHANGED <<busVars, lifeVars, hand, acked, queue, ev, left, tr, firings, effects>>

RunActions(p) ==
  /\ up /\ at[p] = "act"
  /\ effects' = [effects EXCEPT ![Pair(p)] = @ + 1]
  /\ at' = [at EXCEPT ![p] = "write"]
  /\ UNCHANGED <<busVars, lifeVars, hand, acked, queue, ev, left, tr, firings>>

WriteFiringSwapped(p) ==
  /\ up /\ at[p] = "write"
  /\ firings' = firings \cup {<<ev[p], tr[p]>>}
  /\ at' = [at EXCEPT ![p] = IF <<ev[p], tr[p]>> \in firings THEN "pick" ELSE "emit"]
  /\ UNCHANGED <<busVars, lifeVars, hand, acked, queue, ev, left, tr, effects>>

\* writeFiring: the unique index keeps the first; only its writer announces it.
WriteFiring(p) ==
  /\ up /\ at[p] = "write"
  /\ firings' = firings \cup {Pair(p)}
  /\ at' = [at EXCEPT ![p] = IF Pair(p) \in firings THEN "pick" ELSE "emit"]
  /\ UNCHANGED <<busVars, lifeVars, hand, acked, queue, ev, left, tr, effects>>

\* emitFired: a dispatch like any other, which waits for room on the engine's own queue.
EmitFired(p) ==
  /\ up /\ ~stopped /\ at[p] = "emit" /\ Room
  /\ inbox' = Append(inbox, Fired)
  /\ at' = [at EXCEPT ![p] = "pick"]
  /\ UNCHANGED <<row, born, created, sending, lifeVars, hand, acked, queue, ev, left, tr,
                 firings, effects>>

------------------------------------------------------------------------------
(* Stop, and the end of the process. *)

\* serve stops the bus, which then takes no more events, and after it the engine.
Stop ==
  /\ up /\ ~stopped /\ stopped' = TRUE
  /\ UNCHANGED <<busVars, boot, up, hand, acked, queue, workerVars, firings, effects>>

\* The engine's context is cancelled: the store refuses the worker's next statement and it
\* leaves its event where it is.
WorkerExits(p) ==
  /\ up /\ stopped /\ at[p] # "idle"
  /\ at' = [at EXCEPT ![p] = "idle"]
  /\ UNCHANGED <<busVars, lifeVars, hand, acked, queue, ev, left, tr, firings, effects>>

\* Rows, firings and effects remain.
ProcessEnds ==
  /\ up /\ boot < MaxBoots /\ up' = FALSE /\ stopped' = FALSE
  /\ sending' = {} /\ inbox' = <<>> /\ hand' = Fired /\ acked' = {}
  /\ queue' = [p \in Projects |-> <<>>]
  /\ at' = [p \in Projects |-> "idle"] /\ ev' = [p \in Projects |-> 0]
  /\ left' = [p \in Projects |-> {}] /\ tr' = [p \in Projects |-> 0]
  /\ UNCHANGED <<row, born, created, boot, firings, effects>>

\* The bus's recovery re-dispatches the pending rows.
Boot ==
  /\ ~up /\ up' = TRUE /\ boot' = boot + 1
  /\ sending' = {e \in Events : row[e] = "pending"}
  /\ UNCHANGED <<row, born, created, inbox, stopped, hand, acked, queue, workerVars, firings,
                 effects>>

------------------------------------------------------------------------------
WorkerSteps(p) ==
  \/ Work(p) \/ Pick(p) \/ RunActions(p) \/ WriteFiring(p) \/ EmitFired(p)
  \/ \E proceed \in BOOLEAN : Decide(p, proceed)

Next ==
  \/ Publish \/ Handle \/ Route
  \/ \E e \in Events : Send(e) \/ Settle(e)
  \/ \E p \in Projects : WorkerSteps(p) \/ WorkerExits(p)
  \/ Stop \/ ProcessEnds \/ Boot

Spec == Init /\ [][Next]_vars

\* Goroutines run: the bus handler and the workers, each whenever it can take a step.
Fairness == WF_vars(Handle \/ Route) /\ \A p \in Projects : WF_vars(WorkerSteps(p))

FairSpec == Spec /\ Fairness

------------------------------------------------------------------------------
(* Properties. *)

TypeOK ==
  /\ row \in [Events -> {"absent", "pending", "done", "failed"}]
  /\ born \in [Events -> Nat] /\ created \in 0..MaxEvents
  /\ boot \in Nat /\ up \in BOOLEAN /\ stopped \in BOOLEAN
  /\ sending \subseteq Events /\ inbox \in Seq(Events \cup {Fired})
  /\ hand \in Events \cup {Fired} /\ acked \subseteq Events
  /\ queue \in [Projects -> Seq(Events)]
  /\ at \in [Projects -> {"idle", "pick", "decide", "act", "write", "emit"}]
  /\ ev \in [Projects -> 0..MaxEvents] /\ left \in [Projects -> SUBSET Triggers]
  /\ tr \in [Projects -> 0..NumTriggers]
  /\ firings \subseteq Pairs /\ effects \in [Pairs -> Nat]

\* Why checking for a firing and acting on it later cannot race: an event is only ever with
\* the worker of its own project, and what that worker is about to act on or to record has no
\* firing yet.
EngineInv ==
  /\ TypeOK
  /\ \A p \in Projects :
       /\ queue[p] \in Seq({e \in Events : ProjectOf[e] = p})
       /\ at[p] # "idle" => ev[p] \in Events /\ ProjectOf[ev[p]] = p
       /\ at[p] \notin {"idle", "pick"} => tr[p] \in Triggers
       /\ at[p] \in {"decide", "act", "write"} => Pair(p) \notin firings

\* Boot recovery's redeliveries are safe once the firing is on record: a trigger's actions
\* never run again for an event that has a firing, however often the event comes back.
FiredNeverReruns ==
  [][\A x \in firings : effects'[x] = effects[x]]_vars

\* The events the engine acked reach every trigger that listens for them, although the worker
\* publishes onto the queue its own handler serves, unless the engine or the process stops.
AckedIsEvaluated ==
  []<>(\/ stopped \/ ~up
       \/ \A e \in acked, t \in Triggers : t \in Listening[e] => <<t, e>> \in firings)

------------------------------------------------------------------------------
(* Proofs, for any events, projects, triggers, queue depths and number of    *)
(* restarts.                                                                 *)

USE DEF busVars, workerVars, lifeVars

\* The initial state.
LEMMA EngineInit == Init => EngineInv
  <1> SUFFICES ASSUME Init PROVE EngineInv
    OBVIOUS
  <1>1. created \in 0..MaxEvents /\ 0 \in 0..MaxEvents /\ 0 \in 0..NumTriggers
    BY EngineConstants DEF Init
  <1>2. \A S : <<>> \in Seq(S)
    OBVIOUS
  <1>3. TypeOK
    BY <1>1, <1>2 DEF Init, TypeOK
  <1> QED
    BY <1>2, <1>3 DEF Init, EngineInv

\* Every step of the next-state relation preserves the invariant.
LEMMA EngineStep == EngineInv /\ [Next]_vars => EngineInv'
  <1> SUFFICES ASSUME EngineInv, [Next]_vars PROVE EngineInv'
    OBVIOUS
  <1> USE EngineConstants
  <1> USE DEF Events, Triggers, Fired
  <1>t. TypeOK
    BY DEF EngineInv
  <1>1. CASE Publish
    <2>1. created + 1 \in Events /\ created' \in 0..MaxEvents
      BY <1>1, <1>t DEF Publish, TypeOK
    <2>2. TypeOK'
      BY <1>1, <1>t, <2>1 DEF Publish, TypeOK
    <2> QED
      BY <1>1, <2>2 DEF Publish, EngineInv, Pair
  <1>2. CASE \E e \in Events : Send(e)
    <2>1. PICK e \in Events : Send(e)
      BY <1>2
    <2>2. inbox' \in Seq(Events \cup {Fired})
      BY <2>1, <1>t DEF Send, TypeOK
    <2>3. TypeOK'
      BY <2>1, <1>t, <2>2 DEF Send, TypeOK
    <2> QED
      BY <2>1, <2>3 DEF Send, EngineInv, Pair
  <1>3. CASE \E e \in Events : Settle(e)
    <2>1. PICK e \in Events : Settle(e)
      BY <1>3
    <2>2. TypeOK'
      BY <2>1, <1>t DEF Settle, TypeOK
    <2> QED
      BY <2>1, <2>2 DEF Settle, EngineInv, Pair
  <1>4. CASE Handle
    <2>1. Head(inbox) \in Events \cup {Fired} /\ inbox' \in Seq(Events \cup {Fired})
      BY <1>4, <1>t DEF Handle, TypeOK
    <2>2. TypeOK'
      BY <1>4, <1>t, <2>1 DEF Handle, TypeOK
    <2> QED
      BY <1>4, <2>2 DEF Handle, EngineInv, Pair
  <1>5. CASE Route
    <2> DEFINE p == ProjectOf[hand]
    <2>1. hand \in Events /\ p \in Projects
      BY <1>5, <1>t DEF Route, TypeOK
    <2>2. \A q \in Projects : queue'[q] \in Seq({e \in Events : ProjectOf[e] = q})
      <3>1. CASE queue' = queue
        BY <3>1 DEF EngineInv
      <3>2. CASE queue' = [queue EXCEPT ![p] = Append(@, hand)]
        <4>1. hand \in {e \in Events : ProjectOf[e] = p}
          BY <2>1
        <4>2. Append(queue[p], hand) \in Seq({e \in Events : ProjectOf[e] = p})
          BY <2>1, <4>1, AppendProperties DEF EngineInv
        <4>3. queue \in [Projects -> Seq(Events)]
          BY <1>t DEF TypeOK
        <4> QED
          BY <3>2, <2>1, <4>2, <4>3 DEF EngineInv
      <3> QED
        BY <1>5, <3>1, <3>2 DEF Route
    <2>3. queue' \in [Projects -> Seq(Events)]
      <3>1. queue \in [Projects -> Seq(Events)] /\ Append(queue[p], hand) \in Seq(Events)
        BY <1>t, <2>1, AppendProperties DEF TypeOK
      <3>2. queue' = queue \/ queue' = [queue EXCEPT ![p] = Append(queue[p], hand)]
        BY <1>5 DEF Route
      <3> HIDE DEF p
      <3> QED
        BY <2>1, <3>1, <3>2
    <2>4. TypeOK'
      BY <1>5, <1>t, <2>1, <2>3 DEF Route, TypeOK
    <2> QED
      BY <1>5, <2>2, <2>4 DEF Route, EngineInv, Pair
  <1>6. ASSUME NEW p \in Projects, Work(p) PROVE EngineInv'
    <2> DEFINE Own(q) == {e \in Events : ProjectOf[e] = q}
    <2>1. queue[p] \in Seq(Own(p)) /\ queue[p] # <<>>
      BY <1>6 DEF Work, EngineInv
    <2>2. Head(queue[p]) \in Own(p) /\ Tail(queue[p]) \in Seq(Own(p))
      BY <2>1, HeadTailProperties
    <2>3. Head(queue[p]) \in Events /\ Tail(queue[p]) \in Seq(Events)
      <3>1. queue[p] \in Seq(Events)
        BY <1>t DEF TypeOK
      <3> QED
        BY <3>1, <2>1, HeadTailProperties
    <2>4. Listening[Head(queue[p])] \subseteq Triggers
      BY <2>3
    <2>q. queue' = [queue EXCEPT ![p] = Tail(queue[p])] /\ queue \in [Projects -> Seq(Events)]
      BY <1>6, <1>t DEF Work, TypeOK
    <2>r. queue' \in [Projects -> Seq(Events)]
      BY <2>q, <2>3
    <2>s. /\ ev' \in [Projects -> 0..MaxEvents] /\ left' \in [Projects -> SUBSET Triggers]
          /\ at' \in [Projects -> {"idle", "pick", "decide", "act", "write", "emit"}]
      <3> DEFINE e == Head(queue[p])
      <3>1. /\ ev' = [ev EXCEPT ![p] = e] /\ left' = [left EXCEPT ![p] = Listening[e]]
            /\ at' = [at EXCEPT ![p] = "pick"]
        BY <1>6 DEF Work
      <3>2. e \in Events /\ Listening[e] \in SUBSET Triggers
        BY <2>3, <2>4
      <3>3. e \in 0..MaxEvents
        BY <3>2
      <3> HIDE DEF e
      <3> QED
        BY <1>t, <3>1, <3>2, <3>3 DEF TypeOK
    <2>5. TypeOK'
      BY <1>6, <1>t, <2>r, <2>s DEF Work, TypeOK
    <2>6. \A q \in Projects : queue'[q] \in Seq(Own(q))
      <3>1. \A q \in Projects : queue[q] \in Seq(Own(q))
        BY DEF EngineInv
      <3> HIDE DEF Own
      <3> QED
        BY <3>1, <2>q, <2>2
    <2>7. at'[p] = "pick" /\ ev'[p] = Head(queue[p])
      BY <1>6, <1>t DEF Work, TypeOK
    <2>8. \A q \in Projects : q # p => at'[q] = at[q] /\ ev'[q] = ev[q]
      BY <1>6, <1>t DEF Work, TypeOK
    <2>9. tr' = tr /\ firings' = firings
      BY <1>6 DEF Work
    <2> QED
      BY <2>2, <2>5, <2>6, <2>7, <2>8, <2>9 DEF EngineInv, Pair
  <1>7. ASSUME NEW p \in Projects, Pick(p) PROVE EngineInv'
    <2>1. TypeOK'
      <3>1. CASE left[p] = {}
        BY <1>7, <1>t, <3>1 DEF Pick, TypeOK
      <3>2. CASE left[p] # {}
        <4>1. PICK t \in left[p] :
                /\ left' = [left EXCEPT ![p] = @ \ {t}] /\ tr' = [tr EXCEPT ![p] = t]
                /\ at' = [at EXCEPT ![p] = IF <<t, ev[p]>> \in firings THEN "pick" ELSE "decide"]
          BY <1>7, <3>2 DEF Pick
        <4>2. t \in Triggers /\ t \in 0..NumTriggers
          BY <4>1, <1>t DEF TypeOK
        <4> QED
          BY <1>7, <1>t, <4>1, <4>2 DEF Pick, TypeOK
      <3> QED
        BY <3>1, <3>2
    <2>2. at'[p] \in {"idle", "pick"} \/
          (at'[p] = "decide" /\ tr'[p] \in Triggers /\ <<tr'[p], ev[p]>> \notin firings)
      <3>1. CASE left[p] = {}
        BY <1>7, <1>t, <3>1 DEF Pick, TypeOK
      <3>2. CASE left[p] # {}
        <4>1. PICK t \in left[p] :
                /\ tr' = [tr EXCEPT ![p] = t]
                /\ at' = [at EXCEPT ![p] = IF <<t, ev[p]>> \in firings THEN "pick" ELSE "decide"]
          BY <1>7, <3>2 DEF Pick
        <4>2. t \in Triggers /\ tr'[p] = t /\ ev'[p] = ev[p]
          BY <1>7, <4>1, <1>t DEF TypeOK, Pick
        <4>3. at'[p] = IF <<t, ev[p]>> \in firings THEN "pick" ELSE "decide"
          BY <4>1, <1>t DEF TypeOK
        <4> QED
          BY <4>2, <4>3
      <3> QED
        BY <3>1, <3>2
    <2>3. \A q \in Projects : q # p => at'[q] = at[q] /\ tr'[q] = tr[q]
      BY <1>7, <1>t DEF Pick, TypeOK
    <2>4. at[p] = "pick" /\ ev' = ev /\ queue' = queue /\ firings' = firings
      BY <1>7 DEF Pick
    <2> QED
      BY <2>1, <2>2, <2>3, <2>4 DEF EngineInv, Pair
  <1>8. ASSUME NEW p \in Projects, NEW proceed \in BOOLEAN, Decide(p, proceed) PROVE EngineInv'
    <2>1. TypeOK'
      BY <1>8, <1>t DEF Decide, TypeOK
    <2>2. at'[p] \in {"act", "write"} /\ \A q \in Projects : q # p => at'[q] = at[q]
      BY <1>8, <1>t DEF Decide, TypeOK
    <2> QED
      BY <1>8, <2>1, <2>2 DEF Decide, EngineInv, Pair
  <1>9. ASSUME NEW p \in Projects, RunActions(p) PROVE EngineInv'
    <2>1. Pair(p) \in Pairs
      BY <1>9 DEF RunActions, EngineInv, Pair, Pairs
    <2>e. effects' \in [Pairs -> Nat]
      <3>1. effects \in [Pairs -> Nat] /\ effects' = [effects EXCEPT ![Pair(p)] = @ + 1]
        BY <1>9, <1>t DEF RunActions, TypeOK
      <3>2. effects[Pair(p)] + 1 \in Nat
        BY <3>1, <2>1
      <3> QED
        BY <3>1, <3>2
    <2>2. TypeOK'
      BY <1>9, <1>t, <2>e DEF RunActions, TypeOK
    <2>3. at'[p] = "write" /\ \A q \in Projects : q # p => at'[q] = at[q]
      BY <1>9, <1>t DEF RunActions, TypeOK
    <2> QED
      BY <1>9, <2>2, <2>3 DEF RunActions, EngineInv, Pair
  <1>10. ASSUME NEW p \in Projects, WriteFiring(p) PROVE EngineInv'
    <2>1. Pair(p) \in Pairs
      BY <1>10 DEF WriteFiring, EngineInv, Pair, Pairs
    <2>2. TypeOK'
      BY <1>10, <1>t, <2>1 DEF WriteFiring, TypeOK
    <2>3. at'[p] \in {"pick", "emit"} /\ \A q \in Projects : q # p => at'[q] = at[q]
      BY <1>10, <1>t DEF WriteFiring, TypeOK
    <2>4. \A q \in Projects : q # p /\ at[q] # "idle" => Pair(q) # Pair(p)
      BY <1>10 DEF WriteFiring, EngineInv, Pair
    <2> QED
      BY <1>10, <2>2, <2>3, <2>4 DEF WriteFiring, EngineInv, Pair
  <1>11. ASSUME NEW p \in Projects, EmitFired(p) PROVE EngineInv'
    <2>1. inbox' \in Seq(Events \cup {Fired})
      BY <1>11, <1>t DEF EmitFired, TypeOK
    <2>2. TypeOK'
      BY <1>11, <1>t, <2>1 DEF EmitFired, TypeOK
    <2>3. at'[p] = "pick" /\ \A q \in Projects : q # p => at'[q] = at[q]
      BY <1>11, <1>t DEF EmitFired, TypeOK
    <2> QED
      BY <1>11, <2>2, <2>3 DEF EmitFired, EngineInv, Pair
  <1>12. CASE Stop
    <2>1. TypeOK'
      BY <1>12, <1>t DEF Stop, TypeOK
    <2> QED
      BY <1>12, <2>1 DEF Stop, EngineInv, Pair
  <1>13. ASSUME NEW p \in Projects, WorkerExits(p) PROVE EngineInv'
    <2>1. TypeOK'
      BY <1>13, <1>t DEF WorkerExits, TypeOK
    <2>2. at'[p] = "idle" /\ \A q \in Projects : q # p => at'[q] = at[q]
      BY <1>13, <1>t DEF WorkerExits, TypeOK
    <2> QED
      BY <1>13, <2>1, <2>2 DEF WorkerExits, EngineInv, Pair
  <1>14. CASE ProcessEnds
    <2>1. \A S : <<>> \in Seq(S)
      OBVIOUS
    <2>2. 0 \in 0..MaxEvents /\ 0 \in 0..NumTriggers
      OBVIOUS
    <2>3. TypeOK'
      BY <1>14, <1>t, <2>1, <2>2 DEF ProcessEnds, TypeOK
    <2> QED
      BY <1>14, <2>1, <2>3 DEF ProcessEnds, EngineInv
  <1>15. CASE Boot
    <2>1. boot' \in Nat /\ up' \in BOOLEAN /\ sending' \subseteq Events
      BY <1>15, <1>t DEF Boot, TypeOK
    <2>2. TypeOK'
      BY <1>15, <1>t, <2>1 DEF Boot, TypeOK, workerVars
    <2> QED
      BY <1>15, <2>2 DEF Boot, EngineInv, Pair
  <1>16. CASE UNCHANGED vars
    <2>1. TypeOK'
      BY <1>16, <1>t DEF vars, TypeOK
    <2> QED
      BY <1>16, <2>1 DEF vars, EngineInv, Pair
  <1> QED
    BY <1>1, <1>2, <1>3, <1>4, <1>5, <1>6, <1>7, <1>8, <1>9, <1>10, <1>11, <1>12, <1>13,
       <1>14, <1>15, <1>16 DEF Next, WorkerSteps

\* EngineInv holds throughout: events stay with their project's worker, and what a worker is
\* about to act on has no firing.
THEOREM EngineInvariant == Spec => []EngineInv
  <1>1. Init => EngineInv
    BY EngineInit
  <1>2. EngineInv /\ [Next]_vars => EngineInv'
    BY EngineStep
  <1> QED
    BY <1>1, <1>2, PTL DEF Spec

\* Redelivery after a restart never repeats the actions of a recorded firing.
THEOREM RedeliveryIsSafe == Spec => FiredNeverReruns
  <1>1. EngineInv /\ [Next]_vars => [\A x \in firings : effects'[x] = effects[x]]_vars
    <2> SUFFICES ASSUME EngineInv, [Next]_vars
                 PROVE  \A x \in firings : effects'[x] = effects[x]
      OBVIOUS
    <2>1. CASE UNCHANGED effects
      BY <2>1
    <2>2. ASSUME NEW p \in Projects, RunActions(p)
          PROVE  \A x \in firings : effects'[x] = effects[x]
      <3>1. Pair(p) \notin firings /\ firings \subseteq Pairs /\ effects \in [Pairs -> Nat]
        BY <2>2 DEF RunActions, EngineInv, TypeOK
      <3> QED
        BY <2>2, <3>1 DEF RunActions
    <2> QED
      BY <2>1, <2>2 DEF Next, WorkerSteps, Publish, Handle, Route, Send, Settle, Work, Pick,
         WriteFiring, EmitFired, Decide, WorkerExits, Stop, ProcessEnds, Boot, vars
  <1> QED
    BY <1>1, EngineInvariant, PTL DEF Spec, FiredNeverReruns
==============================================================================
