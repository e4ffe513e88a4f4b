----------------------------- MODULE LoopGuard -----------------------------
(***************************************************************************)
(* Loop protection: the guard's layers over the graph of events and runs,  *)
(* with what they protect against, runs whose agents cause the events that *)
(* start the next runs.                                                    *)
(*                                                                         *)
(* One project.  Its worker takes the events in the order of their rows    *)
(* and each event through the triggers in creation order; TriggerEngine    *)
(* has the queues.  Events carry what the layers read: who acted, on which *)
(* subject, when, which run caused them, and the review they belong to.    *)
(* An event may be polled after it occurred, by Delay ticks at most.       *)
(* Conditions, a skip token and an exhausted budget are one free choice.   *)
(***************************************************************************)
EXTENDS Naturals, FiniteSets, FiniteSetsExt

CONSTANTS
  MaxEvents, MaxRuns,  \* bound: rows of the two tables
  MaxTime,             \* bound: the clock
  MaxCrashes,          \* bound: restarts
  Delay,               \* bound: ticks between an occurrence and its event
  Subjects,
  Human, External,     \* actors that are no agent
  Reviews, NoReview,
  NumTriggers,         \* triggers, in creation order
  Listens,             \* Listens[t]: the kinds of event that trigger t matches
  RunAgent,            \* RunAgent[t]: the agent it runs
  ActorSuppression, Window, CancelInProgress, DepthLimit,   \* each trigger's loop_config
  HopCap               \* 64 in the code

Events   == 1..MaxEvents
Runs     == 1..MaxRuns
Triggers == 1..NumTriggers
Kinds    == {"outside", "agent", "check"}   \* of outsiders, of an agent, CI's verdict on it

ASSUME GuardConstants ==
  /\ MaxEvents \in Nat /\ MaxRuns \in Nat \ {0} /\ MaxTime \in Nat /\ MaxCrashes \in Nat
  /\ Delay \in Nat
  /\ Window \in [Triggers -> Nat] /\ DepthLimit \in [Triggers -> Nat] /\ HopCap \in Nat
  /\ NumTriggers \in Nat \ {0} /\ DOMAIN RunAgent = Triggers
  /\ ActorSuppression \in [Triggers -> BOOLEAN] /\ CancelInProgress \in [Triggers -> BOOLEAN]
  /\ Listens \in [Triggers -> SUBSET Kinds]
  /\ NoReview \notin Reviews

VARIABLES
  clock,
  nEvents, actor, subject, at, cause, kind, review,       \* events
  nRuns, state, trigger, runSubject, runCause, queuedAt,   \* runs; 0 for no trigger, no cause
  byHuman,     \* runs with a requested_by_user_id
  asked,       \* runs that were asked to stop
  outcome, firingRun, absorbedBy,                          \* trigger_firings
  ev, tr,      \* the worker: the event and the trigger it is at
  step, superseded, new,         \* and what it has decided there
  seen,        \* history: the events on record when a run was created
  crashes

eventVars  == <<nEvents, actor, subject, at, cause, kind, review>>
runVars    == <<nRuns, state, trigger, runSubject, runCause, queuedAt, byHuman, asked, seen>>
firingVars == <<outcome, firingRun, absorbedBy>>
workVars   == <<ev, tr, step, superseded, new>>
vars == <<clock, eventVars, runVars, firingVars, workVars, crashes>>

Actors == {Human, External} \cup {RunAgent[t] : t \in Triggers}

\* There may be a run that a human requested (bound: then the process never crashes).
Init ==
  /\ clock = 1
  /\ nEvents = 0 /\ actor = [e \in Events |-> External]
  /\ subject \in {[e \in Events |-> s] : s \in {CHOOSE s \in Subjects : TRUE}}
  /\ at = [e \in Events |-> 0] /\ cause = [e \in Events |-> 0]
  /\ kind = [e \in Events |-> "outside"] /\ review = [e \in Events |-> NoReview]
  /\ nRuns \in 0..1 /\ byHuman = 1..nRuns
  /\ crashes = IF nRuns = 0 THEN 0 ELSE MaxCrashes
  /\ state = [r \in Runs |-> IF r <= nRuns THEN "active" ELSE "absent"]
  /\ trigger = [r \in Runs |-> 0]
  /\ runSubject = [r \in Runs |-> CHOOSE s \in Subjects : TRUE]
  /\ runCause = [r \in Runs |-> 0] /\ queuedAt = [r \in Runs |-> 0]
  /\ asked = {} /\ seen = [r \in Runs |-> 0]
  /\ outcome = [x \in Triggers \X Events |-> "none"]
  /\ firingRun = [x \in Triggers \X Events |-> 0]
  /\ absorbedBy = [x \in Triggers \X Events |-> 0]
  /\ ev = 1 /\ tr = 1 /\ step = "guard" /\ superseded = 0 /\ new = 0

------------------------------------------------------------------------------
(* The rows the layers probe. *)

RealRuns == {r \in 1..nRuns : state[r] # "loop_stopped"}

OnSubject(t, s) == {r \in RealRuns : trigger[r] = t /\ runSubject[r] = s}

\* LatestOnSubject: a run of this trigger on this subject inside the debounce window.
LatestOnSubject(t, s) == {r \in OnSubject(t, s) : queuedAt[r] + Window[t] >= clock}

LatestForReviewInWindow(t, e) ==
  {r \in LatestOnSubject(t, subject[e]) :
     runCause[r] # 0 /\ review[e] # NoReview /\ review[runCause[r]] = review[e]}

\* LatestForReview: a run of this trigger that an event of the same review caused.
LatestForReview(t, e) ==
  {r \in OnSubject(t, subject[e]) :
     runCause[r] # 0 /\ review[e] # NoReview /\ review[runCause[r]] = review[e]}

\* ActiveOnSubject: the newest run that is not over.
ActiveOnSubject(t, s) ==
  LET live == {r \in OnSubject(t, s) : state[r] = "active"}
  IN  IF live = {} THEN 0 ELSE Max(live)

\* NewestHumanActionAt, over the events on record.
NewestHumanActionAt(s) ==
  Max({0} \cup {at[e] : e \in {e \in 1..nEvents : actor[e] = Human /\ subject[e] = s}})

\* chainDepth: agent-caused hops on the subject, back to a human's action, a run a human
\* requested, another subject or the root.
chainDepth(e) ==
  LET resetAt == NewestHumanActionAt(subject[e])
      walk[left \in 0..HopCap] ==
        [c \in Events \cup {0} |->
           IF left = 0 \/ c = 0 THEN 0
           ELSE IF at[c] <= resetAt \/ cause[c] = 0 THEN 0
           ELSE IF cause[c] \in byHuman \/ runSubject[cause[c]] # subject[e] THEN 0
           ELSE 1 + walk[left - 1][runCause[cause[c]]]]
  IN  walk[HopCap][e]

------------------------------------------------------------------------------
(* The worker: one trigger and one event at a time. *)

suppressed == ActorSuppression[tr] /\ kind[ev] # "check" /\ actor[ev] = RunAgent[tr]

Absorbers ==
  IF Window[tr] = 0 THEN {}
  ELSE IF LatestForReview(tr, ev) # {} THEN LatestForReview(tr, ev)
  ELSE LatestOnSubject(tr, subject[ev])

TooDeepByOne == DepthLimit[tr] > 0 /\ chainDepth(ev) > DepthLimit[tr]

TooDeep == DepthLimit[tr] > 0 /\ chainDepth(ev) >= DepthLimit[tr]

\* On to the next trigger, or the next event.
Advance ==
  /\ step' = "guard"
  /\ IF tr + 1 \in Triggers THEN tr' = tr + 1 /\ UNCHANGED ev ELSE tr' = 1 /\ ev' = ev + 1
  /\ superseded' = 0 /\ new' = 0

Record(o, run, absorber) ==
  /\ outcome' = [outcome EXCEPT ![<<tr, ev>>] = o]
  /\ firingRun' = [firingRun EXCEPT ![<<tr, ev>>] = run]
  /\ absorbedBy' = [absorbedBy EXCEPT ![<<tr, ev>>] = absorber]

CreateRun(t, s, c, st) ==
  /\ nRuns < MaxRuns /\ nRuns' = nRuns + 1
  /\ state' = [state EXCEPT ![nRuns + 1] = st]
  /\ trigger' = [trigger EXCEPT ![nRuns + 1] = t]
  /\ runSubject' = [runSubject EXCEPT ![nRuns + 1] = s]
  /\ runCause' = [runCause EXCEPT ![nRuns + 1] = c]
  /\ queuedAt' = [queuedAt EXCEPT ![nRuns + 1] = clock]
  /\ seen' = [seen EXCEPT ![nRuns + 1] = nEvents]

Evaluating == step = "guard" /\ ev <= nEvents /\ kind[ev] \in Listens[tr]

\* Stage 1 says no, or the event is a redelivery and this trigger has its firing.
PassOver ==
  /\ step = "guard" /\ ev <= nEvents
  /\ kind[ev] \notin Listens[tr] \/ outcome[<<tr, ev>>] # "none"
  /\ Advance
  /\ UNCHANGED <<clock, eventVars, runVars, firingVars, crashes>>

\* A skip token, conditions, layer 1 or layer 5.
NoAction ==
  /\ Evaluating /\ outcome[<<tr, ev>>] = "none"
  /\ Record("no_action", 0, 0) /\ Advance
  /\ UNCHANGED <<clock, eventVars, runVars, crashes>>

\* Layers 2a and 2.
Debounced ==
  /\ Evaluating /\ outcome[<<tr, ev>>] = "none" /\ ~suppressed
  /\ Absorbers # {}
  /\ Record("debounced", 0, Max(Absorbers)) /\ Advance
  /\ UNCHANGED <<clock, eventVars, runVars, crashes>>

\* Layer 4: the run is created, terminal from the start.
stopLoop ==
  /\ Evaluating /\ outcome[<<tr, ev>>] = "none" /\ ~suppressed
  /\ Absorbers = {} /\ TooDeep
  /\ CreateRun(tr, subject[ev], ev, "loop_stopped")
  /\ Record("loop_stopped", nRuns + 1, 0) /\ Advance
  /\ UNCHANGED <<clock, eventVars, byHuman, asked, crashes>>

\* Evaluate passes: the run elected for cancellation goes with the request.
Evaluate ==
  /\ Evaluating /\ outcome[<<tr, ev>>] = "none" /\ ~suppressed
  /\ Absorbers = {} /\ ~TooDeep
  /\ superseded' = IF CancelInProgress[tr] THEN ActiveOnSubject(tr, subject[ev]) ELSE 0
  /\ step' = "enqueue"
  /\ UNCHANGED <<clock, eventVars, runVars, firingVars, ev, tr, new, crashes>>

\* run_agent: Enqueue writes the row, stops the run it replaces, and rewrites the firing
\* that had started that one.
Enqueue ==
  /\ step = "enqueue"
  /\ CreateRun(tr, subject[ev], ev, "active")
  /\ new' = nRuns + 1
  /\ step' = IF superseded = 0 THEN "write" ELSE "stop"
  /\ UNCHANGED <<clock, eventVars, byHuman, asked, firingVars, ev, tr, superseded, crashes>>

\* StopRun: a run without a supervisor is canceled at once, any other is asked.
StopRun ==
  /\ step = "stop"
  /\ IF state[superseded] # "active" THEN UNCHANGED <<state, asked>>
     ELSE \/ state' = [state EXCEPT ![superseded] = "ended"] /\ UNCHANGED asked
          \/ asked' = asked \cup {superseded} /\ UNCHANGED state
  /\ step' = "mark"
  /\ UNCHANGED <<clock, eventVars, nRuns, trigger, runSubject, runCause, queuedAt, byHuman,
                 seen, firingVars, ev, tr, superseded, new, crashes>>

Supersede ==
  /\ step = "mark"
  /\ LET old == {x \in {tr} \X Events : firingRun[x] = superseded /\ outcome[x] # "superseded"}
     IN  /\ outcome' = [x \in DOMAIN outcome |-> IF x \in old THEN "superseded" ELSE outcome[x]]
         /\ absorbedBy' = [x \in DOMAIN absorbedBy |-> IF x \in old THEN new ELSE absorbedBy[x]]
  /\ step' = "write"
  /\ UNCHANGED <<clock, eventVars, runVars, firingRun, ev, tr, superseded, new, crashes>>

WriteFiring ==
  /\ step = "write"
  /\ Record("succeeded", new, 0) /\ Advance
  /\ UNCHANGED <<clock, eventVars, runVars, crashes>>

\* The process dies inside an evaluation.  The event's row is still pending and is redelivered, or it was acked
\* already and what the worker had not recorded is lost.
Crash ==
  /\ step \notin {"guard", "enqueue"} /\ crashes < MaxCrashes /\ crashes' = crashes + 1
  /\ \/ Advance
     \/ step' = "guard" /\ superseded' = 0 /\ new' = 0 /\ UNCHANGED <<ev, tr>>
  /\ UNCHANGED <<clock, eventVars, runVars, firingVars>>

------------------------------------------------------------------------------
(* What happens around the worker. *)

\* Between the steps of one evaluation an arrival would commute with each of them.
Arrives(a, s, t, c, k, w) ==
  /\ step = "guard" /\ nEvents < MaxEvents /\ nEvents' = nEvents + 1
  /\ nEvents <= ev
  /\ actor' = [actor EXCEPT ![nEvents + 1] = a]
  /\ subject' = [subject EXCEPT ![nEvents + 1] = s]
  /\ at' = [at EXCEPT ![nEvents + 1] = t]
  /\ cause' = [cause EXCEPT ![nEvents + 1] = c]
  /\ kind' = [kind EXCEPT ![nEvents + 1] = k]
  /\ review' = [review EXCEPT ![nEvents + 1] = w]
  /\ UNCHANGED <<clock, runVars, firingVars, workVars, crashes>>

\* A human or a bot acts; each comment of a human's review is an event.  Only of what a
\* human does beside reviews is it read when it occurred.
OutsiderActs(a, s, t, w) ==
  /\ t + Delay >= clock /\ (a # Human => w = NoReview) /\ (a # Human \/ w # NoReview => t = clock)
  /\ Arrives(a, s, t, 0, "outside", w)

\* Something the agent of run r did, or CI's verdict on it.
AgentActs(r, s, k) ==
  /\ r \in RealRuns
  /\ Arrives(RunAgent[IF trigger[r] = 0 THEN 1 ELSE trigger[r]], s, clock, r, k, NoReview)

\* A run ends; within an evaluation that matters only between its election and its stop.
RunEnds(r) ==
  /\ ev > nEvents \/ step = "stop"
  /\ state[r] = "active" /\ state' = [state EXCEPT ![r] = "ended"]
  /\ UNCHANGED <<clock, eventVars, nRuns, trigger, runSubject, runCause, queuedAt, byHuman,
                 asked, seen, firingVars, workVars, crashes>>

Tick ==
  /\ ev > nEvents /\ clock < MaxTime /\ clock' = clock + 1
  /\ UNCHANGED <<eventVars, runVars, firingVars, workVars, crashes>>

Next ==
  \/ PassOver \/ NoAction \/ Debounced \/ stopLoop \/ Evaluate
  \/ Enqueue \/ StopRun \/ Supersede \/ WriteFiring \/ Crash
  \/ \E s \in Subjects, t \in 1..clock :
       \/ \E a \in {Human, External}, w \in Reviews \cup {NoReview} : OutsiderActs(a, s, t, w)
       \/ \E r \in Runs, k \in {"agent", "check"} : AgentActs(r, s, k)
  \/ \E r \in Runs : RunEnds(r)
  \/ Tick

Spec == Init /\ [][Next]_vars

------------------------------------------------------------------------------
(* Properties. *)

\* Every variable has its type; in particular the worker is never past the event it may
\* still receive next, and a decision in progress has elected a run that exists.
TypeOK ==
  /\ clock \in 1..MaxTime /\ nEvents \in 0..MaxEvents /\ nRuns \in 0..MaxRuns
  /\ actor \in [Events -> Actors] /\ subject \in [Events -> Subjects]
  /\ at \in [Events -> 0..clock] /\ cause \in [Events -> 0..nRuns]
  /\ kind \in [Events -> Kinds] /\ review \in [Events -> Reviews \cup {NoReview}]
  /\ state \in [Runs -> {"absent", "active", "ended", "loop_stopped"}]
  /\ trigger \in [Runs -> Triggers \cup {0}] /\ runSubject \in [Runs -> Subjects]
  /\ runCause \in [Runs -> 0..nEvents] /\ queuedAt \in [Runs -> 0..clock]
  /\ byHuman \subseteq 1..nRuns /\ asked \subseteq 1..nRuns /\ seen \in [Runs -> 0..nEvents]
  /\ outcome \in [Triggers \X Events ->
       {"none", "no_action", "debounced", "loop_stopped", "superseded", "succeeded"}]
  /\ firingRun \in [Triggers \X Events -> 0..nRuns]
  /\ absorbedBy \in [Triggers \X Events -> 0..nRuns]
  /\ ev \in 1..nEvents + 1 /\ tr \in Triggers
  /\ step \in {"guard", "enqueue", "stop", "mark", "write"}
  /\ (step # "guard" => ev <= nEvents) /\ (step \in {"stop", "mark"} => superseded # 0)
  /\ superseded \in 0..nRuns /\ new \in 0..nRuns
  /\ crashes \in 0..MaxCrashes

Triggered == {r \in RealRuns : trigger[r] # 0}

\* r was started by something run q did on the subject of both.
Follows(r, q) ==
  /\ runCause[r] # 0 /\ cause[runCause[r]] = q
  /\ runSubject[r] = runSubject[q] /\ q \notin byHuman

\* Runs of which each was started by the one before.
Chains == {C \in SUBSET Triggered :
  /\ C # {}
  /\ \A r \in C : r # Min(C) => \E q \in C : Follows(r, q)
  /\ \A q, r1, r2 \in C : Follows(r1, q) /\ Follows(r2, q) => r1 = r2}

\* No human acted on the subject at or after a hop of the chain, as far as was known when
\* the chain's last run was created.
Unattended(C) ==
  \A r \in C \ {Min(C)}, h \in 1..seen[Max(C)] :
    actor[h] = Human /\ subject[h] = runSubject[r] => at[h] < at[runCause[r]]

\* Agents that set each other off on a subject stop after DepthLimit runs unless a human
\* steps in, through whichever triggers, in whatever order the events are polled, and
\* although finished or replaced runs may still be heard from.
ChainBounded ==
  \A C \in Chains :
    Unattended(C) /\ (\A r \in C : DepthLimit[trigger[r]] \in 1..HopCap)
      => Cardinality(C) <= Max({DepthLimit[trigger[r]] : r \in C})

\* A burst of events on one subject starts one run of a trigger per window, also across a
\* restart, and whatever else runs.
OneRunPerWindow ==
  \A r, q \in Triggered :
    q < r /\ trigger[q] = trigger[r] /\ runSubject[q] = runSubject[r] /\ Window[trigger[r]] > 0
      => queuedAt[r] > queuedAt[q] + Window[trigger[r]]

\* One review is one run: its summary and its comments, however far apart they are polled.
OneRunPerReview ==
  \A r, q \in Triggered :
    /\ Window[trigger[r]] > 0 /\ trigger[q] = trigger[r] /\ runSubject[q] = runSubject[r]
    /\ review[runCause[r]] = review[runCause[q]] /\ review[runCause[r]] # NoReview
    => r = q

\* Between two evaluations no trigger has two runs at work on one subject: all but the
\* newest are over or were asked to stop.  A crash inside Enqueue may leave two.
OneCurrentRun ==
  step = "guard" /\ crashes = 0 =>
    \A r, q \in Triggered :
      /\ trigger[q] = trigger[r] /\ runSubject[q] = runSubject[r] /\ r # q
      /\ CancelInProgress[trigger[r]]
      /\ state[r] = "active" /\ state[q] = "active"
      => {r, q} \cap asked # {}

\* A firing marked superseded names the run that replaced its own, which is a later one of
\* the same trigger on the same subject; and a run stopped for another has such a firing.
SupersededNamesSuccessor ==
  step = "guard" /\ crashes = 0 =>
    /\ \A x \in Triggers \X Events : outcome[x] = "superseded" =>
         LET later == absorbedBy[x]
             old   == firingRun[x] IN
         /\ old # 0 /\ old < later /\ trigger[later] = trigger[old]
         /\ runSubject[later] = runSubject[old]
    /\ \A r \in asked : \E x \in Triggers \X Events :
         firingRun[x] = r /\ outcome[x] = "superseded"

\* One burst of activity is one run of a trigger: within a debounce window, and within one
\* review however late its fragments are polled.
OneRunPerBurst == OneRunPerWindow /\ OneRunPerReview

\* Runs that answer one another end, and superseding leaves a line of them: one current,
\* every replaced one with its heir (LoopGuard.chainDepth, Enqueue).
Succession == ChainBounded /\ OneCurrentRun /\ SupersededNamesSuccessor
=============================================================================
