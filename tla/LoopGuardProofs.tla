-------------------------- MODULE LoopGuardProofs --------------------------
(* Proofs about LoopGuard for every value of its constants: debounce and review   *)
(* coalescing, the depth an unattended chain of agents reaches, and the line of   *)
(* heirs that replaced runs leave, for any triggers, agents, windows, limits,     *)
(* delays of polling and number of restarts.  And about Desk: what people ask of  *)
(* runs, while the runs go on; Schedule: what a rule fires for, and when; and     *)
(* Wiki: what gets onto a page, and over which version.                           *)
EXTENDS LoopGuard, Desk, Schedule, Wiki, FiniteSetTheorems, NaturalsInduction, WellFoundedInduction, TLAPS

\* What the worker, the clock and the tables keep to.
Tables ==
  /\ clock \in Nat /\ nEvents \in 0..MaxEvents /\ nRuns \in 0..MaxRuns
  /\ DOMAIN state = Runs /\ DOMAIN runSubject = Runs /\ DOMAIN runCause = Runs
  /\ DOMAIN subject = Events /\ DOMAIN review = Events
  /\ trigger \in [Runs -> Triggers \cup {0}] /\ queuedAt \in [Runs -> Nat]
  /\ \A r \in 1..nRuns : queuedAt[r] <= clock
  /\ \A r \in 1..nRuns : trigger[r] # 0 => runCause[r] \in 1..nEvents
  /\ ev \in Nat \ {0} /\ tr \in Triggers
  /\ step \in {"guard", "enqueue", "stop", "mark", "write"}
  /\ (step # "guard" => ev <= nEvents)

\* The verdict is still true when Enqueue acts on it: no run of the trigger on the subject is
\* inside the window, and none has the event's review.
VerdictHolds ==
  step = "enqueue" /\ Window[tr] > 0 =>
    \A r \in OnSubject(tr, subject[ev]) :
      /\ queuedAt[r] + Window[tr] < clock
      /\ ~(review[ev] # NoReview /\ review[runCause[r]] = review[ev])

CoalesceInv == Tables /\ VerdictHolds /\ OneRunPerWindow /\ OneRunPerReview

USE DEF eventVars, runVars, firingVars, workVars

\* The constants' assumptions as facts about the index sets.
LEMMA Indices ==
  /\ MaxEvents \in Nat /\ MaxRuns \in Nat \ {0} /\ NumTriggers \in Nat \ {0}
  /\ Window \in [Triggers -> Nat]
  /\ Runs = 1..MaxRuns /\ Events = 1..MaxEvents /\ Triggers = 1..NumTriggers
  BY GuardConstants DEF Runs, Events, Triggers

\* The initial state: one run at most, and none of a trigger.
LEMMA CoalesceInit == Init => CoalesceInv
  <1> SUFFICES ASSUME Init PROVE CoalesceInv
    OBVIOUS
  <1>1. Tables
    BY Indices DEF Init, Tables
  <1>2. \A r \in 1..nRuns : r \in Runs /\ trigger[r] = 0
    BY <1>1, Indices DEF Init, Tables
  <1>3. Triggered = {}
    BY <1>2 DEF Triggered, RealRuns
  <1>4. step = "guard"
    BY DEF Init
  <1> QED
    BY <1>1, <1>3, <1>4 DEF CoalesceInv, VerdictHolds, OneRunPerWindow, OneRunPerReview

\* A step that starts no run, and rewrites neither the rows of runs nor recorded events,
\* keeps the two promises.
LEMMA NothingStarted ==
  ASSUME CoalesceInv, RealRuns' \subseteq RealRuns,
         UNCHANGED <<trigger, runSubject, runCause, queuedAt>>,
         \A e \in 1..nEvents : review'[e] = review[e]
  PROVE  OneRunPerWindow' /\ OneRunPerReview'
  <1>1. Triggered' \subseteq Triggered
    BY DEF Triggered
  <1>2. OneRunPerWindow'
    BY <1>1 DEF CoalesceInv, OneRunPerWindow
  <1>3. \A r \in Triggered' : runCause'[r] = runCause[r] /\ review'[runCause[r]] = review[runCause[r]]
    <2> SUFFICES ASSUME NEW r \in Triggered'
                 PROVE  runCause'[r] = runCause[r] /\ review'[runCause[r]] = review[runCause[r]]
      OBVIOUS
    <2>1. r \in 1..nRuns /\ trigger[r] # 0
      BY <1>1 DEF Triggered, RealRuns
    <2>2. runCause[r] \in 1..nEvents
      BY <2>1 DEF CoalesceInv, Tables
    <2> QED
      BY <2>2
  <1>4. OneRunPerReview'
    BY <1>1, <1>3 DEF CoalesceInv, OneRunPerReview
  <1> QED
    BY <1>2, <1>4

\* The worker's steps that leave both tables alone.
LEMMA WorkerStep ==
  ASSUME CoalesceInv, PassOver \/ NoAction \/ Debounced \/ Supersede \/ WriteFiring \/ Crash
  PROVE  CoalesceInv'
  <1>1. UNCHANGED <<clock, eventVars, runVars>>
    BY DEF PassOver, NoAction, Debounced, Supersede, WriteFiring, Crash
  <1>2. /\ step' \in {"guard", "write"} /\ ev' \in Nat \ {0} /\ tr' \in Triggers
        /\ step' # "guard" => ev' <= nEvents
    <2>1. /\ ev \in Nat \ {0} /\ tr \in Triggers /\ (step # "guard" => ev <= nEvents)
          /\ step = "guard" => PassOver \/ NoAction \/ Debounced
      BY DEF CoalesceInv, Tables, Supersede, WriteFiring, Crash
    <2>2. ASSUME Advance PROVE step' = "guard" /\ ev' \in Nat \ {0} /\ tr' \in Triggers
      <3>1. 1 \in Triggers
        BY Indices
      <3>. QED BY <2>1, <2>2, <3>1 DEF Advance
    <2>3. \/ Advance
          \/ step' \in {"guard", "write"} /\ UNCHANGED <<ev, tr, nEvents>> /\ step # "guard"
      BY DEF PassOver, NoAction, Debounced, Supersede, WriteFiring, Crash
    <2> QED
      BY <1>1, <2>1, <2>2, <2>3
  <1>3. Tables'
    BY <1>1, <1>2 DEF CoalesceInv, Tables
  <1>4. RealRuns' \subseteq RealRuns
    BY <1>1 DEF RealRuns
  <1> QED
    BY <1>1, <1>2, <1>3, <1>4, NothingStarted DEF CoalesceInv, VerdictHolds

\* What CreateRun leaves in the table.
LEMMA Created ==
  ASSUME Tables, NEW t \in Triggers, NEW s, NEW c \in 1..nEvents, NEW st, CreateRun(t, s, c, st),
         UNCHANGED <<clock, eventVars>>
  PROVE  /\ nRuns + 1 \in Runs /\ nRuns' = nRuns + 1 /\ nRuns \in Nat
         /\ trigger'[nRuns + 1] = t /\ runSubject'[nRuns + 1] = s /\ runCause'[nRuns + 1] = c
         /\ queuedAt'[nRuns + 1] = clock /\ state'[nRuns + 1] = st
         /\ \A r \in 1..nRuns :
              /\ trigger'[r] = trigger[r] /\ runSubject'[r] = runSubject[r]
              /\ runCause'[r] = runCause[r] /\ queuedAt'[r] = queuedAt[r] /\ state'[r] = state[r]
         /\ DOMAIN state' = Runs /\ DOMAIN runSubject' = Runs /\ DOMAIN runCause' = Runs
         /\ trigger' \in [Runs -> Triggers \cup {0}] /\ queuedAt' \in [Runs -> Nat]
         /\ \A r \in 1..nRuns' : r \in 1..nRuns \/ r = nRuns + 1
  <1>1. nRuns + 1 \in Runs /\ nRuns \in Nat /\ nRuns' = nRuns + 1
    BY Indices DEF Tables, CreateRun
  <1>2. \A r \in 1..nRuns : r \in Runs /\ r # nRuns + 1
    BY <1>1, Indices DEF Tables
  <1>3. \A r \in 1..nRuns' : r \in 1..nRuns \/ r = nRuns + 1
    BY <1>1
  <1> QED
    BY <1>1, <1>2, <1>3 DEF Tables, CreateRun

\* The tables after a run was created.
LEMMA CreatedTables ==
  ASSUME Tables, NEW t \in Triggers, NEW s, NEW c \in 1..nEvents, NEW st, CreateRun(t, s, c, st),
         UNCHANGED <<clock, eventVars>>,
         step' \in {"guard", "stop", "write"}, ev' \in Nat \ {0}, tr' \in Triggers,
         step' # "guard" => ev' <= nEvents
  PROVE  Tables'
  <1>1. /\ \A r \in 1..nRuns' : r \in 1..nRuns \/ r = nRuns + 1
        /\ queuedAt'[nRuns + 1] = clock /\ runCause'[nRuns + 1] = c /\ clock \in Nat
        /\ \A r \in 1..nRuns : /\ queuedAt'[r] = queuedAt[r] /\ trigger'[r] = trigger[r]
                               /\ runCause'[r] = runCause[r]
    BY Created DEF Tables
  <1>2. \A r \in 1..nRuns' : queuedAt'[r] <= clock'
    BY <1>1 DEF Tables
  <1>3. \A r \in 1..nRuns' : trigger'[r] # 0 => runCause'[r] \in 1..nEvents'
    BY <1>1 DEF Tables
  <1>4. nRuns' \in 0..MaxRuns
    <2>1. nRuns' = nRuns + 1 /\ nRuns + 1 \in Runs
      BY Created
    <2> QED
      BY <2>1, Indices
  <1> QED
    BY <1>2, <1>3, <1>4, Created DEF Tables

\* Layer 4's row is terminal and counts for no probe.
LEMMA stopLoopStep ==
  ASSUME CoalesceInv, stopLoop
  PROVE  CoalesceInv'
  <1>0. Tables
    BY DEF CoalesceInv
  <1>1. CreateRun(tr, subject[ev], ev, "loop_stopped") /\ UNCHANGED <<clock, eventVars>> /\ Advance
    BY DEF stopLoop
  <1>2. ev \in 1..nEvents /\ tr \in Triggers
    BY <1>0 DEF Tables, stopLoop, Evaluating
  <1>3. step' = "guard" /\ ev' \in Nat \ {0} /\ tr' \in Triggers
    BY <1>0, <1>1, Indices DEF Tables, Advance
  <1>4. Tables'
    BY <1>0, <1>1, <1>2, <1>3, CreatedTables
  <1>5. Triggered' \subseteq 1..nRuns
    <2> SUFFICES ASSUME NEW r \in Triggered' PROVE r \in 1..nRuns
      OBVIOUS
    <2>1. r \in 1..nRuns' /\ state'[r] # "loop_stopped"
      BY DEF Triggered, RealRuns
    <2>2. state'[nRuns + 1] = "loop_stopped" /\ (r \in 1..nRuns \/ r = nRuns + 1)
      BY <2>1, <1>0, <1>1, <1>2, Created
    <2> QED
      BY <2>1, <2>2
  <1>6. \A r \in Triggered' : /\ r \in Triggered
                              /\ trigger'[r] = trigger[r] /\ runSubject'[r] = runSubject[r]
                              /\ runCause'[r] = runCause[r] /\ queuedAt'[r] = queuedAt[r]
    BY <1>5, <1>0, <1>1, <1>2, Created DEF Triggered, RealRuns
  <1>7. OneRunPerWindow'
    BY <1>6 DEF CoalesceInv, OneRunPerWindow
  <1>8. OneRunPerReview'
    BY <1>1, <1>6 DEF CoalesceInv, OneRunPerReview
  <1> QED
    BY <1>3, <1>4, <1>7, <1>8 DEF CoalesceInv, VerdictHolds

\* Evaluate lets an event through only when layers 2a and 2 absorb it nowhere.
LEMMA EvaluateStep ==
  ASSUME CoalesceInv, Evaluate
  PROVE  CoalesceInv'
  <1>1. UNCHANGED <<clock, eventVars, runVars, ev, tr>> /\ step' = "enqueue" /\ Absorbers = {}
    BY DEF Evaluate
  <1>2. ev \in 1..nEvents
    BY DEF Evaluate, Evaluating, CoalesceInv, Tables
  <1>3. Tables'
    BY <1>1, <1>2 DEF CoalesceInv, Tables
  <1>4. VerdictHolds'
    <2> SUFFICES ASSUME Window[tr] > 0, NEW r \in OnSubject(tr, subject[ev])
                 PROVE  /\ queuedAt[r] + Window[tr] < clock
                        /\ ~(review[ev] # NoReview /\ review[runCause[r]] = review[ev])
      BY <1>1 DEF VerdictHolds, OnSubject, RealRuns
    <2>1. r \in 1..nRuns /\ trigger[r] = tr /\ tr \in Triggers /\ tr # 0 /\ r \in Runs
      BY Indices DEF OnSubject, RealRuns, CoalesceInv, Tables
    <2>2. runCause[r] \in 1..nEvents /\ queuedAt[r] \in Nat /\ Window[tr] \in Nat /\ clock \in Nat
      BY <2>1, Indices DEF CoalesceInv, Tables
    <2>3. LatestForReview(tr, ev) = {} /\ LatestOnSubject(tr, subject[ev]) = {}
      BY <1>1, <2>2 DEF Absorbers
    <2>4. ~(queuedAt[r] + Window[tr] >= clock)
      BY <2>3 DEF LatestOnSubject
    <2>5. ~(runCause[r] # 0 /\ review[ev] # NoReview /\ review[runCause[r]] = review[ev])
      BY <2>3 DEF LatestForReview
    <2> QED
      BY <2>2, <2>4, <2>5
  <1>5. RealRuns' \subseteq RealRuns
    BY <1>1 DEF RealRuns
  <1> QED
    BY <1>1, <1>3, <1>4, <1>5, NothingStarted DEF CoalesceInv

\* Enqueue starts the run the verdict was about.
LEMMA EnqueueStep ==
  ASSUME CoalesceInv, Enqueue
  PROVE  CoalesceInv'
  <1> DEFINE n == nRuns + 1
  <1>0. Tables /\ VerdictHolds /\ OneRunPerWindow /\ OneRunPerReview
    BY DEF CoalesceInv
  <1>1. /\ CreateRun(tr, subject[ev], ev, "active") /\ UNCHANGED <<clock, eventVars, ev, tr>>
        /\ step = "enqueue" /\ step' \in {"stop", "write"}
    BY DEF Enqueue
  <1>2. ev \in 1..nEvents /\ tr \in Triggers /\ tr \in Nat \ {0}
    BY <1>0, <1>1, Indices DEF Tables
  <1>3. Tables'
    BY <1>0, <1>1, <1>2, CreatedTables DEF Tables
  <1>4. /\ trigger'[n] = tr /\ runSubject'[n] = subject[ev] /\ runCause'[n] = ev
        /\ queuedAt'[n] = clock /\ nRuns' = n /\ nRuns \in Nat
    BY <1>0, <1>1, <1>2, Created
  <1>5. \A r \in Triggered' : r = n \/ r \in Triggered
    <2> SUFFICES ASSUME NEW r \in Triggered', r # n PROVE r \in Triggered
      OBVIOUS
    <2>1. r \in 1..nRuns' /\ state'[r] # "loop_stopped" /\ trigger'[r] # 0
      BY DEF Triggered, RealRuns
    <2>2. r \in 1..nRuns
      BY <2>1, <1>0, <1>1, <1>2, Created
    <2>3. state'[r] = state[r] /\ trigger'[r] = trigger[r]
      BY <2>2, <1>0, <1>1, <1>2, Created
    <2> QED
      BY <2>1, <2>2, <2>3 DEF Triggered, RealRuns
  <1>6. \A r \in Triggered : /\ r \in 1..nRuns
                             /\ trigger'[r] = trigger[r] /\ runSubject'[r] = runSubject[r]
                             /\ runCause'[r] = runCause[r] /\ queuedAt'[r] = queuedAt[r]
    BY <1>0, <1>1, <1>2, Created DEF Triggered, RealRuns
  <1>7. \A q \in Triggered :
          trigger[q] = tr /\ runSubject[q] = subject[ev] /\ Window[tr] > 0 =>
            /\ queuedAt[q] + Window[tr] < clock
            /\ ~(review[ev] # NoReview /\ review[runCause[q]] = review[ev])
    BY <1>0, <1>1 DEF VerdictHolds, OnSubject, Triggered
  <1>8. OneRunPerWindow'
    <2> SUFFICES ASSUME NEW r \in Triggered', NEW q \in Triggered', q < r,
                        trigger'[q] = trigger'[r], runSubject'[q] = runSubject'[r],
                        Window[trigger'[r]] > 0
                 PROVE  queuedAt'[r] > queuedAt'[q] + Window[trigger'[r]]
      BY DEF OneRunPerWindow
    <2>1. CASE r = n
      <3>1. q \in Triggered
        BY <2>1, <1>5, <1>4
      <3>2. queuedAt[q] + Window[tr] < clock
        BY <2>1, <3>1, <1>4, <1>6, <1>7
      <3>3. queuedAt[q] \in Nat /\ Window[tr] \in Nat /\ clock \in Nat
        BY <3>1, <1>0, <1>2, <1>6, Indices DEF Tables
      <3> QED
        BY <2>1, <3>1, <3>2, <3>3, <1>4, <1>6
    <2>2. CASE r \in Triggered
      <3>1. q # n
        BY <2>2, <1>4, <1>6
      <3> QED
        BY <2>2, <3>1, <1>0, <1>5, <1>6 DEF OneRunPerWindow
    <2> QED
      BY <2>1, <2>2, <1>5
  <1>9. OneRunPerReview'
    <2> SUFFICES ASSUME NEW r \in Triggered', NEW q \in Triggered',
                        Window[trigger'[r]] > 0,
                        trigger'[q] = trigger'[r], runSubject'[q] = runSubject'[r],
                        review[runCause'[r]] = review[runCause'[q]], review[runCause'[r]] # NoReview
                 PROVE  r = q
      BY <1>1 DEF OneRunPerReview
    <2>1. CASE r \in Triggered /\ q \in Triggered
      BY <2>1, <1>0, <1>6 DEF OneRunPerReview
    <2>2. CASE r = n /\ q \in Triggered
      BY <2>2, <1>4, <1>6, <1>7
    <2>3. CASE q = n /\ r \in Triggered
      BY <2>3, <1>4, <1>6, <1>7
    <2> QED
      BY <2>1, <2>2, <2>3, <1>5
  <1> QED
    BY <1>1, <1>3, <1>8, <1>9 DEF CoalesceInv, VerdictHolds

\* The replaced run ends or is asked to.
LEMMA StopRunStep ==
  ASSUME CoalesceInv, StopRun
  PROVE  CoalesceInv'
  <1>1. /\ UNCHANGED <<clock, eventVars, nRuns, trigger, runSubject, runCause, queuedAt, ev, tr>>
        /\ step' = "mark" /\ step = "stop"
    BY DEF StopRun
  <1>2. state' = state \/ (state[superseded] = "active"
                           /\ state' = [state EXCEPT ![superseded] = "ended"])
    BY DEF StopRun
  <1>3. Tables'
    BY <1>1, <1>2 DEF CoalesceInv, Tables
  <1>4. RealRuns' \subseteq RealRuns
    <2> SUFFICES ASSUME NEW r \in 1..nRuns, state[r] = "loop_stopped"
                 PROVE  state'[r] = "loop_stopped"
      BY <1>1 DEF RealRuns
    <2>1. r \in DOMAIN state
      BY Indices DEF CoalesceInv, Tables
    <2> QED
      BY <1>2, <2>1
  <1> QED
    BY <1>1, <1>3, <1>4, NothingStarted DEF CoalesceInv, VerdictHolds

\* An event arrives behind those on record.
LEMMA ArrivesStep ==
  ASSUME CoalesceInv, NEW a, NEW s, NEW t, NEW c, NEW k, NEW w, Arrives(a, s, t, c, k, w)
  PROVE  CoalesceInv'
  <1>1. /\ UNCHANGED <<clock, runVars, workVars>> /\ step = "guard"
        /\ nEvents' = nEvents + 1 /\ nEvents < MaxEvents
        /\ subject' = [subject EXCEPT ![nEvents + 1] = s]
        /\ review' = [review EXCEPT ![nEvents + 1] = w]
    BY DEF Arrives
  <1>2. nEvents \in Nat /\ nEvents' \in 0..MaxEvents
    BY <1>1, Indices DEF CoalesceInv, Tables
  <1>3. \A e \in 1..nEvents : e \in Events /\ e # nEvents + 1
    BY <1>2, Indices DEF CoalesceInv, Tables
  <1>4. Tables'
    <2>1. \A r \in 1..nRuns : trigger[r] # 0 => runCause[r] \in 1..nEvents'
      BY <1>1, <1>2 DEF CoalesceInv, Tables
    <2> QED
      BY <1>1, <1>2, <2>1 DEF CoalesceInv, Tables
  <1>5. \A e \in 1..nEvents : review'[e] = review[e]
    BY <1>1, <1>3 DEF CoalesceInv, Tables
  <1>6. RealRuns' \subseteq RealRuns
    BY <1>1 DEF RealRuns
  <1> QED
    BY <1>1, <1>4, <1>5, <1>6, NothingStarted DEF CoalesceInv, VerdictHolds

\* A run ends by itself.
LEMMA RunEndsStep ==
  ASSUME CoalesceInv, NEW x \in Runs, RunEnds(x)
  PROVE  CoalesceInv'
  <1>1. /\ UNCHANGED <<clock, eventVars, nRuns, trigger, runSubject, runCause, queuedAt, workVars>>
        /\ state[x] = "active" /\ state' = [state EXCEPT ![x] = "ended"]
    BY DEF RunEnds
  <1>2. step \in {"guard", "stop"}
    BY Indices DEF RunEnds, CoalesceInv, Tables
  <1>3. Tables'
    BY <1>1 DEF CoalesceInv, Tables
  <1>4. RealRuns' \subseteq RealRuns
    <2> SUFFICES ASSUME NEW r \in 1..nRuns, state[r] = "loop_stopped"
                 PROVE  state'[r] = "loop_stopped"
      BY <1>1 DEF RealRuns
    <2>1. r \in DOMAIN state
      BY Indices DEF CoalesceInv, Tables
    <2> QED
      BY <1>1, <2>1
  <1> QED
    BY <1>1, <1>2, <1>3, <1>4, NothingStarted DEF CoalesceInv, VerdictHolds

\* The clock moves only while the worker is idle.
LEMMA TickStep ==
  ASSUME CoalesceInv, Tick
  PROVE  CoalesceInv'
  <1>1. UNCHANGED <<eventVars, runVars, workVars>> /\ clock' = clock + 1 /\ ev > nEvents
    BY DEF Tick
  <1>2. step = "guard"
    BY <1>1, Indices DEF CoalesceInv, Tables
  <1>3. \A r \in 1..nRuns : queuedAt[r] <= clock'
    <2> SUFFICES ASSUME NEW r \in 1..nRuns PROVE queuedAt[r] <= clock'
      OBVIOUS
    <2>1. queuedAt[r] \in Nat /\ queuedAt[r] <= clock /\ clock \in Nat
      BY Indices DEF CoalesceInv, Tables
    <2> QED
      BY <1>1, <2>1
  <1>4. Tables'
    BY <1>1, <1>3 DEF CoalesceInv, Tables
  <1>5. RealRuns' \subseteq RealRuns
    BY <1>1 DEF RealRuns
  <1> QED
    BY <1>1, <1>2, <1>4, <1>5, NothingStarted DEF CoalesceInv, VerdictHolds

\* Every step keeps the invariant.
LEMMA CoalesceStep == CoalesceInv /\ [Next]_vars => CoalesceInv'
  <1> SUFFICES ASSUME CoalesceInv, [Next]_vars PROVE CoalesceInv'
    OBVIOUS
  <1>1. CASE PassOver \/ NoAction \/ Debounced \/ Supersede \/ WriteFiring \/ Crash
    BY <1>1, WorkerStep
  <1>2. CASE stopLoop
    BY <1>2, stopLoopStep
  <1>3. CASE Evaluate
    BY <1>3, EvaluateStep
  <1>4. CASE Enqueue
    BY <1>4, EnqueueStep
  <1>5. CASE StopRun
    BY <1>5, StopRunStep
  <1>6. ASSUME NEW s \in Subjects, NEW t \in 1..clock, NEW a \in {Human, External},
               NEW w \in Reviews \cup {NoReview}, OutsiderActs(a, s, t, w)
        PROVE  CoalesceInv'
    BY <1>6, ArrivesStep DEF OutsiderActs
  <1>7. ASSUME NEW s \in Subjects, NEW r \in Runs, NEW k \in {"agent", "check"}, AgentActs(r, s, k)
        PROVE  CoalesceInv'
    BY <1>7, ArrivesStep DEF AgentActs
  <1>8. ASSUME NEW r \in Runs, RunEnds(r)
        PROVE  CoalesceInv'
    BY <1>8, RunEndsStep
  <1>9. CASE Tick
    BY <1>9, TickStep
  <1>10. CASE UNCHANGED vars
    BY <1>10 DEF vars, CoalesceInv, Tables, VerdictHolds, OneRunPerWindow, OneRunPerReview,
       Triggered, OnSubject, RealRuns
  <1> QED
    BY <1>1, <1>2, <1>3, <1>4, <1>5, <1>6, <1>7, <1>8, <1>9, <1>10 DEF Next

\* CoalesceInv holds throughout.
THEOREM CoalesceInvariant == Spec => []CoalesceInv
  BY CoalesceInit, CoalesceStep, PTL DEF Spec

\* Layer 2: a burst of events on one subject starts one run of a trigger per debounce window,
\* whatever agents do, runs end or restarts redeliver meanwhile.
THEOREM DebounceHolds == Spec => []OneRunPerWindow
  <1>1. CoalesceInv => OneRunPerWindow
    BY DEF CoalesceInv
  <1> QED
    BY <1>1, CoalesceInvariant, PTL

\* Layer 2a: the fragments of one review never start a second run of a trigger on the subject.
THEOREM ReviewHolds == Spec => []OneRunPerReview
  <1>1. CoalesceInv => OneRunPerReview
    BY DEF CoalesceInv
  <1> QED
    BY <1>1, CoalesceInvariant, PTL

\* A burst of activity on one subject starts one run of a trigger: DebounceSearch and the
\* review probe of the coalesce layer together.
THEOREM BurstHolds == Spec => []OneRunPerBurst
  BY DebounceHolds, ReviewHolds, PTL DEF OneRunPerBurst

------------------------------------------------------------------------------
(* Chains: what the walk of chainDepth counts.                               *)

\* A set of naturals has a least element, a bounded one a greatest.
LEMMA LeastOf ==
  ASSUME NEW S, S \subseteq Nat, S # {}
  PROVE  \E i \in S : \A j \in S : i <= j
  <1>1. PICK i \in S : \A j \in S : ~ (<<j, i>> \in OpToRel(<, Nat))
    BY NatLessThanWellFounded, WFMin
  <1>2. \A j \in S : ~(j < i)
    BY <1>1 DEF OpToRel
  <1> QED
    BY <1>2

LEMMA MinIs ==
  ASSUME NEW S, S \subseteq Nat, S # {}
  PROVE  Min(S) \in S /\ \A y \in S : Min(S) <= y
  BY LeastOf DEF Min

LEMMA MaxIs ==
  ASSUME NEW n \in Nat, NEW S, S \subseteq 0..n, S # {}
  PROVE  Max(S) \in S /\ \A y \in S : y <= Max(S)
  <1> DEFINE T == {k \in Nat : n - k \in S}
  <1>1. \A y \in S : n - y \in T /\ y \in Nat
    BY DEF T
  <1>2. T # {} /\ T \subseteq Nat
    BY <1>1
  <1>3. PICK k \in T : \A j \in T : k <= j
    BY <1>2, LeastOf
  <1>4. n - k \in S /\ \A y \in S : y <= n - k
    BY <1>1, <1>3
  <1>5. \E x \in S : \A y \in S : x >= y
    BY <1>1, <1>4
  <1>6. Max(S) \in S /\ \A y \in S : Max(S) >= y
    BY <1>5 DEF Max
  <1>. QED BY <1>1, <1>6

\* The rows of events and runs: what was written when, and what a run was started by.
Rows ==
  /\ clock # 0
  /\ at \in [Events -> Nat] /\ \A e \in Events : at[e] <= clock
  /\ \A e \in 1..nEvents : at[e] # 0
  /\ cause \in [Events -> Nat] /\ \A e \in Events : cause[e] \in 0..nRuns
  /\ DOMAIN actor = Events /\ DOMAIN subject = Events
  /\ crashes \in Nat /\ runCause \in [Runs -> Events \cup {0}] /\ seen \in [Runs -> Nat]
  /\ \A r \in 1..nRuns : runCause[r] <= nEvents /\ seen[r] <= nEvents
  /\ \A r \in 1..nRuns : trigger[r] # 0 =>
       runSubject[r] = subject[runCause[r]] /\ cause[runCause[r]] < r

\* The walk, and that there is one.
Causes == Events \cup {0}
Hop(e, w, left, c) ==
  IF left = 0 \/ c = 0 THEN 0
  ELSE IF at[c] <= NewestHumanActionAt(subject[e]) \/ cause[c] = 0 THEN 0
  ELSE IF cause[c] \in byHuman \/ runSubject[cause[c]] # subject[e] THEN 0
  ELSE 1 + w[left - 1][runCause[cause[c]]]
IsWalk(e, w) == w = [left \in 0..HopCap |-> [c \in Causes |-> Hop(e, w, left, c)]]
Walk(e) == CHOOSE w : IsWalk(e, w)

LEMMA DepthIsWalk ==
  ASSUME NEW e
  PROVE  chainDepth(e) = Walk(e)[HopCap][e]
  BY DEF chainDepth, Walk, IsWalk, Hop, Causes

LEMMA RunCauses ==
  ASSUME Tables, Rows, NEW c \in Events, cause[c] # 0
  PROVE  cause[c] \in Runs /\ runCause[cause[c]] \in Causes
  <1>1. nRuns \in 0..MaxRuns /\ cause[c] \in 0..nRuns
    BY DEF Tables, Rows
  <1>2. cause[c] \in Runs
    BY <1>1, Indices
  <1>. QED BY <1>2 DEF Rows, Causes

LEMMA CauseOf ==
  ASSUME Tables, Rows
  PROVE  \A r \in 1..nRuns : runCause[r] \in Causes
  <1>1. nRuns \in 0..MaxRuns
    BY DEF Tables
  <1>2. \A r \in 1..nRuns : r \in Runs
    BY <1>1, Indices
  <1>. QED BY <1>2 DEF Rows, Causes

LEMMA HopTyped ==
  ASSUME Tables, Rows, NEW e, NEW left \in 0..HopCap, NEW c \in Causes, NEW w,
         left # 0 => \A d \in Causes : w[left - 1][d] \in Nat
  PROVE  Hop(e, w, left, c) \in Nat
  BY RunCauses DEF Hop, Causes

LEMMA WalkExists ==
  ASSUME Tables, Rows, NEW e
  PROVE  \E w : IsWalk(e, w)
  <1> DEFINE Good(w, n) == \A left \in 0..n, c \in Causes : w[left][c] = Hop(e, w, left, c)
             Ws  == [0..HopCap -> [Causes -> Nat]]
             Bad == {n \in 0..HopCap : \A w \in Ws : ~Good(w, n)}
  <1>0. HopCap \in Nat
    BY GuardConstants
  <1>1. Bad = {}
    <2> SUFFICES ASSUME Bad # {} PROVE FALSE
      OBVIOUS
    <2>1. Bad \subseteq Nat
      BY <1>0
    <2>2. PICK n \in Bad : \A j \in Bad : n <= j
      BY <2>1, LeastOf
    <2>3. n \in 0..HopCap /\ \A w \in Ws : ~Good(w, n)
      BY <2>2
    <2>4. CASE n = 0
      <3> DEFINE w == [left \in 0..HopCap |-> [c \in Causes |-> 0]]
      <3>1. w \in Ws
        OBVIOUS
      <3>2. Good(w, 0)
        BY <1>0 DEF Hop
      <3>. QED BY <3>1, <3>2, <2>3, <2>4
    <2>5. CASE n # 0
      <3>1. n - 1 \in 0..HopCap /\ ~(n <= n - 1)
        BY <1>0, <2>3, <2>5
      <3>2. PICK w \in Ws : Good(w, n - 1)
        BY <3>1, <2>2
      <3> DEFINE line == [c \in Causes |-> Hop(e, w, n, c)]
                 v   == [w EXCEPT ![n] = line]
      <3>3. \A c \in Causes : Hop(e, w, n, c) \in Nat
        BY <3>1, <3>2, <2>3, HopTyped
      <3>4. line \in [Causes -> Nat]
        BY <3>3
      <3>5. v \in Ws /\ v[n] = line /\ \A left \in 0..(n - 1) : v[left] = w[left]
        <4> HIDE DEF line
        <4>. QED BY <3>1, <3>2, <3>4, <2>3
      <3>6. \A left \in 0..n, c \in Causes : Hop(e, v, left, c) = Hop(e, w, left, c)
        <4> SUFFICES ASSUME NEW left \in 0..n, NEW c \in Causes
                     PROVE  Hop(e, v, left, c) = Hop(e, w, left, c)
          OBVIOUS
        <4>1. left = 0 \/ v[left - 1] = w[left - 1]
          BY <3>5, <2>3
        <4> HIDE DEF v
        <4>. QED BY <4>1 DEF Hop
      <3>7. Good(v, n)
        <4> SUFFICES ASSUME NEW left \in 0..n, NEW c \in Causes
                     PROVE  v[left][c] = Hop(e, v, left, c)
          OBVIOUS
        <4>1. CASE left = n
          BY <4>1, <3>5, <3>6
        <4>2. CASE left # n
          <5>1. left \in 0..(n - 1)
            BY <4>2, <2>3
          <5>2. w[left][c] = Hop(e, w, left, c)
            BY <5>1, <3>2
          <5>. QED BY <5>1, <5>2, <3>5, <3>6
        <4>. QED BY <4>1, <4>2
      <3>. QED BY <3>5, <3>7, <2>3
    <2>. QED BY <2>4, <2>5
  <1>2. PICK w \in Ws : Good(w, HopCap)
    <2>1. HopCap \in 0..HopCap
      BY <1>0
    <2>2. HopCap \notin Bad
      BY <1>1
    <2>. QED BY <2>1, <2>2
  <1>3. \A left \in 0..HopCap : w[left] = [c \in Causes |-> Hop(e, w, left, c)]
    <2> SUFFICES ASSUME NEW left \in 0..HopCap
                 PROVE  w[left] = [c \in Causes |-> Hop(e, w, left, c)]
      OBVIOUS
    <2>1. w[left] \in [Causes -> Nat]
      OBVIOUS
    <2>. QED BY <2>1, <1>2
  <1>. QED BY <1>3 DEF IsWalk

LEMMA WalkHops ==
  ASSUME Tables, Rows, NEW e
  PROVE  \A left \in 0..HopCap, c \in Causes : Walk(e)[left][c] = Hop(e, Walk(e), left, c)
  <1>1. IsWalk(e, Walk(e))
    BY WalkExists DEF Walk
  <1> DEFINE w == Walk(e)
  <1>2. w = [left \in 0..HopCap |-> [c \in Causes |-> Hop(e, w, left, c)]]
    BY <1>1 DEF IsWalk
  <1> HIDE DEF w
  <1>3. ASSUME NEW left \in 0..HopCap, NEW c \in Causes
        PROVE  w[left][c] = Hop(e, w, left, c)
    <2>1. w[left] = [d \in Causes |-> Hop(e, w, left, d)]
      BY <1>2, Zenon
    <2>. QED BY <2>1, Zenon
  <1>. QED BY <1>3 DEF w

LEMMA WalkTyped ==
  ASSUME Tables, Rows, NEW e
  PROVE  \A left \in 0..HopCap, c \in Causes : Walk(e)[left][c] \in Nat
  <1> DEFINE w == Walk(e)
             Bad == {left \in 0..HopCap : \E c \in Causes : w[left][c] \notin Nat}
  <1>0. HopCap \in Nat
    BY GuardConstants
  <1>1. \A left \in 0..HopCap, c \in Causes : w[left][c] = Hop(e, w, left, c)
    BY WalkHops
  <1> HIDE DEF w
  <1>2. Bad = {}
    <2> SUFFICES ASSUME Bad # {} PROVE FALSE
      OBVIOUS
    <2>0. Bad \subseteq Nat
      BY <1>0
    <2>1. PICK n \in Bad : \A j \in Bad : n <= j
      BY <2>0, LeastOf
    <2>2. PICK c \in Causes : w[n][c] \notin Nat
      BY <2>1
    <2>3. n # 0 => \A d \in Causes : w[n - 1][d] \in Nat
      <3> SUFFICES ASSUME n # 0, NEW d \in Causes PROVE w[n - 1][d] \in Nat
        OBVIOUS
      <3>1. n - 1 \in 0..HopCap /\ ~(n <= n - 1)
        BY <2>1, <1>0
      <3>. QED BY <3>1, <2>1
    <2>4. n \in 0..HopCap
      BY <2>1
    <2>5. Hop(e, w, n, c) \in Nat
      BY <2>2, <2>3, <2>4, HopTyped
    <2>. QED BY <2>2, <2>4, <2>5, <1>1
  <1>. QED BY <1>2 DEF w

------------------------------------------------------------------------------
(* The walk from a chain's last event counts the chain.                      *)

\* A chain whose hops the walk for event e goes on over: all on its subject, none of them
\* with a human's action after it.
Clear(e, C) ==
  \A r \in C : /\ runSubject[r] = subject[e]
               /\ r # Min(C) => at[runCause[r]] > NewestHumanActionAt(subject[e])

\* A chain's parts.
LEMMA ChainFacts ==
  ASSUME Tables, Rows, NEW C \in Chains
  PROVE  /\ C \subseteq 1..nRuns /\ C \subseteq Triggered /\ C # {} /\ IsFiniteSet(C)
         /\ Cardinality(C) \in Nat /\ Cardinality(C) # 0
         /\ Max(C) \in C /\ \A y \in C : y <= Max(C)
         /\ Min(C) \in C /\ \A y \in C : Min(C) <= y
         /\ \A q, r \in C : Follows(r, q) => q < r /\ q # 0 /\ runCause[r] # 0
  <1>1. C \subseteq Triggered /\ C # {} /\ nRuns \in Nat
    BY DEF Chains, Tables
  <1>2. C \subseteq 1..nRuns
    BY <1>1 DEF Triggered, RealRuns
  <1>3. C \subseteq 0..nRuns /\ C \subseteq Nat /\ IsFiniteSet(1..nRuns)
    <2>1. nRuns \in Int /\ 1 \in Int
      BY <1>1
    <2>2. IsFiniteSet(1..nRuns)
      BY <2>1, FS_Interval
    <2>. QED BY <1>1, <1>2, <2>2
  <1>4. IsFiniteSet(C)
    BY <1>2, <1>3, FS_Subset
  <1>5. Cardinality(C) \in Nat /\ Cardinality(C) # 0
    BY <1>1, <1>4, FS_CardinalityType, FS_EmptySet
  <1>6. Max(C) \in C /\ \A y \in C : y <= Max(C)
    BY <1>1, <1>3, MaxIs
  <1>7. Min(C) \in C /\ \A y \in C : Min(C) <= y
    BY <1>1, <1>3, MinIs
  <1>8. \A q, r \in C : Follows(r, q) => q < r /\ q # 0 /\ runCause[r] # 0
    BY <1>1, <1>2 DEF Follows, Rows, Triggered
  <1>. QED BY <1>1, <1>2, <1>4, <1>5, <1>6, <1>7, <1>8

\* Without its last run a chain is a chain, and what the last run followed is in it.
LEMMA ChainShortens ==
  ASSUME Tables, Rows, NEW C \in Chains, Max(C) # Min(C)
  PROVE  /\ C \ {Max(C)} \in Chains /\ Min(C \ {Max(C)}) = Min(C)
         /\ Cardinality(C \ {Max(C)}) = Cardinality(C) - 1
         /\ \E q \in C \ {Max(C)} : Follows(Max(C), q)
  <1> DEFINE m == Max(C)
             D == C \ {m}
  <1>1. /\ C \subseteq 1..nRuns /\ C \subseteq Triggered /\ IsFiniteSet(C)
        /\ Cardinality(C) \in Nat
        /\ m \in C /\ \A y \in C : y <= m
        /\ Min(C) \in C /\ \A y \in C : Min(C) <= y
        /\ \A q, r \in C : Follows(r, q) => q < r
    BY ChainFacts
  <1>2. /\ \A r \in C : r # Min(C) => \E q \in C : Follows(r, q)
        /\ \A q, r1, r2 \in C : Follows(r1, q) /\ Follows(r2, q) => r1 = r2
    BY DEF Chains
  <1>3. m # Min(C)
    OBVIOUS
  <1>4. Cardinality(D) = Cardinality(C) - 1
    BY <1>1, FS_RemoveElement
  <1> HIDE DEF m
  <1>5. Min(C) \in D /\ D \subseteq Nat /\ D # {}
    BY <1>1, <1>3
  <1>6. Min(D) = Min(C)
    <2>1. Min(D) \in D /\ \A y \in D : Min(D) <= y
      BY <1>5, MinIs
    <2>2. Min(D) <= Min(C) /\ Min(C) <= Min(D) /\ Min(C) \in Nat /\ Min(D) \in Nat
      BY <2>1, <1>1, <1>5
    <2>. QED BY <2>2
  <1>7. \A r \in C : r # Min(C) => \E q \in D : Follows(r, q)
    <2> SUFFICES ASSUME NEW r \in C, r # Min(C) PROVE \E q \in D : Follows(r, q)
      OBVIOUS
    <2>1. PICK q \in C : Follows(r, q)
      BY <1>2
    <2>2. q < r /\ r <= m /\ q \in Nat /\ r \in Nat /\ m \in Nat
      BY <2>1, <1>1
    <2>3. q # m
      BY <2>2
    <2>. QED BY <2>1, <2>3
  <1>8. D \in Chains
    <2>1. D \in SUBSET Triggered
      BY <1>1
    <2>2. \A r \in D : r # Min(D) => \E q \in D : Follows(r, q)
      BY <1>6, <1>7
    <2>3. \A q, r1, r2 \in D : Follows(r1, q) /\ Follows(r2, q) => r1 = r2
      BY <1>2
    <2>. QED BY <2>1, <2>2, <2>3, <1>5 DEF Chains
  <1>9. \E q \in D : Follows(m, q)
    BY <1>1, <1>3, <1>7
  <1>. QED BY <1>4, <1>6, <1>8, <1>9 DEF m

\* In a chain each run but the last is followed by another.
Followed(C) == \A q \in C : q # Max(C) => \E r \in C : Follows(r, q)

LEMMA ChainsAreFollowed ==
  ASSUME Tables, Rows
  PROVE  \A C \in Chains : Followed(C)
  <1> DEFINE Bad == {k \in Nat : \E C \in Chains : Cardinality(C) = k /\ ~Followed(C)}
  <1>1. Bad = {}
    <2> SUFFICES ASSUME Bad # {} PROVE FALSE
      OBVIOUS
    <2>1. PICK k \in Bad : \A j \in Bad : k <= j
      BY LeastOf
    <2>2. PICK C \in Chains : Cardinality(C) = k /\ ~Followed(C)
      BY <2>1
    <2> DEFINE m == Max(C)
               D == C \ {m}
    <2>3. /\ m \in C /\ Min(C) \in C /\ \A y \in C : y <= m /\ Min(C) <= y
          /\ C \subseteq 1..nRuns
      BY ChainFacts
    <2>4. CASE m = Min(C)
      <3>1. \A y \in C : y \in Nat /\ y <= m /\ m <= y
        <4>. HIDE DEF m
        <4>. QED BY <2>3, <2>4
      <3>2. \A y \in C : y = m
        <4>1. m \in C
          BY <2>3
        <4>. HIDE DEF m
        <4>. QED BY <3>1, <4>1
      <3>. QED BY <3>2, <2>2 DEF Followed
    <2>5. CASE m # Min(C)
      <3>1. D \in Chains /\ Cardinality(D) = Cardinality(C) - 1 /\ \E q \in D : Follows(m, q)
        BY <2>5, ChainShortens
      <3>2. Cardinality(D) \in Nat /\ Max(D) \in D
        BY <3>1, ChainFacts
      <3>3. Cardinality(D) \notin Bad
        BY <2>1, <2>2, <3>1, <3>2
      <3>4. Followed(D)
        BY <3>1, <3>2, <3>3
      <3>5. PICK q \in D : Follows(m, q)
        BY <3>1
      <3> HIDE DEF m
      <3>6. \A p, r1, r2 \in C : Follows(r1, p) /\ Follows(r2, p) => r1 = r2
        BY DEF Chains
      <3>7. q = Max(D)
        <4> SUFFICES ASSUME q # Max(D) PROVE FALSE
          OBVIOUS
        <4>1. PICK r \in D : Follows(r, q)
          BY <3>4, <3>5 DEF Followed
        <4>. QED BY <4>1, <3>5, <3>6, <2>3
      <3>8. \A p \in C : p # m => \E r \in C : Follows(r, p)
        BY <3>4, <3>5, <3>7, <2>3 DEF Followed
      <3>. QED BY <3>8, <2>2 DEF Followed, m
    <2>. QED BY <2>4, <2>5
  <1>2. ASSUME NEW C \in Chains PROVE Followed(C)
    <2>1. Cardinality(C) \in Nat /\ Cardinality(C) \notin Bad
      BY <1>1, ChainFacts
    <2>. QED BY <2>1
  <1>. QED BY <1>2

\* The last run of a chain followed the last of the rest.
LEMMA LastFollows ==
  ASSUME Tables, Rows, NEW C \in Chains, Max(C) # Min(C)
  PROVE  Follows(Max(C), Max(C \ {Max(C)}))
  <1> DEFINE m == Max(C)
             D == C \ {m}
  <1>1. D \in Chains /\ m \in C /\ \E q \in D : Follows(m, q)
    BY ChainShortens, ChainFacts
  <1>2. Followed(D)
    BY <1>1, ChainsAreFollowed
  <1>3. PICK q \in D : Follows(m, q)
    BY <1>1
  <1>4. \A p, r1, r2 \in C : Follows(r1, p) /\ Follows(r2, p) => r1 = r2
    BY DEF Chains
  <1> HIDE DEF m
  <1>5. q = Max(D)
    <2> SUFFICES ASSUME q # Max(D) PROVE FALSE
      OBVIOUS
    <2>1. PICK r \in D : Follows(r, q)
      BY <1>2, <1>3 DEF Followed
    <2>. QED BY <2>1, <1>1, <1>3, <1>4
  <1>. QED BY <1>3, <1>5 DEF m

\* All its runs are on one subject.
LEMMA ChainsKeepSubject ==
  ASSUME Tables, Rows
  PROVE  \A C \in Chains : \A r \in C : runSubject[r] = runSubject[Max(C)]
  <1> DEFINE One(C) == \A r \in C : runSubject[r] = runSubject[Max(C)]
             Bad == {k \in Nat : \E C \in Chains : Cardinality(C) = k /\ ~One(C)}
  <1>1. Bad = {}
    <2> SUFFICES ASSUME Bad # {} PROVE FALSE
      OBVIOUS
    <2>1. PICK k \in Bad : \A j \in Bad : k <= j
      BY LeastOf
    <2>2. PICK C \in Chains : Cardinality(C) = k /\ ~One(C)
      BY <2>1
    <2> DEFINE m == Max(C)
               D == C \ {m}
    <2>3. /\ m \in C /\ Min(C) \in C /\ \A y \in C : y <= m /\ Min(C) <= y
          /\ C \subseteq 1..nRuns /\ Cardinality(C) \in Nat
      BY ChainFacts
    <2>4. CASE m = Min(C)
      <3>1. \A y \in C : y = m
        <4>1. \A y \in C : y \in Nat /\ y <= m /\ m <= y
          <5>. HIDE DEF m
          <5>. QED BY <2>3, <2>4
        <4>2. m \in C
          BY <2>3
        <4>. HIDE DEF m
        <4>. QED BY <4>1, <4>2
      <3>. QED BY <3>1, <2>2
    <2>5. CASE m # Min(C)
      <3>1. D \in Chains /\ Cardinality(D) = Cardinality(C) - 1
        BY <2>5, ChainShortens
      <3>2. Cardinality(D) \in Nat
        BY <3>1, ChainFacts
      <3>3. Cardinality(D) \notin Bad
        <4>1. ~(k <= Cardinality(D))
          BY <2>2, <3>1, <3>2, <2>3
        <4>. QED BY <4>1, <2>1
      <3>4. One(D)
        BY <3>1, <3>2, <3>3
      <3>5. runSubject[m] = runSubject[Max(D)]
        BY <2>5, LastFollows DEF Follows
      <3>. QED BY <3>4, <3>5, <2>2
    <2>. QED BY <2>4, <2>5
  <1>2. ASSUME NEW C \in Chains PROVE One(C)
    <2>1. Cardinality(C) \in Nat /\ Cardinality(C) \notin Bad
      BY <1>1, ChainFacts
    <2>. QED BY <2>1
  <1>. QED BY <1>2

\* From the event that started a clear chain's last run, with so many hops left.
Climbs(e, C) ==
  \A left \in 0..HopCap :
    \/ Walk(e)[left][runCause[Max(C)]] >= Cardinality(C) - 1
    \/ Walk(e)[left][runCause[Max(C)]] >= left

\* A hop over the event that started r, on to the run that caused it.
LEMMA HopOver ==
  ASSUME Tables, Rows, NEW e, NEW c \in Events, NEW q, cause[c] = q, q # 0, q \notin byHuman,
         runSubject[q] = subject[e], at[c] > NewestHumanActionAt(subject[e]),
         NewestHumanActionAt(subject[e]) \in Nat, NEW left \in 0..HopCap, left # 0
  PROVE  Walk(e)[left][c] = 1 + Walk(e)[left - 1][runCause[q]]
  <1> DEFINE w == Walk(e)
  <1>1. w[left][c] = Hop(e, w, left, c)
    BY WalkHops DEF Causes
  <1> HIDE DEF w
  <1>2. at[c] \in Nat /\ c # 0
    BY Indices DEF Rows
  <1>3. ~(at[c] <= NewestHumanActionAt(subject[e]))
    BY <1>2
  <1>4. Hop(e, w, left, c) = 1 + w[left - 1][runCause[q]]
    BY <1>2, <1>3 DEF Hop
  <1>. QED BY <1>1, <1>4 DEF w

LEMMA WalkClimbs ==
  ASSUME Tables, Rows, NEW e, NewestHumanActionAt(subject[e]) \in Nat
  PROVE  \A C \in Chains : Clear(e, C) => Climbs(e, C)
  <1> DEFINE Bad == {k \in Nat : \E C \in Chains :
                       Cardinality(C) = k /\ Clear(e, C) /\ ~Climbs(e, C)}
  <1>0. HopCap \in Nat
    BY GuardConstants
  <1>1. Bad = {}
    <2> SUFFICES ASSUME Bad # {} PROVE FALSE
      OBVIOUS
    <2>1. PICK k \in Bad : \A j \in Bad : k <= j
      BY LeastOf
    <2>2. PICK C \in Chains : Cardinality(C) = k /\ Clear(e, C) /\ ~Climbs(e, C)
      BY <2>1
    <2> DEFINE m == Max(C)
               D == C \ {m}
    <2>3. /\ m \in C /\ Min(C) \in C /\ \A y \in C : y <= m /\ Min(C) <= y
          /\ C \subseteq 1..nRuns /\ Cardinality(C) \in Nat /\ Cardinality(C) # 0
      BY ChainFacts
    <2>4. runCause[m] \in Causes
      BY <2>3, CauseOf
    <2>5. CASE m = Min(C)
      <3>0. \A y \in C : y \in Nat /\ y <= m /\ m <= y
        <4>. HIDE DEF m
        <4>. QED BY <2>3, <2>5
      <3>1. C = {m}
        <4>1. m \in C
          BY <2>3
        <4>. HIDE DEF m
        <4>2. \A y \in C : y = m
          BY <3>0, <4>1
        <4>. QED BY <4>1, <4>2
      <3>2. Cardinality(C) = 1
        <4> HIDE DEF m
        <4>. QED BY <3>1, FS_Singleton
      <3>3. \A left \in 0..HopCap : Walk(e)[left][runCause[m]] \in Nat
        BY <2>4, WalkTyped
      <3>. QED BY <3>2, <3>3, <2>2 DEF Climbs
    <2>6. CASE m # Min(C)
      <3>1. D \in Chains /\ Cardinality(D) = Cardinality(C) - 1 /\ Min(D) = Min(C)
        BY <2>6, ChainShortens
      <3>2. Cardinality(D) \in Nat /\ Max(D) \in D /\ D \subseteq 1..nRuns
        BY <3>1, ChainFacts
      <3>3. Clear(e, D)
        BY <3>1, <2>2 DEF Clear
      <3>4. Cardinality(D) \notin Bad
        <4>1. ~(k <= Cardinality(D))
          BY <2>2, <3>1, <3>2, <2>3
        <4>. QED BY <4>1, <2>1
      <3>5. Climbs(e, D)
        BY <3>1, <3>2, <3>3, <3>4
      <3>6. Follows(m, Max(D))
        BY <2>6, LastFollows
      <3> DEFINE q == Max(D)
                 c == runCause[m]
      <3>7. /\ c # 0 /\ cause[c] = q /\ q \notin byHuman /\ q \in C /\ q # 0 /\ c \in Events
        BY <3>2, <3>6, <2>3, <2>4 DEF Follows, Causes
      <3>8. runSubject[q] = subject[e] /\ at[c] > NewestHumanActionAt(subject[e])
        BY <3>7, <2>2, <2>3, <2>6 DEF Clear
      <3>9. ASSUME NEW left \in 0..HopCap, left # 0
            PROVE  Walk(e)[left][c] = 1 + Walk(e)[left - 1][runCause[q]]
        BY <3>7, <3>8, <3>9, HopOver
      <3>10. runCause[q] \in Causes
        BY <3>7, <2>3, CauseOf
      <3>11. \A left \in 0..HopCap : Walk(e)[left][c] \in Nat /\ Walk(e)[left][runCause[q]] \in Nat
        BY <3>10, <2>4, WalkTyped
      <3>12. ASSUME NEW left \in 0..HopCap
             PROVE  Walk(e)[left][c] >= Cardinality(C) - 1 \/ Walk(e)[left][c] >= left
        <4>1. CASE left = 0
          BY <4>1, <3>11, <1>0
        <4>2. CASE left # 0
          <5>1. left - 1 \in 0..HopCap
            BY <4>2, <1>0
          <5>2. \/ Walk(e)[left - 1][runCause[q]] >= Cardinality(D) - 1
                \/ Walk(e)[left - 1][runCause[q]] >= left - 1
            BY <5>1, <3>5 DEF Climbs
          <5>3. Walk(e)[left][c] = 1 + Walk(e)[left - 1][runCause[q]]
            BY <4>2, <3>9
          <5>4. Walk(e)[left - 1][runCause[q]] \in Nat
            BY <5>1, <3>11
          <5>. QED BY <5>2, <5>3, <5>4, <3>1, <2>3, <1>0
        <4>. QED BY <4>1, <4>2
      <3>13. Climbs(e, C)
        BY <3>12 DEF Climbs
      <3>. QED BY <3>13, <2>2
    <2>. QED BY <2>5, <2>6
  <1>2. ASSUME NEW C \in Chains, Clear(e, C) PROVE Climbs(e, C)
    <2>1. Cardinality(C) \in Nat /\ Cardinality(C) \notin Bad
      BY <1>1, ChainFacts
    <2>. QED BY <2>1, <1>2
  <1>. QED BY <1>2

------------------------------------------------------------------------------
(* The guard's own invariant: the rows, the chains and the line of heirs.    *)

\* A chain no human interrupted is no longer than the limit of its last run's trigger.
ChainsHold ==
  \A C \in Chains :
    Unattended(C) /\ (\A r \in C : DepthLimit[trigger[r]] \in 1..HopCap)
      => Cardinality(C) <= DepthLimit[trigger[Max(C)]]

\* Layer 4's verdict as Enqueue acts on it: what event ev's cause ended, if it goes on to the
\* event with no human's action in between, is shorter than the limit.
Unbroken(e, c) ==
  \A h \in 1..nEvents : actor[h] = Human /\ subject[h] = subject[e] => at[h] < at[c]
GoesOn(e, C) ==
  /\ Max(C) = cause[e] /\ Max(C) \notin byHuman /\ Unbroken(e, e)
  /\ \A r \in C : runSubject[r] = subject[e] /\ (r # Min(C) => Unbroken(e, runCause[r]))
DepthVerdict ==
  step = "enqueue" /\ DepthLimit[tr] \in 1..HopCap =>
    \A C \in Chains : GoesOn(ev, C) => Cardinality(C) < DepthLimit[tr]

\* All but the newest run of a line are over or were asked to stop, but for the one that is
\* being replaced, and at Enqueue that one is the line's newest.
OldAreAsked ==
  crashes = 0 =>
    \A q, r \in Triggered :
      /\ q < r /\ trigger[q] = trigger[r] /\ runSubject[q] = runSubject[r]
      /\ CancelInProgress[trigger[r]] /\ state[q] = "active" /\ state[r] = "active"
      => q \in asked \/ (step = "stop" /\ q = superseded)
ElectedIsNewest ==
  step = "enqueue" /\ crashes = 0 /\ CancelInProgress[tr] =>
    \A q \in Triggered :
      trigger[q] = tr /\ runSubject[q] = subject[ev] /\ state[q] = "active" =>
        q = superseded \/ q \in asked

\* The firings: one per trigger and event, each run with its own.
Firings ==
  /\ DOMAIN outcome = Triggers \X Events /\ DOMAIN absorbedBy = Triggers \X Events
  /\ firingRun \in [Triggers \X Events -> Nat]
  /\ \A x \in Triggers \X Events : outcome[x] = "none" => firingRun[x] = 0
  /\ step # "guard" => outcome[<<tr, ev>>] = "none"
Decided ==
  /\ superseded \in Nat /\ new \in Nat
  /\ step \in {"stop", "mark"} => superseded # 0
  /\ step \in {"enqueue", "stop", "mark"} /\ superseded # 0 =>
       superseded \in Triggered /\ trigger[superseded] = tr /\ runSubject[superseded] = subject[ev]
  /\ step \in {"stop", "mark", "write"} =>
       /\ new \in Triggered /\ trigger[new] = tr /\ runSubject[new] = subject[ev]
       /\ superseded < new
HasFiring ==
  crashes = 0 =>
    \A r \in Triggered :
      \/ step \in {"stop", "mark", "write"} /\ r = new
      \/ \E e \in Events : firingRun[<<trigger[r], e>>] = r
HasHeir ==
  \A x \in Triggers \X Events : outcome[x] = "superseded" =>
    LET later == absorbedBy[x]
        old   == firingRun[x] IN
    /\ old # 0 /\ old \in 1..nRuns /\ later \in 1..nRuns
    /\ old < later /\ trigger[later] = trigger[old] /\ runSubject[later] = runSubject[old]
AskedWasReplaced ==
  crashes = 0 =>
    \A r \in asked : \/ step = "mark" /\ r = superseded
                     \/ \E x \in Triggers \X Events : firingRun[x] = r /\ outcome[x] = "superseded"

LineInv ==
  /\ OldAreAsked /\ ElectedIsNewest /\ Firings /\ Decided /\ HasFiring /\ HasHeir
  /\ AskedWasReplaced
ChainInv == Rows /\ ChainsHold /\ DepthVerdict
GuardInv == CoalesceInv /\ ChainInv /\ LineInv

\* The newest action of a human is older than an event no human's action came after.
LEMMA NewestIsOlder ==
  ASSUME Tables, Rows, NEW e
  PROVE  /\ NewestHumanActionAt(subject[e]) \in Nat
         /\ \A c \in 1..nEvents : Unbroken(e, c) => at[c] > NewestHumanActionAt(subject[e])
  <1> DEFINE S == {0} \cup {at[h] : h \in {h \in 1..nEvents : actor[h] = Human /\ subject[h] = subject[e]}}
  <1>1. clock \in Nat /\ \A h \in 1..nEvents : at[h] \in Nat /\ at[h] <= clock /\ at[h] # 0
    <2>1. \A h \in 1..nEvents : h \in Events
      BY Indices DEF Tables
    <2>. QED BY <2>1 DEF Tables, Rows
  <1>2. S \subseteq 0..clock /\ S # {}
    BY <1>1
  <1>3. Max(S) \in S
    BY <1>1, <1>2, MaxIs
  <1>4. NewestHumanActionAt(subject[e]) = Max(S)
    BY DEF NewestHumanActionAt
  <1> DEFINE top == Max(S)
  <1>5. top \in Nat
    BY <1>2, <1>3
  <1>6. ASSUME NEW c \in 1..nEvents, Unbroken(e, c) PROVE at[c] > top
    <2>1. top = 0 \/ \E h \in 1..nEvents : actor[h] = Human /\ subject[h] = subject[e] /\ at[h] = top
      BY <1>3
    <2> HIDE DEF top
    <2>. QED BY <2>1, <1>1, <1>5, <1>6 DEF Unbroken
  <1>. QED BY <1>4, <1>5, <1>6

\* The guard lets an event through only if what led to it is short.
LEMMA VerdictCounts ==
  ASSUME Tables, Rows, ev \in 1..nEvents, ~TooDeep, DepthLimit[tr] \in 1..HopCap,
         NEW C \in Chains, GoesOn(ev, C)
  PROVE  Cardinality(C) < DepthLimit[tr]
  <1> DEFINE q == Max(C)
             newest == NewestHumanActionAt(subject[ev])
             depth  == Walk(ev)[HopCap][ev]
  <1>1. /\ q \in C /\ C \subseteq 1..nRuns /\ C \subseteq Triggered /\ Cardinality(C) \in Nat
        /\ \A r, p \in C : Follows(r, p) => runCause[r] # 0
    BY ChainFacts
  <1>2. newest \in Nat /\ \A c \in 1..nEvents : Unbroken(ev, c) => at[c] > newest
    BY NewestIsOlder
  <1>3. \A r \in C : runCause[r] \in 1..nEvents
    BY <1>1 DEF Triggered, Tables
  <1>4. Clear(ev, C)
    BY <1>2, <1>3 DEF Clear, GoesOn
  <1>5. Climbs(ev, C)
    BY <1>2, <1>4, WalkClimbs
  <1>6. HopCap \in Nat /\ HopCap # 0 /\ HopCap - 1 \in 0..HopCap /\ HopCap \in 0..HopCap
    BY GuardConstants
  <1>7. ev \in Events
    BY Indices DEF Tables
  <1>8. depth = 1 + Walk(ev)[HopCap - 1][runCause[q]]
    <2>1. cause[ev] = q /\ q \notin byHuman /\ runSubject[q] = subject[ev] /\ at[ev] > newest
      BY <1>1, <1>2 DEF GoesOn
    <2>2. q # 0
      BY <1>1
    <2>. QED BY <2>1, <2>2, <1>2, <1>6, <1>7, HopOver
  <1>9. depth \in Nat /\ Walk(ev)[HopCap - 1][runCause[q]] \in Nat
    BY <1>1, <1>6, <1>7, CauseOf, WalkTyped DEF Causes
  <1>10. \/ Walk(ev)[HopCap - 1][runCause[q]] >= Cardinality(C) - 1
         \/ Walk(ev)[HopCap - 1][runCause[q]] >= HopCap - 1
    BY <1>5, <1>6 DEF Climbs
  <1>11. ~(depth >= DepthLimit[tr])
    <2>1. chainDepth(ev) = depth
      BY DepthIsWalk
    <2>2. DepthLimit[tr] > 0
      BY <1>6
    <2>. QED BY <2>1, <2>2 DEF TooDeep
  <1>12. DepthLimit[tr] \in Nat /\ DepthLimit[tr] <= HopCap
    BY <1>6
  <1> HIDE DEF depth
  <1>. QED BY <1>1, <1>6, <1>8, <1>9, <1>10, <1>11, <1>12

\* Rows once written stay, and with them the chains.
LEMMA ChainsStay ==
  ASSUME Tables, Rows, ChainsHold, Triggered' \subseteq Triggered,
         \A r \in 1..nRuns : /\ trigger'[r] = trigger[r] /\ runSubject'[r] = runSubject[r]
                             /\ runCause'[r] = runCause[r] /\ seen'[r] = seen[r],
         byHuman' = byHuman,
         \A e \in 1..nEvents : /\ actor'[e] = actor[e] /\ subject'[e] = subject[e]
                               /\ at'[e] = at[e] /\ cause'[e] = cause[e]
  PROVE  ChainsHold'
  <1> SUFFICES ASSUME NEW C \in Chains', Unattended(C)',
                      \A r \in C : DepthLimit[trigger'[r]] \in 1..HopCap
               PROVE  Cardinality(C) <= DepthLimit[trigger'[Max(C)]]
    BY DEF ChainsHold
  <1>1. C \subseteq Triggered /\ C \subseteq 1..nRuns
    BY DEF Chains, Triggered, RealRuns
  <1>2. \A r \in C : runCause[r] \in 1..nEvents /\ seen[r] <= nEvents /\ seen[r] \in Nat
    <2>1. \A r \in C : r \in Runs
      BY <1>1, Indices DEF Tables
    <2>. QED BY <1>1, <2>1 DEF Triggered, Tables, Rows
  <1>3. \A r, q \in C : Follows(r, q)' <=> Follows(r, q)
    BY <1>1, <1>2 DEF Follows
  <1>4. C \in Chains
    BY <1>1, <1>3 DEF Chains
  <1>5. Max(C) \in C
    BY <1>4, ChainFacts
  <1>6. Unattended(C)
    <2> SUFFICES ASSUME NEW r \in C \ {Min(C)}, NEW h \in 1..seen[Max(C)],
                        actor[h] = Human, subject[h] = runSubject[r]
                 PROVE  at[h] < at[runCause[r]]
      BY DEF Unattended
    <2>1. h \in 1..nEvents /\ h \in 1..seen'[Max(C)]
      <3>1. /\ seen[Max(C)] <= nEvents /\ seen[Max(C)] \in Nat /\ nEvents \in Nat
            /\ seen'[Max(C)] = seen[Max(C)]
        <4>1. Max(C) \in 1..nRuns
          BY <1>1, <1>5
        <4>. QED BY <4>1, <1>2, <1>5 DEF Tables
      <3>. QED BY <3>1
    <2>2. actor'[h] = Human /\ subject'[h] = runSubject'[r]
      BY <2>1, <1>1
    <2>3. at'[h] < at'[runCause'[r]]
      BY <2>1, <2>2 DEF Unattended
    <2>. QED BY <2>1, <2>3, <1>1, <1>2
  <1>7. \A r \in C : trigger'[r] = trigger[r]
    BY <1>1
  <1>. QED BY <1>4, <1>5, <1>6, <1>7 DEF ChainsHold

\* What a step leaves that writes neither an event nor a run; the worker's registers may change.
LEMMA RowsStay ==
  ASSUME Tables, Rows, clock' \in Nat, clock' >= clock, crashes' \in Nat,
         UNCHANGED <<eventVars, nRuns, trigger, runSubject, runCause, seen>>
  PROVE  Rows'
  <1>1. clock' # 0 /\ \A e \in Events : at[e] <= clock'
    BY DEF Tables, Rows
  <1>. QED BY <1>1 DEF Rows

LEMMA TablesStay ==
  ASSUME Tables, Rows, ChainsHold, UNCHANGED <<eventVars, nRuns, trigger, runSubject, runCause, seen>>,
         byHuman' = byHuman, Triggered' \subseteq Triggered, clock' \in Nat, clock' >= clock,
         crashes' \in Nat, step' # "enqueue"
  PROVE  ChainInv'
  BY RowsStay, ChainsStay DEF ChainInv, DepthVerdict

\* The worker is at an event on record, with no firing of its trigger yet.
LEMMA AtWork ==
  ASSUME Tables, ev <= nEvents
  PROVE  /\ ev \in 1..nEvents /\ ev \in Events /\ tr \in Triggers /\ tr # 0
         /\ <<tr, ev>> \in Triggers \X Events
  BY Indices DEF Tables

\* One firing written where there was none.
LEMMA FiringWritten ==
  ASSUME Tables, Firings, HasHeir, ev <= nEvents, outcome[<<tr, ev>>] = "none",
         NEW o, o \notin {"none", "superseded"}, NEW run \in Nat, NEW absorber,
         Record(o, run, absorber)
  PROVE  /\ DOMAIN outcome' = Triggers \X Events /\ DOMAIN absorbedBy' = Triggers \X Events
         /\ firingRun' \in [Triggers \X Events -> Nat]
         /\ \A x \in Triggers \X Events : outcome'[x] = "none" => firingRun'[x] = 0
         /\ outcome'[<<tr, ev>>] = o /\ firingRun'[<<tr, ev>>] = run
         /\ \A x \in Triggers \X Events : x # <<tr, ev>> =>
              outcome'[x] = outcome[x] /\ firingRun'[x] = firingRun[x] /\ absorbedBy'[x] = absorbedBy[x]
         /\ \A x \in Triggers \X Events : outcome[x] # "none" => x # <<tr, ev>>
         /\ \A x \in Triggers \X Events : firingRun[x] # 0 => x # <<tr, ev>>
         /\ \A x \in Triggers \X Events : outcome'[x] = "superseded" =>
              outcome[x] = "superseded" /\ x # <<tr, ev>>
  <1>1. <<tr, ev>> \in Triggers \X Events
    BY AtWork
  <1> DEFINE k == <<tr, ev>>
  <1>2. /\ outcome' = [outcome EXCEPT ![k] = o] /\ firingRun' = [firingRun EXCEPT ![k] = run]
        /\ absorbedBy' = [absorbedBy EXCEPT ![k] = absorber]
    BY DEF Record
  <1>3. k \in Triggers \X Events /\ outcome[k] = "none"
    BY <1>1
  <1> HIDE DEF k
  <1>4. /\ DOMAIN outcome' = Triggers \X Events /\ DOMAIN absorbedBy' = Triggers \X Events
        /\ firingRun' \in [Triggers \X Events -> Nat]
        /\ \A x \in Triggers \X Events : outcome'[x] = "none" => firingRun'[x] = 0
        /\ outcome'[k] = o /\ firingRun'[k] = run
        /\ \A x \in Triggers \X Events : x # k =>
             outcome'[x] = outcome[x] /\ firingRun'[x] = firingRun[x] /\ absorbedBy'[x] = absorbedBy[x]
        /\ \A x \in Triggers \X Events : outcome[x] # "none" => x # k
        /\ \A x \in Triggers \X Events : firingRun[x] # 0 => x # k
    BY <1>2, <1>3 DEF Firings
  <1>5. \A x \in Triggers \X Events : outcome'[x] = "superseded" => outcome[x] = "superseded" /\ x # k
    BY <1>4
  <1>. QED BY <1>4, <1>5 DEF k

\* NoAction, Debounced: the tables of runs and events stay, the firing is none of a run.
LEMMA DeclinedLine ==
  ASSUME Tables, LineInv, UNCHANGED <<eventVars, runVars, crashes>>, step = "guard",
         ev <= nEvents, outcome[<<tr, ev>>] = "none",
         NEW o \in {"no_action", "debounced"}, NEW absorber, Record(o, 0, absorber), Advance
  PROVE  LineInv'
  <1>1. /\ DOMAIN outcome' = Triggers \X Events /\ DOMAIN absorbedBy' = Triggers \X Events
        /\ firingRun' \in [Triggers \X Events -> Nat]
        /\ \A x \in Triggers \X Events : outcome'[x] = "none" => firingRun'[x] = 0
        /\ \A x \in Triggers \X Events : x # <<tr, ev>> =>
             outcome'[x] = outcome[x] /\ firingRun'[x] = firingRun[x] /\ absorbedBy'[x] = absorbedBy[x]
        /\ \A x \in Triggers \X Events : outcome[x] # "none" => x # <<tr, ev>>
        /\ \A x \in Triggers \X Events : firingRun[x] # 0 => x # <<tr, ev>>
        /\ \A x \in Triggers \X Events : outcome'[x] = "superseded" =>
             outcome[x] = "superseded" /\ x # <<tr, ev>>
    BY FiringWritten DEF LineInv
  <1>2. Triggered' = Triggered /\ step' = "guard" /\ superseded' = 0 /\ new' = 0
    BY DEF Triggered, RealRuns, Advance
  <1>3. OldAreAsked' /\ ElectedIsNewest'
    BY <1>2 DEF LineInv, OldAreAsked, ElectedIsNewest
  <1>4. Firings' /\ Decided'
    BY <1>1, <1>2 DEF Firings, Decided
  <1>5. HasFiring'
    <2> SUFFICES ASSUME crashes = 0, NEW r \in Triggered
                 PROVE  \E e \in Events : firingRun'[<<trigger[r], e>>] = r
      BY <1>2 DEF HasFiring
    <2>1. PICK e \in Events : firingRun[<<trigger[r], e>>] = r
      BY DEF LineInv, HasFiring
    <2>2. r # 0 /\ trigger[r] \in Triggers
      BY Indices DEF Triggered, RealRuns, Tables
    <2>3. <<trigger[r], e>> \in Triggers \X Events
      BY <2>2
    <2>. QED BY <2>1, <2>2, <2>3, <1>1
  <1>6. HasHeir'
    BY <1>1 DEF LineInv, HasHeir
  <1>7. AskedWasReplaced'
    <2> SUFFICES ASSUME crashes = 0, NEW r \in asked
                 PROVE  \E x \in Triggers \X Events : firingRun'[x] = r /\ outcome'[x] = "superseded"
      BY DEF AskedWasReplaced
    <2>1. PICK x \in Triggers \X Events : firingRun[x] = r /\ outcome[x] = "superseded"
      BY DEF LineInv, AskedWasReplaced
    <2>. QED BY <2>1, <1>1
  <1>. QED BY <1>3, <1>4, <1>5, <1>6, <1>7 DEF LineInv

\* PassOver leaves the firings too; a crash drops what the worker had decided.
LEMMA DroppedLine ==
  ASSUME Tables, LineInv, UNCHANGED <<eventVars, runVars, firingVars>>,
         step' = "guard", superseded' = 0, new' = 0,
         \/ step = "guard" /\ crashes' = crashes
         \/ crashes' # 0
  PROVE  LineInv'
  <1>1. Triggered' = Triggered
    BY DEF Triggered, RealRuns
  <1>2. OldAreAsked' /\ ElectedIsNewest'
    BY <1>1 DEF LineInv, OldAreAsked, ElectedIsNewest
  <1>3. Firings' /\ Decided' /\ HasHeir'
    BY DEF LineInv, Firings, Decided, HasHeir
  <1>4. HasFiring'
    BY <1>1 DEF LineInv, HasFiring
  <1>5. AskedWasReplaced'
    BY DEF LineInv, AskedWasReplaced
  <1>. QED BY <1>2, <1>3, <1>4, <1>5 DEF LineInv

\* The tables stay and the worker waits, or what changes is around it.
LEMMA OutsideLine ==
  ASSUME Tables, LineInv, Triggered' = Triggered, \A r \in 1..nRuns : state'[r] = "active" => state[r] = "active",
         UNCHANGED <<nRuns, trigger, runSubject, asked, firingVars, crashes, workVars>>,
         step # "guard" => subject' = subject
  PROVE  LineInv'
  <1>0. Triggered \subseteq 1..nRuns
    BY DEF Triggered, RealRuns
  <1>1. OldAreAsked'
    BY <1>0 DEF LineInv, OldAreAsked
  <1>2. ElectedIsNewest'
    BY <1>0 DEF LineInv, ElectedIsNewest
  <1>3. Firings' /\ HasHeir'
    BY DEF LineInv, Firings, HasHeir
  <1>4. HasFiring'
    BY DEF LineInv, HasFiring
  <1>5. AskedWasReplaced'
    BY DEF LineInv, AskedWasReplaced
  <1>6. Decided'
    <2>1. CASE step = "guard"
      BY <2>1 DEF LineInv, Decided
    <2>2. CASE step # "guard"
      BY <2>2 DEF LineInv, Decided
    <2>. QED BY <2>1, <2>2
  <1>. QED BY <1>1, <1>2, <1>3, <1>4, <1>5, <1>6 DEF LineInv

LEMMA PassOverGuard ==
  ASSUME GuardInv, PassOver
  PROVE  ChainInv' /\ LineInv'
  <1>1. /\ UNCHANGED <<clock, eventVars, runVars, firingVars, crashes>> /\ step = "guard" /\ Advance
        /\ Tables /\ LineInv /\ ChainInv
    BY DEF PassOver, GuardInv, CoalesceInv
  <1>2. step' = "guard" /\ superseded' = 0 /\ new' = 0
    BY <1>1 DEF Advance
  <1>3. LineInv'
    BY <1>1, <1>2, DroppedLine
  <1>4. Triggered' \subseteq Triggered /\ clock' \in Nat /\ clock' >= clock /\ crashes' \in Nat
    BY <1>1 DEF Triggered, RealRuns, Tables, ChainInv, Rows
  <1>5. ChainInv'
    BY <1>1, <1>2, <1>4, TablesStay DEF ChainInv
  <1>. QED BY <1>3, <1>5

LEMMA DeclinedGuard ==
  ASSUME GuardInv, NoAction \/ Debounced
  PROVE  ChainInv' /\ LineInv'
  <1>1. /\ UNCHANGED <<clock, eventVars, runVars, crashes>> /\ step = "guard" /\ Advance
        /\ Tables /\ LineInv /\ ChainInv /\ ev <= nEvents /\ outcome[<<tr, ev>>] = "none"
    BY DEF NoAction, Debounced, Evaluating, GuardInv, CoalesceInv
  <1>2. PICK o \in {"no_action", "debounced"}, absorber \in {0, Max(Absorbers)} :
          Record(o, 0, absorber)
    BY DEF NoAction, Debounced
  <1>3. LineInv'
    BY <1>1, <1>2, DeclinedLine
  <1>4. step' = "guard" /\ Triggered' \subseteq Triggered /\ clock' \in Nat /\ clock' >= clock
        /\ crashes' \in Nat
    BY <1>1 DEF Triggered, RealRuns, Tables, ChainInv, Rows, Advance
  <1>5. ChainInv'
    BY <1>1, <1>4, TablesStay DEF ChainInv
  <1>. QED BY <1>3, <1>5

LEMMA CrashGuard ==
  ASSUME GuardInv, Crash
  PROVE  ChainInv' /\ LineInv'
  <1>1. /\ UNCHANGED <<clock, eventVars, runVars, firingVars>> /\ crashes' = crashes + 1
        /\ Tables /\ LineInv /\ ChainInv
    BY DEF Crash, GuardInv, CoalesceInv
  <1>2. step' = "guard" /\ superseded' = 0 /\ new' = 0
    BY DEF Crash, Advance
  <1>3. crashes' # 0 /\ crashes' \in Nat
    BY <1>1 DEF ChainInv, Rows
  <1>4. LineInv'
    BY <1>1, <1>2, <1>3, DroppedLine
  <1>5. Triggered' \subseteq Triggered /\ clock' \in Nat /\ clock' >= clock
    BY <1>1 DEF Triggered, RealRuns, Tables
  <1>6. ChainInv'
    BY <1>1, <1>2, <1>3, <1>5, TablesStay DEF ChainInv
  <1>. QED BY <1>4, <1>6

LEMMA TickGuard ==
  ASSUME GuardInv, Tick
  PROVE  ChainInv' /\ LineInv'
  <1>1. /\ UNCHANGED <<eventVars, runVars, firingVars, workVars, crashes>> /\ clock' = clock + 1
        /\ Tables /\ LineInv /\ ChainInv /\ ev > nEvents
    BY DEF Tick, GuardInv, CoalesceInv
  <1>2. Triggered' = Triggered /\ \A r \in 1..nRuns : state'[r] = "active" => state[r] = "active"
    BY <1>1 DEF Triggered, RealRuns
  <1>3. LineInv'
    BY <1>1, <1>2, OutsideLine
  <1>4. step' # "enqueue"
    BY <1>1 DEF Tables
  <1>5. clock' \in Nat /\ clock' >= clock /\ crashes' \in Nat
    BY <1>1 DEF Tables, ChainInv, Rows
  <1>6. ChainInv'
    BY <1>1, <1>2, <1>4, <1>5, TablesStay DEF ChainInv
  <1>. QED BY <1>3, <1>6

LEMMA RunEndsGuard ==
  ASSUME GuardInv, NEW x \in Runs, RunEnds(x)
  PROVE  ChainInv' /\ LineInv'
  <1>1. /\ UNCHANGED <<clock, eventVars, nRuns, trigger, runSubject, runCause, byHuman, asked, seen>>
        /\ UNCHANGED <<firingVars, workVars, crashes>>
        /\ state[x] = "active" /\ state' = [state EXCEPT ![x] = "ended"]
        /\ Tables /\ LineInv /\ ChainInv /\ (ev > nEvents \/ step = "stop")
    BY DEF RunEnds, GuardInv, CoalesceInv
  <1>2. DOMAIN state = Runs /\ \A r \in 1..nRuns : r \in Runs
    BY <1>1, Indices DEF Tables
  <1>3. Triggered' = Triggered /\ \A r \in 1..nRuns : state'[r] = "active" => state[r] = "active"
    BY <1>1, <1>2 DEF Triggered, RealRuns
  <1>4. LineInv'
    BY <1>1, <1>3, OutsideLine
  <1>5. step' # "enqueue"
    BY <1>1 DEF Tables
  <1>6. clock' \in Nat /\ clock' >= clock /\ crashes' \in Nat
    BY <1>1 DEF Tables, ChainInv, Rows
  <1>7. ChainInv'
    BY <1>1, <1>3, <1>5, <1>6, TablesStay DEF ChainInv
  <1>. QED BY <1>4, <1>7

\* A new event, of an outsider or of what run c did, is read at an instant that was.
LEMMA ArrivesGuard ==
  ASSUME GuardInv, NEW a, NEW s, NEW t \in 1..clock, NEW c \in 0..nRuns, NEW k, NEW w,
         Arrives(a, s, t, c, k, w)
  PROVE  ChainInv' /\ LineInv'
  <1> DEFINE n == nEvents + 1
  <1>1. /\ UNCHANGED <<clock, runVars, firingVars, workVars, crashes>> /\ step = "guard"
        /\ nEvents < MaxEvents /\ nEvents' = n
        /\ actor' = [actor EXCEPT ![n] = a] /\ subject' = [subject EXCEPT ![n] = s]
        /\ at' = [at EXCEPT ![n] = t] /\ cause' = [cause EXCEPT ![n] = c]
        /\ Tables /\ LineInv /\ ChainInv
    BY DEF Arrives, GuardInv, CoalesceInv
  <1>2. /\ Rows /\ ChainsHold /\ n \in Events /\ nEvents \in Nat /\ clock \in Nat /\ nRuns \in Nat
        /\ \A e \in 1..nEvents : e \in Events /\ e # n
        /\ \A e \in 1..nEvents' : e \in 1..nEvents \/ e = n
    BY <1>1, Indices DEF ChainInv, Tables
  <1> HIDE DEF n
  <1>3. Triggered' = Triggered /\ \A r \in 1..nRuns : state'[r] = "active" => state[r] = "active"
    BY <1>1 DEF Triggered, RealRuns
  <1>4. LineInv'
    BY <1>1, <1>3, OutsideLine
  <1>5. \A e \in 1..nEvents : /\ actor'[e] = actor[e] /\ subject'[e] = subject[e]
                              /\ at'[e] = at[e] /\ cause'[e] = cause[e]
    BY <1>1, <1>2 DEF Rows
  <1>6. Rows'
    <2>1. /\ at' \in [Events -> Nat] /\ \A e \in Events : at'[e] <= clock'
          /\ cause' \in [Events -> Nat] /\ \A e \in Events : cause'[e] \in 0..nRuns'
          /\ DOMAIN actor' = Events /\ DOMAIN subject' = Events
      BY <1>1, <1>2 DEF Rows
    <2>2. \A e \in 1..nEvents' : at'[e] # 0
      BY <1>1, <1>2, <1>5 DEF Rows
    <2>3. ASSUME NEW r \in 1..nRuns
          PROVE  /\ runCause[r] <= nEvents' /\ seen[r] <= nEvents'
                 /\ trigger[r] # 0 =>
                      runSubject[r] = subject'[runCause[r]] /\ cause'[runCause[r]] < r
      <3>1. /\ runCause[r] <= nEvents /\ seen[r] <= nEvents /\ runCause[r] \in Nat /\ seen[r] \in Nat
        <4>1. r \in Runs
          BY <1>1, Indices DEF Tables
        <4>. QED BY <4>1, <1>2, Indices DEF Rows
      <3>2. trigger[r] # 0 => runCause[r] \in 1..nEvents
        BY <1>1 DEF Tables
      <3>. QED BY <3>1, <3>2, <1>1, <1>2, <1>5 DEF Rows, n
    <2>4. crashes' \in Nat /\ runCause' \in [Runs -> Events \cup {0}] /\ seen' \in [Runs -> Nat]
      BY <1>1, <1>2 DEF Rows
    <2>. QED BY <2>1, <2>2, <2>3, <2>4, <1>1 DEF Rows
  <1>7. ChainsHold'
    BY <1>1, <1>2, <1>3, <1>5, ChainsStay
  <1>8. DepthVerdict'
    BY <1>1 DEF DepthVerdict
  <1>. QED BY <1>4, <1>6, <1>7, <1>8 DEF ChainInv

\* The election, and the verdict.
LEMMA EvaluateGuard ==
  ASSUME GuardInv, Evaluate
  PROVE  ChainInv' /\ LineInv'
  <1>1. /\ UNCHANGED <<clock, eventVars, runVars, firingVars, ev, tr, new, crashes>>
        /\ step = "guard" /\ step' = "enqueue" /\ ev <= nEvents /\ outcome[<<tr, ev>>] = "none"
        /\ ~TooDeep /\ superseded' = IF CancelInProgress[tr] THEN ActiveOnSubject(tr, subject[ev]) ELSE 0
        /\ Tables /\ LineInv /\ ChainInv
    BY DEF Evaluate, Evaluating, GuardInv, CoalesceInv
  <1> DEFINE live == {r \in OnSubject(tr, subject[ev]) : state[r] = "active"}
  <1>2. Triggered' = Triggered
    BY <1>1 DEF Triggered, RealRuns
  <1>3. nRuns \in Nat /\ live \subseteq 0..nRuns /\ live \subseteq Triggered /\ tr # 0 /\ ev \in 1..nEvents
    BY <1>1, AtWork DEF Tables, OnSubject, RealRuns, Triggered
  <1>4. \A q \in Triggered :
          trigger[q] = tr /\ runSubject[q] = subject[ev] /\ state[q] = "active" => q \in live
    BY DEF Triggered, OnSubject
  <1>5. /\ superseded' \in Nat
        /\ superseded' # 0 => superseded' \in live
        /\ CancelInProgress[tr] => \A q \in live : superseded' \in live /\ q <= superseded'
    <2>1. CASE CancelInProgress[tr] /\ live # {}
      <3>1. superseded' = Max(live)
        BY <2>1, <1>1 DEF ActiveOnSubject
      <3>2. Max(live) \in live /\ \A q \in live : q <= Max(live)
        BY <2>1, <1>3, MaxIs
      <3>. QED BY <3>1, <3>2, <1>3
    <2>2. CASE ~(CancelInProgress[tr] /\ live # {})
      BY <2>2, <1>1 DEF ActiveOnSubject
    <2>. QED BY <2>1, <2>2
  <1>6. \A r \in live : /\ r \in Triggered /\ trigger[r] = tr /\ runSubject[r] = subject[ev]
                        /\ state[r] = "active" /\ r \in Nat
    BY <1>3 DEF OnSubject
  <1> HIDE DEF live
  <1>7. ElectedIsNewest'
    <2> SUFFICES ASSUME crashes = 0, CancelInProgress[tr], NEW q \in Triggered, trigger[q] = tr,
                        runSubject[q] = subject[ev], state[q] = "active", q # superseded'
                 PROVE  q \in asked
      BY <1>1, <1>2 DEF ElectedIsNewest
    <2>1. q \in live /\ superseded' \in live /\ q <= superseded'
      BY <1>4, <1>5
    <2>2. q < superseded'
      BY <2>1, <1>6
    <2>. QED BY <2>1, <2>2, <1>1, <1>6 DEF LineInv, OldAreAsked
  <1>8. OldAreAsked' /\ HasFiring' /\ HasHeir' /\ AskedWasReplaced'
    BY <1>1, <1>2 DEF LineInv, OldAreAsked, HasFiring, HasHeir, AskedWasReplaced
  <1>9. Firings' /\ Decided'
    BY <1>1, <1>2, <1>5, <1>6 DEF LineInv, Firings, Decided
  <1>10. Rows' /\ ChainsHold'
    <2>1. clock' \in Nat /\ clock' >= clock /\ crashes' \in Nat /\ Rows /\ ChainsHold
      BY <1>1 DEF Tables, ChainInv, Rows
    <2>. QED BY <2>1, <1>1, <1>2, RowsStay, ChainsStay
  <1>11. DepthVerdict'
    <2>1. \A C \in Chains : DepthLimit[tr] \in 1..HopCap /\ GoesOn(ev, C) => Cardinality(C) < DepthLimit[tr]
      BY <1>1, <1>3, VerdictCounts DEF ChainInv
    <2>2. Chains' = Chains
      BY <1>1, <1>2 DEF Chains, Follows
    <2>3. \A C \in Chains : GoesOn(ev, C)' <=> GoesOn(ev, C)
      BY <1>1 DEF GoesOn, Unbroken
    <2>. QED BY <2>1, <2>2, <2>3, <1>1 DEF DepthVerdict
  <1>. QED BY <1>7, <1>8, <1>9, <1>10, <1>11 DEF LineInv, ChainInv

\* The table of runs after one was created for the event at work.
LEMMA GrownRows ==
  ASSUME Tables, Rows, ev <= nEvents, NEW st, CreateRun(tr, subject[ev], ev, st),
         UNCHANGED <<clock, eventVars, byHuman, crashes>>
  PROVE  /\ Rows' /\ nRuns' = nRuns + 1 /\ nRuns \in Nat
         /\ trigger'[nRuns + 1] = tr /\ runSubject'[nRuns + 1] = subject[ev]
         /\ runCause'[nRuns + 1] = ev /\ seen'[nRuns + 1] = nEvents
         /\ state'[nRuns + 1] = st
         /\ \A r \in 1..nRuns : /\ trigger'[r] = trigger[r] /\ runSubject'[r] = runSubject[r]
                                /\ runCause'[r] = runCause[r] /\ seen'[r] = seen[r]
                                /\ state'[r] = state[r]
         /\ Triggered \subseteq 1..nRuns
         /\ Triggered' = IF st = "loop_stopped" THEN Triggered ELSE Triggered \cup {nRuns + 1}
  <1> DEFINE n == nRuns + 1
  <1>1. ev \in 1..nEvents /\ ev \in Events /\ tr \in Triggers /\ tr # 0
    BY AtWork
  <1>2. /\ n \in Runs /\ nRuns' = n /\ nRuns \in Nat
        /\ trigger'[n] = tr /\ runSubject'[n] = subject[ev] /\ runCause'[n] = ev /\ state'[n] = st
        /\ \A r \in 1..nRuns :
             /\ trigger'[r] = trigger[r] /\ runSubject'[r] = runSubject[r]
             /\ runCause'[r] = runCause[r] /\ state'[r] = state[r]
        /\ \A r \in 1..nRuns' : r \in 1..nRuns \/ r = n
    BY <1>1, Created
  <1>3. \A r \in 1..nRuns : r \in Runs /\ r # n
    BY <1>2, Indices DEF Tables
  <1>4. seen' = [seen EXCEPT ![n] = nEvents] /\ runCause' = [runCause EXCEPT ![n] = ev]
    BY DEF CreateRun
  <1> HIDE DEF n
  <1>5. seen'[n] = nEvents /\ \A r \in 1..nRuns : seen'[r] = seen[r]
    BY <1>2, <1>3, <1>4 DEF Rows
  <1>6. Rows'
    <2>1. \A e \in Events : cause[e] \in 0..nRuns'
      BY <1>2 DEF Rows, n
    <2>2. runCause' \in [Runs -> Events \cup {0}] /\ seen' \in [Runs -> Nat]
      BY <1>1, <1>2, <1>4 DEF Rows, Tables
    <2>3. \A r \in 1..nRuns' : runCause'[r] <= nEvents /\ seen'[r] <= nEvents
      BY <1>1, <1>2, <1>5 DEF Rows, Tables
    <2>4. cause[ev] < n /\ \A r \in 1..nRuns' : trigger'[r] # 0 =>
            runSubject'[r] = subject[runCause'[r]] /\ cause[runCause'[r]] < r
      <3>1. cause[ev] < n
        BY <1>1, <1>2 DEF Rows, n
      <3>. QED BY <3>1, <1>2 DEF Rows
    <2>. QED BY <2>1, <2>2, <2>3, <2>4 DEF Rows
  <1>7. Triggered \subseteq 1..nRuns
    BY DEF Triggered, RealRuns
  <1>8. Triggered' = IF st = "loop_stopped" THEN Triggered ELSE Triggered \cup {n}
    <2>1. \A r \in 1..nRuns : r \in Triggered' <=> r \in Triggered
      BY <1>2 DEF Triggered, RealRuns, n
    <2>2. n \in Triggered' <=> st # "loop_stopped"
      BY <1>1, <1>2 DEF Triggered, RealRuns, n
    <2>3. Triggered' \subseteq 1..nRuns'
      BY DEF Triggered, RealRuns
    <2>4. \A r : r \in Triggered' <=> (r \in Triggered \/ (r = n /\ st # "loop_stopped"))
      BY <2>1, <2>2, <2>3, <1>2, <1>3, <1>7
    <2>. QED BY <2>4
  <1>. QED BY <1>2, <1>5, <1>6, <1>7, <1>8 DEF n

LEMMA stopLoopGuard ==
  ASSUME GuardInv, stopLoop
  PROVE  ChainInv' /\ LineInv'
  <1>1. /\ CreateRun(tr, subject[ev], ev, "loop_stopped") /\ Record("loop_stopped", nRuns + 1, 0)
        /\ Advance /\ UNCHANGED <<clock, eventVars, byHuman, asked, crashes>>
        /\ step = "guard" /\ ev <= nEvents /\ outcome[<<tr, ev>>] = "none"
        /\ Tables /\ LineInv /\ Rows /\ ChainsHold
    BY DEF stopLoop, Evaluating, GuardInv, CoalesceInv, ChainInv
  <1>2. /\ Rows' /\ nRuns' = nRuns + 1 /\ nRuns \in Nat
        /\ \A r \in 1..nRuns : /\ trigger'[r] = trigger[r] /\ runSubject'[r] = runSubject[r]
                               /\ runCause'[r] = runCause[r] /\ seen'[r] = seen[r]
                               /\ state'[r] = state[r]
        /\ Triggered' = Triggered /\ Triggered \subseteq 1..nRuns
    BY <1>1, GrownRows
  <1>3. /\ DOMAIN outcome' = Triggers \X Events /\ DOMAIN absorbedBy' = Triggers \X Events
        /\ firingRun' \in [Triggers \X Events -> Nat]
        /\ \A x \in Triggers \X Events : outcome'[x] = "none" => firingRun'[x] = 0
        /\ \A x \in Triggers \X Events : x # <<tr, ev>> =>
             outcome'[x] = outcome[x] /\ firingRun'[x] = firingRun[x] /\ absorbedBy'[x] = absorbedBy[x]
        /\ \A x \in Triggers \X Events : outcome[x] # "none" => x # <<tr, ev>>
        /\ \A x \in Triggers \X Events : firingRun[x] # 0 => x # <<tr, ev>>
        /\ \A x \in Triggers \X Events : outcome'[x] = "superseded" =>
             outcome[x] = "superseded" /\ x # <<tr, ev>>
    <2>1. nRuns + 1 \in Nat
      BY <1>2
    <2>. QED BY <2>1, <1>1, FiringWritten DEF LineInv
  <1>4. step' = "guard" /\ superseded' = 0 /\ new' = 0
    BY <1>1 DEF Advance
  <1>5. OldAreAsked' /\ ElectedIsNewest'
    BY <1>1, <1>2, <1>4 DEF LineInv, OldAreAsked, ElectedIsNewest
  <1>6. Firings' /\ Decided'
    BY <1>3, <1>4 DEF Firings, Decided
  <1>7. HasFiring'
    <2> SUFFICES ASSUME crashes = 0, NEW r \in Triggered
                 PROVE  \E e \in Events : firingRun'[<<trigger[r], e>>] = r
      BY <1>1, <1>2 DEF HasFiring
    <2>1. PICK e \in Events : firingRun[<<trigger[r], e>>] = r
      BY <1>1 DEF LineInv, HasFiring
    <2>2. r # 0 /\ trigger[r] \in Triggers
      <3>1. trigger \in [Runs -> Triggers \cup {0}] /\ nRuns \in 0..MaxRuns
        BY <1>1 DEF Tables
      <3>2. r \in 1..nRuns /\ trigger[r] # 0
        BY <1>2 DEF Triggered
      <3>3. r \in Runs
        BY <1>2, <3>1, <3>2, Indices
      <3>. QED BY <3>1, <3>2, <3>3
    <2>3. <<trigger[r], e>> \in Triggers \X Events
      BY <2>2
    <2>. QED BY <2>1, <2>2, <2>3, <1>3
  <1>8. HasHeir'
    BY <1>1, <1>2, <1>3 DEF LineInv, HasHeir
  <1>9. AskedWasReplaced'
    <2> SUFFICES ASSUME crashes = 0, NEW r \in asked
                 PROVE  \E x \in Triggers \X Events : firingRun'[x] = r /\ outcome'[x] = "superseded"
      BY <1>1 DEF AskedWasReplaced
    <2>1. PICK x \in Triggers \X Events : firingRun[x] = r /\ outcome[x] = "superseded"
      BY <1>1 DEF LineInv, AskedWasReplaced
    <2>. QED BY <2>1, <1>3
  <1>10. ChainsHold' /\ DepthVerdict'
    <2>1. Triggered' \subseteq Triggered
      BY <1>2
    <2>. QED BY <2>1, <1>1, <1>2, <1>4, ChainsStay DEF DepthVerdict
  <1>. QED BY <1>2, <1>5, <1>6, <1>7, <1>8, <1>9, <1>10 DEF LineInv, ChainInv

\* A chain that ends in the new run: without it, it is one the verdict was about.
LEMMA NewChain ==
  ASSUME Tables, Rows, ChainsHold, DepthVerdict, step = "enqueue", ev <= nEvents,
         NEW n, n = nRuns + 1, Triggered \subseteq 1..nRuns, Triggered' = Triggered \cup {n},
         UNCHANGED <<actor, subject, at, cause, byHuman>>,
         trigger'[n] = tr, runSubject'[n] = subject[ev], runCause'[n] = ev, seen'[n] = nEvents,
         \A r \in 1..nRuns : /\ trigger'[r] = trigger[r] /\ runSubject'[r] = runSubject[r]
                             /\ runCause'[r] = runCause[r] /\ seen'[r] = seen[r],
         NEW C \in Chains', n \in C, Unattended(C)',
         \A r \in C : DepthLimit[trigger'[r]] \in 1..HopCap
  PROVE  Cardinality(C) <= DepthLimit[trigger'[Max(C)]]
  <1> DEFINE D == C \ {n}
  <1>1. ev \in 1..nEvents /\ nRuns \in Nat /\ cause[ev] \in 0..nRuns
    BY AtWork DEF Rows, Tables
  <1>2. C \subseteq 1..n /\ C # {} /\ D \subseteq Triggered /\ D \subseteq 1..nRuns
    <2>1. C \subseteq Triggered \cup {n} /\ C # {}
      BY DEF Chains
    <2>2. D \subseteq Triggered
      BY <2>1
    <2>3. Triggered \cup {n} \subseteq 1..n
      BY <1>1
    <2>. QED BY <2>1, <2>2, <2>3
  <1>3. IsFiniteSet(C) /\ Cardinality(C) \in Nat /\ Cardinality(D) = Cardinality(C) - 1
    <2>1. n \in Int /\ 1 \in Int
      BY <1>1
    <2>2. IsFiniteSet(1..n)
      BY <2>1, FS_Interval
    <2>3. IsFiniteSet(C)
      BY <2>2, <1>2, FS_Subset
    <2>. QED BY <2>3, FS_CardinalityType, FS_RemoveElement
  <1>4. Max(C) = n
    <2>1. n \in Nat /\ C \subseteq 0..n
      BY <1>1, <1>2
    <2>2. Max(C) \in C /\ n <= Max(C)
      BY <2>1, <1>2, MaxIs
    <2>. QED BY <2>1, <2>2, <1>2
  <1>5. DepthLimit[tr] \in 1..HopCap
    OBVIOUS
  <1>6. CASE D = {}
    <2>1. Cardinality(D) = 0
      BY <1>6, FS_EmptySet
    <2>2. Cardinality(C) = 1
      BY <2>1, <1>3
    <2>. QED BY <2>2, <1>4, <1>5
  <1>7. CASE D # {}
    <2>1. Min(C) \in C /\ \A y \in C : Min(C) <= y
      BY <1>2, MinIs
    <2>2. D \subseteq Nat /\ Min(D) \in D /\ \A y \in D : Min(D) <= y
      BY <1>2, <1>7, MinIs
    <2>3. Min(C) # n /\ Min(D) = Min(C)
      <3>1. PICK y \in D : TRUE
        BY <1>7
      <3>2. y <= nRuns /\ y \in Nat /\ Min(C) <= y /\ Min(C) \in Nat
        <4>1. y \in C /\ y \in 1..nRuns
          BY <3>1, <1>2
        <4>2. Min(C) \in 1..n /\ Min(C) <= y
          BY <4>1, <2>1, <1>2
        <4>. QED BY <4>1, <4>2, <1>1
      <3>3. Min(C) # n
        BY <3>2, <1>1
      <3>4. Min(C) \in D
        BY <3>3, <2>1
      <3>5. Min(D) <= Min(C) /\ Min(C) <= Min(D) /\ Min(D) \in Nat
        BY <3>4, <2>1, <2>2
      <3>. QED BY <3>2, <3>3, <3>5
    <2>4. \A r \in D : runCause[r] \in 1..nEvents /\ cause[runCause[r]] < r
      <3>1. \A r \in D : r \in 1..nRuns /\ trigger[r] # 0
        BY <1>2 DEF Triggered
      <3>. QED BY <3>1, <1>2 DEF Tables, Rows
    <2>5. \A r, q \in D : Follows(r, q)' <=> Follows(r, q)
      BY <1>2 DEF Follows
    <2>6. \A r \in C : r # Min(C) => \E q \in C : Follows(r, q)'
      BY DEF Chains
    <2>7. \A q, r1, r2 \in C : Follows(r1, q)' /\ Follows(r2, q)' => r1 = r2
      BY DEF Chains
    <2>8. \A r \in C, q \in C : Follows(r, q)' => q \in D
      <3> SUFFICES ASSUME NEW r \in C, NEW q \in C, Follows(r, q)' PROVE q # n
        OBVIOUS
      <3>1. cause[runCause'[r]] = q
        BY DEF Follows
      <3>2. CASE r = n
        BY <3>1, <3>2, <1>1
      <3>3. CASE r # n
        <4>1. r \in D /\ r \in 1..nRuns /\ runCause'[r] = runCause[r]
          BY <3>3, <1>2
        <4>2. q < r /\ q \in Nat /\ r \in Nat
          BY <4>1, <3>1, <2>4, <1>2, <1>1
        <4>. QED BY <4>1, <4>2, <1>1
      <3>. QED BY <3>2, <3>3
    <2>9. D \in Chains
      <3>1. \A r \in D : r # Min(D) => \E q \in D : Follows(r, q)
        BY <2>3, <2>5, <2>6, <2>8
      <3>2. \A q, r1, r2 \in D : Follows(r1, q) /\ Follows(r2, q) => r1 = r2
        BY <2>5, <2>7
      <3>. QED BY <3>1, <3>2, <1>2, <1>7 DEF Chains
    <2>10. PICK q \in D : Follows(n, q)'
      BY <2>3, <2>6, <2>8
    <2>11. cause[ev] = q /\ q \notin byHuman /\ runSubject[q] = subject[ev]
      BY <2>10, <1>2 DEF Follows
    <2>12. q = Max(D)
      <3> SUFFICES ASSUME q # Max(D) PROVE FALSE
        OBVIOUS
      <3>1. Followed(D)
        BY <2>9, ChainsAreFollowed
      <3>2. PICK r \in D : Follows(r, q)
        BY <3>1, <2>10 DEF Followed
      <3>. QED BY <3>2, <2>5, <2>7, <2>10
    <2>13. \A r \in D : runSubject[r] = subject[ev]
      BY <2>9, <2>11, <2>12, ChainsKeepSubject
    <2>14. \A r \in C \ {Min(C)}, h \in 1..nEvents :
             actor[h] = Human /\ subject[h] = runSubject'[r] => at[h] < at[runCause'[r]]
      BY <1>4 DEF Unattended
    <2>15. Unbroken(ev, ev)
      BY <2>3, <2>14 DEF Unbroken
    <2>16. \A r \in D : r # Min(D) => Unbroken(ev, runCause[r])
      BY <2>3, <2>13, <2>14, <1>2 DEF Unbroken
    <2>17. GoesOn(ev, D)
      BY <2>11, <2>12, <2>13, <2>15, <2>16 DEF GoesOn
    <2>18. Cardinality(D) < DepthLimit[tr]
      BY <2>9, <2>17, <1>5 DEF DepthVerdict
    <2>19. Cardinality(C) <= DepthLimit[tr]
      <3> HIDE DEF D
      <3>. QED BY <2>18, <1>3, <1>5
    <2>. QED BY <2>19, <1>4
  <1>. QED BY <1>6, <1>7

LEMMA EnqueueGuard ==
  ASSUME GuardInv, Enqueue
  PROVE  ChainInv' /\ LineInv'
  <1> DEFINE n == nRuns + 1
  <1>1. /\ CreateRun(tr, subject[ev], ev, "active") /\ step = "enqueue" /\ new' = n
        /\ step' = IF superseded = 0 THEN "write" ELSE "stop"
        /\ UNCHANGED <<clock, eventVars, byHuman, asked, firingVars, ev, tr, superseded, crashes>>
        /\ Tables /\ LineInv /\ Rows /\ ChainsHold /\ DepthVerdict /\ ev <= nEvents
    BY DEF Enqueue, GuardInv, CoalesceInv, ChainInv, Tables
  <1>2. /\ Rows' /\ nRuns' = n /\ nRuns \in Nat
        /\ trigger'[n] = tr /\ runSubject'[n] = subject[ev]
        /\ runCause'[n] = ev /\ seen'[n] = nEvents /\ state'[n] = "active"
        /\ \A r \in 1..nRuns : /\ trigger'[r] = trigger[r] /\ runSubject'[r] = runSubject[r]
                               /\ runCause'[r] = runCause[r] /\ seen'[r] = seen[r]
                               /\ state'[r] = state[r]
        /\ Triggered \subseteq 1..nRuns /\ Triggered' = Triggered \cup {n}
    BY <1>1, GrownRows
  <1>3. \A r \in 1..nRuns : r < n /\ r # n /\ r \in Nat
    BY <1>2
  <1>4. n = nRuns + 1 /\ n \in Nat
    BY <1>2
  <1> HIDE DEF n
  <1>5. ChainsHold'
    <2> SUFFICES ASSUME NEW C \in Chains', Unattended(C)',
                        \A r \in C : DepthLimit[trigger'[r]] \in 1..HopCap
                 PROVE  Cardinality(C) <= DepthLimit[trigger'[Max(C)]]
      BY DEF ChainsHold
    <2>1. CASE n \in C
      BY <2>1, <1>1, <1>2, <1>4, NewChain
    <2>2. CASE n \notin C
      <3>1. C \subseteq Triggered
        BY <2>2, <1>2 DEF Chains
      <3>2. \A r \in C : runCause[r] \in 1..nEvents /\ seen[r] <= nEvents /\ seen[r] \in Nat
        <4>1. \A r \in C : r \in 1..nRuns /\ r \in Runs /\ trigger[r] # 0
          BY <3>1, <1>1, <1>2, Indices DEF Tables, Triggered
        <4>. QED BY <4>1, <1>1 DEF Tables, Rows
      <3>3. \A r, q \in C : Follows(r, q)' <=> Follows(r, q)
        BY <3>1, <1>1, <1>2 DEF Follows
      <3>4. C \in Chains
        BY <3>1, <3>3 DEF Chains
      <3>5. Max(C) \in C
        BY <1>1, <3>4, ChainFacts
      <3>6. Unattended(C)
        BY <3>1, <3>5, <1>1, <1>2 DEF Unattended
      <3>7. \A r \in C : trigger'[r] = trigger[r]
        BY <3>1, <1>2
      <3>. QED BY <3>4, <3>5, <3>6, <3>7, <1>1 DEF ChainsHold
    <2>. QED BY <2>1, <2>2
  <1>6. OldAreAsked'
    <2> SUFFICES ASSUME crashes = 0, NEW q \in Triggered', NEW r \in Triggered', q < r,
                        trigger'[q] = trigger'[r], runSubject'[q] = runSubject'[r],
                        CancelInProgress[trigger'[r]], state'[q] = "active", state'[r] = "active",
                        ~(step' = "stop" /\ q = superseded)
                 PROVE  q \in asked
      BY <1>1 DEF OldAreAsked
    <2>1. q \in Triggered
      <3>1. q # n
        BY <1>2, <1>3
      <3>. QED BY <3>1, <1>2
    <2>2. CASE r \in Triggered
      BY <2>1, <2>2, <1>1, <1>2 DEF LineInv, OldAreAsked
    <2>3. CASE r = n
      <3>1. trigger[q] = tr /\ runSubject[q] = subject[ev] /\ state[q] = "active" /\ q # 0
        BY <2>1, <2>3, <1>2
      <3>2. q = superseded \/ q \in asked
        BY <2>1, <2>3, <3>1, <1>1, <1>2 DEF LineInv, ElectedIsNewest
      <3>. QED BY <3>1, <3>2, <1>1
    <2>. QED BY <2>2, <2>3, <1>2
  <1>7. ElectedIsNewest' /\ DepthVerdict'
    BY <1>1 DEF ElectedIsNewest, DepthVerdict
  <1>8. Firings' /\ Decided'
    <2>1. superseded # 0 => superseded \in Triggered /\ trigger[superseded] = tr
                            /\ runSubject[superseded] = subject[ev]
      BY <1>1 DEF LineInv, Decided
    <2>2. superseded \in Nat /\ (superseded = 0 \/ superseded \in 1..nRuns)
      BY <2>1, <1>1, <1>2 DEF LineInv, Decided
    <2>3. superseded < n
      BY <2>2, <1>4, <1>2
    <2>4. Decided'
      BY <2>1, <2>2, <2>3, <1>1, <1>2, <1>4 DEF Decided
    <2>5. Firings'
      BY <1>1 DEF LineInv, Firings
    <2>. QED BY <2>4, <2>5
  <1>9. HasFiring'
    <2> SUFFICES ASSUME crashes = 0, NEW r \in Triggered'
                 PROVE  \/ step' \in {"stop", "mark", "write"} /\ r = new'
                        \/ \E e \in Events : firingRun[<<trigger'[r], e>>] = r
      BY <1>1 DEF HasFiring
    <2>1. CASE r = n
      BY <2>1, <1>1
    <2>2. CASE r \in Triggered
      <3>1. \E e \in Events : firingRun[<<trigger[r], e>>] = r
        BY <2>2, <1>1 DEF LineInv, HasFiring
      <3>2. trigger'[r] = trigger[r]
        BY <2>2, <1>2
      <3>. QED BY <3>1, <3>2
    <2>. QED BY <2>1, <2>2, <1>2
  <1>10. HasHeir'
    <2> SUFFICES ASSUME NEW x \in Triggers \X Events, outcome[x] = "superseded",
                        NEW later, later = absorbedBy[x], NEW old, old = firingRun[x]
                 PROVE  /\ old # 0 /\ old \in 1..nRuns' /\ later \in 1..nRuns'
                        /\ old < later /\ trigger'[later] = trigger'[old]
                        /\ runSubject'[later] = runSubject'[old]
      BY <1>1 DEF HasHeir
    <2>1. /\ old # 0 /\ old \in 1..nRuns /\ later \in 1..nRuns
          /\ old < later /\ trigger[later] = trigger[old] /\ runSubject[later] = runSubject[old]
      BY <1>1 DEF LineInv, HasHeir
    <2>2. old \in 1..nRuns' /\ later \in 1..nRuns'
      BY <2>1, <1>2, <1>4
    <2>3. trigger'[later] = trigger'[old] /\ runSubject'[later] = runSubject'[old]
      BY <2>1, <1>2
    <2>. QED BY <2>1, <2>2, <2>3
  <1>11. AskedWasReplaced'
    BY <1>1 DEF LineInv, AskedWasReplaced
  <1>. QED BY <1>2, <1>5, <1>6, <1>7, <1>8, <1>9, <1>10, <1>11 DEF LineInv, ChainInv

LEMMA StopRunGuard ==
  ASSUME GuardInv, StopRun
  PROVE  ChainInv' /\ LineInv'
  <1>1. /\ UNCHANGED <<clock, eventVars, nRuns, trigger, runSubject, runCause, queuedAt, byHuman,
                       seen, firingVars, ev, tr, superseded, new, crashes>>
        /\ step = "stop" /\ step' = "mark" /\ Tables /\ LineInv /\ Rows /\ ChainsHold
    BY DEF StopRun, GuardInv, CoalesceInv, ChainInv
  <1>2. \/ state[superseded] # "active" /\ state' = state /\ asked' = asked
        \/ /\ state[superseded] = "active" /\ state' = [state EXCEPT ![superseded] = "ended"]
           /\ asked' = asked
        \/ state' = state /\ asked' = asked \cup {superseded}
    BY DEF StopRun
  <1>3. DOMAIN state = Runs /\ \A r \in 1..nRuns : r \in Runs
    BY <1>1, Indices DEF Tables
  <1>4. superseded \in Triggered /\ Triggered \subseteq 1..nRuns
    BY <1>1 DEF LineInv, Decided, Triggered, RealRuns
  <1>5. /\ \A r \in 1..nRuns : (state'[r] = "active" => state[r] = "active")
                               /\ (state'[r] = "loop_stopped" <=> state[r] = "loop_stopped")
        /\ state'[superseded] = "active" => superseded \in asked'
        /\ asked \subseteq asked' /\ asked' \subseteq asked \cup {superseded}
    BY <1>2, <1>3, <1>4
  <1>6. Triggered' = Triggered
    BY <1>1, <1>5 DEF Triggered, RealRuns
  <1>7. OldAreAsked'
    BY <1>1, <1>4, <1>5, <1>6 DEF LineInv, OldAreAsked
  <1>8. ElectedIsNewest' /\ Firings' /\ HasHeir' /\ HasFiring'
    BY <1>1, <1>6 DEF LineInv, ElectedIsNewest, Firings, HasHeir, HasFiring
  <1>9. Decided'
    BY <1>1, <1>6 DEF LineInv, Decided
  <1>10. AskedWasReplaced'
    BY <1>1, <1>5 DEF LineInv, AskedWasReplaced
  <1>11. ChainInv'
    <2>1. clock' \in Nat /\ clock' >= clock /\ crashes' \in Nat
      BY <1>1 DEF Tables, Rows
    <2>. QED BY <2>1, <1>1, <1>6, TablesStay
  <1>. QED BY <1>7, <1>8, <1>9, <1>10, <1>11 DEF LineInv

LEMMA SupersedeGuard ==
  ASSUME GuardInv, Supersede
  PROVE  ChainInv' /\ LineInv'
  <1> DEFINE Old == {x \in {tr} \X Events : firingRun[x] = superseded /\ outcome[x] # "superseded"}
  <1>1. /\ UNCHANGED <<clock, eventVars, runVars, firingRun, ev, tr, superseded, new, crashes>>
        /\ step = "mark" /\ step' = "write" /\ Tables /\ LineInv /\ Rows /\ ChainsHold
        /\ outcome' = [x \in DOMAIN outcome |-> IF x \in Old THEN "superseded" ELSE outcome[x]]
        /\ absorbedBy' = [x \in DOMAIN absorbedBy |-> IF x \in Old THEN new ELSE absorbedBy[x]]
    BY DEF Supersede, GuardInv, CoalesceInv, ChainInv
  <1>2. /\ superseded \in Triggered /\ trigger[superseded] = tr /\ runSubject[superseded] = subject[ev]
        /\ new \in Triggered /\ trigger[new] = tr /\ runSubject[new] = subject[ev]
        /\ superseded < new /\ superseded # 0 /\ Triggered \subseteq 1..nRuns
    BY <1>1 DEF LineInv, Decided, Triggered, RealRuns
  <1>3. Triggered' = Triggered /\ tr \in Triggers /\ ev \in Events
    BY <1>1, AtWork DEF Triggered, RealRuns, Tables
  <1>4. Old \subseteq Triggers \X Events
    BY <1>3
  <1>5. /\ DOMAIN outcome' = Triggers \X Events /\ DOMAIN absorbedBy' = Triggers \X Events
        /\ \A x \in Triggers \X Events :
             \/ x \in Old /\ outcome'[x] = "superseded" /\ absorbedBy'[x] = new
             \/ x \notin Old /\ outcome'[x] = outcome[x] /\ absorbedBy'[x] = absorbedBy[x]
    <2> HIDE DEF Old
    <2>. QED BY <1>1 DEF LineInv, Firings
  <1>6. OldAreAsked' /\ ElectedIsNewest' /\ HasFiring' /\ Decided'
    BY <1>1, <1>3 DEF LineInv, OldAreAsked, ElectedIsNewest, HasFiring, Decided
  <1>7. Firings'
    <2>1. <<tr, ev>> \notin Old /\ <<tr, ev>> \in Triggers \X Events
      <3>1. firingRun[<<tr, ev>>] = 0
        BY <1>1, <1>3 DEF LineInv, Firings
      <3>. QED BY <3>1, <1>2, <1>3
    <2>2. \A x \in Triggers \X Events : outcome'[x] = "none" => outcome[x] = "none"
      BY <1>5
    <2> HIDE DEF Old
    <2>. QED BY <2>1, <2>2, <1>1, <1>5 DEF LineInv, Firings
  <1>8. HasHeir'
    <2> SUFFICES ASSUME NEW x \in Triggers \X Events, outcome'[x] = "superseded"
                 PROVE  /\ firingRun[x] # 0 /\ firingRun[x] \in 1..nRuns /\ absorbedBy'[x] \in 1..nRuns
                        /\ firingRun[x] < absorbedBy'[x]
                        /\ trigger[absorbedBy'[x]] = trigger[firingRun[x]]
                        /\ runSubject[absorbedBy'[x]] = runSubject[firingRun[x]]
      BY <1>1 DEF HasHeir
    <2>1. CASE x \in Old
      BY <2>1, <1>2, <1>5
    <2>2. CASE x \notin Old
      <3> HIDE DEF Old
      <3>. QED BY <2>2, <1>1, <1>5 DEF LineInv, HasHeir
    <2>. QED BY <2>1, <2>2
  <1>9. AskedWasReplaced'
    <2>3. UNCHANGED <<crashes, asked, firingRun>>
      BY <1>1
    <2> SUFFICES ASSUME crashes = 0, NEW r \in asked
                 PROVE  \E x \in Triggers \X Events : firingRun[x] = r /\ outcome'[x] = "superseded"
      BY <2>3 DEF AskedWasReplaced
    <2>1. CASE r = superseded
      <3>1. PICK e \in Events : firingRun[<<tr, e>>] = superseded
        BY <1>1, <1>2 DEF LineInv, HasFiring
      <3>2. <<tr, e>> \in Triggers \X Events /\ <<tr, e>> \in {tr} \X Events
        BY <1>3
      <3>3. outcome'[<<tr, e>>] = "superseded"
        BY <3>1, <3>2, <1>5
      <3>. QED BY <3>1, <3>2, <3>3, <2>1
    <2>2. CASE r # superseded
      <3>1. PICK x \in Triggers \X Events : firingRun[x] = r /\ outcome[x] = "superseded"
        BY <2>2, <1>1 DEF LineInv, AskedWasReplaced
      <3>. QED BY <3>1, <1>5
    <2>. QED BY <2>1, <2>2
  <1>10. ChainInv'
    <2>1. clock' \in Nat /\ clock' >= clock /\ crashes' \in Nat
      BY <1>1 DEF Tables, Rows
    <2>. QED BY <2>1, <1>1, <1>3, TablesStay
  <1>. QED BY <1>6, <1>7, <1>8, <1>9, <1>10 DEF LineInv

LEMMA WriteFiringGuard ==
  ASSUME GuardInv, WriteFiring
  PROVE  ChainInv' /\ LineInv'
  <1>1. /\ UNCHANGED <<clock, eventVars, runVars, crashes>> /\ step = "write" /\ Advance
        /\ Record("succeeded", new, 0) /\ Tables /\ LineInv /\ Rows /\ ChainsHold
        /\ ev <= nEvents /\ outcome[<<tr, ev>>] = "none"
    BY DEF WriteFiring, GuardInv, CoalesceInv, ChainInv, Tables, LineInv, Firings
  <1>2. new \in Nat /\ new \in Triggered /\ trigger[new] = tr
    BY <1>1 DEF LineInv, Decided
  <1>3. /\ DOMAIN outcome' = Triggers \X Events /\ DOMAIN absorbedBy' = Triggers \X Events
        /\ firingRun' \in [Triggers \X Events -> Nat]
        /\ \A x \in Triggers \X Events : outcome'[x] = "none" => firingRun'[x] = 0
        /\ firingRun'[<<tr, ev>>] = new
        /\ \A x \in Triggers \X Events : x # <<tr, ev>> =>
             outcome'[x] = outcome[x] /\ firingRun'[x] = firingRun[x] /\ absorbedBy'[x] = absorbedBy[x]
        /\ \A x \in Triggers \X Events : outcome[x] # "none" => x # <<tr, ev>>
        /\ \A x \in Triggers \X Events : firingRun[x] # 0 => x # <<tr, ev>>
        /\ \A x \in Triggers \X Events : outcome'[x] = "superseded" =>
             outcome[x] = "superseded" /\ x # <<tr, ev>>
    BY <1>1, <1>2, FiringWritten DEF LineInv
  <1>4. Triggered' = Triggered /\ step' = "guard" /\ superseded' = 0 /\ new' = 0
    BY <1>1 DEF Triggered, RealRuns, Advance
  <1>5. OldAreAsked' /\ ElectedIsNewest'
    BY <1>1, <1>4 DEF LineInv, OldAreAsked, ElectedIsNewest
  <1>6. Firings' /\ Decided'
    BY <1>3, <1>4 DEF Firings, Decided
  <1>7. HasFiring'
    <2> SUFFICES ASSUME crashes = 0, NEW r \in Triggered
                 PROVE  \E e \in Events : firingRun'[<<trigger[r], e>>] = r
      BY <1>1, <1>4 DEF HasFiring
    <2>0. ev \in Events
      BY <1>1, AtWork
    <2>1. CASE r = new
      BY <2>0, <2>1, <1>2, <1>3
    <2>2. CASE r # new
      <3>1. PICK e \in Events : firingRun[<<trigger[r], e>>] = r
        BY <2>2, <1>1 DEF LineInv, HasFiring
      <3>2. r # 0 /\ trigger[r] \in Triggers
        BY <1>1, Indices DEF Triggered, RealRuns, Tables
      <3>3. <<trigger[r], e>> \in Triggers \X Events
        BY <3>2
      <3>. QED BY <3>1, <3>2, <3>3, <1>3
    <2>. QED BY <2>1, <2>2
  <1>8. HasHeir'
    BY <1>1, <1>3 DEF LineInv, HasHeir
  <1>9. AskedWasReplaced'
    <2> SUFFICES ASSUME crashes = 0, NEW r \in asked
                 PROVE  \E x \in Triggers \X Events : firingRun'[x] = r /\ outcome'[x] = "superseded"
      BY <1>1 DEF AskedWasReplaced
    <2>1. PICK x \in Triggers \X Events : firingRun[x] = r /\ outcome[x] = "superseded"
      BY <1>1 DEF LineInv, AskedWasReplaced
    <2>. QED BY <2>1, <1>3
  <1>10. ChainInv'
    <2>1. clock' \in Nat /\ clock' >= clock /\ crashes' \in Nat
      BY <1>1 DEF Tables, Rows
    <2>. QED BY <2>1, <1>1, <1>4, TablesStay
  <1>. QED BY <1>5, <1>6, <1>7, <1>8, <1>9, <1>10 DEF LineInv

LEMMA GuardInit == Init => GuardInv
  <1> SUFFICES ASSUME Init PROVE GuardInv
    OBVIOUS
  <1>1. CoalesceInv
    BY CoalesceInit
  <1>2. Tables /\ nRuns \in 0..1
    BY <1>1 DEF CoalesceInv, Init
  <1>3. /\ step = "guard" /\ asked = {} /\ superseded = 0 /\ new = 0
        /\ \A r \in 1..nRuns : trigger[r] = 0
    <2>1. \A r \in 1..nRuns : r \in Runs
      BY <1>2, Indices DEF Tables
    <2>. QED BY <2>1 DEF Init
  <1>4. Triggered = {}
    BY <1>3 DEF Triggered, RealRuns
  <1>5. Rows
    <2>1. /\ clock = 1 /\ nEvents = 0 /\ at = [e \in Events |-> 0] /\ cause = [e \in Events |-> 0]
          /\ runCause = [r \in Runs |-> 0] /\ seen = [r \in Runs |-> 0] /\ nRuns \in Nat
          /\ DOMAIN actor = Events /\ DOMAIN subject = Events
          /\ crashes = IF nRuns = 0 THEN 0 ELSE MaxCrashes
      BY DEF Init
    <2>2. crashes \in Nat
      BY <2>1, GuardConstants
    <2>3. \A r \in 1..nRuns : r \in Runs
      BY <1>2, Indices DEF Tables
    <2>. QED BY <2>1, <2>2, <2>3, <1>3 DEF Rows
  <1>6. ChainsHold /\ DepthVerdict
    BY <1>3, <1>4 DEF ChainsHold, DepthVerdict, Chains
  <1>7. OldAreAsked /\ ElectedIsNewest /\ HasFiring /\ AskedWasReplaced /\ Decided
    BY <1>3, <1>4 DEF OldAreAsked, ElectedIsNewest, HasFiring, AskedWasReplaced, Decided
  <1>8. Firings /\ HasHeir
    BY <1>3 DEF Init, Firings, HasHeir
  <1>. QED BY <1>1, <1>5, <1>6, <1>7, <1>8 DEF GuardInv, ChainInv, LineInv

\* Every step keeps the rows, the chains and the line.
LEMMA GuardStep == GuardInv /\ [Next]_vars => ChainInv' /\ LineInv'
  <1> SUFFICES ASSUME GuardInv, [Next]_vars PROVE ChainInv' /\ LineInv'
    OBVIOUS
  <1>1. CASE PassOver
    BY <1>1, PassOverGuard
  <1>2. CASE NoAction \/ Debounced
    BY <1>2, DeclinedGuard
  <1>3. CASE stopLoop
    BY <1>3, stopLoopGuard
  <1>4. CASE Evaluate
    BY <1>4, EvaluateGuard
  <1>5. CASE Enqueue
    BY <1>5, EnqueueGuard
  <1>6. CASE StopRun
    BY <1>6, StopRunGuard
  <1>7. CASE Supersede
    BY <1>7, SupersedeGuard
  <1>8. CASE WriteFiring
    BY <1>8, WriteFiringGuard
  <1>9. CASE Crash
    BY <1>9, CrashGuard
  <1>10. ASSUME NEW s \in Subjects, NEW t \in 1..clock, NEW a \in {Human, External},
                NEW w \in Reviews \cup {NoReview}, OutsiderActs(a, s, t, w)
         PROVE  ChainInv' /\ LineInv'
    <2>1. 0 \in 0..nRuns
      BY DEF GuardInv, CoalesceInv, Tables
    <2>. QED BY <2>1, <1>10, ArrivesGuard DEF OutsiderActs
  <1>11. ASSUME NEW s \in Subjects, NEW r \in Runs, NEW k \in {"agent", "check"}, AgentActs(r, s, k)
         PROVE  ChainInv' /\ LineInv'
    <2>1. r \in 0..nRuns
      BY <1>11 DEF AgentActs, RealRuns, GuardInv, CoalesceInv, Tables
    <2>2. clock \in 1..clock
      <3>1. clock \in Nat /\ clock # 0
        BY DEF GuardInv, ChainInv, CoalesceInv, Tables, Rows
      <3>. QED BY <3>1
    <2>. QED BY <2>1, <2>2, <1>11, ArrivesGuard DEF AgentActs
  <1>12. ASSUME NEW r \in Runs, RunEnds(r)
         PROVE  ChainInv' /\ LineInv'
    BY <1>12, RunEndsGuard
  <1>13. CASE Tick
    BY <1>13, TickGuard
  <1>14. CASE UNCHANGED vars
    <2>1. /\ UNCHANGED <<clock, eventVars, runVars, firingVars, workVars, crashes>>
          /\ Tables /\ LineInv /\ ChainInv
      BY <1>14 DEF vars, GuardInv, CoalesceInv
    <2>2. Triggered' = Triggered /\ \A r \in 1..nRuns : state'[r] = "active" => state[r] = "active"
      BY <2>1 DEF Triggered, RealRuns
    <2>3. LineInv'
      BY <2>1, <2>2, OutsideLine
    <2>4. clock' \in Nat /\ clock' >= clock /\ crashes' \in Nat /\ Rows /\ ChainsHold
      BY <2>1 DEF Tables, ChainInv, Rows
    <2>5. Rows' /\ ChainsHold'
      BY <2>1, <2>2, <2>4, RowsStay, ChainsStay
    <2>6. DepthVerdict'
      <3>1. Chains' = Chains
        BY <2>1, <2>2 DEF Chains, Follows
      <3>2. \A C \in Chains : GoesOn(ev, C)' <=> GoesOn(ev, C)
        BY <2>1 DEF GoesOn, Unbroken
      <3>. QED BY <3>1, <3>2, <2>1 DEF ChainInv, DepthVerdict
    <2>. QED BY <2>3, <2>5, <2>6 DEF ChainInv
  <1> QED
    BY <1>1, <1>2, <1>3, <1>4, <1>5, <1>6, <1>7, <1>8, <1>9, <1>10, <1>11, <1>12, <1>13, <1>14
    DEF Next

\* GuardInv holds throughout.
THEOREM GuardInvariant == Spec => []GuardInv
  <1>1. CoalesceInv /\ ChainInv /\ LineInv <=> GuardInv
    BY DEF GuardInv
  <1>2. GuardInv /\ [Next]_vars => GuardInv'
    <2> SUFFICES ASSUME GuardInv, [Next]_vars PROVE GuardInv'
      OBVIOUS
    <2>1. CoalesceInv'
      BY CoalesceStep DEF GuardInv
    <2>2. ChainInv' /\ LineInv'
      BY GuardStep
    <2>. QED BY <2>1, <2>2 DEF GuardInv
  <1> QED
    BY <1>2, GuardInit, PTL DEF Spec

\* Loops end: agents that set each other off on a subject stop after the largest DepthLimit of
\* their triggers unless a human steps in, however late events are polled, and replacing runs
\* leaves a line of them, one current and every replaced one with its heir (chainDepth,
\* Evaluate, Enqueue's supersede).
THEOREM SuccessionHolds == Spec => []Succession
  <1>1. GuardInv => ChainBounded
    <2> SUFFICES ASSUME GuardInv, NEW C \in Chains, Unattended(C),
                        \A r \in C : DepthLimit[trigger[r]] \in 1..HopCap
                 PROVE  Cardinality(C) <= Max({DepthLimit[trigger[r]] : r \in C})
      BY DEF ChainBounded
    <2> DEFINE limits == {DepthLimit[trigger[r]] : r \in C}
    <2>1. Tables /\ Rows /\ ChainsHold
      BY DEF GuardInv, CoalesceInv, ChainInv
    <2>2. Cardinality(C) <= DepthLimit[trigger[Max(C)]] /\ Cardinality(C) \in Nat /\ Max(C) \in C
      BY <2>1, ChainFacts DEF ChainsHold
    <2>3. DepthLimit[trigger[Max(C)]] \in limits /\ limits \subseteq 0..HopCap /\ limits # {}
      BY <2>2
    <2>4. HopCap \in Nat
      BY GuardConstants
    <2> HIDE DEF limits
    <2>5. Max(limits) \in limits /\ DepthLimit[trigger[Max(C)]] <= Max(limits)
      BY <2>3, <2>4, MaxIs
    <2>6. DepthLimit[trigger[Max(C)]] \in Nat /\ Max(limits) \in Nat
      <3>1. limits \subseteq Nat
        BY <2>3, <2>4
      <3> QED
        BY <2>3, <2>5, <3>1
    <2>7. Cardinality(C) <= Max(limits)
      BY <2>2, <2>5, <2>6
    <2> QED
      BY <2>7 DEF limits
  <1>2. GuardInv => OneCurrentRun
    <2> SUFFICES ASSUME GuardInv, step = "guard", crashes = 0, NEW r \in Triggered, NEW q \in Triggered,
                        trigger[q] = trigger[r], runSubject[q] = runSubject[r], r # q,
                        CancelInProgress[trigger[r]], state[r] = "active", state[q] = "active"
                 PROVE  {r, q} \cap asked # {}
      BY DEF OneCurrentRun
    <2>1. r \in Nat /\ q \in Nat
      BY DEF Triggered, RealRuns
    <2>2. q < r => q \in asked
      BY DEF GuardInv, LineInv, OldAreAsked
    <2>3. r < q => r \in asked
      BY DEF GuardInv, LineInv, OldAreAsked
    <2> QED
      BY <2>1, <2>2, <2>3
  <1>3. GuardInv => SupersededNamesSuccessor
    BY DEF GuardInv, LineInv, HasHeir, AskedWasReplaced, SupersededNamesSuccessor
  <1> QED
    BY <1>1, <1>2, <1>3, GuardInvariant, PTL DEF Succession


------------------------------------------------------------------------------
(* Desk. *)

Whose == Clerks \cup {NoOne}
Reasons == {"none", "stop", "takeover", "wall clock"} \X Whose
JobStates == {"none"} \cup Live \cup Finished
JobRows == [state : JobStates, ticket : BOOLEAN, reason : Reasons, note : Whose, acked : BOOLEAN, brief : Whose]
StopRows == [kind : {"none"} \cup Finished, why : Reasons, outcome : {"none"} \cup Finished]
DeskRows ==
  [doing : {"none", "done", "stop", "takeover", "acknowledge", "create"},
   at : {"none", "audit", "take", "note", "stop", "stamp", "load", "insert", "recorded"}, run : {0} \cup Jobs]
Papers == {"run", "page", "pull"} \X Jobs \X {"question", "approval", "failure", "review"}
ReaderRows == [at : {"none", "pages", "pulls", "rows", "answered", "done"}, rows : SUBSET Papers, let : BOOLEAN]

JobsTyped ==
  /\ job \in [Jobs -> JobRows] /\ stops \in [Jobs -> StopRows] /\ desk \in [Clerks -> DeskRows]
  /\ pages \subseteq Jobs /\ member \in BOOLEAN

(* Of a run's reason that names a person there is an entry of the trail, and of a takeover
   a note. *)
Backed(why, r) ==
  /\ why[1] \in {"stop", "takeover"} => <<why[1], r, why[2]>> \in audited
  /\ why[1] = "takeover" => job[r].note # NoOne

NoteBacked(r) == job[r].note # NoOne => <<"takeover", r, job[r].note>> \in audited

(* A request that has got past the audit is in it. *)
AskBacked(d, c) ==
  /\ d.at \in {"audit", "take", "note", "stop", "stamp"} => d.run \in Jobs
  /\ d.at \in {"take", "note", "stop"} =>
       d.doing \in {"stop", "takeover"} /\ <<d.doing, d.run, c>> \in audited
  /\ d.at \in {"take", "note"} => d.doing = "takeover"
  /\ d.at = "stop" /\ d.doing = "takeover" => job[d.run].note # NoOne

Accounted ==
  /\ \A r \in Jobs : Backed(job[r].reason, r) /\ Backed(stops[r].why, r) /\ NoteBacked(r)
  /\ \A c \in Clerks : AskBacked(desk[c], c)

(* What is read so far, beside what needed somebody all along and at some time. *)
ReaderTyped == reader \in ReaderRows /\ waited \in [always : SUBSET Papers, ever : SUBSET Papers]

ReadSoFar ==
  /\ reader.at = "none" => reader.rows = {}
  /\ reader.at \in {"pages", "pulls", "rows"} => waited.always \subseteq Needs /\ Needs \subseteq waited.ever
  /\ reader.at \in {"pages", "pulls", "rows", "answered"} =>
       /\ reader.rows \subseteq waited.ever
       /\ \A x \in waited.always : x[1] = "run" => x \in reader.rows
  /\ reader.at \in {"pulls", "rows", "answered"} => \A x \in waited.always : x[1] = "page" => x \in reader.rows
  /\ reader.at \in {"rows", "answered"} => \A x \in waited.always : x[1] = "pull" => x \in reader.rows

DeskTracked == JobsTyped /\ Accounted /\ ReaderTyped /\ ReadSoFar

(* The rows of the inbox. *)
LEMMA NeedsTyped ==
  /\ RunItems \subseteq Papers /\ PullItems \subseteq Papers
  /\ pages \subseteq Jobs => PageItems \subseteq Papers
  /\ \A x \in RunItems : x[1] = "run"
  /\ \A x \in PageItems : x[1] = "page"
  /\ \A x \in PullItems : x[1] = "pull"
  <1>1. \A s : Flavor(s) \in {"question", "approval", "failure"}
    BY DEF Flavor
  <1>2. RunItems \subseteq Papers /\ \A x \in RunItems : x[1] = "run"
    BY <1>1 DEF RunItems, NeedsYouRows, Papers
  <1>3. PullItems \subseteq Papers /\ \A x \in PullItems : x[1] = "pull"
    BY DEF PullItems, OpenAgentPRs, Papers
  <1>4. pages \subseteq Jobs => PageItems \subseteq Papers
    BY DEF PageItems, Papers
  <1>5. \A x \in PageItems : x[1] = "page"
    BY DEF PageItems
  <1>. QED BY <1>2, <1>3, <1>4, <1>5

LEMMA ReaderKeeps ==
  ASSUME JobsTyped, JobsTyped', ReaderTyped, ReadSoFar, Watching,
         \/ reader' = reader
         \/ UNCHANGED <<job, pulls, pages>> /\ (ReadRuns \/ ReadPages \/ ReadPulls \/ HandleInbox)
         \/ reader' = [NoReader EXCEPT !.at = "done"]
  PROVE  ReaderTyped' /\ ReadSoFar'
  <1>1. /\ RunItems \subseteq Papers /\ PageItems \subseteq Papers /\ PullItems \subseteq Papers
        /\ \A x \in RunItems : x[1] = "run"
        /\ \A x \in PageItems : x[1] = "page"
        /\ \A x \in PullItems : x[1] = "pull"
    BY NeedsTyped DEF JobsTyped
  <1>2. Needs \subseteq Papers /\ Needs' \subseteq Papers
    <2>1. RunItems' \subseteq Papers' /\ PageItems' \subseteq Papers' /\ PullItems' \subseteq Papers'
      <3>1. pages' \subseteq Jobs
        BY DEF JobsTyped
      <3>2. \A s : Flavor(s) \in {"question", "approval", "failure"}
        BY DEF Flavor
      <3>. QED BY <3>1, <3>2 DEF RunItems, NeedsYouRows, PageItems, PullItems, OpenAgentPRs, Papers
    <2>2. Papers' = Papers
      BY DEF Papers
    <2>. QED BY <1>1, <2>1, <2>2 DEF Needs
  <1>3. /\ reader \in ReaderRows /\ waited.always \subseteq Papers /\ waited.ever \subseteq Papers
        /\ reader.rows \subseteq Papers
    BY DEF ReaderTyped, ReaderRows
  <1>4. CASE reader' = reader
    <2>1. reader.at \in {"none", "pages", "pulls", "rows", "answered", "done"}
      BY <1>3 DEF ReaderRows
    <2>2. CASE reader.at \in {"none", "done"}
      <3>1. waited' = [always |-> {}, ever |-> {}]
        BY <1>4, <2>2 DEF Watching
      <3>2. waited'.always = {} /\ waited'.ever = {} /\ waited' \in [always : SUBSET Papers, ever : SUBSET Papers]
        BY <3>1
      <3>. QED BY <1>3, <1>4, <2>2, <3>2 DEF ReaderTyped, ReadSoFar, ReaderRows, Papers
    <2>3. CASE reader.at = "answered"
      <3>1. waited' = waited
        BY <1>4, <2>3 DEF Watching
      <3>. QED BY <1>4, <2>3, <3>1 DEF ReaderTyped, ReadSoFar, ReaderRows, Papers
    <2>4. CASE reader.at \in {"pages", "pulls", "rows"}
      <3>1. waited' = [always |-> waited.always \cap Needs', ever |-> waited.ever \cup Needs']
        BY <1>4, <2>4 DEF Watching
      <3> DEFINE now == Needs'
      <3>2. /\ waited'.always = waited.always \cap now /\ waited'.ever = waited.ever \cup now
            /\ waited' \in [always : SUBSET Papers, ever : SUBSET Papers] /\ now \subseteq Papers
        BY <1>2, <1>3, <3>1
      <3>3. ReaderTyped'
        BY <1>3, <1>4, <3>2 DEF ReaderTyped, ReaderRows, Papers
      <3>4. waited'.always \subseteq Needs' /\ Needs' \subseteq waited'.ever
        BY <3>2
      <3> HIDE DEF now
      <3>5. ReadSoFar'
        BY <1>4, <2>4, <3>2, <3>4 DEF ReadSoFar
      <3>. QED BY <3>3, <3>5
    <2>. QED BY <2>1, <2>2, <2>3, <2>4
  <1>5. CASE reader' = [NoReader EXCEPT !.at = "done"]
    <2>1. reader'.at = "done" /\ reader' \in ReaderRows
      BY <1>5 DEF NoReader, ReaderRows
    <2>2. waited' = [always |-> {}, ever |-> {}]
      BY <2>1 DEF Watching
    <2>3. waited'.always = {} /\ waited'.ever = {} /\ waited' \in [always : SUBSET Papers, ever : SUBSET Papers]
      BY <2>2
    <2>. QED BY <2>1, <2>3 DEF ReaderTyped, ReadSoFar, ReaderRows, Papers
  <1>6. ASSUME UNCHANGED <<job, pulls, pages>> PROVE Needs' = Needs
    BY <1>6 DEF Needs, RunItems, NeedsYouRows, PageItems, PullItems, OpenAgentPRs
  <1>7. CASE UNCHANGED <<job, pulls, pages>> /\ ReadRuns
    <2>1. reader.at = "none" /\ reader' = [reader EXCEPT !.at = "pages", !.rows = reader.rows \cup RunItems]
      BY <1>7 DEF ReadRuns, Turn
    <2>2. reader'.at = "pages" /\ reader'.rows = reader.rows \cup RunItems /\ reader.rows = {} /\ reader' \in ReaderRows
      BY <1>1, <1>3, <2>1 DEF ReaderRows, ReadSoFar
    <2>3. waited' = [always |-> Needs, ever |-> Needs]
      BY <2>1, <2>2 DEF Watching
    <2>4. waited'.always = Needs /\ waited'.ever = Needs /\ Needs' = Needs /\ waited' \in [always : SUBSET Papers, ever : SUBSET Papers]
      BY <1>2, <1>6, <1>7, <2>3
    <2>5. ReaderTyped'
      BY <2>2, <2>4 DEF ReaderTyped, ReaderRows, Papers
    <2>6. \A x \in Needs : x[1] = "run" => x \in RunItems
      BY <1>1 DEF Needs
    <2>7. RunItems \subseteq Needs
      BY DEF Needs
    <2>8. ReadSoFar'
      BY <2>2, <2>4, <2>6, <2>7 DEF ReadSoFar
    <2>. QED BY <2>5, <2>8
  <1>8. CASE UNCHANGED <<job, pulls, pages>> /\ ReadPages
    <2>1. reader.at = "pages" /\ reader' = [reader EXCEPT !.at = "pulls", !.rows = reader.rows \cup PageItems]
      BY <1>8 DEF ReadPages, Turn
    <2>2. reader'.at = "pulls" /\ reader'.rows = reader.rows \cup PageItems /\ reader' \in ReaderRows
      BY <1>1, <1>3, <2>1 DEF ReaderRows
    <2>3. waited' = [always |-> waited.always \cap Needs', ever |-> waited.ever \cup Needs']
      BY <2>1, <2>2 DEF Watching
    <2>4. /\ waited'.always = waited.always \cap Needs /\ waited'.ever = waited.ever \cup Needs /\ Needs' = Needs
          /\ waited' \in [always : SUBSET Papers, ever : SUBSET Papers]
      BY <1>2, <1>3, <1>6, <1>8, <2>3
    <2>5. ReaderTyped'
      BY <2>2, <2>4 DEF ReaderTyped, ReaderRows, Papers
    <2>6. \A x \in Needs : x[1] = "page" => x \in PageItems
      BY <1>1 DEF Needs
    <2>7. PageItems \subseteq Needs
      BY DEF Needs
    <2>8. ReadSoFar'
      BY <2>1, <2>2, <2>4, <2>6, <2>7 DEF ReadSoFar
    <2>. QED BY <2>5, <2>8
  <1>9. CASE UNCHANGED <<job, pulls, pages>> /\ ReadPulls
    <2>1. reader.at = "pulls" /\ reader' = [reader EXCEPT !.at = "rows", !.rows = reader.rows \cup PullItems]
      BY <1>9 DEF ReadPulls, Turn
    <2>2. reader'.at = "rows" /\ reader'.rows = reader.rows \cup PullItems /\ reader' \in ReaderRows
      BY <1>1, <1>3, <2>1 DEF ReaderRows
    <2>3. waited' = [always |-> waited.always \cap Needs', ever |-> waited.ever \cup Needs']
      BY <2>1, <2>2 DEF Watching
    <2>4. /\ waited'.always = waited.always \cap Needs /\ waited'.ever = waited.ever \cup Needs /\ Needs' = Needs
          /\ waited' \in [always : SUBSET Papers, ever : SUBSET Papers]
      BY <1>2, <1>3, <1>6, <1>9, <2>3
    <2>5. ReaderTyped'
      BY <2>2, <2>4 DEF ReaderTyped, ReaderRows, Papers
    <2>6. \A x \in Needs : x[1] = "pull" => x \in PullItems
      BY <1>1 DEF Needs
    <2>7. PullItems \subseteq Needs
      BY DEF Needs
    <2>8. ReadSoFar'
      BY <2>1, <2>2, <2>4, <2>6, <2>7 DEF ReadSoFar
    <2>. QED BY <2>5, <2>8
  <1>10. CASE HandleInbox
    <2>1. reader.at = "rows" /\ reader' = [reader EXCEPT !.at = "answered", !.let = member]
      BY <1>10 DEF HandleInbox
    <2>2. reader'.at = "answered" /\ reader'.rows = reader.rows /\ reader' \in ReaderRows
      BY <1>3, <2>1 DEF ReaderRows, JobsTyped
    <2>3. waited' = waited
      BY <2>1, <2>2 DEF Watching
    <2>4. waited.always \subseteq Needs /\ Needs \subseteq waited.ever
      BY <2>1 DEF ReadSoFar
    <2>5. ReaderTyped'
      BY <2>2, <2>3 DEF ReaderTyped, ReaderRows, Papers
    <2>6. ReadSoFar'
      BY <2>1, <2>2, <2>3 DEF ReadSoFar
    <2>. QED BY <2>5, <2>6
  <1>. QED BY <1>4, <1>5, <1>7, <1>8, <1>9, <1>10

(* The answer shows what waited all along and nothing that never did. *)
LEMMA ReadIsHonest ==
  ASSUME ReaderTyped, ReadSoFar
  PROVE  InboxIsHonest
  <1> SUFFICES ASSUME reader.at = "answered"
               PROVE  waited.always \subseteq reader.rows /\ reader.rows \subseteq waited.ever
    BY DEF InboxIsHonest
  <1>1. \A x \in waited.always : x[1] \in {"run", "page", "pull"}
    BY DEF ReaderTyped, Papers
  <1>. QED BY <1>1 DEF ReadSoFar

------------------------------------------------------------------------------
(* What is in the trail stays there, and so do notes. *)
LEMMA StaysBacked ==
  ASSUME audited \subseteq audited', \A r \in Jobs : job[r].note # NoOne => job'[r].note # NoOne,
         NEW r \in Jobs, NEW why, Backed(why, r)
  PROVE  Backed(why, r)'
  BY DEF Backed

(* One run's row changes. *)
LEMMA RowKeeps ==
  ASSUME JobsTyped, Accounted, UNCHANGED <<stops, audited>>, NEW r \in Jobs, NEW made \in JobRows,
         job' = [job EXCEPT ![r] = made], Backed(made.reason, r)',
         job[r].note # NoOne => made.note # NoOne,
         made.note # NoOne => <<"takeover", r, made.note>> \in audited
  PROVE  /\ job' \in [Jobs -> JobRows]
         /\ \A q \in Jobs : job[q].note # NoOne => job'[q].note # NoOne
         /\ \A q \in Jobs : Backed(job[q].reason, q)' /\ Backed(stops[q].why, q)' /\ NoteBacked(q)'
  <1>1. /\ job' \in [Jobs -> JobRows] /\ job'[r] = made
        /\ \A q \in Jobs : q # r => job'[q] = job[q]
    BY DEF JobsTyped
  <1>2. \A q \in Jobs : job[q].note # NoOne => job'[q].note # NoOne
    BY <1>1
  <1>3. ASSUME NEW q \in Jobs PROVE Backed(job[q].reason, q)' /\ Backed(stops[q].why, q)' /\ NoteBacked(q)'
    <2>1. Backed(stops[q].why, q)'
      BY <1>2, StaysBacked DEF Accounted
    <2>2. CASE q = r
      BY <1>1, <2>1, <2>2 DEF NoteBacked
    <2>3. CASE q # r
      <3>1. Backed(job[q].reason, q)'
        BY <1>1, <1>2, <2>3, StaysBacked DEF Accounted
      <3>2. NoteBacked(q)'
        BY <1>1, <2>3 DEF Accounted, NoteBacked
      <3>. QED BY <2>1, <3>1, <3>2
    <2>. QED BY <2>2, <2>3
  <1>. QED BY <1>1, <1>2, <1>3

(* What one supervisor is told changes. *)
LEMMA StopKeeps ==
  ASSUME JobsTyped, Accounted, UNCHANGED <<job, audited>>, NEW r \in Jobs, NEW made \in StopRows,
         stops' = [stops EXCEPT ![r] = made], Backed(made.why, r)
  PROVE  /\ stops' \in [Jobs -> StopRows]
         /\ \A q \in Jobs : Backed(job[q].reason, q)' /\ Backed(stops[q].why, q)' /\ NoteBacked(q)'
  <1>1. /\ stops' \in [Jobs -> StopRows] /\ stops'[r] = made
        /\ \A q \in Jobs : q # r => stops'[q] = stops[q]
    BY DEF JobsTyped
  <1>2. ASSUME NEW q \in Jobs PROVE Backed(job[q].reason, q)' /\ Backed(stops[q].why, q)' /\ NoteBacked(q)'
    <2>1. Backed(job[q].reason, q) /\ Backed(stops[q].why, q) /\ NoteBacked(q)
      BY DEF Accounted
    <2>2. CASE q = r
      BY <1>1, <2>1, <2>2 DEF NoteBacked, Backed
    <2>3. CASE q # r
      BY <1>1, <2>1, <2>3 DEF NoteBacked, Backed
    <2>. QED BY <2>2, <2>3
  <1>. QED BY <1>1, <1>2

(* One request goes on. *)
LEMMA AskKeeps ==
  ASSUME JobsTyped, Accounted, audited \subseteq audited',
         \A r \in Jobs : job[r].note # NoOne => job'[r].note # NoOne,
         NEW c \in Clerks, NEW d \in DeskRows, desk' = [desk EXCEPT ![c] = d], AskBacked(d, c)'
  PROVE  desk' \in [Clerks -> DeskRows] /\ \A k \in Clerks : AskBacked(desk[k], k)'
  <1>1. /\ desk' \in [Clerks -> DeskRows] /\ desk'[c] = d
        /\ \A k \in Clerks : k # c => desk'[k] = desk[k]
    BY DEF JobsTyped
  <1>2. ASSUME NEW k \in Clerks, k # c PROVE AskBacked(desk[k], k)'
    <2>1. AskBacked(desk[k], k)
      BY DEF Accounted
    <2>. QED BY <1>1, <1>2, <2>1 DEF AskBacked
  <1>. QED BY <1>1, <1>2

LEMMA AsksStay ==
  ASSUME JobsTyped, Accounted, UNCHANGED <<desk, audited>>,
         \A r \in Jobs : job[r].note # NoOne => job'[r].note # NoOne
  PROVE  desk' \in [Clerks -> DeskRows] /\ \A k \in Clerks : AskBacked(desk[k], k)'
  <1>1. ASSUME NEW k \in Clerks PROVE AskBacked(desk[k], k)'
    <2>1. AskBacked(desk[k], k)
      BY DEF Accounted
    <2>. QED BY <2>1 DEF AskBacked
  <1>. QED BY <1>1 DEF JobsTyped

(* The row of a run that was there before keeps its ticket. *)
LEMMA TicketsKept ==
  ASSUME \A r \in Jobs : job'[r].ticket = job[r].ticket
  PROVE  TakeoverIsToldOn
  BY DEF TakeoverIsToldOn, NoJob

RunsKept ==
  /\ job' \in [Jobs -> JobRows]
  /\ \A q \in Jobs : job[q].note # NoOne => job'[q].note # NoOne
  /\ \A q \in Jobs : Backed(job[q].reason, q)' /\ Backed(stops[q].why, q)' /\ NoteBacked(q)'

LEMMA NoteIsFound ==
  ASSUME JobsTyped, NEW q \in Jobs, job[q].ticket, job[q].note # NoOne
  PROVE  LatestTakeoverNote # NoOne
  <1> DEFINE noted == {r \in Jobs : job[r].ticket /\ job[r].note # NoOne}
  <1>1. q \in noted /\ noted \subseteq 0..MaxJobs /\ MaxJobs \in Nat
    BY DeskAssumption DEF Jobs
  <1>2. \A r \in noted : job[r].note # NoOne
    OBVIOUS
  <1> HIDE DEF noted
  <1>3. Max(noted) \in noted /\ \A y \in noted : y <= Max(noted)
    BY <1>1, MaxIs
  <1>4. (CHOOSE r \in noted : \A y \in noted : y <= r) \in noted
    BY <1>3
  <1>5. LatestTakeoverNote = job[CHOOSE r \in noted : \A y \in noted : y <= r].note
    BY <1>1 DEF LatestTakeoverNote, noted
  <1>. QED BY <1>2, <1>4, <1>5

LEMMA NoteTyped == JobsTyped => LatestTakeoverNote \in Whose
  <1> SUFFICES ASSUME JobsTyped PROVE LatestTakeoverNote \in Whose
    OBVIOUS
  <1> DEFINE noted == {r \in Jobs : job[r].ticket /\ job[r].note # NoOne}
  <1>1. noted \subseteq 0..MaxJobs /\ MaxJobs \in Nat /\ noted \subseteq Jobs
    BY DeskAssumption DEF Jobs
  <1>2. \A r \in Jobs : job[r].note \in Whose
    BY DEF JobsTyped, JobRows
  <1>3. LatestTakeoverNote = IF noted = {} THEN NoOne ELSE job[CHOOSE r \in noted : \A y \in noted : y <= r].note
    BY DEF LatestTakeoverNote
  <1> HIDE DEF noted
  <1>4. CASE noted = {}
    BY <1>3, <1>4 DEF Whose
  <1>5. CASE noted # {}
    <2>1. Max(noted) \in noted /\ \A y \in noted : y <= Max(noted)
      BY <1>1, <1>5, MaxIs
    <2>2. (CHOOSE r \in noted : \A y \in noted : y <= r) \in noted
      BY <2>1
    <2>. QED BY <1>1, <1>2, <1>3, <1>5, <2>2
  <1>. QED BY <1>4, <1>5

(* A run is queued: behind a takeover it has the note. *)
LEMMA InsertKeeps ==
  ASSUME JobsTyped, Accounted, UNCHANGED <<stops, audited>>, NEW first \in {"queued", "loop_stopped"},
         NEW ticket \in BOOLEAN, Insert(first, ticket)
  PROVE  RunsKept /\ TakeoverIsToldOn
  <1>1. PICK r \in Jobs : job[r] = NoJob /\ job' = [job EXCEPT ![r] = Row(first, ticket)]
    BY DEF Insert
  <1>0. PICK made : made = Row(first, ticket)
    OBVIOUS
  <1>2. NoJob \in JobRows /\ NoReason \in Reasons /\ NoReason[1] = "none"
    BY DEF NoJob, NoReason, JobRows, JobStates, Whose, Reasons
  <1>3. /\ made \in JobRows /\ made.reason = NoReason /\ made.note = NoOne /\ made.ticket = ticket
        /\ ticket => made.brief = LatestTakeoverNote
    BY <1>0, <1>2, NoteTyped DEF Row, NoJob, JobRows, JobStates, Live, Finished, Whose
  <1>4. job[r].note = NoOne
    BY <1>1 DEF NoJob
  <1>5. Backed(made.reason, r)'
    <2>1. made.reason[1] = "none"
      BY <1>2, <1>3
    <2>. QED BY <2>1 DEF Backed
  <1>6. job' = [job EXCEPT ![r] = made]
    BY <1>0, <1>1
  <1>7. RunsKept
    BY <1>3, <1>4, <1>5, <1>6, RowKeeps DEF RunsKept
  <1>8. TakeoverIsToldOn
    <2> SUFFICES ASSUME NEW p \in Jobs, job[p] = NoJob, job'[p].ticket,
                        NEW q \in Jobs, job[q].state = "canceled", job[q].ticket, job[q].reason[1] = "takeover"
                 PROVE  job'[p].brief # NoOne
      BY DEF TakeoverIsToldOn
    <2>1. job[q].note # NoOne
      BY DEF Accounted, Backed
    <2>2. p = r
      BY <1>6 DEF JobsTyped, NoJob
    <2>3. job'[p] = made
      BY <1>6, <2>2 DEF JobsTyped
    <2>. QED BY <1>3, <2>1, <2>3, NoteIsFound
  <1>. QED BY <1>7, <1>8

(* What becomes of one run, its papers, the membership and the agent. *)
LEMMA RunsGoOnKeeps ==
  ASSUME JobsTyped, Accounted, RunsGoOn
  PROVE  JobsTyped' /\ Accounted' /\ TakeoverIsToldOn
  <1>1. UNCHANGED <<desk, audited>> /\ (RunsKept => \A k \in Clerks : AskBacked(desk[k], k)')
        /\ (RunsKept => desk' \in [Clerks -> DeskRows])
    <2>1. UNCHANGED <<desk, audited>>
      BY DEF RunsGoOn, Delegated, MemberLeaves, AgentDisabled, Moves, WallClock, OutcomeOf, Finish, PapersChange, DeskRest
    <2>. QED BY <2>1, AsksStay DEF RunsKept
  <1>2. CASE Delegated
    <2>1. RunsKept /\ TakeoverIsToldOn
      BY <1>1, <1>2, InsertKeeps DEF Delegated
    <2>. QED BY <1>1, <1>2, <2>1 DEF Delegated, OthersStill, RunsKept, JobsTyped, Accounted
  <1>3. CASE MemberLeaves \/ AgentDisabled
    <2>1. UNCHANGED <<job, stops, pages, audited, desk>> /\ member' \in BOOLEAN
      BY <1>1, <1>3 DEF MemberLeaves, AgentDisabled, JobsTyped
    <2>. QED BY <2>1, TicketsKept DEF JobsTyped, Accounted, Backed, NoteBacked, AskBacked
  <1>4. ASSUME NEW r \in Jobs, PapersChange(r)
        PROVE  JobsTyped' /\ Accounted' /\ TakeoverIsToldOn
    <2>1. UNCHANGED <<job, stops, audited, desk>> /\ pages' \subseteq Jobs /\ member' \in BOOLEAN
      BY <1>1, <1>4 DEF PapersChange, JobsTyped
    <2>. QED BY <2>1, TicketsKept DEF JobsTyped, Accounted, Backed, NoteBacked, AskBacked
  <1>5. ASSUME NEW r \in Jobs, Moves(r) \/ Finish(r)
        PROVE  JobsTyped' /\ Accounted' /\ TakeoverIsToldOn
    <2>1. UNCHANGED <<stops, pages, member>>
      BY <1>5 DEF Moves, Finish, OthersStill
    <2>2. job[r] \in JobRows /\ stops[r] \in StopRows
      BY DEF JobsTyped
    <2>3. PICK made \in JobRows : /\ job' = [job EXCEPT ![r] = made]
                                 /\ made.note = job[r].note /\ made.ticket = job[r].ticket
                                 /\ made.reason \in {job[r].reason, stops[r].why, NoReason}
      <3>1. CASE Moves(r)
        <4>1. PICK to \in {"running"} \cup Parked : job' = [job EXCEPT ![r] = [job[r] EXCEPT !.state = to]]
          BY <3>1 DEF Moves
        <4> DEFINE made == [job[r] EXCEPT !.state = to]
        <4>2. made \in JobRows /\ made.note = job[r].note /\ made.ticket = job[r].ticket /\ made.reason = job[r].reason
          BY <2>2 DEF JobRows, JobStates, Live, Parked
        <4>. QED BY <4>1, <4>2
      <3>2. CASE Finish(r)
        <4> DEFINE why == IF stops[r].outcome \in {"canceled", "timed_out"} THEN stops[r].why ELSE NoReason
        <4> DEFINE made == [job[r] EXCEPT !.state = stops[r].outcome, !.reason = why]
        <4>1. job' = [job EXCEPT ![r] = made]
          BY <3>2 DEF Finish
        <4>2. why \in Reasons /\ why \in {stops[r].why, NoReason}
          BY <2>2 DEF StopRows, Reasons, NoReason, Whose
        <4> HIDE DEF why
        <4>3. stops[r].outcome \in JobStates
          BY <2>2 DEF StopRows, JobStates
        <4>4. made \in JobRows /\ made.note = job[r].note /\ made.ticket = job[r].ticket /\ made.reason = why
          BY <2>2, <4>2, <4>3 DEF JobRows
        <4>. QED BY <4>1, <4>2, <4>4
      <3>. QED BY <1>5, <3>1, <3>2
    <2>4. Backed(made.reason, r)'
      <3>1. \A q \in Jobs : job[q].note # NoOne => job'[q].note # NoOne
        BY <2>3 DEF JobsTyped
      <3>2. Backed(NoReason, r)
        BY DEF Backed, NoReason
      <3>3. Backed(made.reason, r)
        BY <2>3, <3>2 DEF Accounted
      <3>. QED BY <1>1, <3>1, <3>3, StaysBacked
    <2>5. NoteBacked(r)
      BY DEF Accounted
    <2>6. RunsKept
      BY <1>1, <2>1, <2>3, <2>4, <2>5, RowKeeps DEF RunsKept, NoteBacked
    <2>7. TakeoverIsToldOn
      <3>1. \A q \in Jobs : job'[q].ticket = job[q].ticket
        BY <2>3 DEF JobsTyped
      <3>. QED BY <3>1, TicketsKept
    <2>. QED BY <1>1, <2>1, <2>6, <2>7 DEF RunsKept, JobsTyped, Accounted
  <1>6. ASSUME NEW r \in Jobs, WallClock(r) \/ OutcomeOf(r)
        PROVE  JobsTyped' /\ Accounted' /\ TakeoverIsToldOn
    <2>1. UNCHANGED <<job, pages, member>>
      BY <1>6 DEF WallClock, OutcomeOf, OthersStill
    <2>2. stops[r] \in StopRows /\ stops \in [Jobs -> StopRows] /\ Backed(stops[r].why, r)
          /\ Backed(NoReason, r) /\ NoReason \in Reasons
      BY DEF JobsTyped, Accounted, Backed, NoReason, Reasons, Whose
    <2>3. PICK made \in StopRows : stops' = [stops EXCEPT ![r] = made] /\ Backed(made.why, r)
      <3>1. CASE WallClock(r)
        <4> DEFINE made == [stops[r] EXCEPT !.kind = "timed_out", !.why = <<"wall clock", NoOne>>]
        <4>1. stops' = IF stops[r].kind = "none" THEN [stops EXCEPT ![r] = made] ELSE stops
          BY <3>1 DEF WallClock, RequestStop
        <4>2. <<"wall clock", NoOne>> \in Reasons /\ Backed(<<"wall clock", NoOne>>, r)
          BY DEF Reasons, Whose, Backed
        <4>3. made \in StopRows /\ made.why = <<"wall clock", NoOne>>
          BY <2>2, <4>2 DEF StopRows, Finished
        <4> HIDE DEF made
        <4>4. stops = [stops EXCEPT ![r] = stops[r]]
          BY <2>2
        <4>. QED BY <2>2, <4>1, <4>2, <4>3, <4>4
      <3>2. CASE OutcomeOf(r)
        <4>1. PICK ended \in {"none"} \cup Finished :
                stops' = [stops EXCEPT ![r] = [stops[r] EXCEPT !.outcome = ended,
                                                 !.why = IF stops[r].kind = "none" THEN NoReason ELSE stops[r].why]]
          <5>1. stops[r].kind \in {"none"} \cup Finished /\ {"completed", "failed"} \subseteq Finished
            BY <2>2 DEF StopRows, Finished
          <5>2. PICK ended \in IF stops[r].kind # "none" THEN {stops[r].kind} ELSE {"completed", "failed"} :
                  stops' = [stops EXCEPT ![r] = [stops[r] EXCEPT !.outcome = ended,
                                                   !.why = IF stops[r].kind = "none" THEN NoReason ELSE stops[r].why]]
            BY <3>2 DEF OutcomeOf
          <5>3. ended \in {"none"} \cup Finished
            BY <5>1, <5>2
          <5>. QED BY <5>2, <5>3
        <4> DEFINE why == IF stops[r].kind = "none" THEN NoReason ELSE stops[r].why
        <4> DEFINE made == [stops[r] EXCEPT !.outcome = ended, !.why = why]
        <4>2. why \in Reasons /\ Backed(why, r)
          BY <2>2 DEF StopRows
        <4>3. stops' = [stops EXCEPT ![r] = made]
          BY <4>1
        <4> HIDE DEF why
        <4>4. made \in StopRows /\ made.why = why
          BY <2>2, <4>2 DEF StopRows
        <4> HIDE DEF made
        <4>. QED BY <4>2, <4>3, <4>4
      <3>. QED BY <1>6, <3>1, <3>2
    <2>4. stops' \in [Jobs -> StopRows]
          /\ \A q \in Jobs : Backed(job[q].reason, q)' /\ Backed(stops[q].why, q)' /\ NoteBacked(q)'
      BY <1>1, <2>1, <2>3, StopKeeps
    <2>5. desk' \in [Clerks -> DeskRows] /\ \A k \in Clerks : AskBacked(desk[k], k)'
      BY <1>1, <2>1, AsksStay
    <2>. QED BY <2>1, <2>4, <2>5, TicketsKept DEF JobsTyped, Accounted
  <1>. QED BY <1>2, <1>3, <1>4, <1>5, <1>6 DEF RunsGoOn

------------------------------------------------------------------------------
(* A request goes on, and runs with it or not. *)
LEMMA RequestKeeps ==
  ASSUME JobsTyped, Accounted, audited \subseteq audited', OthersStill,
         stops' \in [Jobs -> StopRows], RunsKept,
         NEW c \in Clerks, NEW d \in DeskRows, desk' = [desk EXCEPT ![c] = d], AskBacked(d, c)'
  PROVE  JobsTyped' /\ Accounted'
  <1>1. desk' \in [Clerks -> DeskRows] /\ \A k \in Clerks : AskBacked(desk[k], k)'
    BY AskKeeps DEF RunsKept
  <1>. QED BY <1>1 DEF RunsKept, OthersStill, JobsTyped, Accounted

LEMMA RunsStay ==
  ASSUME JobsTyped, Accounted, UNCHANGED <<job, stops>>, audited \subseteq audited'
  PROVE  RunsKept /\ stops' \in [Jobs -> StopRows] /\ TakeoverIsToldOn
  BY TicketsKept DEF RunsKept, JobsTyped, Accounted, Backed, NoteBacked

(* An answered request is one more that is over. *)
LEMMA Answered ==
  ASSUME JobsTyped, NEW c \in Clerks
  PROVE  /\ [NoDesk EXCEPT !.doing = "done"] \in DeskRows
         /\ AskBacked([NoDesk EXCEPT !.doing = "done"], c)'
  BY DEF NoDesk, DeskRows, AskBacked

LEMMA AskedKeeps ==
  ASSUME JobsTyped, Accounted, Asked
  PROVE  JobsTyped' /\ Accounted' /\ TakeoverIsToldOn
  <1>1. PICK c \in Clerks :
          \/ \E r \in Jobs : HandleStop(c, r) \/ HandleTakeover(c, r) \/ HandleAcknowledge(c, r)
          \/ HandleCreate(c) \/ AuditFirst(c) \/ TakeoverRun(c) \/ SetTakeoverNote(c) \/ StopRequested(c)
          \/ Acknowledge(c) \/ LoadRequestRows(c) \/ RequestRun(c) \/ AuditAfter(c) \/ BreaksOff(c)
    BY DEF Asked
  <1>2. desk[c] \in DeskRows /\ AskBacked(desk[c], c) /\ c \in Whose /\ c # NoOne
    BY DeskAssumption DEF JobsTyped, Accounted, Whose
  <1>3. ASSUME NEW r \in Jobs, HandleStop(c, r) \/ HandleTakeover(c, r) \/ HandleAcknowledge(c, r)
        PROVE  JobsTyped' /\ Accounted' /\ TakeoverIsToldOn
    <2>1. PICK doing \in {"stop", "takeover", "acknowledge"}, to \in {"audit", "stamp"} :
            desk' = [desk EXCEPT ![c] = [doing |-> doing, at |-> to, run |-> r]]
      BY <1>3 DEF HandleStop, HandleTakeover, HandleAcknowledge, RequireRunMember
    <2> DEFINE d == [doing |-> doing, at |-> to, run |-> r]
    <2>2. d \in DeskRows
      BY DEF DeskRows
    <2>3. AskBacked(d, c)'
      BY DEF AskBacked
    <2>4. UNCHANGED <<job, stops, audited>> /\ OthersStill
      BY <1>3 DEF HandleStop, HandleTakeover, HandleAcknowledge, Quiet
    <2> HIDE DEF d
    <2>5. desk' = [desk EXCEPT ![c] = d]
      BY <2>1 DEF d
    <2>. QED BY <2>2, <2>3, <2>4, <2>5, RunsStay, RequestKeeps
  <1>4. CASE HandleCreate(c)
    <2> DEFINE d == [doing |-> "create", at |-> "load", run |-> 0]
    <2>1. desk' = [desk EXCEPT ![c] = d] /\ d \in DeskRows
      BY <1>4 DEF HandleCreate, DeskRows
    <2>2. AskBacked(d, c)'
      BY DEF AskBacked
    <2>3. UNCHANGED <<job, stops, audited>> /\ OthersStill
      BY <1>4 DEF HandleCreate, Quiet
    <2> HIDE DEF d
    <2>. QED BY <2>1, <2>2, <2>3, RunsStay, RequestKeeps
  <1>5. CASE AuditFirst(c)
    <2>1. PICK to : /\ to = IF desk[c].doing = "stop" THEN "stop" ELSE "take"
                    /\ desk' = [desk EXCEPT ![c] = [desk[c] EXCEPT !.at = to]]
      BY <1>5 DEF AuditFirst, Step
    <2>2. PICK d \in DeskRows : d = [desk[c] EXCEPT !.at = to]
      BY <1>2, <2>1 DEF DeskRows
    <2>3. /\ desk[c].doing \in {"stop", "takeover"} /\ desk[c].at = "audit"
          /\ audited' = audited \cup {<<desk[c].doing, desk[c].run, c>>}
          /\ UNCHANGED <<job, stops>> /\ OthersStill
      BY <1>5 DEF AuditFirst, Audit, Quiet
    <2>4. d.doing = desk[c].doing /\ d.run = desk[c].run /\ d.at = to
      BY <1>2, <2>2 DEF DeskRows
    <2>5. AskBacked(d, c)'
      BY <1>2, <2>1, <2>3, <2>4 DEF AskBacked
    <2>6. audited \subseteq audited'
      BY <2>3
    <2>. QED BY <2>1, <2>2, <2>3, <2>5, <2>6, RunsStay, RequestKeeps
  <1>6. CASE TakeoverRun(c)
    <2>1. UNCHANGED <<job, stops, audited>> /\ OthersStill /\ desk[c].at = "take"
      BY <1>6 DEF TakeoverRun, Quiet
    <2>2. PICK d \in DeskRows : desk' = [desk EXCEPT ![c] = d] /\ AskBacked(d, c)'
      <3>1. CASE desk' = [desk EXCEPT ![c] = [desk[c] EXCEPT !.at = "note"]]
        <4> DEFINE d == [desk[c] EXCEPT !.at = "note"]
        <4>1. d \in DeskRows /\ d.doing = desk[c].doing /\ d.run = desk[c].run /\ d.at = "note"
          BY <1>2 DEF DeskRows
        <4>2. PICK e : e = d
          OBVIOUS
        <4>3. AskBacked(e, c)'
          BY <1>2, <2>1, <4>1, <4>2 DEF AskBacked
        <4>. QED BY <3>1, <4>1, <4>2, <4>3
      <3>2. CASE desk' = [desk EXCEPT ![c] = [NoDesk EXCEPT !.doing = "done"]]
        BY <3>2, Answered
      <3>. QED BY <1>6, <3>1, <3>2 DEF TakeoverRun, Step, Answer
    <2>. QED BY <2>1, <2>2, RunsStay, RequestKeeps
  <1>7. CASE SetTakeoverNote(c)
    <2>0. PICK r : r = desk[c].run
      OBVIOUS
    <2>1. /\ r \in Jobs /\ <<"takeover", r, c>> \in audited /\ desk[c].at = "note"
          /\ desk[c].doing = "takeover"
      BY <1>2, <1>7, <2>0 DEF SetTakeoverNote, AskBacked
    <2>2. PICK made : made = [job[r] EXCEPT !.note = c]
      OBVIOUS
    <2>3. job[r] \in JobRows
      BY <2>1 DEF JobsTyped
    <2>4. made \in JobRows /\ made.note = c /\ made.ticket = job[r].ticket /\ made.reason = job[r].reason
      BY <1>2, <2>2, <2>3 DEF JobRows
    <2>5. job' = [job EXCEPT ![r] = made] /\ UNCHANGED <<stops, audited>> /\ OthersStill
      BY <1>7, <2>0, <2>2 DEF SetTakeoverNote
    <2>6. /\ \A q \in Jobs : job[q].note # NoOne => job'[q].note # NoOne
          /\ \A q \in Jobs : job'[q].ticket = job[q].ticket
          /\ job'[r].note = c
      BY <1>2, <2>1, <2>4, <2>5 DEF JobsTyped
    <2>7. Backed(made.reason, r)'
      BY <2>1, <2>4, <2>5, <2>6, StaysBacked DEF Accounted
    <2>8. RunsKept
      BY <1>2, <2>1, <2>4, <2>5, <2>7, RowKeeps DEF RunsKept
    <2>9. PICK d : d = [desk[c] EXCEPT !.at = "stop"]
      OBVIOUS
    <2>10. d \in DeskRows /\ d.doing = "takeover" /\ d.run = r /\ d.at = "stop"
      BY <1>2, <2>0, <2>1, <2>9 DEF DeskRows
    <2>11. desk' = [desk EXCEPT ![c] = d]
      BY <1>7, <2>9 DEF SetTakeoverNote, Step
    <2>12. AskBacked(d, c)'
      BY <1>2, <2>1, <2>5, <2>6, <2>10 DEF AskBacked
    <2>13. stops' \in [Jobs -> StopRows]
      BY <2>5 DEF JobsTyped
    <2>. QED BY <2>5, <2>6, <2>8, <2>10, <2>11, <2>12, <2>13, TicketsKept, RequestKeeps
  <1>8. CASE StopRequested(c)
    <2>1. PICK r : r = desk[c].run
      OBVIOUS
    <2>2. PICK why : why = <<desk[c].doing, c>>
      OBVIOUS
    <2>3. /\ r \in Jobs /\ desk[c].doing \in {"stop", "takeover"} /\ desk[c].at = "stop"
          /\ <<desk[c].doing, r, c>> \in audited /\ (desk[c].doing = "takeover" => job[r].note # NoOne)
      BY <1>2, <1>8, <2>1 DEF StopRequested, AskBacked
    <2>4. why \in Reasons /\ Backed(why, r)
      BY <1>2, <2>2, <2>3 DEF Reasons, Backed
    <2>5. /\ UNCHANGED audited /\ OthersStill /\ audited \subseteq audited'
          /\ desk' = [desk EXCEPT ![c] = [NoDesk EXCEPT !.doing = "done"]]
      BY <1>8 DEF StopRequested, Answer
    <2>6. job[r] \in JobRows /\ stops[r] \in StopRows /\ stops \in [Jobs -> StopRows]
      BY <2>3 DEF JobsTyped
    <2>7. RunsKept /\ stops' \in [Jobs -> StopRows] /\ TakeoverIsToldOn
      <3>1. CASE job[r].state = "queued"
        <4>1. PICK made : made = [job[r] EXCEPT !.state = "canceled", !.reason = why]
          OBVIOUS
        <4>2. job' = [job EXCEPT ![r] = made] /\ UNCHANGED stops
          BY <1>8, <2>1, <2>2, <3>1, <4>1 DEF StopRequested
        <4>3. "canceled" \in JobStates
          BY DEF JobStates, Finished
        <4>4. made \in JobRows /\ made.note = job[r].note /\ made.ticket = job[r].ticket /\ made.reason = why
          BY <2>4, <2>6, <4>1, <4>3 DEF JobRows
        <4>5. /\ \A q \in Jobs : job[q].note # NoOne => job'[q].note # NoOne
              /\ \A q \in Jobs : job'[q].ticket = job[q].ticket
          BY <2>3, <4>2, <4>4 DEF JobsTyped
        <4>6. Backed(made.reason, r)'
          BY <2>3, <2>4, <2>5, <4>4, <4>5, StaysBacked
        <4>7. NoteBacked(r)
          BY <2>3 DEF Accounted
        <4>8. RunsKept
          BY <2>3, <2>5, <4>2, <4>4, <4>6, <4>7, RowKeeps DEF RunsKept, NoteBacked
        <4>. QED BY <2>6, <4>2, <4>5, <4>8, TicketsKept
      <3>2. CASE UNCHANGED <<job, stops>>
        BY <2>5, <3>2, RunsStay
      <3>3. CASE UNCHANGED job /\ RequestStop(r, "canceled", why)
        <4>1. PICK made : made = [stops[r] EXCEPT !.kind = "canceled", !.why = why]
          OBVIOUS
        <4>2. stops' = [stops EXCEPT ![r] = made] \/ UNCHANGED stops
          BY <3>3, <4>1 DEF RequestStop
        <4>3. made \in StopRows /\ made.why = why
          BY <2>4, <2>6, <4>1 DEF StopRows, Finished
        <4>4. CASE stops' = [stops EXCEPT ![r] = made]
          <5>1. /\ stops' \in [Jobs -> StopRows]
                /\ \A q \in Jobs : Backed(job[q].reason, q)' /\ Backed(stops[q].why, q)' /\ NoteBacked(q)'
            BY <2>3, <2>4, <2>5, <3>3, <4>3, <4>4, StopKeeps
          <5>. QED BY <3>3, <5>1, TicketsKept DEF RunsKept, JobsTyped
        <4>5. CASE UNCHANGED stops
          BY <2>5, <3>3, <4>5, RunsStay
        <4>. QED BY <4>2, <4>4, <4>5
      <3>. QED BY <1>8, <2>1, <2>2, <3>1, <3>2, <3>3 DEF StopRequested
    <2>. QED BY <2>5, <2>7, Answered, RequestKeeps
  <1>9. CASE Acknowledge(c)
    <2>1. PICK r : r = desk[c].run
      OBVIOUS
    <2>2. r \in Jobs /\ desk[c].at = "stamp"
      BY <1>2, <1>9, <2>1 DEF Acknowledge, AskBacked
    <2>3. PICK made : made = [job[r] EXCEPT !.acked = TRUE]
      OBVIOUS
    <2>4. job[r] \in JobRows
      BY <2>2 DEF JobsTyped
    <2>5. made \in JobRows /\ made.note = job[r].note /\ made.ticket = job[r].ticket /\ made.reason = job[r].reason
      BY <2>3, <2>4 DEF JobRows
    <2>6. job' = [job EXCEPT ![r] = made] /\ UNCHANGED <<stops, audited>> /\ OthersStill
      BY <1>9, <2>1, <2>3 DEF Acknowledge
    <2>7. /\ \A q \in Jobs : job[q].note # NoOne => job'[q].note # NoOne
          /\ \A q \in Jobs : job'[q].ticket = job[q].ticket
      BY <2>2, <2>5, <2>6 DEF JobsTyped
    <2>8. Backed(made.reason, r)' /\ NoteBacked(r)
      BY <2>2, <2>5, <2>6, <2>7, StaysBacked DEF Accounted
    <2>9. RunsKept
      BY <2>2, <2>5, <2>6, <2>8, RowKeeps DEF RunsKept, NoteBacked
    <2>10. PICK d : d = [desk[c] EXCEPT !.at = "recorded"]
      OBVIOUS
    <2>11. d \in DeskRows /\ d.at = "recorded" /\ desk' = [desk EXCEPT ![c] = d]
      BY <1>2, <1>9, <2>10 DEF DeskRows, Acknowledge, Step
    <2>12. AskBacked(d, c)'
      BY <2>11 DEF AskBacked
    <2>13. stops' \in [Jobs -> StopRows]
      BY <2>6 DEF JobsTyped
    <2>. QED BY <2>6, <2>7, <2>9, <2>11, <2>12, <2>13, TicketsKept, RequestKeeps
  <1>10. CASE LoadRequestRows(c)
    <2>1. PICK to \in {"insert", "recorded"} : desk' = [desk EXCEPT ![c] = [desk[c] EXCEPT !.at = to]]
      BY <1>10 DEF LoadRequestRows, Step
    <2>2. PICK d : d = [desk[c] EXCEPT !.at = to]
      OBVIOUS
    <2>3. d \in DeskRows /\ d.at = to
      BY <1>2, <2>2 DEF DeskRows
    <2>4. AskBacked(d, c)'
      BY <2>3 DEF AskBacked
    <2>5. UNCHANGED <<job, stops, audited>> /\ OthersStill
      BY <1>10 DEF LoadRequestRows, Quiet
    <2>. QED BY <2>1, <2>2, <2>3, <2>4, <2>5, RunsStay, RequestKeeps
  <1>11. CASE RequestRun(c)
    <2>1. UNCHANGED <<stops, audited>> /\ OthersStill /\ Insert("queued", FALSE)
      BY <1>11 DEF RequestRun
    <2>2. RunsKept /\ TakeoverIsToldOn
      BY <2>1, InsertKeeps
    <2>3. PICK d : d = [desk[c] EXCEPT !.at = "recorded"]
      OBVIOUS
    <2>4. d \in DeskRows /\ d.at = "recorded" /\ desk' = [desk EXCEPT ![c] = d]
      BY <1>2, <1>11, <2>3 DEF DeskRows, RequestRun, Step
    <2>5. AskBacked(d, c)'
      BY <2>4 DEF AskBacked
    <2>6. stops' \in [Jobs -> StopRows]
      BY <2>1 DEF JobsTyped
    <2>. QED BY <2>1, <2>2, <2>4, <2>5, <2>6, RequestKeeps
  <1>12. CASE AuditAfter(c) \/ BreaksOff(c)
    <2>1. /\ UNCHANGED <<job, stops>> /\ OthersStill /\ audited \subseteq audited'
          /\ desk' = [desk EXCEPT ![c] = [NoDesk EXCEPT !.doing = "done"]]
      BY <1>12 DEF AuditAfter, BreaksOff, Audit, Answer, Quiet
    <2>. QED BY <2>1, Answered, RunsStay, RequestKeeps
  <1>. QED BY <1>1, <1>3, <1>4, <1>5, <1>6, <1>7, <1>8, <1>9, <1>10, <1>11, <1>12

(* The process dies: supervisors forget what they were told, and requests are cut off. *)
LEMMA DeskCrashKeeps ==
  ASSUME JobsTyped, Accounted, DeskCrash
  PROVE  JobsTyped' /\ Accounted' /\ TakeoverIsToldOn
  <1>1. UNCHANGED <<job, audited>> /\ OthersStill /\ stops' = [r \in Jobs |-> NoStop]
    BY DEF DeskCrash
  <1>2. NoStop \in StopRows /\ NoStop.why = NoReason /\ NoReason[1] = "none"
    BY DEF NoStop, StopRows, NoReason, Reasons, Whose
  <1>3. stops' \in [Jobs -> StopRows] /\ \A q \in Jobs : stops'[q].why = NoReason
    BY <1>1, <1>2
  <1>4. ASSUME NEW q \in Jobs PROVE Backed(job[q].reason, q)' /\ Backed(stops[q].why, q)' /\ NoteBacked(q)'
    <2>1. stops'[q].why[1] = "none"
      BY <1>2, <1>3
    <2>. QED BY <1>1, <2>1 DEF Accounted, Backed, NoteBacked
  <1>5. /\ desk' = [c \in Clerks |-> IF desk[c] = NoDesk THEN NoDesk ELSE [NoDesk EXCEPT !.doing = "done"]]
        /\ NoDesk \in DeskRows /\ [NoDesk EXCEPT !.doing = "done"] \in DeskRows
        /\ NoDesk.at = "none" /\ [NoDesk EXCEPT !.doing = "done"].at = "none"
    BY DEF DeskCrash, NoDesk, DeskRows
  <1>6. desk' \in [Clerks -> DeskRows] /\ \A c \in Clerks : desk'[c].at = "none"
    BY <1>5
  <1>7. \A c \in Clerks : AskBacked(desk[c], c)'
    BY <1>6 DEF AskBacked
  <1>. QED BY <1>1, <1>3, <1>4, <1>6, <1>7, TicketsKept DEF OthersStill, JobsTyped, Accounted

LEMMA DeskStep == DeskTracked /\ [DeskNext]_deskVars => DeskTracked' /\ (TakeoverIsToldOn \/ UNCHANGED deskVars)
  <1> SUFFICES ASSUME DeskTracked, [DeskNext]_deskVars
               PROVE  DeskTracked' /\ (TakeoverIsToldOn \/ UNCHANGED deskVars)
    OBVIOUS
  <1>1. JobsTyped /\ Accounted /\ ReaderTyped /\ ReadSoFar
    BY DEF DeskTracked
  <1>2. CASE UNCHANGED deskVars
    BY <1>1, <1>2 DEF deskVars, DeskTracked, JobsTyped, Accounted, Backed, NoteBacked, AskBacked, ReaderTyped, ReadSoFar,
       Needs, RunItems, NeedsYouRows, PageItems, PullItems, OpenAgentPRs
  <1>3. CASE DeskNext
    <2>1. Watching
      BY <1>3 DEF DeskNext
    <2>2. CASE RunsGoOn
      <3>1. reader' = reader
        BY <2>2 DEF RunsGoOn, Delegated, MemberLeaves, AgentDisabled, Moves, WallClock, OutcomeOf, Finish, PapersChange,
           DeskRest
      <3>. QED BY <1>1, <2>1, <2>2, <3>1, RunsGoOnKeeps, ReaderKeeps DEF DeskTracked
    <2>3. CASE Asked
      <3>1. reader' = reader
        BY <2>3 DEF Asked, HandleStop, HandleTakeover, HandleAcknowledge, HandleCreate, AuditFirst, TakeoverRun,
           SetTakeoverNote, StopRequested, Acknowledge, LoadRequestRows, RequestRun, AuditAfter, BreaksOff, Step, Answer
      <3>. QED BY <1>1, <2>1, <2>3, <3>1, AskedKeeps, ReaderKeeps DEF DeskTracked
    <2>4. CASE DeskCrash
      <3>1. reader' = reader \/ reader' = [NoReader EXCEPT !.at = "done"]
        BY <2>4 DEF DeskCrash
      <3>. QED BY <1>1, <2>1, <2>4, <3>1, DeskCrashKeeps, ReaderKeeps DEF DeskTracked
    <2>5. CASE ReadRuns \/ ReadPages \/ ReadPulls \/ HandleInbox \/ InboxIsRead
      <3>1. UNCHANGED <<job, stops, pulls, pages, member, audited, desk>>
        BY <2>5 DEF ReadRuns, ReadPages, ReadPulls, HandleInbox, InboxIsRead, Turn, Quiet, OthersStill
      <3>2. JobsTyped' /\ Accounted' /\ TakeoverIsToldOn
        BY <1>1, <3>1, TicketsKept DEF JobsTyped, Accounted, Backed, NoteBacked, AskBacked
      <3>3. \/ UNCHANGED <<job, pulls, pages>> /\ (ReadRuns \/ ReadPages \/ ReadPulls \/ HandleInbox)
            \/ reader' = [NoReader EXCEPT !.at = "done"]
        BY <2>5, <3>1 DEF InboxIsRead
      <3>. QED BY <1>1, <2>1, <3>2, <3>3, ReaderKeeps DEF DeskTracked
    <2>. QED BY <1>3, <2>2, <2>3, <2>4, <2>5 DEF DeskNext
  <1>. QED BY <1>2, <1>3

LEMMA DeskStarts == DeskInit => DeskTracked
  <1> SUFFICES ASSUME DeskInit PROVE DeskTracked
    OBVIOUS
  <1>1. NoReason \in Reasons /\ NoReason[1] = "none"
    BY DEF NoReason, Reasons, Whose
  <1>2. NoJob \in JobRows /\ [NoJob EXCEPT !.state = "running", !.ticket = TRUE] \in JobRows
    BY <1>1 DEF NoJob, JobRows, JobStates, Live, Parked, Whose
  <1>3. /\ NoJob.reason = NoReason /\ [NoJob EXCEPT !.state = "running", !.ticket = TRUE].reason = NoReason
        /\ NoJob.note = NoOne /\ [NoJob EXCEPT !.state = "running", !.ticket = TRUE].note = NoOne
    BY DEF NoJob
  <1>4. job \in [Jobs -> JobRows] /\ \A r \in Jobs : job[r].reason = NoReason /\ job[r].note = NoOne
    BY <1>2, <1>3 DEF DeskInit
  <1>5. NoStop \in StopRows /\ NoStop.why = NoReason
    BY <1>1 DEF NoStop, StopRows
  <1>6. stops \in [Jobs -> StopRows] /\ \A r \in Jobs : stops[r].why = NoReason
    BY <1>5 DEF DeskInit
  <1>7. NoDesk \in DeskRows /\ NoDesk.at = "none"
    BY DEF NoDesk, DeskRows
  <1>8. desk \in [Clerks -> DeskRows] /\ \A c \in Clerks : desk[c].at = "none"
    BY <1>7 DEF DeskInit
  <1>9. JobsTyped
    BY <1>4, <1>6, <1>8 DEF DeskInit, JobsTyped
  <1>10. Accounted
    <2>1. \A r \in Jobs : job[r].reason[1] = "none" /\ stops[r].why[1] = "none"
      BY <1>1, <1>4, <1>6
    <2>. QED BY <1>4, <1>8, <2>1 DEF Accounted, Backed, NoteBacked, AskBacked
  <1>11. ReaderTyped /\ ReadSoFar
    BY DEF DeskInit, NoReader, ReaderTyped, ReaderRows, ReadSoFar
  <1>. QED BY <1>9, <1>10, <1>11 DEF DeskTracked

(* No run is stopped or noted on unless the trail says so, the inbox shows what waited all
   along and nothing that never did, and a run of the ticket behind a takeover is told
   (`ActsAreAudited`, `InboxIsHonest`, `TakeoverIsToldOn`). *)
THEOREM DeskIsKept == DeskSpec => DeskHolds
  <1>1. DeskTracked => ActsAreAudited /\ InboxIsHonest
    BY ReadIsHonest DEF DeskTracked, Accounted, Backed, NoteBacked, ActsAreAudited
  <1>2. DeskTracked' => ActsAreAudited' /\ InboxIsHonest'
    BY <1>1, PTL
  <1>3. DeskTracked /\ [DeskNext]_deskVars => [ActsAreAudited' /\ InboxIsHonest' /\ TakeoverIsToldOn]_deskVars
    BY <1>2, DeskStep
  <1>. QED BY <1>3, DeskStarts, DeskStep, PTL DEF DeskSpec, DeskHolds


------------------------------------------------------------------------------
(* Schedule. *)

Scans == [step : {"cursor", "emit", "write"}, due : BOOLEAN, expr : Expressions, minute : Minutes, at : Minutes]

(* What is due is a set of minutes, and the search goes back only so far. *)
LEMMA LaterOf ==
  ASSUME NEW a \in Int, NEW b \in Int
  PROVE  Max({a, b}) = IF a >= b THEN a ELSE b
  <1>1. \E x \in {a, b} : \A y \in {a, b} : x >= y
    OBVIOUS
  <1>2. Max({a, b}) \in {a, b} /\ \A y \in {a, b} : Max({a, b}) >= y
    BY <1>1 DEF Max
  <1>. QED BY <1>2

LEMMA DueIs ==
  ASSUME NEW expr, NEW since \in Int, NEW until \in Int
  PROVE  \A m : m \in Due(expr, since, until) <=>
                  /\ m \in Minutes /\ m > since /\ m > until - Lookback /\ m <= until
                  /\ MatchesAt(expr, m)
  <1>1. Max({since, until - Lookback}) = IF since >= until - Lookback THEN since ELSE until - Lookback
    BY LaterOf, ScheduleAssumption
  <1>2. Minutes \subseteq Int /\ Lookback \in Int
    BY ScheduleAssumption DEF Minutes
  <1>3. \A m \in Int : m > Max({since, until - Lookback}) <=> m > since /\ m > until - Lookback
    BY <1>1, <1>2
  <1>. QED BY <1>2, <1>3 DEF Due

LEMMA LatestIs ==
  ASSUME NEW expr, NEW since \in Int, NEW until \in Int, Due(expr, since, until) # {}
  PROVE  /\ LatestMatch(expr, since, until) \in Due(expr, since, until)
         /\ \A m \in Due(expr, since, until) : m <= LatestMatch(expr, since, until)
  <1>1. PICK S : S = Due(expr, since, until)
    OBVIOUS
  <1>2. S \subseteq FirstMinute .. LastMinute /\ FirstMinute \in Int /\ LastMinute \in Int /\ S # {}
    BY <1>1, ScheduleAssumption DEF Due, Minutes
  <1> DEFINE T == {k \in Nat : LastMinute - k \in S}
  <1>3. \A y \in S : LastMinute - y \in T
    BY <1>2
  <1>4. T # {} /\ T \subseteq Nat
    BY <1>2, <1>3
  <1>5. PICK k \in T : \A j \in T : k <= j
    BY <1>4, LeastOf
  <1>6. \A y \in S : LastMinute - k >= y
    BY <1>2, <1>3, <1>5
  <1>7. \E x \in S : \A y \in S : x >= y
    BY <1>5, <1>6
  <1>8. Max(S) \in S /\ \A y \in S : Max(S) >= y
    BY <1>7 DEF Max
  <1>9. LatestMatch(expr, since, until) = Max(S)
    BY <1>1 DEF LatestMatch
  <1>. QED BY <1>1, <1>2, <1>8, <1>9

------------------------------------------------------------------------------
(* The rule has its baseline before it fires, and a cursor behind what it has fired last or
   on it. *)
CursorHolds ==
  /\ cronClock \in Minutes /\ cursor \in Minutes \cup {NoMinute} /\ faults \in 0 .. MaxFaults
  /\ schedule.expr \in Expressions
  /\ published \subseteq [expr : Expressions, at : Minutes]
  /\ cursor = NoMinute => published = {} /\ watched.baseline = NoMinute /\ watched.whole = NoMinute
  /\ cursor # NoMinute => watched.baseline \in Minutes /\ watched.baseline <= cursor
  /\ cursor # NoMinute => cursor = watched.baseline \/ \E e \in published : e.at = cursor
  /\ \A e \in published : e.at > watched.baseline /\ e.at <= cronClock /\ MatchesAt(e.expr, e.at)

WatchTyped ==
  watched \in [baseline : Minutes \cup {NoMinute}, whole : Minutes \cup {NoMinute}, expr : Expressions]

(* The scan under way: what it is about to publish is the latest minute due since the cursor,
   and nothing published is later than the minute it is of. *)
Latest(t) ==
  /\ t \in Due(scan.expr, cursor, scan.minute)
  /\ \A m \in Due(scan.expr, cursor, scan.minute) : m <= t

ScanHolds ==
  /\ scan.step \in {"idle", "cursor", "emit", "write"}
  /\ scan.step # "idle" =>
       /\ scan \in Scans /\ scan.minute <= cronClock
       /\ \A e \in published : e.at <= scan.minute
  /\ scan.step = "cursor" => scan.at = scan.minute
  /\ scan.step = "emit" => cursor # NoMinute /\ Latest(scan.at)
  /\ scan.step = "write" /\ cursor = NoMinute => scan.at = scan.minute
  /\ scan.step = "write" /\ cursor # NoMinute => Latest(scan.at) /\ \E e \in published : e.at = scan.at

ScheduleTracked == CursorHolds /\ ScanHolds /\ WatchTyped /\ CaughtUp

(* A scan that found nothing, or whose finding is published, has seen to all there was. *)
LEMMA SeenTo ==
  ASSUME CursorHolds, cursor # NoMinute, scan \in Scans,
         \/ Due(scan.expr, cursor, scan.minute) = {}
         \/ \E e \in published : Latest(e.at)
  PROVE  \A m \in Due(scan.expr, watched.baseline, scan.minute) : \E e \in published : e.at >= m
  <1>1. /\ cursor \in Minutes /\ watched.baseline \in Minutes /\ scan.minute \in Minutes /\ Minutes \subseteq Int
        /\ Lookback \in Int
    BY ScheduleAssumption DEF CursorHolds, Scans, Minutes
  <1>2. \A e \in published : e.at \in Minutes
    BY DEF CursorHolds
  <1> SUFFICES ASSUME NEW m \in Due(scan.expr, watched.baseline, scan.minute)
               PROVE  \E e \in published : e.at >= m
    OBVIOUS
  <1>3. /\ m \in Minutes /\ m > watched.baseline /\ m > scan.minute - Lookback /\ m <= scan.minute
        /\ MatchesAt(scan.expr, m)
    BY <1>1, DueIs
  <1>4. CASE m > cursor
    <2>1. m \in Due(scan.expr, cursor, scan.minute)
      BY <1>1, <1>3, <1>4, DueIs
    <2>2. PICK e \in published : Latest(e.at)
      BY <2>1
    <2>. QED BY <1>1, <1>2, <2>1, <2>2 DEF Latest
  <1>5. CASE ~(m > cursor)
    <2>1. m <= cursor /\ cursor # watched.baseline
      BY <1>1, <1>3, <1>5
    <2>2. PICK e \in published : e.at = cursor
      BY <2>1 DEF CursorHolds
    <2>. QED BY <1>1, <1>3, <2>1, <2>2
  <1>. QED BY <1>4, <1>5

(* What a scan publishes is later than what its expression was fired for before. *)
LEMMA FiresOnward ==
  ASSUME CursorHolds, ScanHolds, scan.step = "emit",
         NEW e, e = [expr |-> scan.expr, at |-> scan.at], e \notin published
  PROVE  /\ \A d \in published : d.expr = e.expr => d.at < e.at
         /\ Due(e.expr, e.at, scan.minute) = {}
         /\ e.at > watched.baseline /\ e.at <= cronClock /\ MatchesAt(e.expr, e.at) /\ e.at <= scan.minute
  <1>1. /\ scan \in Scans /\ cursor # NoMinute /\ Latest(scan.at) /\ scan.minute <= cronClock
        /\ \A d \in published : d.at <= scan.minute
    BY DEF ScanHolds
  <1>2. /\ cursor \in Minutes /\ watched.baseline \in Minutes /\ scan.minute \in Minutes /\ Minutes \subseteq Int
        /\ Lookback \in Int /\ scan.at \in Minutes /\ cronClock \in Minutes /\ watched.baseline <= cursor
    BY <1>1, ScheduleAssumption DEF CursorHolds, Scans, Minutes
  <1>0. cursor \in Int /\ scan.at \in Int /\ scan.minute \in Int /\ cronClock \in Int /\ watched.baseline \in Int
    BY <1>2
  <1>3. /\ scan.at > cursor /\ scan.at > scan.minute - Lookback /\ scan.at <= scan.minute
        /\ MatchesAt(scan.expr, scan.at)
    BY <1>1, <1>2, DueIs DEF Latest
  <1>4. e.at = scan.at /\ e.expr = scan.expr
    OBVIOUS
  <1>5. ASSUME NEW d \in published, d.expr = e.expr PROVE d.at < e.at
    <2>1. d \in [expr : Expressions, at : Minutes] /\ d.at \in Int /\ MatchesAt(d.expr, d.at) /\ d.at <= scan.minute
      BY <1>1, <1>2 DEF CursorHolds
    <2>2. d.at # e.at
      <3>1. d = [expr |-> d.expr, at |-> d.at]
        BY <2>1
      <3>. QED BY <1>4, <1>5, <3>1
    <2>3. CASE d.at > cursor /\ d.at > scan.minute - Lookback
      <3>1. d.at \in Due(scan.expr, cursor, scan.minute)
        BY <1>2, <1>4, <1>5, <2>1, <2>3, DueIs
      <3>2. d.at <= scan.at
        BY <1>1, <3>1 DEF Latest
      <3>. QED BY <1>0, <1>4, <2>1, <2>2, <3>2
    <2>4. CASE ~(d.at > cursor /\ d.at > scan.minute - Lookback)
      BY <1>0, <1>2, <1>3, <1>4, <2>1, <2>4
    <2>. QED BY <2>3, <2>4
  <1>6. Due(e.expr, e.at, scan.minute) = {}
    <2> SUFFICES ASSUME NEW m \in Due(e.expr, e.at, scan.minute) PROVE FALSE
      OBVIOUS
    <2>1. /\ m \in Minutes /\ m > scan.at /\ m > scan.minute - Lookback /\ m <= scan.minute
          /\ MatchesAt(scan.expr, m) /\ m \in Int
      BY <1>2, <1>4, DueIs
    <2>2. m > cursor
      BY <1>0, <1>3, <2>1
    <2>3. m \in Due(scan.expr, cursor, scan.minute)
      BY <1>2, <2>1, <2>2, DueIs
    <2>4. m <= scan.at
      BY <1>1, <2>3 DEF Latest
    <2>. QED BY <1>0, <2>1, <2>4
  <1>7. e.at > watched.baseline /\ e.at <= cronClock
    BY <1>0, <1>1, <1>2, <1>3, <1>4
  <1>. QED BY <1>3, <1>4, <1>5, <1>6, <1>7

(* A scan that stops leaves things as they are. *)
LEMMA ScanStops ==
  ASSUME ScheduleTracked, NEW b \in BOOLEAN, scan' = Idle(b),
         UNCHANGED <<cronClock, schedule, cursor, published, watched>>, faults' \in 0 .. MaxFaults
  PROVE  ScheduleTracked'
  <1>1. scan'.step = "idle"
    BY DEF Idle
  <1>2. ScanHolds'
    BY <1>1 DEF ScanHolds
  <1>. QED BY <1>2 DEF ScheduleTracked, CursorHolds, WatchTyped, CaughtUp, Due

LEMMA FailsIn == CursorHolds /\ Fails => faults' \in 0 .. MaxFaults
  BY ScheduleAssumption DEF CursorHolds, Fails

(* What is written down of a scan. *)
LEMMA ScanRows ==
  ASSUME NEW q, scan \in Scans, q \in {"cursor", "emit", "write"}
  PROVE  /\ Of(q) \in Scans /\ Of(q).step = q /\ Of(q).expr = scan.expr /\ Of(q).minute = scan.minute
         /\ Of(q).at = scan.at
  BY DEF Of, Scans

LEMMA ReadCursorKeeps ==
  ASSUME ScheduleTracked, ReadCursor
  PROVE  ScheduleTracked'
  <1>1. CursorHolds /\ ScanHolds /\ WatchTyped /\ CaughtUp
    BY DEF ScheduleTracked
  <1>2. /\ UNCHANGED <<cronClock, schedule, cursor, published>> /\ scan.step = "cursor"
        /\ scan \in Scans /\ scan.at = scan.minute /\ scan.minute <= cronClock
        /\ \A e \in published : e.at <= scan.minute
    BY <1>1 DEF ReadCursor, ScanHolds
  <1>3. CASE cursor = NoMinute /\ UNCHANGED <<watched, faults>> /\ scan' = Of("write")
    <2>1. /\ scan' \in Scans /\ scan'.step = "write" /\ scan'.expr = scan.expr /\ scan'.minute = scan.minute
          /\ scan'.at = scan.at
      BY <1>2, <1>3, ScanRows
    <2>2. ScanHolds'
      BY <1>2, <1>3, <2>1 DEF ScanHolds
    <2>. QED BY <1>1, <1>2, <1>3, <2>2 DEF ScheduleTracked, CursorHolds, WatchTyped, CaughtUp
  <1>4. CASE /\ cursor # NoMinute /\ LatestMatch(scan.expr, cursor, scan.minute) # NoMinute
             /\ UNCHANGED <<watched, faults>>
             /\ scan' = [Of("emit") EXCEPT !.at = LatestMatch(scan.expr, cursor, scan.minute)]
    <2>1. PICK fire : fire = LatestMatch(scan.expr, cursor, scan.minute)
      OBVIOUS
    <2>2. cursor \in Int /\ scan.minute \in Int /\ Due(scan.expr, cursor, scan.minute) \subseteq Minutes
      BY <1>1, <1>2, <1>4, ScheduleAssumption DEF CursorHolds, Scans, Minutes, Due
    <2>3. Due(scan.expr, cursor, scan.minute) # {}
      BY <1>4 DEF LatestMatch
    <2>4. fire \in Due(scan.expr, cursor, scan.minute) /\ \A m \in Due(scan.expr, cursor, scan.minute) : m <= fire
      BY <2>1, <2>2, <2>3, LatestIs
    <2>5. /\ Of("emit") \in Scans /\ Of("emit").step = "emit" /\ Of("emit").expr = scan.expr
          /\ Of("emit").minute = scan.minute
      BY <1>2, ScanRows
    <2>6. scan' = [Of("emit") EXCEPT !.at = fire] /\ fire \in Minutes
      BY <1>4, <2>1, <2>2, <2>4
    <2>7. /\ scan' \in Scans /\ scan'.step = "emit" /\ scan'.expr = scan.expr /\ scan'.minute = scan.minute
          /\ scan'.at = fire
      BY <2>5, <2>6 DEF Scans
    <2>8. ScanHolds'
      BY <1>2, <1>4, <2>4, <2>7 DEF ScanHolds, Latest
    <2>. QED BY <1>1, <1>2, <1>4, <2>8 DEF ScheduleTracked, CursorHolds, WatchTyped, CaughtUp
  <1>5. CASE /\ cursor # NoMinute /\ LatestMatch(scan.expr, cursor, scan.minute) = NoMinute /\ UNCHANGED faults
             /\ watched' = [watched EXCEPT !.whole = scan.minute, !.expr = scan.expr]
             /\ scan' = Idle(FALSE)
    <2>1. cursor \in Int /\ scan.minute \in Int /\ Due(scan.expr, cursor, scan.minute) \subseteq Minutes
      BY <1>1, <1>2, <1>5, ScheduleAssumption DEF CursorHolds, Scans, Minutes, Due
    <2>2. Due(scan.expr, cursor, scan.minute) = {}
      BY <1>5, <2>1, LatestIs, ScheduleAssumption
    <2>3. /\ watched'.baseline = watched.baseline /\ watched'.whole = scan.minute /\ watched'.expr = scan.expr
          /\ WatchTyped'
      BY <1>1, <1>2, <1>5 DEF WatchTyped, Scans
    <2>4. \A m \in Due(scan.expr, watched.baseline, scan.minute) : \E e \in published : e.at >= m
      BY <1>1, <1>2, <1>5, <2>2, SeenTo
    <2>5. CaughtUp'
      BY <1>2, <2>3, <2>4 DEF CaughtUp
    <2>6. scan'.step = "idle"
      BY <1>5 DEF Idle
    <2>7. ScanHolds'
      BY <2>6 DEF ScanHolds
    <2>8. CursorHolds'
      BY <1>1, <1>2, <1>5, <2>3 DEF CursorHolds
    <2>. QED BY <2>3, <2>5, <2>7, <2>8 DEF ScheduleTracked
  <1>6. CASE Fails /\ scan' = Idle(FALSE) /\ UNCHANGED watched
    BY <1>1, <1>2, <1>6, FailsIn, ScanStops
  <1>. QED BY <1>3, <1>4, <1>5, <1>6 DEF ReadCursor

LEMMA EmitKeeps ==
  ASSUME ScheduleTracked, Emit
  PROVE  /\ ScheduleTracked'
         /\ \A e \in published' \ published :
              /\ \A d \in published : d.expr = e.expr => d.at < e.at
              /\ Due(e.expr, e.at, scan.minute) = {}
  <1>1. CursorHolds /\ ScanHolds /\ WatchTyped /\ CaughtUp
    BY DEF ScheduleTracked
  <1>2. PICK e : e = [expr |-> scan.expr, at |-> scan.at]
    OBVIOUS
  <1>3. /\ UNCHANGED <<cronClock, schedule, cursor, watched>> /\ scan.step = "emit" /\ cursor # NoMinute
        /\ published' \in {published, published \cup {e}}
        /\ faults' \in 0 .. MaxFaults
    <2>1. faults' = faults \/ Fails
      BY DEF Emit
    <2>. QED BY <1>1, <1>2, <2>1, FailsIn DEF Emit, CursorHolds, ScanHolds
  <1>4. /\ scan \in Scans /\ e.at = scan.at /\ e \in [expr : Expressions, at : Minutes]
        /\ \A d \in published : d.at <= scan.minute
        /\ Latest(scan.at) /\ scan.minute <= cronClock
    BY <1>1, <1>2, <1>3 DEF ScanHolds, Scans
  <1>5. CASE e \in published
    <2>1. published' = published
      BY <1>3, <1>5
    <2>2. CASE scan' = Idle(FALSE)
      BY <1>3, <2>1, <2>2, ScanStops
    <2>3. CASE scan' = Of("write") /\ UNCHANGED faults
      <3>1. /\ scan' \in Scans /\ scan'.step = "write" /\ scan'.expr = scan.expr /\ scan'.minute = scan.minute
            /\ scan'.at = scan.at
        BY <1>4, <2>3, ScanRows
      <3>2. ScanHolds'
        BY <1>3, <1>4, <1>5, <2>1, <3>1 DEF ScanHolds, Latest
      <3>. QED BY <1>1, <1>3, <2>1, <3>2 DEF ScheduleTracked, CursorHolds, WatchTyped, CaughtUp
    <2>. QED BY <2>1, <2>2, <2>3 DEF Emit
  <1>6. CASE e \notin published
    <2>1. /\ \A d \in published : d.expr = e.expr => d.at < e.at
          /\ Due(e.expr, e.at, scan.minute) = {}
          /\ e.at > watched.baseline /\ e.at <= cronClock /\ MatchesAt(e.expr, e.at) /\ e.at <= scan.minute
      BY <1>1, <1>2, <1>3, <1>6, FiresOnward
    <2>2. CursorHolds'
      <3>1. published' \subseteq [expr : Expressions, at : Minutes] /\ published \subseteq published'
        BY <1>1, <1>3, <1>4 DEF CursorHolds
      <3>2. \A d \in published' : d.at > watched.baseline /\ d.at <= cronClock /\ MatchesAt(d.expr, d.at)
        BY <1>1, <1>3, <2>1 DEF CursorHolds
      <3>. QED BY <1>1, <1>3, <3>1, <3>2 DEF CursorHolds
    <2>3. CaughtUp' /\ WatchTyped'
      BY <1>1, <1>3 DEF CaughtUp, WatchTyped
    <2>4. ScanHolds'
      <3>1. CASE scan' = Idle(FALSE)
        BY <3>1 DEF Idle, ScanHolds
      <3>2. CASE scan' = Of("write") /\ published' = published \cup {e}
        <4>1. /\ scan' \in Scans /\ scan'.step = "write" /\ scan'.expr = scan.expr /\ scan'.minute = scan.minute
              /\ scan'.at = scan.at
          BY <1>4, <3>2, ScanRows
        <4>2. \A d \in published' : d.at <= scan.minute
          BY <1>4, <2>1, <3>2
        <4>3. e \in published'
          BY <3>2
        <4>. QED BY <1>3, <1>4, <4>1, <4>2, <4>3 DEF ScanHolds, Latest
      <3>. QED BY <1>2, <3>1, <3>2 DEF Emit
    <2>5. \A d \in published' \ published : d = e
      BY <1>3
    <2>. QED BY <2>1, <2>2, <2>3, <2>4, <2>5 DEF ScheduleTracked
  <1>. QED BY <1>5, <1>6

LEMMA WriteCursorKeeps ==
  ASSUME ScheduleTracked, WriteCursor
  PROVE  ScheduleTracked'
  <1>1. CursorHolds /\ ScanHolds /\ WatchTyped /\ CaughtUp
    BY DEF ScheduleTracked
  <1>2. /\ UNCHANGED <<cronClock, schedule, published>> /\ scan.step = "write" /\ scan' = Idle(FALSE)
        /\ scan \in Scans /\ scan'.step = "idle"
    BY <1>1 DEF WriteCursor, ScanHolds, Idle
  <1>3. CASE Fails /\ UNCHANGED <<cursor, watched>>
    BY <1>1, <1>2, <1>3, FailsIn, ScanStops
  <1>4. CASE cursor = NoMinute /\ cursor' = scan.at /\ UNCHANGED faults
             /\ watched' = [watched EXCEPT !.baseline = scan.at]
    <2>1. /\ scan.at \in Minutes /\ published = {} /\ NoMinute \notin Minutes /\ watched.whole = NoMinute
      BY <1>1, <1>2, <1>4, ScheduleAssumption DEF Scans, CursorHolds
    <2>2. watched'.baseline = scan.at /\ watched'.whole = NoMinute /\ WatchTyped'
      BY <1>1, <1>4, <2>1 DEF WatchTyped
    <2>3. scan.at \in Int
      BY <2>1, ScheduleAssumption DEF Minutes
    <2>4. CursorHolds'
      BY <1>1, <1>2, <1>4, <2>1, <2>2, <2>3 DEF CursorHolds
    <2>5. CaughtUp' /\ ScanHolds'
      BY <1>2, <2>2 DEF CaughtUp, ScanHolds
    <2>. QED BY <2>2, <2>4, <2>5 DEF ScheduleTracked
  <1>5. CASE cursor # NoMinute /\ cursor' = scan.at /\ UNCHANGED faults
             /\ watched' = [watched EXCEPT !.whole = scan.minute, !.expr = scan.expr]
    <2>1. scan.at \in Minutes /\ NoMinute \notin Minutes /\ Latest(scan.at) /\ scan.minute \in Minutes
      BY <1>1, <1>2, <1>5, ScheduleAssumption DEF Scans, ScanHolds
    <2>2. PICK e \in published : e.at = scan.at
      BY <1>1, <1>2, <1>5 DEF ScanHolds
    <2>3. watched'.baseline = watched.baseline /\ watched'.whole = scan.minute /\ watched'.expr = scan.expr /\ WatchTyped'
      BY <1>1, <1>2, <1>5, <2>1 DEF WatchTyped, Scans
    <2>4. \A m \in Due(scan.expr, watched.baseline, scan.minute) : \E d \in published : d.at >= m
      BY <1>1, <1>2, <1>5, <2>1, <2>2, SeenTo
    <2>5. CaughtUp'
      BY <1>2, <2>3, <2>4 DEF CaughtUp
    <2>6. watched.baseline <= scan.at
      <3>1. scan.at > watched.baseline /\ watched.baseline \in Int /\ scan.at \in Int
        BY <1>1, <1>5, <2>1, <2>2, ScheduleAssumption DEF CursorHolds, Minutes
      <3>. QED BY <3>1
    <2>7. CursorHolds'
      BY <1>1, <1>2, <1>5, <2>1, <2>2, <2>3, <2>6 DEF CursorHolds
    <2>8. ScanHolds'
      BY <1>2 DEF ScanHolds
    <2>. QED BY <2>3, <2>5, <2>7, <2>8 DEF ScheduleTracked
  <1>. QED BY <1>3, <1>4, <1>5 DEF WriteCursor

LEMMA ScheduleStep ==
  ASSUME ScheduleTracked, [ScheduleNext]_scheduleVars
  PROVE  /\ ScheduleTracked'
         /\ \A e \in published' \ published :
              /\ \A d \in published : d.expr = e.expr => d.at < e.at
              /\ Due(e.expr, e.at, scan.minute) = {}
  <1>1. CursorHolds /\ ScanHolds /\ WatchTyped /\ CaughtUp
    BY DEF ScheduleTracked
  <1>2. CASE UNCHANGED scheduleVars
    BY <1>1, <1>2 DEF scheduleVars, ScheduleTracked, CursorHolds, ScanHolds, Latest, WatchTyped, CaughtUp
  <1>3. CASE Minute
    <2>1. /\ cronClock' = cronClock + 1 /\ cronClock < LastMinute /\ UNCHANGED <<schedule, cursor, published, watched, faults>>
          /\ (scan' = scan \/ scan' = Idle(TRUE))
      BY <1>3 DEF Minute
    <2>2. cronClock \in Int /\ cronClock' \in Minutes
      BY <1>1, <2>1, ScheduleAssumption DEF CursorHolds, Minutes
    <2>3. \A k \in Int : k <= cronClock => k <= cronClock'
      BY <2>1, <2>2
    <2>4. Minutes \subseteq Int
      BY ScheduleAssumption DEF Minutes
    <2>5. CursorHolds'
      <3>1. \A e \in published : e.at \in Int
        BY <1>1, <2>4 DEF CursorHolds
      <3>. QED BY <1>1, <2>1, <2>2, <2>3, <3>1 DEF CursorHolds
    <2>6. ScanHolds'
      <3>1. CASE scan' = Idle(TRUE)
        BY <3>1 DEF Idle, ScanHolds
      <3>2. CASE scan' = scan
        <4>1. scan.step # "idle" => scan.minute \in Int
          BY <1>1, <2>4 DEF ScanHolds, Scans
        <4>. QED BY <1>1, <2>1, <2>3, <3>2, <4>1 DEF ScanHolds, Latest
      <3>. QED BY <2>1, <3>1, <3>2
    <2>. QED BY <1>1, <2>1, <2>5, <2>6 DEF ScheduleTracked, WatchTyped, CaughtUp
  <1>4. CASE EditSchedule
    <2>1. UNCHANGED <<cronClock, cursor, scan, published, watched, faults>> /\ schedule'.expr \in Expressions
      BY <1>4 DEF EditSchedule
    <2>. QED BY <1>1, <2>1 DEF ScheduleTracked, CursorHolds, ScanHolds, Latest, WatchTyped, CaughtUp
  <1>5. CASE StartScan
    <2>1. UNCHANGED <<cronClock, schedule, cursor, published, watched>>
      BY <1>5 DEF StartScan
    <2>2. CASE /\ UNCHANGED faults
               /\ scan' = [step |-> "cursor", due |-> FALSE, expr |-> schedule.expr,
                           minute |-> cronClock, at |-> cronClock]
      <3>1. /\ scan' \in Scans /\ scan'.step = "cursor" /\ scan'.at = cronClock /\ scan'.minute = cronClock
        BY <1>1, <2>2 DEF Scans, CursorHolds
      <3>2. cronClock <= cronClock /\ \A e \in published : e.at <= cronClock
        BY <1>1, ScheduleAssumption DEF CursorHolds, Minutes
      <3>3. ScanHolds'
        BY <2>1, <3>1, <3>2 DEF ScanHolds
      <3>. QED BY <1>1, <2>1, <2>2, <3>3 DEF ScheduleTracked, CursorHolds, WatchTyped, CaughtUp
    <2>3. CASE scan' = Idle(FALSE) /\ (UNCHANGED faults \/ Fails)
      <3>1. faults' \in 0 .. MaxFaults
        BY <1>1, <2>3, FailsIn DEF CursorHolds
      <3>. QED BY <2>1, <2>3, <3>1, ScanStops
    <2>. QED BY <1>5, <2>1, <2>2, <2>3 DEF StartScan
  <1>6. CASE ReadCursor
    BY <1>6, ReadCursorKeeps DEF ReadCursor
  <1>7. CASE Emit
    BY <1>7, EmitKeeps
  <1>8. CASE WriteCursor
    BY <1>8, WriteCursorKeeps DEF WriteCursor
  <1>9. CASE Restart
    BY <1>1, <1>9, FailsIn, ScanStops DEF Restart
  <1>. QED BY <1>2, <1>3, <1>4, <1>5, <1>6, <1>7, <1>8, <1>9 DEF ScheduleNext

LEMMA ScheduleStarts == ScheduleInit => ScheduleTracked
  <1> SUFFICES ASSUME ScheduleInit PROVE ScheduleTracked
    OBVIOUS
  <1>1. FirstMinute \in Minutes /\ scan.step = "idle" /\ 0 \in 0 .. MaxFaults
    BY ScheduleAssumption DEF ScheduleInit, Idle, Minutes
  <1>. QED BY <1>1 DEF ScheduleInit, ScheduleTracked, CursorHolds, ScanHolds, WatchTyped, CaughtUp

(* A rule never fires for the past, misses nothing for good, and catches up with one firing,
   in order, wherever a scan fails or is cut off (`ScheduleInv`). *)
THEOREM ScheduleHolds == ScheduleSpec => ScheduleKept
  <1>1. ScheduleTracked => ScheduleInv
    BY DEF ScheduleTracked, CursorHolds, ScheduleInv, NeverThePast
  <1>2. ScheduleTracked' => ScheduleInv'
    BY <1>1, PTL
  <1>3. ScheduleTracked /\ [ScheduleNext]_scheduleVars =>
          [/\ ScheduleInv'
           /\ \A e \in published' \ published :
                /\ \A d \in published : d.expr = e.expr => d.at < e.at
                /\ Due(e.expr, e.at, scan.minute) = {}]_scheduleVars
    BY <1>2, ScheduleStep
  <1>. QED BY <1>3, ScheduleStarts, ScheduleStep, PTL DEF ScheduleSpec, ScheduleKept


------------------------------------------------------------------------------
(* Wiki. *)

PageRows ==
  [state : {"none", "live", "proposed"}, archived : BOOLEAN, parent : Pages \cup {NoPage}, body : Nat,
   scope : {"auto", "always"}, until : Nat, target : Pages \cup {NoPage}, base : Nat]
Copies ==
  [op : {"idle", "create", "edit", "save", "archive", "publish", "accept", "dismiss"},
   page : Pages \cup {NoPage}, row : PageRows, target : Pages \cup {NoPage}, over : PageRows, next : Nat]

(* A text on a live page is a human's, or one a human accepted. *)
Cleared(r) == r.state = "live" /\ r.body \in agentsText => r.body \in approved

(* A copy of a page's row: what it targets and the version it was written against never
   change. *)
Twin(r, p) ==
  /\ r \in PageRows /\ r.state # "none" /\ r.body <= edits
  /\ PageExists(p) /\ r.base = row[p].base /\ r.target = row[p].target

PagesTyped == row \in [Pages -> PageRows] /\ latest \in [Pages -> Nat] /\ edits \in Nat

PagesHold ==
  \A p \in Pages : /\ row[p].body <= edits /\ Cleared(row[p])
                   /\ row[p].target # NoPage => PageExists(row[p].target)

CopyHolds(c) ==
  /\ c \in Copies
  /\ c.op = "create" =>
       c.page \in Pages /\ c.row.state # "none" /\ c.row.body <= edits /\ c.row.target = NoPage
  /\ c.op \notin {"idle", "create"} => c.page \in Pages /\ Twin(c.row, c.page)
  /\ c.op \in {"create", "edit", "save", "archive", "dismiss", "accept"} => Cleared(c.row)
  /\ c.op = "accept" =>
       /\ c.target \in Pages /\ Twin(c.over, c.target)
       /\ c.next = c.row.base + 1 /\ latest[c.target] >= c.row.base

CopiesHold == copy \in [Editors -> Copies] /\ \A w \in Editors : CopyHolds(copy[w])

DemotionsHold == \A d \in demoting : d.page \in Pages /\ Twin(d.row, d.page) /\ Cleared(d.row)

TextsKnown == agentsText \subseteq 0 .. edits

WikiTracked == TextsKnown /\ PagesTyped /\ PagesHold /\ CopiesHold /\ DemotionsHold

(* What no step undoes: pages are there, their versions grow, what is approved stays so, and
   only a new text becomes an agent's. *)
Onward ==
  /\ edits' \in Nat /\ edits <= edits'
  /\ \A p \in Pages : PageExists(p) =>
       /\ PageExists(p)' /\ row'[p].base = row[p].base /\ row'[p].target = row[p].target
       /\ latest'[p] \in Nat /\ latest[p] <= latest'[p]
  /\ approved \subseteq approved'
  /\ agentsText' \subseteq agentsText \cup {edits + 1}

LEMMA StaysCleared ==
  ASSUME PagesTyped, Onward, NEW r \in PageRows, r.body <= edits
  PROVE  r.body <= edits' /\ (Cleared(r) => Cleared(r)')
  <1>1. r.body \in Nat /\ edits \in Nat /\ edits' \in Nat
    BY DEF PageRows, PagesTyped, Onward
  <1>2. r.body # edits + 1 /\ r.body <= edits'
    BY <1>1 DEF Onward
  <1>. QED BY <1>2 DEF Onward, Cleared

LEMMA StaysTwin ==
  ASSUME PagesTyped, Onward, NEW p \in Pages, NEW r, Twin(r, p)
  PROVE  Twin(r, p)' /\ (Cleared(r) => Cleared(r)')
  <1>1. r \in PageRows /\ r.body <= edits /\ PageExists(p)
    BY DEF Twin
  <1>2. r.body <= edits' /\ (Cleared(r) => Cleared(r)')
    BY <1>1, StaysCleared
  <1>. QED BY <1>1, <1>2 DEF Twin, Onward

LEMMA CopyStays ==
  ASSUME PagesTyped, Onward, NEW c, CopyHolds(c)
  PROVE  CopyHolds(c)'
  <1>1. c \in Copies
    BY DEF CopyHolds
  <1>2. c.op \notin {"idle", "create"} =>
          c.page \in Pages /\ Twin(c.row, c.page)' /\ (Cleared(c.row) => Cleared(c.row)')
    BY StaysTwin DEF CopyHolds
  <1>3. c.op = "create" => c.row.body <= edits' /\ (Cleared(c.row) => Cleared(c.row)')
    <2>1. c.row \in PageRows
      BY <1>1 DEF Copies
    <2>. QED BY <2>1, StaysCleared DEF CopyHolds
  <1>4. c.op = "accept" => /\ c.target \in Pages /\ Twin(c.over, c.target)'
                           /\ c.next = c.row.base + 1 /\ latest'[c.target] >= c.row.base
    <2> SUFFICES ASSUME c.op = "accept"
                 PROVE  /\ c.target \in Pages /\ Twin(c.over, c.target)'
                        /\ c.next = c.row.base + 1 /\ latest'[c.target] >= c.row.base
      OBVIOUS
    <2>1. /\ c.target \in Pages /\ Twin(c.over, c.target)
          /\ c.next = c.row.base + 1 /\ latest[c.target] >= c.row.base
      BY DEF CopyHolds
    <2>2. Twin(c.over, c.target)'
      BY <2>1, StaysTwin
    <2>3. c.row.base \in Nat /\ latest[c.target] \in Nat
      BY <1>1, <2>1 DEF Copies, PageRows, PagesTyped
    <2>4. latest'[c.target] \in Nat /\ latest[c.target] <= latest'[c.target]
      BY <2>1 DEF Twin, Onward
    <2>. QED BY <2>1, <2>2, <2>3, <2>4
  <1>. QED BY <1>1, <1>2, <1>3, <1>4 DEF CopyHolds

(* One request's copy changes, or none; the pages go on. *)
LEMMA CopiesStay ==
  ASSUME PagesTyped, CopiesHold, Onward,
         \/ UNCHANGED copy
         \/ \E w \in Editors, c \in Copies : copy' = [copy EXCEPT ![w] = c] /\ CopyHolds(c)'
  PROVE  CopiesHold'
  <1>1. \A w \in Editors : CopyHolds(copy[w])
    BY DEF CopiesHold
  <1>2. ASSUME NEW v \in Editors, copy'[v] = copy[v] PROVE CopyHolds(copy[v])'
    <2>1. PICK c : c = copy[v]
      OBVIOUS
    <2>2. CopyHolds(c)'
      BY <1>1, <2>1, CopyStays
    <2>. QED BY <1>2, <2>1, <2>2
  <1>3. CASE UNCHANGED copy
    BY <1>2, <1>3 DEF CopiesHold
  <1>4. ASSUME NEW w \in Editors, NEW c \in Copies, copy' = [copy EXCEPT ![w] = c], CopyHolds(c)'
        PROVE  CopiesHold'
    <2>1. copy' \in [Editors -> Copies] /\ copy'[w] = c /\ \A v \in Editors : v # w => copy'[v] = copy[v]
      BY <1>4 DEF CopiesHold
    <2>. QED BY <1>2, <1>4, <2>1 DEF CopiesHold
  <1>. QED BY <1>3, <1>4

LEMMA DemotionsStay ==
  ASSUME PagesTyped, DemotionsHold, Onward, demoting' \subseteq demoting
  PROVE  DemotionsHold'
  <1> SUFFICES ASSUME NEW d \in demoting' PROVE d.page \in Pages /\ Twin(d.row, d.page)' /\ Cleared(d.row)'
    BY DEF DemotionsHold
  <1>. QED BY StaysTwin DEF DemotionsHold

LEMMA PagesStill ==
  ASSUME PagesTyped, PagesHold, UNCHANGED <<row, latest, approved, agentsText>>, edits' \in {edits, edits + 1}
  PROVE  PagesTyped' /\ PagesHold' /\ Onward
  <1>1. edits' \in Nat /\ edits <= edits'
    BY DEF PagesTyped
  <1>2. Onward
    BY <1>1 DEF Onward, PageExists, PagesTyped
  <1>3. \A p \in Pages : row[p].body <= edits'
    <2> SUFFICES ASSUME NEW p \in Pages PROVE row[p].body <= edits'
      OBVIOUS
    <2>1. row[p].body \in Nat /\ edits \in Nat /\ row[p].body <= edits
      BY DEF PagesTyped, PagesHold, PageRows
    <2>. QED BY <1>1, <2>1
  <1>. QED BY <1>1, <1>2, <1>3 DEF PagesTyped, PagesHold, Cleared, PageExists

(* A row is written back. *)
LEMMA RowSaved ==
  ASSUME PagesTyped, PagesHold, NEW p \in Pages, NEW r, Twin(r, p), Cleared(r)',
         row' = [row EXCEPT ![p] = r], UNCHANGED <<edits, agentsText>>, approved \subseteq approved',
         latest' \in [Pages -> Nat], \A q \in Pages : latest[q] <= latest'[q]
  PROVE  PagesTyped' /\ PagesHold' /\ Onward
  <1>1. /\ r \in PageRows /\ r.state # "none" /\ r.body <= edits
        /\ PageExists(p) /\ r.base = row[p].base /\ r.target = row[p].target
    BY DEF Twin
  <1>2. row' \in [Pages -> PageRows] /\ row'[p] = r /\ \A q \in Pages : q # p => row'[q] = row[q]
    BY <1>1 DEF PagesTyped
  <1>3. \A q \in Pages : /\ row'[q].target = row[q].target /\ row'[q].base = row[q].base
                          /\ (PageExists(q) => PageExists(q)')
    BY <1>1, <1>2 DEF PageExists
  <1>4. edits \in Nat /\ edits <= edits
    BY DEF PagesTyped
  <1>5. Onward
    BY <1>3, <1>4 DEF Onward
  <1>6. PagesHold'
    <2> SUFFICES ASSUME NEW q \in Pages
                 PROVE  /\ row'[q].body <= edits' /\ Cleared(row[q])'
                        /\ row'[q].target # NoPage => PageExists(row[q].target)'
      BY DEF PagesHold
    <2>1. row[q].target # NoPage => row[q].target \in Pages /\ PageExists(row[q].target)
      BY DEF PagesTyped, PageRows, PagesHold
    <2>2. row'[q].target # NoPage => PageExists(row[q].target)'
      BY <1>3, <2>1 DEF PageExists
    <2>3. CASE q = p
      BY <1>1, <1>2, <2>2, <2>3 DEF Cleared
    <2>4. CASE q # p
      BY <1>2, <2>2, <2>4 DEF PagesHold, Cleared
    <2>. QED BY <2>3, <2>4
  <1>. QED BY <1>2, <1>4, <1>5, <1>6 DEF PagesTyped

(* A page's first row. *)
LEMMA RowBorn ==
  ASSUME PagesTyped, PagesHold, NEW p \in Pages, ~PageExists(p), NEW r \in PageRows, r.state # "none",
         row' = [row EXCEPT ![p] = r], latest' = [latest EXCEPT ![p] = 1],
         edits' \in {edits, edits + 1}, UNCHANGED approved, agentsText' \subseteq agentsText \cup {edits + 1},
         r.body <= edits', Cleared(r)', r.target # NoPage => r.target \in Pages /\ PageExists(r.target)
  PROVE  PagesTyped' /\ PagesHold' /\ Onward
  <1>1. row' \in [Pages -> PageRows] /\ row'[p] = r /\ \A q \in Pages : q # p => row'[q] = row[q]
    BY DEF PagesTyped
  <1>2. \A q \in Pages : PageExists(q) => PageExists(q)' /\ row'[q] = row[q] /\ latest'[q] = latest[q]
    BY <1>1 DEF PageExists, PagesTyped
  <1>3. edits \in Nat /\ edits' \in Nat /\ edits <= edits' /\ latest' \in [Pages -> Nat]
    BY DEF PagesTyped
  <1>4. Onward
    BY <1>2, <1>3 DEF Onward, PagesTyped
  <1>5. PagesHold'
    <2> SUFFICES ASSUME NEW q \in Pages
                 PROVE  /\ row'[q].body <= edits' /\ Cleared(row[q])'
                        /\ row'[q].target # NoPage => PageExists(row[q].target)'
      BY DEF PagesHold
    <2>1. row[q].target # NoPage => row[q].target \in Pages /\ PageExists(row[q].target)
      BY DEF PagesTyped, PageRows, PagesHold
    <2>2. CASE q = p
      BY <1>1, <1>2, <2>2 DEF Cleared, PageExists
    <2>3. CASE q # p
      <3>1. row[q] \in PageRows /\ row[q].body <= edits /\ Cleared(row[q])
        BY DEF PagesTyped, PagesHold
      <3>2. row[q].body <= edits' /\ Cleared(row[q])'
        <4>1. PICK k : k = row[q]
          OBVIOUS
        <4>2. k.body <= edits' /\ Cleared(k)'
          BY <1>4, <3>1, <4>1, StaysCleared
        <4>. QED BY <1>1, <2>3, <4>1, <4>2
      <3>. QED BY <1>1, <1>2, <2>1, <2>3, <3>2 DEF PageExists
    <2>. QED BY <2>2, <2>3
  <1>. QED BY <1>1, <1>3, <1>4, <1>5 DEF PagesTyped

(* What a request copies. *)
LEMMA TwinOf ==
  ASSUME PagesTyped, PagesHold, NEW p \in Pages, PageExists(p)
  PROVE  Twin(row[p], p) /\ Cleared(row[p])
  BY DEF PagesTyped, PagesHold, Twin, PageExists

LEMMA Idles == NoRow \in PageRows /\ NoCopy \in Copies /\ CopyHolds(NoCopy) /\ NoCopy.op = "idle"
  <1>1. NoRow \in PageRows
    BY DEF NoRow, PageRows
  <1>2. NoCopy \in Copies /\ NoCopy.op = "idle"
    BY <1>1 DEF NoCopy, Copies
  <1>. QED BY <1>1, <1>2 DEF CopyHolds

(* A request reads, and keeps what it is about to write. *)
LEMMA ReadsKeep ==
  ASSUME WikiTracked, Reads
  PROVE  WikiTracked'
  <1>1. TextsKnown /\ PagesTyped /\ PagesHold /\ CopiesHold /\ DemotionsHold
    BY DEF WikiTracked
  <1>2. PICK w \in Editors, p \in Pages :
          \/ ReadUpdate(w, p) \/ ReadArchive(w, p) \/ ReadDismiss(w, p)
          \/ ReadAcceptCreate(w, p) \/ ReadAcceptEdit(w, p)
          \/ \E par \in Pages \cup {NoPage} : ReadCreate(w, p, par)
    BY DEF Reads
  <1>3. UNCHANGED <<row, latest, demoting, approved, agentsText>> /\ edits' = edits + 1 /\ edits \in Nat
    BY <1>1, <1>2 DEF ReadUpdate, ReadArchive, ReadDismiss, ReadAcceptCreate, ReadAcceptEdit, ReadCreate, Start, PagesTyped
  <1>4. PagesTyped' /\ PagesHold' /\ Onward
    BY <1>1, <1>3, PagesStill
  <1>5. DemotionsHold'
    BY <1>1, <1>3, <1>4, DemotionsStay
  <1>6. ASSUME NEW c \in Copies, copy' = [copy EXCEPT ![w] = c], CopyHolds(c)'
        PROVE  WikiTracked'
    <2>1. TextsKnown'
      BY <1>1, <1>3 DEF TextsKnown
    <2>. QED BY <1>1, <1>4, <1>5, <1>6, <2>1, CopiesStay DEF WikiTracked
  <1>7. ASSUME PageExists(p) PROVE Twin(row[p], p) /\ Cleared(row[p]) /\ row[p] \in PageRows /\ row[p].body <= edits
    BY <1>1, <1>7, TwinOf DEF Twin
  <1>8. \A r : (Twin(r, p) => Twin(r, p)') /\ (Twin(r, p) /\ Cleared(r) => Cleared(r)')
    BY <1>1, <1>4, StaysTwin
  <1>9. edits + 1 = edits' /\ edits' \in Nat /\ edits' <= edits' /\ edits + 1 \notin agentsText /\ Text = edits + 1
    BY <1>1, <1>3 DEF TextsKnown, Text
  <1>10. NoRow \in PageRows /\ NoCopy \in Copies
    BY Idles
  <1>11. ASSUME NEW op \in {"edit", "save", "archive", "dismiss", "publish"}, NEW r, Twin(r, p)',
                op # "publish" => Cleared(r)',
                copy' = [copy EXCEPT ![w] = [NoCopy EXCEPT !.op = op, !.page = p, !.row = r]]
         PROVE  WikiTracked'
    <2>1. PICK c : c = [NoCopy EXCEPT !.op = op, !.page = p, !.row = r]
      OBVIOUS
    <2>2. r \in PageRows
      BY <1>11 DEF Twin, PageRows
    <2>3. c \in Copies /\ c.op = op /\ c.page = p /\ c.row = r
      BY <1>10, <2>1, <2>2 DEF Copies
    <2>4. CopyHolds(c)'
      BY <1>11, <2>3 DEF CopyHolds
    <2>. QED BY <1>6, <1>11, <2>1, <2>3, <2>4
  <1>12. ASSUME NEW r \in PageRows, PageExists(p), r.state = row[p].state, r.base = row[p].base, r.target = row[p].target,
                r.body \in {row[p].body, Text}
         PROVE  Twin(r, p)' /\ Cleared(r)'
    <2>1. Twin(row[p], p) /\ Cleared(row[p]) /\ row[p].body \in Nat /\ row[p].body <= edits
      BY <1>7, <1>12 DEF PageRows
    <2>2. r.body <= edits'
      BY <1>3, <1>9, <1>12, <2>1
    <2>. QED BY <1>3, <1>9, <1>12, <2>1, <2>2 DEF Twin, Cleared, PageExists
  <1>13. CASE ReadUpdate(w, p)
    <2>1. PageExists(p)
      BY <1>13 DEF ReadUpdate
    <2>2. row[p] \in PageRows
      BY <1>7, <2>1
    <2>3. PICK r \in Patched(row[p])
               \cup {[row[p] EXCEPT !.parent = par] : par \in {NoPage} \cup {q \in Pages : MayMoveUnder(p, q)}} :
            copy' = [copy EXCEPT ![w] =
              [NoCopy EXCEPT !.op = IF r.body # row[p].body THEN "edit" ELSE "save", !.page = p, !.row = r]]
      BY <1>13 DEF ReadUpdate
    <2>4. /\ r \in PageRows /\ r.state = row[p].state /\ r.base = row[p].base /\ r.target = row[p].target
          /\ r.body \in {row[p].body, Text}
      <3>1. CASE r = [row[p] EXCEPT !.body = Text]
        BY <1>9, <2>2, <3>1 DEF PageRows
      <3>2. ASSUME NEW d \in 1 .. MaxDay, r = [row[p] EXCEPT !.scope = "always", !.until = d]
            PROVE  /\ r \in PageRows /\ r.state = row[p].state /\ r.base = row[p].base /\ r.target = row[p].target
                   /\ r.body \in {row[p].body, Text}
        <4>1. d \in Nat
          BY WikiAssumption
        <4>. QED BY <2>2, <3>2, <4>1 DEF PageRows
      <3>3. CASE r = [row[p] EXCEPT !.scope = "auto"]
        BY <2>2, <3>3 DEF PageRows
      <3>4. ASSUME NEW par \in Pages \cup {NoPage}, r = [row[p] EXCEPT !.parent = par]
            PROVE  /\ r \in PageRows /\ r.state = row[p].state /\ r.base = row[p].base /\ r.target = row[p].target
                   /\ r.body \in {row[p].body, Text}
        BY <2>2, <3>4 DEF PageRows
      <3>. QED BY <3>1, <3>2, <3>3, <3>4 DEF Patched
    <2>5. Twin(r, p)' /\ Cleared(r)'
      BY <1>12, <2>1, <2>4
    <2>6. PICK op \in {"edit", "save"} : op = IF r.body # row[p].body THEN "edit" ELSE "save"
      OBVIOUS
    <2>7. copy' = [copy EXCEPT ![w] = [NoCopy EXCEPT !.op = op, !.page = p, !.row = r]]
      BY <2>3, <2>6
    <2>. QED BY <1>11, <2>5, <2>7
  <1>14. CASE ReadArchive(w, p) \/ ReadDismiss(w, p)
    <2>1. PageExists(p)
      BY <1>14 DEF ReadArchive, ReadDismiss, Pending, PageExists
    <2>2. row[p] \in PageRows
      BY <1>7, <2>1
    <2>3. PICK r : r = [row[p] EXCEPT !.archived = TRUE]
      OBVIOUS
    <2>4. /\ r \in PageRows /\ r.state = row[p].state /\ r.base = row[p].base /\ r.target = row[p].target
          /\ r.body = row[p].body
      BY <2>2, <2>3 DEF PageRows
    <2>5. Twin(r, p)' /\ Cleared(r)'
      BY <1>12, <2>1, <2>4
    <2>6. PICK op \in {"archive", "dismiss"} : copy' = [copy EXCEPT ![w] = [NoCopy EXCEPT !.op = op, !.page = p, !.row = r]]
      BY <1>14, <2>3 DEF ReadArchive, ReadDismiss
    <2>. QED BY <1>11, <2>5, <2>6
  <1>15. CASE ReadAcceptCreate(w, p)
    <2>1. PageExists(p) /\ row[p].target = NoPage
      BY <1>15 DEF ReadAcceptCreate, Pending, PageExists
    <2>2. row[p] \in PageRows /\ row[p].body <= edits
      BY <1>7, <2>1
    <2>3. PICK r : r = [row[p] EXCEPT !.state = "live"]
      OBVIOUS
    <2>4. /\ r \in PageRows /\ r.state = "live" /\ r.base = row[p].base /\ r.target = row[p].target
          /\ r.body = row[p].body /\ r.body \in Nat
      BY <2>2, <2>3 DEF PageRows
    <2>5. Twin(r, p)'
      BY <1>3, <1>9, <2>1, <2>2, <2>4 DEF Twin, PageExists
    <2>6. copy' = [copy EXCEPT ![w] = [NoCopy EXCEPT !.op = "publish", !.page = p, !.row = r]]
      BY <1>15, <2>3 DEF ReadAcceptCreate
    <2>. QED BY <1>11, <2>5, <2>6
  <1>16. CASE ReadAcceptEdit(w, p)
    <2>1. PICK t : t = row[p].target
      OBVIOUS
    <2>2. PageExists(p) /\ t # NoPage /\ latest[t] = row[p].base /\ row[p].state = "proposed"
      BY <1>16, <2>1 DEF ReadAcceptEdit, Pending, PageExists, LatestVersion
    <2>3. row[p] \in PageRows /\ row[p].body <= edits
      BY <1>7, <2>2
    <2>4. t \in Pages /\ PageExists(t)
      BY <1>1, <2>1, <2>2, <2>3 DEF PagesHold, PageRows
    <2>5. row[t] \in PageRows
      BY <1>1, <2>4 DEF PagesTyped
    <2>6. PICK r : r = [row[p] EXCEPT !.archived = TRUE]
      OBVIOUS
    <2>7. /\ r \in PageRows /\ r.state = row[p].state /\ r.base = row[p].base /\ r.target = row[p].target
          /\ r.body = row[p].body
      BY <2>3, <2>6 DEF PageRows
    <2>8. Twin(r, p)' /\ Cleared(r)'
      BY <1>12, <2>2, <2>7
    <2>9. PICK over : over = [row[t] EXCEPT !.body = row[p].body]
      OBVIOUS
    <2>10. /\ over \in PageRows /\ over.state = row[t].state /\ over.base = row[t].base /\ over.target = row[t].target
           /\ over.body = row[p].body /\ row[p].body \in Nat
      BY <2>3, <2>5, <2>9 DEF PageRows
    <2>11. Twin(over, t)'
      <3>1. over.body <= edits'
        BY <1>3, <1>9, <2>3, <2>10
      <3>. QED BY <1>3, <2>4, <2>10, <3>1 DEF Twin, PageExists
    <2>12. PICK next : next = latest[t] + 1
      OBVIOUS
    <2>13. next \in Nat /\ next = r.base + 1 /\ latest[t] >= r.base
      BY <1>1, <2>2, <2>4, <2>7, <2>12 DEF PagesTyped
    <2>14. PICK c : c = [NoCopy EXCEPT !.op = "accept", !.page = p, !.row = r, !.target = t, !.over = over, !.next = next]
      OBVIOUS
    <2>15. /\ c \in Copies /\ c.op = "accept" /\ c.page = p /\ c.row = r /\ c.target = t /\ c.over = over
           /\ c.next = next
      BY <1>10, <2>4, <2>7, <2>10, <2>13, <2>14 DEF Copies
    <2>16. CopyHolds(c)'
      BY <1>3, <2>4, <2>8, <2>11, <2>13, <2>15 DEF CopyHolds
    <2>17. copy' = [copy EXCEPT ![w] = c]
      BY <1>16, <2>1, <2>6, <2>9, <2>12, <2>14 DEF ReadAcceptEdit, LatestVersion
    <2>. QED BY <1>6, <2>15, <2>16, <2>17
  <1>17. ASSUME NEW par \in Pages \cup {NoPage}, ReadCreate(w, p, par)
         PROVE  WikiTracked'
    <2>1. PICK r : r = [NoRow EXCEPT !.state = "live", !.parent = par, !.body = Text]
      OBVIOUS
    <2>2. r \in PageRows /\ r.state = "live" /\ r.body = Text /\ r.target = NoPage
      BY <1>9, <1>10, <2>1 DEF PageRows, NoRow
    <2>3. PICK c : c = [NoCopy EXCEPT !.op = "create", !.page = p, !.next = 1, !.row = r]
      OBVIOUS
    <2>4. c \in Copies /\ c.op = "create" /\ c.page = p /\ c.row = r
      BY <1>10, <2>2, <2>3 DEF Copies
    <2>5. CopyHolds(c)'
      BY <1>3, <1>9, <2>2, <2>4 DEF CopyHolds, Cleared
    <2>6. copy' = [copy EXCEPT ![w] = c]
      BY <1>17, <2>1, <2>3 DEF ReadCreate
    <2>. QED BY <1>6, <2>4, <2>5, <2>6
  <1>. QED BY <1>2, <1>13, <1>14, <1>15, <1>16, <1>17

(* Whoever takes a version took it from the one the proposal was written against. *)
LEMMA AcceptsFresh ==
  ASSUME PagesTyped, CopiesHold
  PROVE  NoStaleAccept
  <1> SUFFICES ASSUME latest' # latest, NEW v \in Editors, CommitAcceptEdit(v)
               PROVE  latest[copy[v].target] = row[copy[v].page].base
    BY DEF NoStaleAccept
  <1>1. PICK k : k = copy[v]
    OBVIOUS
  <1>2. CopyHolds(k) /\ k \in Copies /\ k.op = "accept" /\ ~(latest[k.target] >= k.next)
    BY <1>1 DEF CopiesHold, CommitAcceptEdit
  <1>3. /\ k.target \in Pages /\ k.page \in Pages /\ Twin(k.row, k.page) /\ k.next = k.row.base + 1
        /\ latest[k.target] >= k.row.base
    BY <1>2 DEF CopyHolds
  <1>4. latest[k.target] \in Nat /\ k.row.base \in Nat
    BY <1>3 DEF PagesTyped, Twin, PageRows
  <1>5. latest[k.target] = k.row.base
    BY <1>2, <1>3, <1>4
  <1>. QED BY <1>1, <1>3, <1>5 DEF Twin

(* A request's transaction. *)
LEMMA CommitsKeep ==
  ASSUME WikiTracked, Commits
  PROVE  WikiTracked' /\ NoStaleAccept
  <1>1. TextsKnown /\ PagesTyped /\ PagesHold /\ CopiesHold /\ DemotionsHold
    BY DEF WikiTracked
  <1>2. PICK w \in Editors :
          \/ ReadLatest(w) \/ CommitCreate(w) \/ CommitUpdate(w) \/ CommitArchive(w)
          \/ CommitProposal(w) \/ CommitAcceptEdit(w)
    BY DEF Commits
  <1>3. UNCHANGED <<demoting, agentsText, edits>> /\ TextsKnown' /\ edits \in Nat
    BY <1>1, <1>2 DEF ReadLatest, CommitCreate, CommitUpdate, CommitArchive, CommitProposal, CommitAcceptEdit, TextsKnown,
       PagesTyped
  <1>4. PICK c : c = copy[w]
    OBVIOUS
  <1>5. CopyHolds(c) /\ c \in Copies
    BY <1>1, <1>4 DEF CopiesHold
  <1>6. c.op # "idle" => c.row \in PageRows /\ c.over \in PageRows /\ c.next \in Nat
    BY <1>5 DEF Copies
  <1>7. CopyHolds(NoCopy)' /\ NoCopy \in Copies
    BY Idles DEF CopyHolds
  <1>8. ASSUME PagesTyped', PagesHold', Onward, copy' = [copy EXCEPT ![w] = NoCopy]
        PROVE  WikiTracked'
    BY <1>1, <1>3, <1>7, <1>8, CopiesStay, DemotionsStay DEF WikiTracked
  <1>9. NoStaleAccept
    BY <1>1, AcceptsFresh
  <1>10. CASE ReadLatest(w)
    <2>1. UNCHANGED <<row, latest, approved>> /\ c.op = "edit"
      BY <1>4, <1>10 DEF ReadLatest
    <2>2. PagesTyped' /\ PagesHold' /\ Onward
      BY <1>1, <1>3, <2>1, PagesStill
    <2>3. PICK next : next = latest[c.page] + 1
      OBVIOUS
    <2>4. next \in Nat
      BY <1>1, <1>5, <2>1, <2>3 DEF CopyHolds, PagesTyped
    <2>5. PICK k : k = [c EXCEPT !.next = next]
      OBVIOUS
    <2>6. k \in Copies /\ k.op = "edit" /\ k.page = c.page /\ k.row = c.row
      BY <1>5, <2>1, <2>4, <2>5 DEF Copies
    <2>7. CopyHolds(c)'
      BY <1>1, <1>5, <2>2, CopyStays
    <2>8. CopyHolds(k)'
      BY <2>1, <2>6, <2>7 DEF CopyHolds
    <2>9. copy' = [copy EXCEPT ![w] = k]
      BY <1>4, <1>10, <2>3, <2>5 DEF ReadLatest, LatestVersion
    <2>10. CopiesHold' /\ DemotionsHold'
      BY <1>1, <1>3, <2>2, <2>6, <2>8, <2>9, CopiesStay, DemotionsStay
    <2>. QED BY <1>3, <1>9, <2>2, <2>10 DEF WikiTracked
  <1>11. CASE CommitCreate(w)
    <2>1. /\ c.op = "create" /\ ~PageExists(c.page) /\ copy' = [copy EXCEPT ![w] = NoCopy]
          /\ row' = [row EXCEPT ![c.page] = c.row] /\ latest' = [latest EXCEPT ![c.page] = 1] /\ UNCHANGED approved
      BY <1>4, <1>11 DEF CommitCreate, Done
    <2>2. /\ c.page \in Pages /\ c.row.state # "none" /\ c.row.body <= edits /\ c.row.target = NoPage
          /\ Cleared(c.row) /\ c.row \in PageRows
      BY <1>5, <1>6, <2>1 DEF CopyHolds
    <2>3. Cleared(c.row)'
      BY <1>3, <2>1, <2>2 DEF Cleared
    <2>4. PagesTyped' /\ PagesHold' /\ Onward
      BY <1>1, <1>3, <2>1, <2>2, <2>3, RowBorn
    <2>. QED BY <1>8, <1>9, <2>1, <2>4
  <1>12. CASE CommitUpdate(w)
    <2>1. c.op \in {"save", "edit"} /\ copy' = [copy EXCEPT ![w] = NoCopy] /\ UNCHANGED approved
      BY <1>4, <1>12 DEF CommitUpdate, Done
    <2>2. c.page \in Pages /\ Twin(c.row, c.page) /\ Cleared(c.row) /\ c.next \in Nat
      BY <1>5, <1>6, <2>1 DEF CopyHolds
    <2>3. CASE UNCHANGED <<row, latest>>
      <3>1. PagesTyped' /\ PagesHold' /\ Onward
        BY <1>1, <1>3, <2>1, <2>3, PagesStill
      <3>. QED BY <1>8, <1>9, <2>1, <3>1
    <2>4. CASE /\ row' = [row EXCEPT ![c.page] = c.row]
               /\ \/ UNCHANGED latest
                  \/ ~(latest[c.page] >= c.next) /\ latest' = [latest EXCEPT ![c.page] = c.next]
      <3>1. latest' \in [Pages -> Nat] /\ \A q \in Pages : latest[q] <= latest'[q]
        <4>1. latest \in [Pages -> Nat] /\ \A q \in Pages : latest[q] \in Nat /\ latest[q] <= latest[q]
          BY <1>1 DEF PagesTyped
        <4>. QED BY <2>2, <2>4, <4>1
      <3>2. Cleared(c.row)'
        BY <1>3, <2>1, <2>2 DEF Cleared
      <3>3. PagesTyped' /\ PagesHold' /\ Onward
        BY <1>1, <1>3, <2>1, <2>2, <2>4, <3>1, <3>2, RowSaved
      <3>. QED BY <1>8, <1>9, <2>1, <3>3
    <2>. QED BY <1>4, <1>12, <2>3, <2>4 DEF CommitUpdate, SaveCopy
  <1>13. CASE CommitArchive(w)
    <2>1. /\ c.op = "archive" /\ copy' = [copy EXCEPT ![w] = NoCopy] /\ UNCHANGED <<approved, latest>>
      BY <1>4, <1>13 DEF CommitArchive, Done
    <2>2. c.page \in Pages /\ Twin(c.row, c.page) /\ Cleared(c.row)
      BY <1>5, <2>1 DEF CopyHolds
    <2>3. PICK saved : saved = [row EXCEPT ![c.page] = c.row]
      OBVIOUS
    <2>4. row' = [q \in Pages |-> IF saved[q].parent = c.page /\ ~saved[q].archived
                                   THEN [saved[q] EXCEPT !.parent = NoPage] ELSE saved[q]]
      BY <1>4, <1>13, <2>3 DEF CommitArchive, SaveCopy
    <2>5. saved \in [Pages -> PageRows]
      BY <1>1, <2>2, <2>3 DEF PagesTyped, Twin
    <2>6. ASSUME NEW q \in Pages
          PROVE  /\ row'[q] \in PageRows /\ row'[q].state = saved[q].state /\ row'[q].body = saved[q].body
                 /\ row'[q].target = saved[q].target /\ row'[q].base = saved[q].base
      <3>1. saved[q] \in PageRows
        BY <2>5
      <3>2. row'[q] = saved[q] \/ row'[q] = [saved[q] EXCEPT !.parent = NoPage]
        BY <2>4
      <3>. QED BY <3>1, <3>2 DEF PageRows
    <2>7. ASSUME NEW q \in Pages
          PROVE  /\ saved[q].body <= edits /\ Cleared(saved[q]) /\ saved[q].target = row[q].target
                 /\ saved[q].base = row[q].base /\ (row[q].state # "none" => saved[q].state # "none")
      <3>1. CASE q = c.page
        BY <1>1, <2>2, <2>3, <3>1 DEF Twin, PagesTyped
      <3>2. CASE q # c.page
        BY <1>1, <2>3, <3>2 DEF PagesTyped, PagesHold
      <3>. QED BY <3>1, <3>2
    <2>8. DOMAIN row' = Pages /\ row' \in [Pages -> PageRows]
      BY <2>4, <2>6
    <2>9. PagesTyped'
      BY <1>1, <1>3, <2>1, <2>8 DEF PagesTyped
    <2>10. Onward
      <3>1. edits <= edits /\ \A q \in Pages : latest[q] \in Nat /\ latest[q] <= latest[q]
        BY <1>1, <1>3 DEF PagesTyped
      <3>. QED BY <1>3, <2>1, <2>6, <2>7, <3>1 DEF Onward, PageExists
    <2>11. PagesHold'
      <3> SUFFICES ASSUME NEW q \in Pages
                   PROVE  /\ row'[q].body <= edits' /\ Cleared(row[q])'
                          /\ row'[q].target # NoPage => PageExists(row[q].target)'
        BY DEF PagesHold
      <3>1. row'[q].body <= edits' /\ Cleared(row[q])'
        BY <1>3, <2>1, <2>6, <2>7 DEF Cleared
      <3>2. row[q].target # NoPage => row[q].target \in Pages /\ PageExists(row[q].target)
        BY <1>1 DEF PagesTyped, PageRows, PagesHold
      <3>3. row'[q].target = row[q].target
        BY <2>6, <2>7
      <3>4. \A t \in Pages : PageExists(t) => PageExists(t)'
        BY <2>10 DEF Onward
      <3>. QED BY <3>1, <3>2, <3>3, <3>4 DEF PageExists
    <2>. QED BY <1>8, <1>9, <2>1, <2>9, <2>10, <2>11
  <1>14. CASE CommitProposal(w)
    <2>1. /\ c.op \in {"publish", "dismiss"} /\ copy' = [copy EXCEPT ![w] = NoCopy] /\ UNCHANGED latest
          /\ row' = [row EXCEPT ![c.page] = c.row]
          /\ approved' = IF c.op = "publish" THEN approved \cup {c.row.body} ELSE approved
      BY <1>4, <1>14 DEF CommitProposal, Done, SaveCopy
    <2>2. c.page \in Pages /\ Twin(c.row, c.page) /\ (c.op = "dismiss" => Cleared(c.row))
      BY <1>5, <2>1 DEF CopyHolds
    <2>3. Cleared(c.row)' /\ approved \subseteq approved'
      BY <1>3, <2>1, <2>2 DEF Cleared
    <2>4. latest' \in [Pages -> Nat] /\ \A q \in Pages : latest[q] <= latest'[q]
      BY <1>1, <2>1 DEF PagesTyped
    <2>5. PagesTyped' /\ PagesHold' /\ Onward
      BY <1>1, <1>3, <2>1, <2>2, <2>3, <2>4, RowSaved
    <2>. QED BY <1>8, <1>9, <2>1, <2>5
  <1>15. CASE CommitAcceptEdit(w)
    <2>1. c.op = "accept" /\ copy' = [copy EXCEPT ![w] = NoCopy]
      BY <1>4, <1>15 DEF CommitAcceptEdit, Done
    <2>2. /\ c.page \in Pages /\ Twin(c.row, c.page) /\ Cleared(c.row) /\ c.target \in Pages /\ Twin(c.over, c.target)
          /\ c.next \in Nat
      BY <1>5, <1>6, <2>1 DEF CopyHolds
    <2>3. CASE UNCHANGED <<row, latest, approved>>
      <3>1. PagesTyped' /\ PagesHold' /\ Onward
        BY <1>1, <1>3, <2>3, PagesStill
      <3>. QED BY <1>8, <1>9, <2>1, <3>1
    <2>4. CASE /\ row' = [row EXCEPT ![c.target] = c.over, ![c.page] = c.row]
               /\ ~(latest[c.target] >= c.next) /\ latest' = [latest EXCEPT ![c.target] = c.next]
               /\ approved' = approved \cup {c.over.body}
      <3>1. c.row \in PageRows /\ c.over \in PageRows
        BY <2>2 DEF Twin
      <3>2. /\ row' \in [Pages -> PageRows] /\ row'[c.page] = c.row
            /\ c.target # c.page => row'[c.target] = c.over
            /\ \A q \in Pages : q \notin {c.target, c.page} => row'[q] = row[q]
        BY <1>1, <2>2, <2>4, <3>1 DEF PagesTyped
      <3>3. latest' \in [Pages -> Nat] /\ \A q \in Pages : latest'[q] \in Nat /\ latest[q] <= latest'[q]
        <4>1. latest \in [Pages -> Nat] /\ \A q \in Pages : latest[q] \in Nat /\ latest[q] <= latest[q]
          BY <1>1 DEF PagesTyped
        <4>. QED BY <2>2, <2>4, <4>1
      <3>4. ASSUME NEW q \in Pages
            PROVE  /\ row'[q].body <= edits /\ Cleared(row[q])' /\ row'[q].target = row[q].target
                   /\ row'[q].base = row[q].base /\ (PageExists(q) => PageExists(q)')
        <4>1. CASE q = c.page
          BY <1>3, <2>2, <2>4, <3>2, <4>1 DEF Twin, Cleared, PageExists
        <4>2. CASE q # c.page /\ q = c.target
          BY <1>3, <2>2, <2>4, <3>2, <4>2 DEF Twin, Cleared, PageExists
        <4>3. CASE q \notin {c.page, c.target}
          BY <1>1, <1>3, <2>4, <3>2, <4>3 DEF PagesHold, Cleared, PageExists
        <4>. QED BY <4>1, <4>2, <4>3
      <3>5. edits <= edits
        BY <1>3
      <3>6. Onward
        BY <1>3, <2>4, <3>3, <3>4, <3>5 DEF Onward
      <3>7. PagesHold'
        <4> SUFFICES ASSUME NEW q \in Pages
                     PROVE  /\ row'[q].body <= edits' /\ Cleared(row[q])'
                            /\ row'[q].target # NoPage => PageExists(row[q].target)'
          BY DEF PagesHold
        <4>1. row[q].target # NoPage => row[q].target \in Pages /\ PageExists(row[q].target)
          BY <1>1 DEF PagesTyped, PageRows, PagesHold
        <4>. QED BY <1>3, <3>4, <4>1 DEF PageExists
      <3>8. PagesTyped'
        BY <1>3, <3>2, <3>3 DEF PagesTyped
      <3>. QED BY <1>8, <1>9, <2>1, <3>6, <3>7, <3>8
    <2>. QED BY <1>4, <1>15, <2>3, <2>4 DEF CommitAcceptEdit
  <1>. QED BY <1>2, <1>10, <1>11, <1>12, <1>13, <1>14, <1>15

(* Agents propose; the job lists what has expired, and writes it back row by row. *)
LEMMA AgentsKeep ==
  ASSUME WikiTracked, AgentsAndJob
  PROVE  WikiTracked'
  <1>1. TextsKnown /\ PagesTyped /\ PagesHold /\ CopiesHold /\ DemotionsHold
    BY DEF WikiTracked
  <1>2. ASSUME NEW p \in Pages, NEW t \in Pages \cup {NoPage}, NEW par \in Pages \cup {NoPage}, ProposeWikiPage(p, t, par)
        PROVE  WikiTracked'
    <2>1. PICK base : base = IF t = NoPage THEN 0 ELSE LatestVersion(t)
      OBVIOUS
    <2>2. PICK r : r = [NoRow EXCEPT !.state = "proposed", !.parent = par, !.body = Text, !.target = t, !.base = base]
      OBVIOUS
    <2>3. base \in Nat /\ edits \in Nat /\ edits + 1 <= edits + 1
      BY <1>1, <2>1 DEF PagesTyped, LatestVersion
    <2>4. /\ r \in PageRows /\ r.state = "proposed" /\ r.body = edits + 1 /\ r.target = t
      <3>1. r = [state |-> "proposed", archived |-> FALSE, parent |-> par, body |-> edits + 1, scope |-> "auto",
                 until |-> 0, target |-> t, base |-> base]
        BY <2>2 DEF NoRow, Text
      <3>. QED BY <2>3, <3>1 DEF PageRows
    <2>5. /\ ~PageExists(p) /\ edits' = edits + 1 /\ row' = [row EXCEPT ![p] = r] /\ latest' = [latest EXCEPT ![p] = 1]
          /\ agentsText' = agentsText \cup {edits + 1} /\ UNCHANGED <<copy, demoting, approved>>
          /\ (t # NoPage => PageExists(t))
      BY <1>2, <2>1, <2>2 DEF ProposeWikiPage, Start, Text
    <2>6. Cleared(r)' /\ TextsKnown'
      BY <1>1, <2>3, <2>4, <2>5 DEF Cleared, TextsKnown
    <2>7. PagesTyped' /\ PagesHold' /\ Onward
      BY <1>1, <2>3, <2>4, <2>5, <2>6, RowBorn
    <2>. QED BY <1>1, <2>5, <2>6, <2>7, CopiesStay, DemotionsStay DEF WikiTracked
  <1>3. CASE ListExpired
    <2>1. UNCHANGED <<row, latest, copy, edits, agentsText, approved>>
          /\ demoting' = {[page |-> p, row |-> row[p]] : p \in ExpiredAlways}
      BY <1>3 DEF ListExpired
    <2>2. PagesTyped' /\ PagesHold' /\ Onward
      BY <1>1, <2>1, PagesStill
    <2>3. \A p \in ExpiredAlways : p \in Pages /\ PageExists(p)
      BY DEF ExpiredAlways, LivePage, PageExists
    <2>4. \A p \in ExpiredAlways : p \in Pages /\ Twin(row[p], p) /\ Cleared(row[p])
      BY <1>1, <2>3, TwinOf
    <2>5. DemotionsHold'
      BY <2>1, <2>4 DEF DemotionsHold, Twin, Cleared, PageExists
    <2>6. TextsKnown'
      BY <1>1, <2>1 DEF TextsKnown
    <2>. QED BY <1>1, <2>1, <2>2, <2>5, <2>6, CopiesStay DEF WikiTracked
  <1>4. ASSUME NEW d \in demoting, DemoteOne(d)
        PROVE  WikiTracked'
    <2>1. d.page \in Pages /\ Twin(d.row, d.page) /\ Cleared(d.row)
      BY <1>1 DEF DemotionsHold
    <2>2. PICK r : r = [d.row EXCEPT !.scope = "auto"]
      OBVIOUS
    <2>3. d.row \in PageRows
      BY <2>1 DEF Twin
    <2>4. /\ r \in PageRows /\ r.state = d.row.state /\ r.body = d.row.body /\ r.base = d.row.base
          /\ r.target = d.row.target
      BY <2>2, <2>3 DEF PageRows
    <2>5. /\ row' = [row EXCEPT ![d.page] = r] /\ demoting' \subseteq demoting
          /\ UNCHANGED <<latest, copy, edits, agentsText, approved>>
      BY <1>4, <2>2 DEF DemoteOne
    <2>6. Twin(r, d.page) /\ Cleared(r)'
      BY <2>1, <2>4, <2>5 DEF Twin, Cleared
    <2>7. latest' \in [Pages -> Nat] /\ \A q \in Pages : latest[q] <= latest'[q]
      BY <1>1, <2>5 DEF PagesTyped
    <2>8. PagesTyped' /\ PagesHold' /\ Onward
      BY <1>1, <2>1, <2>5, <2>6, <2>7, RowSaved
    <2>9. TextsKnown'
      BY <1>1, <2>5 DEF TextsKnown
    <2>. QED BY <1>1, <2>5, <2>8, <2>9, CopiesStay, DemotionsStay DEF WikiTracked
  <1>5. CASE NextDay
    <2>1. UNCHANGED <<row, latest, copy, demoting, edits, agentsText, approved>>
      BY <1>5 DEF NextDay
    <2>2. PagesTyped' /\ PagesHold' /\ Onward
      BY <1>1, <2>1, PagesStill
    <2>3. TextsKnown'
      BY <1>1, <2>1 DEF TextsKnown
    <2>. QED BY <1>1, <2>1, <2>2, <2>3, CopiesStay, DemotionsStay DEF WikiTracked
  <1>. QED BY <1>2, <1>3, <1>4, <1>5 DEF AgentsAndJob

LEMMA WikiStep ==
  ASSUME WikiTracked, [WikiNext]_wikiVars
  PROVE  WikiTracked' /\ (NoStaleAccept \/ UNCHANGED wikiVars)
  <1>1. CASE Reads
    <2>1. UNCHANGED latest
      BY <1>1 DEF Reads, ReadUpdate, ReadArchive, ReadDismiss, ReadAcceptCreate, ReadAcceptEdit, ReadCreate
    <2>. QED BY <1>1, <2>1, ReadsKeep DEF NoStaleAccept
  <1>2. CASE Commits
    BY <1>2, CommitsKeep
  <1>3. CASE AgentsAndJob
    <2>1. NoStaleAccept
      BY AcceptsFresh DEF WikiTracked
    <2>. QED BY <1>3, <2>1, AgentsKeep
  <1>4. CASE UNCHANGED wikiVars
    <2>1. Onward
      BY <1>4 DEF WikiTracked, PagesTyped, Onward, wikiVars, PageExists
    <2>. QED BY <1>4 DEF wikiVars, WikiTracked, TextsKnown, PagesTyped, PagesHold, CopiesHold, CopyHolds, DemotionsHold, Twin,
         Cleared, PageExists
  <1>. QED BY <1>1, <1>2, <1>3, <1>4 DEF WikiNext

LEMMA WikiStarts == WikiInit => WikiTracked
  <1> SUFFICES ASSUME WikiInit PROVE WikiTracked
    OBVIOUS
  <1>1. /\ NoRow \in PageRows /\ [NoRow EXCEPT !.state = "live"] \in PageRows /\ NoRow.body = 0 /\ NoRow.target = NoPage
        /\ [NoRow EXCEPT !.state = "live"].body = 0 /\ [NoRow EXCEPT !.state = "live"].target = NoPage
    BY DEF NoRow, PageRows
  <1>2. row \in [Pages -> PageRows] /\ \A p \in Pages : row[p].body = 0 /\ row[p].target = NoPage
    BY <1>1 DEF WikiInit
  <1>3. latest \in [Pages -> Nat] /\ edits = 0 /\ agentsText = {} /\ demoting = {}
    BY DEF WikiInit
  <1>4. copy \in [Editors -> Copies] /\ \A w \in Editors : copy[w] = NoCopy
    BY Idles DEF WikiInit
  <1>5. CopiesHold
    BY <1>4, Idles DEF CopiesHold
  <1>. QED BY <1>2, <1>3, <1>5 DEF WikiTracked, TextsKnown, PagesTyped, PagesHold, Cleared, DemotionsHold

(* No text of an agent's is on a live page before a human accepted it, and none is accepted over
   a version it was not written against, whatever stale rows are written back. *)
THEOREM WikiIsGuarded == WikiSpec => [][HumanApproved' /\ NoStaleAccept]_wikiVars
  <1>1. WikiTracked => HumanApproved
    BY DEF WikiTracked, PagesHold, Cleared, HumanApproved, LivePage
  <1>2. WikiTracked' => HumanApproved'
    BY <1>1, PTL
  <1>3. WikiTracked /\ [WikiNext]_wikiVars => [HumanApproved' /\ NoStaleAccept]_wikiVars
    BY <1>2, WikiStep
  <1>4. WikiTracked /\ [WikiNext]_wikiVars => WikiTracked'
    BY WikiStep
  <1>. QED BY <1>3, <1>4, WikiStarts, PTL DEF WikiSpec
=============================================================================
