----------------------------- MODULE BusProofs -----------------------------
(***************************************************************************)
(* Proofs about Bus, for any number of events and subscribers, any         *)
(* matching, buffer size and number of boots: BusInv is invariant, and     *)
(* the bus implements EventDelivery.  About Triage, which wakes on those   *)
(* events: for any tickets and requests, decisions stand.  And about the   *)
(* Poller, which puts a forge's events on the bus: for any pull requests,  *)
(* nothing old is told, and nothing is recorded before it is told.         *)
(* RepoLink: for any requests and workers, a project has one poller.       *)
(***************************************************************************)
EXTENDS Bus, Triage, Poller, RepoLink, FiniteSetTheorems, NaturalsInduction, WellFoundedInduction, TLAPS

\* The subscribers of an event are finitely many.
LEMMA MatchesFinite ==
  \A e \in Events : Matches[e] \subseteq Subs /\ IsFiniteSet(Matches[e])
  <1>1. IsFiniteSet(Subs)
    BY BusConstants, FS_Interval DEF Subs
  <1> QED
    BY <1>1, BusConstants, FS_Subset

\* A set that loses a member shrinks by one, and is empty when it had one.
LEMMA CountDown ==
  ASSUME NEW M, IsFiniteSet(M), NEW R, NEW s \in M \ R
  PROVE  /\ Cardinality(M \ R) \in Nat \ {0}
         /\ Cardinality(M \ (R \cup {s})) = Cardinality(M \ R) - 1
         /\ Cardinality(M \ R) = 1 => M \ (R \cup {s}) = {}
  <1> DEFINE D == M \ R
  <1>1. IsFiniteSet(D) /\ s \in D /\ D \ {s} = M \ (R \cup {s})
    BY FS_Subset
  <1>2. Cardinality(D) \in Nat
    BY <1>1, FS_CardinalityType
  <1>3. Cardinality(D \ {s}) = Cardinality(D) - 1 /\ IsFiniteSet(D \ {s})
    BY <1>1, FS_RemoveElement
  <1>4. Cardinality(D \ {s}) \in Nat
    BY <1>3, FS_CardinalityType
  <1>5. Cardinality(D) = 1 => D \ {s} = {}
    BY <1>3, FS_EmptySet
  <1> QED
    BY <1>1, <1>2, <1>3, <1>4, <1>5

\* What is in a queue after an enqueue.
LEMMA Enqueued ==
  ASSUME NEW q \in Seq(Events), NEW e \in Events
  PROVE  /\ Append(q, e) \in Seq(Events)
         /\ \A x : (\E i \in 1..Len(Append(q, e)) : Append(q, e)[i] = x)
                     <=> x = e \/ \E i \in 1..Len(q) : q[i] = x
         /\ (\A i, j \in 1..Len(q) : q[i] = q[j] => i = j) /\ ~(\E i \in 1..Len(q) : q[i] = e)
              => \A i, j \in 1..Len(Append(q, e)) : Append(q, e)[i] = Append(q, e)[j] => i = j
  <1>1. Append(q, e) \in Seq(Events) /\ Len(Append(q, e)) = Len(q) + 1 /\ Len(q) \in Nat
    OBVIOUS
  <1>2. Append(q, e)[Len(q) + 1] = e /\ \A i \in 1..Len(q) : Append(q, e)[i] = q[i]
    OBVIOUS
  <1>3. \A i \in 1..Len(q) + 1 : i = Len(q) + 1 \/ i \in 1..Len(q)
    BY <1>1
  <1> QED
    BY <1>1, <1>2, <1>3

\* What is in a queue after its head is taken.
LEMMA Dequeued ==
  ASSUME NEW q \in Seq(Events), q # <<>>, \A i, j \in 1..Len(q) : q[i] = q[j] => i = j
  PROVE  /\ Tail(q) \in Seq(Events) /\ Head(q) \in Events
         /\ \E i \in 1..Len(q) : q[i] = Head(q)
         /\ \A x : (\E i \in 1..Len(Tail(q)) : Tail(q)[i] = x)
                     <=> x # Head(q) /\ \E i \in 1..Len(q) : q[i] = x
         /\ \A i, j \in 1..Len(Tail(q)) : Tail(q)[i] = Tail(q)[j] => i = j
  <1>1. /\ Tail(q) \in Seq(Events) /\ Len(q) \in Nat \ {0} /\ Len(Tail(q)) = Len(q) - 1
        /\ Head(q) = q[1] /\ Head(q) \in Events
    OBVIOUS
  <1>2. \A i \in 1..Len(Tail(q)) : Tail(q)[i] = q[i + 1] /\ i + 1 \in 1..Len(q) /\ i + 1 # 1
    BY <1>1
  <1>3. \A j \in 1..Len(q) : j # 1 => j - 1 \in 1..Len(Tail(q)) /\ Tail(q)[j - 1] = q[j]
    BY <1>1, <1>2
  <1> QED
    BY <1>1, <1>2, <1>3

USE DEF rowVars, dispVars, trackVars, subVars, lifeVars, recVars

\* The initial state.
LEMMA BusInit == Init => BusInv
  <1> SUFFICES ASSUME Init PROVE BusInv
    OBVIOUS
  <1>a. queue \in [Subs -> Seq(Events)]
    BY DEF Init
  <1>b. 0 \in 0..MaxEvents
    BY BusConstants
  <1>1. TypeOK
    BY <1>a, <1>b DEF Init, TypeOK, NoSubs, NoDispatch, Stages, Dispatching
  <1>2. \A s \in Subs : queue[s] = <<>> /\ Len(queue[s]) = 0 /\ at[s] = "idle"
    BY DEF Init
  <1>3. InOnePlace /\ DeliveredOnce /\ OneFinalizer
    BY <1>2 DEF InOnePlace, DeliveredOnce, OneFinalizer, Queued, Handling
  <1>4. RowsFollow /\ ListsFollow /\ TrackerCounts /\ NoFalseDone /\ NoSendOnClosed /\ (closed => stopped)
    BY DEF Init, RowsFollow, ListsFollow, TrackerCounts, NoFalseDone, NoSendOnClosed, NoSubs, NoDispatch
  <1> QED
    BY <1>1, <1>3, <1>4 DEF BusInv

------------------------------------------------------------------------------
(* One lemma per action of the bus: it keeps BusInv. *)

\* Publish.
LEMMA PublishKeeps ==
  ASSUME BusInv, Publish
  PROVE  BusInv'
  <1>0. TypeOK /\ RowsFollow /\ ListsFollow /\ InOnePlace /\ TrackerCounts
        /\ OneFinalizer /\ NoFalseDone /\ DeliveredOnce /\ NoSendOnClosed /\ (closed => stopped)
    BY DEF BusInv
  <1>1. TypeOK'
    BY <1>0, BusConstants DEF Publish, TypeOK, Stages, Dispatching, Events
  <1>2. RowsFollow'
    BY <1>0 DEF Publish, TypeOK, RowsFollow, Events
  <1>3. ListsFollow'
    BY <1>0, BusConstants DEF Publish, TypeOK, ListsFollow, RowsFollow, Events
  <1>4. InOnePlace'
    BY <1>0 DEF Publish, TypeOK, InOnePlace, Queued, Handling, RowsFollow
  <1>5. TrackerCounts'
    BY <1>0 DEF Publish, TypeOK, TrackerCounts, RowsFollow
  <1>6. OneFinalizer'
    BY <1>0 DEF Publish, TypeOK, OneFinalizer, RowsFollow
  <1>7. NoFalseDone'
    BY <1>0 DEF Publish, TypeOK, NoFalseDone
  <1>8. DeliveredOnce'
    BY <1>0 DEF Publish, TypeOK, DeliveredOnce, Queued, Handling
  <1>9. NoSendOnClosed' /\ (closed => stopped)'
    BY <1>0 DEF Publish, TypeOK, NoSendOnClosed, Dispatching
  <1> QED
    BY <1>1, <1>2, <1>3, <1>4, <1>5, <1>6, <1>7, <1>8, <1>9 DEF BusInv

\* dispatch under the lock.
LEMMA DispatchKeeps ==
  ASSUME BusInv, NEW e \in Events, Dispatch(e)
  PROVE  BusInv'
  <1>0. TypeOK /\ RowsFollow /\ ListsFollow /\ InOnePlace /\ TrackerCounts
        /\ OneFinalizer /\ NoFalseDone /\ DeliveredOnce /\ NoSendOnClosed /\ (closed => stopped)
    BY DEF BusInv
  <1>r. reported[e] = {} /\ Matches[e] \ reported[e] = Matches[e]
    BY <1>0 DEF Dispatch, TrackerCounts
  <1>m. Matches[e] \in SUBSET Subs /\ Cardinality(Matches[e]) \in Nat /\ Matches[e] \ {} = Matches[e]
    BY MatchesFinite, FS_CardinalityType
  <1>1. TypeOK'
    BY <1>0, <1>m DEF Dispatch, TypeOK, Stages, Dispatching
  <1>2. RowsFollow'
    BY <1>0 DEF Dispatch, TypeOK, RowsFollow
  <1>3. ListsFollow'
    <2>1. CASE stopped
      BY <2>1, <1>0 DEF Dispatch, TypeOK, ListsFollow
    <2>2. CASE ~stopped
      <3>1. todo' = [todo EXCEPT ![e] = Matches[e]] /\ full' = full
        BY <2>2 DEF Dispatch
      <3>2. stage'[e] = (IF Matches[e] = {} THEN "vacuous" ELSE "first") /\ full[e] = {}
        BY <2>2, <1>0 DEF Dispatch, TypeOK, ListsFollow
      <3>3. \A x \in Events : x # e => stage'[x] = stage[x]
        BY <2>2, <1>0 DEF Dispatch, TypeOK
      <3> QED
        BY <1>0, <1>m, <3>1, <3>2, <3>3 DEF TypeOK, ListsFollow
    <2> QED
      BY <2>1, <2>2
  <1>4. InOnePlace'
    BY <1>0 DEF Dispatch, TypeOK, InOnePlace, Queued, Handling
  <1>5. TrackerCounts'
    <2>1. CASE stopped
      BY <2>1, <1>0, <1>r DEF Dispatch, TypeOK, TrackerCounts
    <2>2. CASE ~stopped
      <3>1. /\ remaining'[e] = Cardinality(Matches[e] \ reported[e])
            /\ \A x \in Events : x # e => remaining'[x] = remaining[x] /\ todo'[x] = todo[x]
                                          /\ stage'[x] = stage[x]
            /\ UNCHANGED <<full, reported, anyFailed, handled>>
        BY <2>2, <1>0, <1>r DEF Dispatch, TypeOK
      <3> QED
        BY <3>1, <1>0, <1>r DEF TrackerCounts
    <2> QED
      BY <2>1, <2>2
  <1>6. OneFinalizer'
    BY <1>0 DEF Dispatch, TypeOK, OneFinalizer
  <1>7. NoFalseDone'
    BY <1>0 DEF Dispatch, TypeOK, NoFalseDone
  <1>8. DeliveredOnce'
    BY <1>0 DEF Dispatch, TypeOK, DeliveredOnce, Queued, Handling
  <1>9. NoSendOnClosed' /\ (closed => stopped)'
    BY <1>0 DEF Dispatch, TypeOK, NoSendOnClosed, Dispatching
  <1> QED
    BY <1>1, <1>2, <1>3, <1>4, <1>5, <1>6, <1>7, <1>8, <1>9 DEF BusInv

\* The vacuous finalize.
LEMMA FinalizeVacuousKeeps ==
  ASSUME BusInv, NEW e \in Events, NEW w \in BOOLEAN, FinalizeVacuous(e, w)
  PROVE  BusInv'
  <1>0. TypeOK /\ RowsFollow /\ ListsFollow /\ InOnePlace /\ TrackerCounts
        /\ OneFinalizer /\ NoFalseDone /\ DeliveredOnce /\ NoSendOnClosed /\ (closed => stopped)
    BY DEF BusInv
  <1>1. TypeOK'
    BY <1>0 DEF FinalizeVacuous, TypeOK, Stages, Dispatching
  <1>2. RowsFollow'
    BY <1>0 DEF FinalizeVacuous, TypeOK, RowsFollow
  <1>3. ListsFollow'
    BY <1>0 DEF FinalizeVacuous, TypeOK, ListsFollow
  <1>4. InOnePlace'
    BY <1>0 DEF FinalizeVacuous, TypeOK, InOnePlace, Queued, Handling, RowsFollow
  <1>5. TrackerCounts'
    BY <1>0 DEF FinalizeVacuous, TypeOK, TrackerCounts, RowsFollow
  <1>6. OneFinalizer'
    BY <1>0 DEF FinalizeVacuous, TypeOK, OneFinalizer, RowsFollow, TrackerCounts
  <1>7. NoFalseDone'
    BY <1>0 DEF FinalizeVacuous, TypeOK, NoFalseDone, RowsFollow
  <1>8. DeliveredOnce'
    BY <1>0 DEF FinalizeVacuous, TypeOK, DeliveredOnce, Queued, Handling
  <1>9. NoSendOnClosed' /\ (closed => stopped)'
    BY <1>0 DEF FinalizeVacuous, TypeOK, NoSendOnClosed, Dispatching
  <1> QED
    BY <1>1, <1>2, <1>3, <1>4, <1>5, <1>6, <1>7, <1>8, <1>9 DEF BusInv

\* Giving up on a full queue.
LEMMA AbandonKeeps ==
  ASSUME BusInv, NEW e \in Events, Abandon(e)
  PROVE  BusInv'
  <1>0. TypeOK /\ RowsFollow /\ ListsFollow /\ InOnePlace /\ TrackerCounts
        /\ OneFinalizer /\ NoFalseDone /\ DeliveredOnce /\ NoSendOnClosed /\ (closed => stopped)
    BY DEF BusInv
  <1>1. TypeOK'
    BY <1>0 DEF Abandon, TypeOK, Stages, Dispatching
  <1>2. RowsFollow'
    BY <1>0 DEF Abandon, TypeOK, RowsFollow
  <1>3. ListsFollow'
    BY <1>0 DEF Abandon, TypeOK, ListsFollow
  <1>4. InOnePlace'
    BY <1>0 DEF Abandon, TypeOK, InOnePlace, Queued, Handling
  <1>5. TrackerCounts'
    BY <1>0 DEF Abandon, TypeOK, TrackerCounts, ListsFollow
  <1>6. OneFinalizer'
    BY <1>0 DEF Abandon, TypeOK, OneFinalizer
  <1>7. NoFalseDone'
    BY <1>0 DEF Abandon, TypeOK, NoFalseDone
  <1>8. DeliveredOnce'
    BY <1>0 DEF Abandon, TypeOK, DeliveredOnce, Queued, Handling
  <1>9. NoSendOnClosed' /\ (closed => stopped)'
    BY <1>0 DEF Abandon, TypeOK, NoSendOnClosed, Dispatching
  <1> QED
    BY <1>1, <1>2, <1>3, <1>4, <1>5, <1>6, <1>7, <1>8, <1>9 DEF BusInv

\* What an enqueue does to the queues.
LEMMA EnqueueEffect ==
  ASSUME TypeOK, DeliveredOnce, NEW e \in Events, NEW s \in Subs, ~Queued(e, s),
         queue' = [queue EXCEPT ![s] = Append(@, e)]
  PROVE  /\ queue' \in [Subs -> Seq(Events)]
         /\ \A x \in Events, t \in Subs : Queued(x, t)' <=> Queued(x, t) \/ (x = e /\ t = s)
         /\ \A t \in Subs : \A i, j \in 1..Len(queue'[t]) : queue'[t][i] = queue'[t][j] => i = j
  <1>1. queue[s] \in Seq(Events) /\ queue \in [Subs -> Seq(Events)]
    BY DEF TypeOK
  <1>2. queue'[s] = Append(queue[s], e) /\ \A t \in Subs : t # s => queue'[t] = queue[t]
    BY <1>1
  <1>3. \A t \in Subs : \A i, j \in 1..Len(queue[t]) : queue[t][i] = queue[t][j] => i = j
    BY DEF DeliveredOnce
  <1>4. \A x \in Events : Queued(x, s)' <=> Queued(x, s) \/ x = e
    BY <1>1, <1>2, Enqueued DEF Queued
  <1>5. \A x \in Events, t \in Subs : t # s => (Queued(x, t)' <=> Queued(x, t))
    BY <1>2 DEF Queued
  <1>6. \A i, j \in 1..Len(queue'[s]) : queue'[s][i] = queue'[s][j] => i = j
    BY <1>1, <1>2, <1>3, Enqueued DEF Queued
  <1>7. queue' \in [Subs -> Seq(Events)]
    BY <1>1, Enqueued
  <1> QED
    BY <1>2, <1>3, <1>4, <1>5, <1>6, <1>7

\* The first pass.
LEMMA OfferKeeps ==
  ASSUME BusInv, NEW e \in Events, Offer(e)
  PROVE  BusInv'
  <1>0. TypeOK /\ RowsFollow /\ ListsFollow /\ InOnePlace /\ TrackerCounts
        /\ OneFinalizer /\ NoFalseDone /\ DeliveredOnce /\ NoSendOnClosed /\ (closed => stopped)
    BY DEF BusInv
  <1>p. PICK s \in Subs :
          /\ IsLeast(s, todo[e])
          /\ todo' = [todo EXCEPT ![e] = @ \ {s}]
          /\ IF Room(s)
             THEN queue' = [queue EXCEPT ![s] = Append(@, e)] /\ UNCHANGED full
             ELSE full' = [full EXCEPT ![e] = @ \cup {s}] /\ UNCHANGED queue
          /\ stage' = [stage EXCEPT ![e] = IF todo[e] # {s} THEN "first"
                                          ELSE IF full'[e] = {} THEN "queued" ELSE "wait"]
    BY DEF Offer
  <1>u. /\ up /\ stage[e] = "first"
        /\ UNCHANGED <<rowVars, trackVars, subVars, lifeVars, recVars, handled>>
    BY DEF Offer
  <1>s. s \in todo[e] /\ s \in Matches[e] /\ s \notin reported[e] /\ s \notin full[e]
        /\ ~Queued(e, s) /\ ~Handling(e, s)
    BY <1>0, <1>p DEF IsLeast, ListsFollow, TrackerCounts, InOnePlace
  <1>q. /\ queue' \in [Subs -> Seq(Events)]
        /\ \A x \in Events, t \in Subs :
             Queued(x, t)' <=> Queued(x, t) \/ (Room(s) /\ x = e /\ t = s)
        /\ \A t \in Subs : \A i, j \in 1..Len(queue'[t]) : queue'[t][i] = queue'[t][j] => i = j
    <2>1. CASE Room(s)
      BY <2>1, <1>0, <1>p, <1>s, EnqueueEffect
    <2>2. CASE ~Room(s)
      BY <2>2, <1>0, <1>p DEF TypeOK, Queued, DeliveredOnce
    <2> QED
      BY <2>1, <2>2
  <1>f. full' \in [Events -> SUBSET Subs] /\ (\A x \in Events : x # e => full'[x] = full[x])
        /\ full'[e] = IF Room(s) THEN full[e] ELSE full[e] \cup {s}
    <2>1. CASE Room(s)
      BY <2>1, <1>0, <1>p DEF TypeOK
    <2>2. CASE ~Room(s)
      <3>1. full \in [Events -> SUBSET Subs] /\ full[e] \cup {s} \in SUBSET Subs
        BY <1>0 DEF TypeOK
      <3>2. full' = [full EXCEPT ![e] = full[e] \cup {s}]
        BY <2>2, <1>p
      <3> QED
        BY <2>2, <3>1, <3>2
    <2> QED
      BY <2>1, <2>2
  <1>g. /\ \A x \in Events : x # e => stage'[x] = stage[x] /\ todo'[x] = todo[x]
        /\ todo'[e] = todo[e] \ {s} /\ stage'[e] \in {"first", "queued", "wait"}
    BY <1>0, <1>p DEF TypeOK
  <1>h. \A x \in Events, t \in Subs : Handling(x, t)' <=> Handling(x, t)
    BY <1>u DEF Handling
  <1>1. TypeOK'
    BY <1>0, <1>p, <1>u, <1>q, <1>f DEF TypeOK, Stages, Dispatching
  <1>2. RowsFollow'
    BY <1>0, <1>p, <1>u DEF TypeOK, RowsFollow
  <1>3. ListsFollow'
    <2>1. stage'[e] = IF todo[e] # {s} THEN "first" ELSE IF full'[e] = {} THEN "queued" ELSE "wait"
      BY <1>0, <1>p DEF TypeOK
    <2>2. /\ todo[e] \subseteq Matches[e] /\ full[e] \subseteq Matches[e] /\ todo[e] \cap full[e] = {}
          /\ full[e] \subseteq full'[e] /\ full'[e] \subseteq full[e] \cup {s}
      BY <1>0, <1>f DEF ListsFollow
    <2>3. /\ todo'[e] \subseteq Matches[e] /\ full'[e] \subseteq Matches[e] /\ todo'[e] \cap full'[e] = {}
          /\ todo'[e] = {} <=> todo[e] = {s}
      BY <1>g, <1>s, <2>2
    <2>4. ASSUME NEW x \in Events, x # e
          PROVE  UNCHANGED <<todo[x], full[x], stage[x]>>
      BY <1>f, <1>g, <2>4
    <2> QED
      BY <1>0, <2>1, <2>3, <2>4 DEF ListsFollow
  <1>4. InOnePlace'
    BY <1>0, <1>u, <1>f, <1>g, <1>s, <1>q, <1>h DEF InOnePlace, RowsFollow
  <1>5. TrackerCounts'
    BY <1>0, <1>p, <1>u, <1>f, <1>s DEF TypeOK, TrackerCounts
  <1>6. OneFinalizer'
    BY <1>0, <1>u DEF TypeOK, OneFinalizer
  <1>7. NoFalseDone'
    BY <1>0, <1>u DEF TypeOK, NoFalseDone
  <1>8. DeliveredOnce'
    BY <1>0, <1>u, <1>q, <1>h, <1>s DEF TypeOK, DeliveredOnce
  <1>9. NoSendOnClosed' /\ (closed => stopped)'
    BY <1>0, <1>u DEF TypeOK, NoSendOnClosed, Dispatching
  <1> QED
    BY <1>1, <1>2, <1>3, <1>4, <1>5, <1>6, <1>7, <1>8, <1>9 DEF BusInv

\* The second pass.
LEMMA OfferBlockingKeeps ==
  ASSUME BusInv, NEW e \in Events, OfferBlocking(e)
  PROVE  BusInv'
  <1>0. TypeOK /\ RowsFollow /\ ListsFollow /\ InOnePlace /\ TrackerCounts
        /\ OneFinalizer /\ NoFalseDone /\ DeliveredOnce /\ NoSendOnClosed /\ (closed => stopped)
    BY DEF BusInv
  <1>p. PICK s \in Subs :
          /\ IsLeast(s, full[e])
          /\ queue' = [queue EXCEPT ![s] = Append(@, e)]
          /\ full' = [full EXCEPT ![e] = @ \ {s}]
          /\ stage' = [stage EXCEPT ![e] = IF full[e] = {s} THEN "queued" ELSE "wait"]
    BY DEF OfferBlocking
  <1>u. /\ up /\ stage[e] = "wait"
        /\ UNCHANGED <<rowVars, todo, trackVars, subVars, lifeVars, recVars, handled>>
    BY DEF OfferBlocking
  <1>s. s \in full[e] /\ s \in Matches[e] /\ s \notin reported[e] /\ todo[e] = {}
        /\ ~Queued(e, s) /\ ~Handling(e, s)
    BY <1>0, <1>p, <1>u DEF IsLeast, ListsFollow, TrackerCounts, InOnePlace
  <1>q. /\ queue' \in [Subs -> Seq(Events)]
        /\ \A x \in Events, t \in Subs : Queued(x, t)' <=> Queued(x, t) \/ (x = e /\ t = s)
        /\ \A t \in Subs : \A i, j \in 1..Len(queue'[t]) : queue'[t][i] = queue'[t][j] => i = j
    BY <1>0, <1>p, <1>s, EnqueueEffect
  <1>h. \A x \in Events, t \in Subs : Handling(x, t)' <=> Handling(x, t)
    BY <1>u DEF Handling
  <1>1. TypeOK'
    BY <1>0, <1>p, <1>u, <1>q DEF TypeOK, Stages, Dispatching
  <1>2. RowsFollow'
    BY <1>0, <1>p, <1>u DEF TypeOK, RowsFollow
  <1>3. ListsFollow'
    BY <1>0, <1>p, <1>u, <1>s DEF TypeOK, ListsFollow
  <1>4. InOnePlace'
    BY <1>0, <1>p, <1>u, <1>s, <1>q, <1>h DEF TypeOK, InOnePlace, RowsFollow
  <1>5. TrackerCounts'
    BY <1>0, <1>p, <1>u, <1>s DEF TypeOK, TrackerCounts
  <1>6. OneFinalizer'
    BY <1>0, <1>u DEF TypeOK, OneFinalizer
  <1>7. NoFalseDone'
    BY <1>0, <1>u DEF TypeOK, NoFalseDone
  <1>8. DeliveredOnce'
    BY <1>0, <1>u, <1>q, <1>h, <1>s DEF TypeOK, DeliveredOnce
  <1>9. NoSendOnClosed' /\ (closed => stopped)'
    BY <1>0, <1>u DEF TypeOK, NoSendOnClosed, Dispatching
  <1> QED
    BY <1>1, <1>2, <1>3, <1>4, <1>5, <1>6, <1>7, <1>8, <1>9 DEF BusInv

\* A subscriber takes the next event.
LEMMA ConsumeKeeps ==
  ASSUME BusInv, NEW s \in Subs, Consume(s)
  PROVE  BusInv'
  <1>0. TypeOK /\ RowsFollow /\ ListsFollow /\ InOnePlace /\ TrackerCounts
        /\ OneFinalizer /\ NoFalseDone /\ DeliveredOnce /\ NoSendOnClosed /\ (closed => stopped)
    BY DEF BusInv
  <1> DEFINE h == Head(queue[s])
  <1>u. /\ at[s] = "idle" /\ queue[s] # <<>> /\ queue[s] \in Seq(Events)
        /\ at' = [at EXCEPT ![s] = "handle"] /\ holds' = [holds EXCEPT ![s] = h]
        /\ queue' = [queue EXCEPT ![s] = Tail(@)]
        /\ UNCHANGED <<rowVars, dispVars, trackVars, lifeVars, recVars, handled>>
    BY <1>0 DEF Consume, TypeOK
  <1>d. /\ Tail(queue[s]) \in Seq(Events) /\ h \in Events /\ Queued(h, s)
        /\ \A x : (\E i \in 1..Len(Tail(queue[s])) : Tail(queue[s])[i] = x) <=> x # h /\ Queued(x, s)
        /\ \A i, j \in 1..Len(Tail(queue[s])) : Tail(queue[s])[i] = Tail(queue[s])[j] => i = j
    BY <1>0, <1>u, Dequeued DEF DeliveredOnce, Queued
  <1>e. queue'[s] = Tail(queue[s]) /\ \A t \in Subs : t # s => queue'[t] = queue[t]
    BY <1>0, <1>u DEF TypeOK
  <1>q. /\ queue' \in [Subs -> Seq(Events)]
        /\ \A x \in Events, t \in Subs : Queued(x, t)' <=> Queued(x, t) /\ ~(x = h /\ t = s)
        /\ \A t \in Subs : \A i, j \in 1..Len(queue'[t]) : queue'[t][i] = queue'[t][j] => i = j
    <2>1. queue' \in [Subs -> Seq(Events)]
      BY <1>0, <1>u, <1>d DEF TypeOK
    <2>2. \A x \in Events, t \in Subs : Queued(x, t)' <=> Queued(x, t) /\ ~(x = h /\ t = s)
      <3> HIDE DEF h
      <3>1. ASSUME NEW x \in Events PROVE Queued(x, s)' <=> Queued(x, s) /\ x # h
        BY <1>d, <1>e DEF Queued
      <3>2. ASSUME NEW x \in Events, NEW t \in Subs, t # s PROVE Queued(x, t)' <=> Queued(x, t)
        BY <1>e, <3>2 DEF Queued
      <3> QED
        BY <3>1, <3>2
    <2>3. \A t \in Subs : \A i, j \in 1..Len(queue'[t]) : queue'[t][i] = queue'[t][j] => i = j
      BY <1>0, <1>d, <1>e DEF DeliveredOnce
    <2> QED
      BY <2>1, <2>2, <2>3
  <1>h. \A x \in Events, t \in Subs : Handling(x, t)' <=> Handling(x, t) \/ (x = h /\ t = s)
    BY <1>0, <1>u DEF Handling, TypeOK
  <1>t. holds' \in [Subs -> 0..MaxEvents]
    BY <1>0, <1>u, <1>d, BusConstants DEF TypeOK, Events
  <1>1. TypeOK'
    BY <1>0, <1>u, <1>q, <1>t DEF TypeOK
  <1>2. RowsFollow'
    BY <1>0, <1>u DEF TypeOK, RowsFollow
  <1>3. ListsFollow'
    BY <1>0, <1>u DEF TypeOK, ListsFollow
  <1>4. InOnePlace'
    BY <1>0, <1>u, <1>q, <1>h, <1>d DEF TypeOK, InOnePlace
  <1>5. TrackerCounts'
    BY <1>0, <1>u DEF TypeOK, TrackerCounts
  <1>6. OneFinalizer'
    BY <1>0, <1>u, <1>d DEF TypeOK, OneFinalizer
  <1>7. NoFalseDone'
    BY <1>0, <1>u DEF TypeOK, NoFalseDone
  <1>8. DeliveredOnce'
    BY <1>0, <1>u, <1>q, <1>h, <1>d DEF TypeOK, DeliveredOnce, InOnePlace
  <1>9. NoSendOnClosed' /\ (closed => stopped)'
    BY <1>0, <1>u DEF TypeOK, NoSendOnClosed, Dispatching
  <1> QED
    BY <1>1, <1>2, <1>3, <1>4, <1>5, <1>6, <1>7, <1>8, <1>9 DEF BusInv

\* The handler returns.
LEMMA DeliverKeeps ==
  ASSUME BusInv, NEW s \in Subs, NEW ok \in BOOLEAN, Deliver(s, ok)
  PROVE  BusInv'
  <1>0. TypeOK /\ RowsFollow /\ ListsFollow /\ InOnePlace /\ TrackerCounts
        /\ OneFinalizer /\ NoFalseDone /\ DeliveredOnce /\ NoSendOnClosed /\ (closed => stopped)
    BY DEF BusInv
  <1>1. TypeOK'
    BY <1>0 DEF Deliver, TypeOK, Stages, Dispatching
  <1>2. RowsFollow'
    BY <1>0 DEF Deliver, TypeOK, RowsFollow
  <1>3. ListsFollow'
    BY <1>0 DEF Deliver, TypeOK, ListsFollow
  <1>4. InOnePlace'
    <2>1. UNCHANGED <<row, stage, todo, full, reported, queue, holds>>
      BY DEF Deliver
    <2>2. at[s] = "handle" /\ at'[s] \in {"report", "fail"} /\ \A t \in Subs : t # s => at'[t] = at[t]
      BY <1>0 DEF Deliver, TypeOK
    <2>3. \A x \in Events, t \in Subs : Handling(x, t)' => Handling(x, t)
      BY <2>1, <2>2 DEF Handling
    <2>4. \A x \in Events, t \in Subs : Queued(x, t)' => Queued(x, t)
      BY <2>1 DEF Queued
    <2> QED
      BY <1>0, <2>1, <2>3, <2>4 DEF InOnePlace
  <1>5. TrackerCounts'
    <2>1. UNCHANGED <<stage, todo, full, reported, remaining, anyFailed, row>>
      BY DEF Deliver
    <2>2. \A e \in Events : handled[e] \subseteq handled'[e]
      BY <1>0 DEF Deliver, TypeOK
    <2> QED
      BY <1>0, <2>1, <2>2 DEF TrackerCounts
  <1>6. OneFinalizer'
    BY <1>0 DEF Deliver, TypeOK, OneFinalizer
  <1>7. NoFalseDone'
    BY <1>0 DEF Deliver, TypeOK, NoFalseDone, OneFinalizer
  <1>8. DeliveredOnce'
    BY <1>0 DEF Deliver, TypeOK, DeliveredOnce, Queued, Handling
  <1>9. NoSendOnClosed' /\ (closed => stopped)'
    BY <1>0 DEF Deliver, TypeOK, NoSendOnClosed, Dispatching
  <1> QED
    BY <1>1, <1>2, <1>3, <1>4, <1>5, <1>6, <1>7, <1>8, <1>9 DEF BusInv

\* An error is stored.
LEMMA ReportErrorKeeps ==
  ASSUME BusInv, NEW s \in Subs, ReportError(s)
  PROVE  BusInv'
  <1>0. TypeOK /\ RowsFollow /\ ListsFollow /\ InOnePlace /\ TrackerCounts
        /\ OneFinalizer /\ NoFalseDone /\ DeliveredOnce /\ NoSendOnClosed /\ (closed => stopped)
    BY DEF BusInv
  <1>a. holds[s] \in Events /\ anyFailed'[holds[s]] /\ \A x \in Events : ~anyFailed'[x] => ~anyFailed[x]
    BY <1>0 DEF ReportError, TypeOK, OneFinalizer
  <1>1. TypeOK'
    BY <1>0 DEF ReportError, TypeOK, Stages, Dispatching
  <1>2. RowsFollow'
    BY <1>0 DEF ReportError, TypeOK, RowsFollow
  <1>3. ListsFollow'
    BY <1>0 DEF ReportError, TypeOK, ListsFollow
  <1>4. InOnePlace'
    BY <1>0 DEF ReportError, TypeOK, InOnePlace, Queued, Handling
  <1>5. TrackerCounts'
    BY <1>0, <1>a DEF ReportError, TypeOK, TrackerCounts
  <1>6. OneFinalizer'
    BY <1>0, <1>a DEF ReportError, TypeOK, OneFinalizer
  <1>7. NoFalseDone'
    BY <1>0 DEF ReportError, TypeOK, NoFalseDone
  <1>8. DeliveredOnce'
    BY <1>0 DEF ReportError, TypeOK, DeliveredOnce, Queued, Handling
  <1>9. NoSendOnClosed' /\ (closed => stopped)'
    BY <1>0 DEF ReportError, TypeOK, NoSendOnClosed, Dispatching
  <1> QED
    BY <1>1, <1>2, <1>3, <1>4, <1>5, <1>6, <1>7, <1>8, <1>9 DEF BusInv

\* A subscriber reports.
LEMMA ReportKeeps ==
  ASSUME BusInv, NEW s \in Subs, Report(s)
  PROVE  BusInv'
  <1>0. TypeOK /\ RowsFollow /\ ListsFollow /\ InOnePlace /\ TrackerCounts
        /\ OneFinalizer /\ NoFalseDone /\ DeliveredOnce /\ NoSendOnClosed /\ (closed => stopped)
    BY DEF BusInv
  <1> DEFINE e == holds[s]
  <1>u. /\ at[s] = "report" /\ e \in Events
        /\ remaining' = [remaining EXCEPT ![e] = @ - 1]
        /\ reported' = [reported EXCEPT ![e] = @ \cup {s}]
        /\ at' = [at EXCEPT ![s] = IF remaining[e] = 1 THEN "finalize" ELSE "idle"]
        /\ UNCHANGED <<rowVars, dispVars, anyFailed, queue, holds, lifeVars, recVars, handled>>
    BY <1>0 DEF Report, OneFinalizer
  <1>s. /\ s \in Matches[e] /\ s \notin todo[e] \cup full[e] \cup reported[e] /\ row[e] = "pending"
        /\ stage[e] \notin {"none", "enter", "refused", "vacuous"} /\ ~Queued(e, s)
    BY <1>0, <1>u DEF InOnePlace, DeliveredOnce, Handling
  <1>c. remaining[e] = Cardinality(Matches[e] \ reported[e])
    BY <1>0, <1>s, <1>u DEF TrackerCounts, TypeOK, Stages, Dispatching
  <1>r. /\ remaining[e] \in Nat \ {0}
        /\ Cardinality(Matches[e] \ (reported[e] \cup {s})) = remaining[e] - 1
        /\ remaining[e] = 1 => Matches[e] \ (reported[e] \cup {s}) = {}
    BY <1>c, <1>s, <1>u, MatchesFinite, CountDown
  <1>w. /\ remaining'[e] = remaining[e] - 1 /\ reported'[e] = reported[e] \cup {s}
        /\ \A x \in Events : x # e => remaining'[x] = remaining[x] /\ reported'[x] = reported[x]
    BY <1>0, <1>u DEF TypeOK
  <1>a. /\ at'[s] = IF remaining[e] = 1 THEN "finalize" ELSE "idle"
        /\ \A t \in Subs : t # s => at'[t] = at[t]
    BY <1>0, <1>u DEF TypeOK
  <1>q. \A x \in Events, t \in Subs : Queued(x, t)' <=> Queued(x, t)
    BY <1>u DEF Queued
  <1>h. \A x \in Events, t \in Subs : Handling(x, t)' => Handling(x, t) /\ t # s
    BY <1>u, <1>a DEF Handling
  <1>1. TypeOK'
    <2>1. remaining' \in [Events -> Nat] /\ reported' \in [Events -> SUBSET Subs]
      BY <1>0, <1>u, <1>r DEF TypeOK
    <2> QED
      BY <2>1, <1>0, <1>u DEF TypeOK
  <1>2. RowsFollow'
    BY <1>0, <1>u DEF RowsFollow
  <1>3. ListsFollow'
    BY <1>0, <1>u DEF ListsFollow
  <1>4. InOnePlace'
    <2> SUFFICES ASSUME NEW x \in Events, NEW t \in Subs, Queued(x, t)' \/ Handling(x, t)'
                 PROVE  /\ t \in Matches[x] /\ t \notin todo[x] \cup full[x] \cup reported'[x]
                        /\ row[x] = "pending"
                        /\ stage[x] \notin {"none", "enter", "refused", "vacuous"}
      BY <1>u DEF InOnePlace
    <2>1. Queued(x, t) \/ Handling(x, t)
      BY <1>q, <1>h
    <2>2. ~(x = e /\ t = s)
      BY <1>q, <1>h, <1>s
    <2> QED
      BY <2>1, <2>2, <1>0, <1>w DEF InOnePlace
  <1>5. TrackerCounts'
    <2> SUFFICES ASSUME NEW x \in Events
                 PROVE  /\ reported'[x] \subseteq Matches[x] \ (todo[x] \cup full[x])
                        /\ stage[x] \in {"none", "enter", "refused", "vacuous"} => reported'[x] = {}
                        /\ stage[x] \in {"vacuous", "first", "wait", "queued", "abandoned"} =>
                             remaining'[x] = Cardinality(Matches[x] \ reported'[x])
                        /\ ~anyFailed[x] => reported'[x] \subseteq handled[x]
      BY <1>u DEF TrackerCounts
    <2>1. CASE x # e
      BY <2>1, <1>0, <1>w DEF TrackerCounts
    <2>2. CASE x = e
      <3>1. s \in handled[e] \/ anyFailed[e]
        BY <1>0, <1>u DEF OneFinalizer
      <3>2. ~anyFailed[e] => reported'[e] \subseteq handled[e]
        BY <3>1, <1>0, <1>u, <1>w DEF TrackerCounts
      <3> QED
        BY <2>2, <3>2, <1>0, <1>w, <1>r, <1>s DEF TrackerCounts
    <2> QED
      BY <2>1, <2>2
  <1>6. OneFinalizer'
    <2> SUFFICES ASSUME NEW t \in Subs
                 PROVE  /\ at'[t] = "report" => t \in handled[holds[t]] \/ anyFailed[holds[t]]
                        /\ at'[t] # "idle" => holds[t] \in Events
                        /\ at'[t] = "finalize" =>
                             /\ t \in reported'[holds[t]]
                             /\ reported'[holds[t]] = Matches[holds[t]]
                             /\ row[holds[t]] = "pending"
                             /\ \A v \in Subs : at'[v] = "finalize" /\ holds[v] = holds[t] => v = t
      BY <1>u DEF OneFinalizer
    <2>1. \A v \in Subs : at[v] = "finalize" => holds[v] # e
      BY <1>0, <1>s DEF OneFinalizer
    <2>2. CASE t # s
      BY <2>1, <2>2, <1>0, <1>a, <1>w DEF OneFinalizer
    <2>3. CASE t = s
      <3>1. at'[s] = "finalize" => reported'[e] = Matches[e] /\ s \in reported'[e]
        <4>1. at'[s] = "finalize" => Matches[e] \subseteq reported'[e]
          BY <1>a, <1>r, <1>w
        <4>2. reported'[e] \subseteq Matches[e]
          BY <1>0, <1>w, <1>s, <1>u DEF TrackerCounts
        <4> QED
          BY <4>1, <4>2, <1>w
      <3> QED
        BY <2>1, <2>3, <3>1, <1>a, <1>u, <1>s
    <2> QED
      BY <2>2, <2>3
  <1>7. NoFalseDone'
    BY <1>0, <1>u DEF NoFalseDone
  <1>8. DeliveredOnce'
    <2>1. \A x \in Events, t \in Subs : Queued(x, t)' => ~Handling(x, t)' /\ t \notin reported'[x]
      BY <1>0, <1>q, <1>h, <1>w, <1>s DEF DeliveredOnce
    <2> QED
      BY <2>1, <1>0, <1>u DEF DeliveredOnce
  <1>9. NoSendOnClosed' /\ (closed => stopped)'
    BY <1>0, <1>u DEF NoSendOnClosed
  <1> QED
    BY <1>1, <1>2, <1>3, <1>4, <1>5, <1>6, <1>7, <1>8, <1>9 DEF BusInv

\* The last reporter records the outcome.
LEMMA FinalizeKeeps ==
  ASSUME BusInv, NEW s \in Subs, NEW w \in BOOLEAN, Finalize(s, w)
  PROVE  BusInv'
  <1>0. TypeOK /\ RowsFollow /\ ListsFollow /\ InOnePlace /\ TrackerCounts
        /\ OneFinalizer /\ NoFalseDone /\ DeliveredOnce /\ NoSendOnClosed /\ (closed => stopped)
    BY DEF BusInv
  <1> DEFINE e == holds[s]
  <1>a. at[s] = "finalize" /\ e \in Events /\ s \in reported[e] /\ reported[e] = Matches[e]
    BY <1>0 DEF Finalize, OneFinalizer
  <1>b. stage[e] \notin {"none", "enter", "refused", "vacuous"}
    BY <1>0, <1>a DEF TrackerCounts
  <1>c. todo[e] = {} /\ full[e] = {} /\ stage[e] \notin {"first", "wait"}
    BY <1>0, <1>a DEF TrackerCounts, ListsFollow
  <1>d. \A t \in Subs : ~Queued(e, t) /\ ~Handling(e, t)
    BY <1>0, <1>a DEF InOnePlace
  <1>e. ~anyFailed[e] => Matches[e] \subseteq handled[e]
    BY <1>0, <1>a DEF TrackerCounts
  <1>f. /\ at[s] = "finalize" /\ e \in Events /\ s \in reported[e] /\ reported[e] = Matches[e]
        /\ stage[e] \notin {"none", "enter", "refused", "vacuous", "first", "wait"}
        /\ \A t \in Subs : ~Queued(e, t) /\ ~Handling(e, t)
        /\ ~anyFailed[e] => Matches[e] \subseteq handled[e]
    BY <1>a, <1>b, <1>c, <1>d, <1>e
  <1>1. TypeOK'
    BY <1>0, <1>f DEF Finalize, TypeOK, Stages, Dispatching
  <1>2. RowsFollow'
    BY <1>0, <1>f DEF Finalize, TypeOK, RowsFollow
  <1>3. ListsFollow'
    BY <1>0 DEF Finalize, TypeOK, ListsFollow
  <1>4. InOnePlace'
    BY <1>0, <1>f DEF Finalize, TypeOK, InOnePlace, Queued, Handling
  <1>5. TrackerCounts'
    BY <1>0 DEF Finalize, TypeOK, TrackerCounts
  <1>6. OneFinalizer'
    BY <1>0, <1>f DEF Finalize, TypeOK, OneFinalizer
  <1>7. NoFalseDone'
    BY <1>0, <1>f DEF Finalize, TypeOK, NoFalseDone
  <1>8. DeliveredOnce'
    BY <1>0 DEF Finalize, TypeOK, DeliveredOnce, Queued, Handling
  <1>9. NoSendOnClosed' /\ (closed => stopped)'
    BY <1>0 DEF Finalize, TypeOK, NoSendOnClosed, Dispatching
  <1> QED
    BY <1>1, <1>2, <1>3, <1>4, <1>5, <1>6, <1>7, <1>8, <1>9 DEF BusInv

\* Recovery reads the pending rows.
LEMMA ListPendingKeeps ==
  ASSUME BusInv, ListPending
  PROVE  BusInv'
  <1>0. TypeOK /\ RowsFollow /\ ListsFollow /\ InOnePlace /\ TrackerCounts
        /\ OneFinalizer /\ NoFalseDone /\ DeliveredOnce /\ NoSendOnClosed /\ (closed => stopped)
    BY DEF BusInv
  <1>1. TypeOK'
    BY <1>0 DEF ListPending, TypeOK, Stages, Dispatching
  <1>2. RowsFollow'
    BY <1>0 DEF ListPending, TypeOK, RowsFollow, ListPending
  <1>3. ListsFollow'
    BY <1>0 DEF ListPending, TypeOK, ListsFollow
  <1>4. InOnePlace'
    BY <1>0 DEF ListPending, TypeOK, InOnePlace, Queued, Handling
  <1>5. TrackerCounts'
    BY <1>0 DEF ListPending, TypeOK, TrackerCounts
  <1>6. OneFinalizer'
    BY <1>0 DEF ListPending, TypeOK, OneFinalizer
  <1>7. NoFalseDone'
    BY <1>0 DEF ListPending, TypeOK, NoFalseDone
  <1>8. DeliveredOnce'
    BY <1>0 DEF ListPending, TypeOK, DeliveredOnce, Queued, Handling
  <1>9. NoSendOnClosed' /\ (closed => stopped)'
    BY <1>0 DEF ListPending, TypeOK, NoSendOnClosed, Dispatching
  <1> QED
    BY <1>1, <1>2, <1>3, <1>4, <1>5, <1>6, <1>7, <1>8, <1>9 DEF BusInv

\* Recovery re-dispatches a row.
LEMMA RedispatchKeeps ==
  ASSUME BusInv, Redispatch
  PROVE  BusInv'
  <1>0. TypeOK /\ RowsFollow /\ ListsFollow /\ InOnePlace /\ TrackerCounts
        /\ OneFinalizer /\ NoFalseDone /\ DeliveredOnce /\ NoSendOnClosed /\ (closed => stopped)
    BY DEF BusInv
  <1>p. PICK e \in Events :
          /\ stage[e] = "none" /\ row[e] = "pending"
          /\ stage' = [stage EXCEPT ![e] = "enter"] /\ backlog' = backlog \ {e}
    BY <1>0 DEF Redispatch, IsLeast, RowsFollow
  <1>1. TypeOK'
    BY <1>0, <1>p DEF Redispatch, TypeOK, Stages, Dispatching
  <1>2. RowsFollow'
    BY <1>0, <1>p DEF Redispatch, TypeOK, RowsFollow, Recovered
  <1>3. ListsFollow'
    BY <1>0, <1>p DEF Redispatch, TypeOK, ListsFollow
  <1>4. InOnePlace'
    BY <1>0, <1>p DEF Redispatch, TypeOK, InOnePlace, Queued, Handling, RowsFollow
  <1>5. TrackerCounts'
    BY <1>0, <1>p DEF Redispatch, TypeOK, TrackerCounts
  <1>6. OneFinalizer'
    BY <1>0 DEF Redispatch, TypeOK, OneFinalizer
  <1>7. NoFalseDone'
    BY <1>0 DEF Redispatch, TypeOK, NoFalseDone
  <1>8. DeliveredOnce'
    BY <1>0 DEF Redispatch, TypeOK, DeliveredOnce, Queued, Handling
  <1>9. NoSendOnClosed' /\ (closed => stopped)'
    BY <1>0, <1>p DEF Redispatch, TypeOK, NoSendOnClosed, Dispatching, RowsFollow
  <1> QED
    BY <1>1, <1>2, <1>3, <1>4, <1>5, <1>6, <1>7, <1>8, <1>9 DEF BusInv

\* Start returns.
LEMMA StartReturnsKeeps ==
  ASSUME BusInv, StartReturns
  PROVE  BusInv'
  <1>0. TypeOK /\ RowsFollow /\ ListsFollow /\ InOnePlace /\ TrackerCounts
        /\ OneFinalizer /\ NoFalseDone /\ DeliveredOnce /\ NoSendOnClosed /\ (closed => stopped)
    BY DEF BusInv
  <1>1. TypeOK'
    BY <1>0 DEF StartReturns, TypeOK, Stages, Dispatching
  <1>2. RowsFollow'
    BY <1>0 DEF StartReturns, TypeOK, RowsFollow
  <1>3. ListsFollow'
    BY <1>0 DEF StartReturns, TypeOK, ListsFollow
  <1>4. InOnePlace'
    BY <1>0 DEF StartReturns, TypeOK, InOnePlace, Queued, Handling
  <1>5. TrackerCounts'
    BY <1>0 DEF StartReturns, TypeOK, TrackerCounts
  <1>6. OneFinalizer'
    BY <1>0 DEF StartReturns, TypeOK, OneFinalizer
  <1>7. NoFalseDone'
    BY <1>0 DEF StartReturns, TypeOK, NoFalseDone
  <1>8. DeliveredOnce'
    BY <1>0 DEF StartReturns, TypeOK, DeliveredOnce, Queued, Handling
  <1>9. NoSendOnClosed' /\ (closed => stopped)'
    BY <1>0 DEF StartReturns, TypeOK, NoSendOnClosed, Dispatching
  <1> QED
    BY <1>1, <1>2, <1>3, <1>4, <1>5, <1>6, <1>7, <1>8, <1>9 DEF BusInv

\* Stop.
LEMMA StopKeeps ==
  ASSUME BusInv, Stop
  PROVE  BusInv'
  <1>0. TypeOK /\ RowsFollow /\ ListsFollow /\ InOnePlace /\ TrackerCounts
        /\ OneFinalizer /\ NoFalseDone /\ DeliveredOnce /\ NoSendOnClosed /\ (closed => stopped)
    BY DEF BusInv
  <1>1. TypeOK'
    BY <1>0 DEF Stop, TypeOK, Stages, Dispatching
  <1>2. RowsFollow'
    BY <1>0 DEF Stop, TypeOK, RowsFollow
  <1>3. ListsFollow'
    BY <1>0 DEF Stop, TypeOK, ListsFollow
  <1>4. InOnePlace'
    BY <1>0 DEF Stop, TypeOK, InOnePlace, Queued, Handling
  <1>5. TrackerCounts'
    BY <1>0 DEF Stop, TypeOK, TrackerCounts
  <1>6. OneFinalizer'
    BY <1>0 DEF Stop, TypeOK, OneFinalizer
  <1>7. NoFalseDone'
    BY <1>0 DEF Stop, TypeOK, NoFalseDone
  <1>8. DeliveredOnce'
    BY <1>0 DEF Stop, TypeOK, DeliveredOnce, Queued, Handling
  <1>9. NoSendOnClosed' /\ (closed => stopped)'
    BY <1>0 DEF Stop, TypeOK, NoSendOnClosed, Dispatching
  <1> QED
    BY <1>1, <1>2, <1>3, <1>4, <1>5, <1>6, <1>7, <1>8, <1>9 DEF BusInv

\* The queues are closed.
LEMMA CloseQueuesKeeps ==
  ASSUME BusInv, CloseQueues
  PROVE  BusInv'
  <1>0. TypeOK /\ RowsFollow /\ ListsFollow /\ InOnePlace /\ TrackerCounts
        /\ OneFinalizer /\ NoFalseDone /\ DeliveredOnce /\ NoSendOnClosed /\ (closed => stopped)
    BY DEF BusInv
  <1>1. TypeOK'
    BY <1>0 DEF CloseQueues, TypeOK, Stages, Dispatching
  <1>2. RowsFollow'
    BY <1>0 DEF CloseQueues, TypeOK, RowsFollow
  <1>3. ListsFollow'
    BY <1>0 DEF CloseQueues, TypeOK, ListsFollow
  <1>4. InOnePlace'
    BY <1>0 DEF CloseQueues, TypeOK, InOnePlace, Queued, Handling
  <1>5. TrackerCounts'
    BY <1>0 DEF CloseQueues, TypeOK, TrackerCounts
  <1>6. OneFinalizer'
    BY <1>0 DEF CloseQueues, TypeOK, OneFinalizer
  <1>7. NoFalseDone'
    BY <1>0 DEF CloseQueues, TypeOK, NoFalseDone
  <1>8. DeliveredOnce'
    BY <1>0 DEF CloseQueues, TypeOK, DeliveredOnce, Queued, Handling
  <1>9. NoSendOnClosed' /\ (closed => stopped)'
    BY <1>0 DEF CloseQueues, TypeOK, NoSendOnClosed, Dispatching
  <1> QED
    BY <1>1, <1>2, <1>3, <1>4, <1>5, <1>6, <1>7, <1>8, <1>9 DEF BusInv

\* The process ends.
LEMMA ProcessEndsKeeps ==
  ASSUME BusInv, ProcessEnds
  PROVE  BusInv'
  <1>0. TypeOK /\ RowsFollow /\ ListsFollow /\ InOnePlace /\ TrackerCounts
        /\ OneFinalizer /\ NoFalseDone /\ DeliveredOnce /\ NoSendOnClosed /\ (closed => stopped)
    BY DEF BusInv
  <1>q. queue' \in [Subs -> Seq(Events)] /\ \A s \in Subs : Len(queue'[s]) = 0 /\ at'[s] = "idle"
    BY DEF ProcessEnds
  <1>z. 0 \in 0..MaxEvents
    BY BusConstants
  <1>1. TypeOK'
    BY <1>0, <1>q, <1>z DEF ProcessEnds, TypeOK, Stages, Dispatching, NoSubs, NoDispatch
  <1>2. RowsFollow'
    BY <1>0 DEF ProcessEnds, TypeOK, RowsFollow, NoSubs, NoDispatch
  <1>3. ListsFollow'
    BY <1>0 DEF ProcessEnds, TypeOK, ListsFollow, NoSubs, NoDispatch
  <1>4. InOnePlace'
    BY <1>0, <1>q DEF ProcessEnds, TypeOK, InOnePlace, Queued, Handling, NoSubs, NoDispatch
  <1>5. TrackerCounts'
    BY <1>0 DEF ProcessEnds, TypeOK, TrackerCounts, NoSubs, NoDispatch
  <1>6. OneFinalizer'
    BY <1>0, <1>q DEF ProcessEnds, TypeOK, OneFinalizer
  <1>7. NoFalseDone'
    BY <1>0 DEF ProcessEnds, TypeOK, NoFalseDone
  <1>8. DeliveredOnce'
    BY <1>0, <1>q DEF ProcessEnds, TypeOK, DeliveredOnce, Queued, Handling, NoSubs, NoDispatch
  <1>9. NoSendOnClosed' /\ (closed => stopped)'
    BY <1>0 DEF ProcessEnds, TypeOK, NoSendOnClosed, Dispatching
  <1> QED
    BY <1>1, <1>2, <1>3, <1>4, <1>5, <1>6, <1>7, <1>8, <1>9 DEF BusInv

\* The next process starts.
LEMMA BootKeeps ==
  ASSUME BusInv, Boot
  PROVE  BusInv'
  <1>0. TypeOK /\ RowsFollow /\ ListsFollow /\ InOnePlace /\ TrackerCounts
        /\ OneFinalizer /\ NoFalseDone /\ DeliveredOnce /\ NoSendOnClosed /\ (closed => stopped)
    BY DEF BusInv
  <1>1. TypeOK'
    BY <1>0 DEF Boot, TypeOK, Stages, Dispatching
  <1>2. RowsFollow'
    BY <1>0 DEF Boot, TypeOK, RowsFollow
  <1>3. ListsFollow'
    BY <1>0 DEF Boot, TypeOK, ListsFollow
  <1>4. InOnePlace'
    BY <1>0 DEF Boot, TypeOK, InOnePlace, Queued, Handling
  <1>5. TrackerCounts'
    BY <1>0 DEF Boot, TypeOK, TrackerCounts
  <1>6. OneFinalizer'
    BY <1>0 DEF Boot, TypeOK, OneFinalizer
  <1>7. NoFalseDone'
    BY <1>0 DEF Boot, TypeOK, NoFalseDone
  <1>8. DeliveredOnce'
    BY <1>0 DEF Boot, TypeOK, DeliveredOnce, Queued, Handling
  <1>9. NoSendOnClosed' /\ (closed => stopped)'
    BY <1>0 DEF Boot, TypeOK, NoSendOnClosed, Dispatching
  <1> QED
    BY <1>1, <1>2, <1>3, <1>4, <1>5, <1>6, <1>7, <1>8, <1>9 DEF BusInv

\* Every step keeps the invariant.
LEMMA BusStep == BusInv /\ [Next]_vars => BusInv'
  <1> SUFFICES ASSUME BusInv, [Next]_vars PROVE BusInv'
    OBVIOUS
  <1>1. CASE \E e \in Events : DispatchSteps(e) \/ Abandon(e)
    BY <1>1, DispatchKeeps, OfferKeeps, OfferBlockingKeeps, FinalizeVacuousKeeps, AbandonKeeps
       DEF DispatchSteps
  <1>2. CASE \E s \in Subs : SubscriberSteps(s)
    BY <1>2, ConsumeKeeps, DeliverKeeps, ReportErrorKeeps, ReportKeeps, FinalizeKeeps
       DEF SubscriberSteps
  <1>3. CASE UNCHANGED vars
    <2>0. BusInv /\ UNCHANGED vars
      BY <1>3
    <2>1. TypeOK'
      BY <2>0 DEF vars, BusInv, TypeOK
    <2>2. RowsFollow' /\ ListsFollow' /\ TrackerCounts'
      BY <2>0 DEF vars, BusInv, RowsFollow, ListsFollow, TrackerCounts
    <2>3. InOnePlace' /\ DeliveredOnce'
      BY <2>0 DEF vars, BusInv, InOnePlace, DeliveredOnce, Queued, Handling
    <2>4. OneFinalizer' /\ NoFalseDone' /\ NoSendOnClosed' /\ (closed => stopped)'
      BY <2>0 DEF vars, BusInv, OneFinalizer, NoFalseDone, NoSendOnClosed
    <2> QED
      BY <2>1, <2>2, <2>3, <2>4 DEF BusInv
  <1> QED
    BY <1>1, <1>2, <1>3, PublishKeeps, ListPendingKeeps, RedispatchKeeps, StartReturnsKeeps,
       StopKeeps, CloseQueuesKeeps, ProcessEndsKeeps, BootKeeps
       DEF Next

\* BusInv, the inductive invariant of the event bus, holds in every reachable state.
THEOREM BusInvariant == Spec => []BusInv
  BY BusInit, BusStep, PTL DEF Spec

\* tracker.report and the abandoned enqueues: no row is recorded 'done' before every matching
\* subscriber has handled it.
THEOREM DoneIsTrue == Spec => []NoFalseDone
  <1>1. BusInv => NoFalseDone
    BY DEF BusInv
  <1> QED
    BY <1>1, BusInvariant, PTL

\* Boot recovery beside live publishing: no subscriber sees an event twice in one process.
THEOREM OncePerProcess == Spec => []DeliveredOnce
  <1>1. BusInv => DeliveredOnce
    BY DEF BusInv
  <1> QED
    BY <1>1, BusInvariant, PTL

\* Stop never closes a queue a dispatch could still send on.
THEOREM ClosedIsQuiet == Spec => []NoSendOnClosed
  <1>1. BusInv => NoSendOnClosed
    BY DEF BusInv
  <1> QED
    BY <1>1, BusInvariant, PTL

\* Every step of the bus is a step of EventDelivery, or leaves its two variables alone.
LEMMA StepSimulation == BusInv /\ [Next]_vars => [Delivery!Next]_<<row, handled>>
  <1> SUFFICES ASSUME BusInv, [Next]_vars PROVE [Delivery!Next]_<<row, handled>>
    OBVIOUS
  <1>0. TypeOK /\ RowsFollow /\ InOnePlace /\ OneFinalizer /\ TrackerCounts
    BY DEF BusInv
  <1>1. CASE Publish
    <2>1. created + 1 \in Events
      BY <1>0, <1>1, BusConstants DEF Publish, TypeOK, Events
    <2>2. Delivery!Accept(created + 1)
      BY <1>1 DEF Publish, Delivery!Accept
    <2> QED
      BY <2>1, <2>2 DEF Delivery!Next
  <1>2. ASSUME NEW e \in Events, DispatchSteps(e) \/ Abandon(e)
        PROVE  [Delivery!Next]_<<row, handled>>
    <2>1. CASE Dispatch(e) \/ Offer(e) \/ OfferBlocking(e) \/ Abandon(e)
      BY <2>1 DEF Dispatch, Offer, OfferBlocking, Abandon
    <2>2. ASSUME NEW w \in BOOLEAN, FinalizeVacuous(e, w)
          PROVE  [Delivery!Next]_<<row, handled>>
      <3>1. row[e] = "pending" /\ Matches[e] = {}
        BY <2>2, <1>0 DEF FinalizeVacuous, RowsFollow
      <3>2. Delivery!Complete(e) \/ UNCHANGED <<row, handled>>
        BY <3>1, <2>2 DEF FinalizeVacuous, Delivery!Complete
      <3> QED
        BY <3>2 DEF Delivery!Next
    <2> QED
      BY <1>2, <2>1, <2>2 DEF DispatchSteps
  <1>3. ASSUME NEW s \in Subs, SubscriberSteps(s)
        PROVE  [Delivery!Next]_<<row, handled>>
    <2>1. CASE Consume(s) \/ ReportError(s) \/ Report(s)
      BY <2>1 DEF Consume, ReportError, Report
    <2>2. ASSUME NEW ok \in BOOLEAN, Deliver(s, ok)
          PROVE  [Delivery!Next]_<<row, handled>>
      <3>1. /\ holds[s] \in Events /\ row[holds[s]] = "pending" /\ s \in Matches[holds[s]]
        BY <2>2, <1>0 DEF Deliver, OneFinalizer, InOnePlace, Handling
      <3>2. Delivery!Handle(holds[s], s) \/ UNCHANGED <<row, handled>>
        BY <3>1, <2>2 DEF Deliver, Delivery!Handle
      <3> QED
        BY <3>1, <3>2 DEF Delivery!Next
    <2>3. ASSUME NEW w \in BOOLEAN, Finalize(s, w)
          PROVE  [Delivery!Next]_<<row, handled>>
      <3>1. /\ holds[s] \in Events /\ row[holds[s]] = "pending"
            /\ s \in Matches[holds[s]] /\ reported[holds[s]] = Matches[holds[s]]
        BY <2>3, <1>0 DEF Finalize, OneFinalizer
      <3>2. ~anyFailed[holds[s]] => Matches[holds[s]] \subseteq handled[holds[s]]
        BY <3>1, <1>0 DEF TrackerCounts
      <3>3. CASE ~w
        BY <3>3, <2>3 DEF Finalize
      <3>4. CASE w /\ anyFailed[holds[s]]
        <4>1. Delivery!Fail(holds[s])
          BY <3>1, <3>4, <2>3 DEF Finalize, Delivery!Fail
        <4> QED
          BY <3>1, <4>1 DEF Delivery!Next
      <3>5. CASE w /\ ~anyFailed[holds[s]]
        <4>1. Delivery!Complete(holds[s])
          BY <3>1, <3>2, <3>5, <2>3 DEF Finalize, Delivery!Complete
        <4> QED
          BY <3>1, <4>1 DEF Delivery!Next
      <3> QED
        BY <3>3, <3>4, <3>5
    <2> QED
      BY <1>3, <2>1, <2>2, <2>3 DEF SubscriberSteps
  <1>4. CASE ListPending \/ Redispatch \/ StartReturns \/ Stop \/ CloseQueues \/ ProcessEnds
             \/ Boot \/ UNCHANGED vars
    BY <1>4 DEF ListPending, Redispatch, StartReturns, Stop, CloseQueues, ProcessEnds, Boot, vars
  <1> QED
    BY <1>1, <1>2, <1>3, <1>4 DEF Next

\* The bus with its queues, trackers, stops, crashes and recovery implements EventDelivery.
THEOREM BusImplementsDelivery == Spec => ImplementsDelivery
  <1>1. Init => Delivery!Init
    BY DEF Init, Delivery!Init, NoSubs
  <1> QED
    BY <1>1, BusInvariant, StepSimulation, PTL DEF Spec, ImplementsDelivery, Delivery!Spec


------------------------------------------------------------------------------
(* Triage. *)

Settled == {"none", "accepted", "duplicate", "declined"}

ItemsTyped ==
  /\ item \in [InTriage -> {"absent", "pending", "snoozed"} \cup Settled]
  /\ mergedInto \in [InTriage -> InTriage \cup {Unmerged}]
  /\ shelved \in [InTriage -> BOOLEAN]
  /\ waking \in [{"event", "due"} -> SUBSET InTriage]

(* A duplicate points at a ticket that was settled when it was merged, and still is. *)
MergesAreSettled ==
  \A t \in InTriage : mergedInto[t] # Unmerged => item[t] = "duplicate" /\ item[mergedInto[t]] \in Settled

MovesAreSettled ==
  /\ \A t \in moved : t \in InTriage /\ item[t] \in Settled
  /\ mover # Unmerged => mover \in InTriage /\ item[mover] \in Settled

(* What the handler has heard, or listed, was touched. *)
HeardIsTouched ==
  /\ \A e \in heard : /\ e.kind = "ticket" => e.on \in touched
                      /\ e.kind = "forge" => \A t \in InTriage : PROf[t] = e.on => t \in touched
                      /\ e.kind \in {"triage", "ticket", "forge"}
  /\ waking["event"] \subseteq touched

TriageTracked == ItemsTyped /\ MergesAreSettled /\ MergesEnd /\ MovesAreSettled /\ HeardIsTouched

(* Settled tickets are left alone. *)
SettledStay == \A t \in InTriage : item[t] \in Settled => item'[t] = item[t]

LEMMA EmitTouches ==
  ASSUME HeardIsTouched, NEW E, \A e \in E : \E t \in InTriage : e = TriageEvent(t) \/ e = TicketEvent(t), Emit(E),
         waking'["event"] \subseteq waking["event"]
  PROVE  HeardIsTouched'
  <1>1. /\ heard' = heard \cup E /\ touched \subseteq touched'
        /\ \A e \in E : e.kind # "triage" => e.on \in touched'
    BY DEF Emit
  <1>2. \A e \in E : e.kind \in {"triage", "ticket"}
    BY DEF TriageEvent, TicketEvent
  <1>. QED BY <1>1, <1>2 DEF HeardIsTouched

(* Merges and moves only look at tickets that are settled. *)
LEMMA NoMerge ==
  ASSUME TriageTracked, ItemsTyped', SettledStay, UNCHANGED mergedInto
  PROVE  MergesAreSettled' /\ MergesEnd'
  <1>1. MergesAreSettled'
    BY DEF TriageTracked, ItemsTyped, MergesAreSettled, SettledStay, Settled
  <1>. QED BY <1>1 DEF TriageTracked, MergesEnd

LEMMA MovesStay ==
  ASSUME TriageTracked, SettledStay, UNCHANGED <<moved, mover>>
  PROVE  MovesAreSettled'
  BY DEF TriageTracked, MovesAreSettled, SettledStay

(* What a settled item leaves to humans alone. *)
LEMMA SettledIsResolved ==
  ASSUME ItemsTyped, ItemsTyped', SettledStay
  PROVE  ResolvedStays
  <1>1. \A t \in OnTheBoard : t \in InTriage /\ item[t] \in Settled
    BY DEF OnTheBoard, Unresolved, ItemsTyped
  <1>. QED BY <1>1 DEF ResolvedStays, SettledStay, OnTheBoard, Unresolved, ItemsTyped, Settled

LEMMA VerbsKeep ==
  ASSUME TriageTracked, Verbs
  PROVE  TriageTracked' /\ SettledStay
  <1>1. ItemsTyped /\ MergesAreSettled /\ MergesEnd /\ MovesAreSettled /\ HeardIsTouched
    BY DEF TriageTracked
  <1>2. UNCHANGED <<moved, mover, waking>>
    BY DEF Verbs, CreateFromTrigger, TriageAccept, TriageDecline, Shelve, TriageDuplicate, Mention, TriageSnooze, AttachLabel,
       DetachLabel, DeleteLabel, Rest
  <1>3. HeardIsTouched'
    <2>1. ASSUME NEW t \in InTriage, NEW s \in InTriage, TriageDuplicate(t, s) PROVE HeardIsTouched'
      BY <1>1, <1>2, <2>1, EmitTouches DEF TriageDuplicate
    <2>2. ASSUME NEW t \in InTriage, Emit({TicketEvent(t)}) PROVE HeardIsTouched'
      BY <1>1, <1>2, <2>2, EmitTouches
    <2>3. ASSUME NEW t \in InTriage, Emit({TriageEvent(t)}) PROVE HeardIsTouched'
      BY <1>1, <1>2, <2>3, EmitTouches
    <2>4. ASSUME NEW t \in InTriage, Emit({TriageEvent(t), TicketEvent(t)}) PROVE HeardIsTouched'
      BY <1>1, <1>2, <2>4, EmitTouches
    <2>5. CASE UNCHANGED <<heard, touched>>
      BY <1>1, <1>2, <2>5 DEF HeardIsTouched
    <2>6. CASE \E t \in Filed : CreateFromTrigger(t)
      BY <2>3, <2>6 DEF CreateFromTrigger, InTriage
    <2>7. CASE \E t \in InTriage : TriageAccept(t) \/ TriageDecline(t) \/ Shelve(t)
      BY <2>2, <2>4, <2>7 DEF TriageAccept, TriageDecline, Shelve
    <2>8. CASE \E t, s \in InTriage : TriageDuplicate(t, s) \/ Mention(t, s)
      BY <2>1, <2>2, <2>8 DEF Mention
    <2>9. CASE \E t \in InTriage, u \in 0..MaxClock : TriageSnooze(t, u)
      BY <2>3, <2>9 DEF TriageSnooze
    <2>10. CASE \E t \in InTriage, l \in Tags : AttachLabel(t, l) \/ DetachLabel(t, l)
      BY <2>2, <2>10 DEF AttachLabel, DetachLabel
    <2>11. CASE \E l \in Tags : DeleteLabel(l)
      BY <2>5, <2>11 DEF DeleteLabel
    <2>. QED BY <2>6, <2>7, <2>8, <2>9, <2>10, <2>11 DEF Verbs
  <1>4. ASSUME ItemsTyped', SettledStay, UNCHANGED mergedInto PROVE TriageTracked' /\ SettledStay
    BY <1>2, <1>3, <1>4, NoMerge, MovesStay DEF TriageTracked
  <1>5. ASSUME NEW t \in InTriage, NEW i \in {"pending", "snoozed", "accepted", "declined"}, item[t] \notin Settled,
               item' = [item EXCEPT ![t] = i], shelved' \in [InTriage -> BOOLEAN], UNCHANGED mergedInto
        PROVE  TriageTracked' /\ SettledStay
    <2>1. ItemsTyped'
      BY <1>1, <1>2, <1>5 DEF ItemsTyped, Settled
    <2>2. SettledStay
      BY <1>1, <1>5 DEF ItemsTyped, SettledStay
    <2>. QED BY <1>4, <1>5, <2>1, <2>2
  <1>6. ASSUME UNCHANGED <<item, mergedInto>>, shelved' \in [InTriage -> BOOLEAN]
        PROVE  TriageTracked' /\ SettledStay
    BY <1>1, <1>2, <1>4, <1>6 DEF ItemsTyped, SettledStay
  <1>7. CASE \E t \in Filed : CreateFromTrigger(t)
    <2>1. PICK t \in Filed : CreateFromTrigger(t)
      BY <1>7
    <2>2. t \in InTriage
      BY DEF InTriage
    <2>3. item' = [item EXCEPT ![t] = "pending"] /\ UNCHANGED <<shelved, mergedInto>> /\ item[t] = "absent"
      BY <2>1 DEF CreateFromTrigger
    <2>4. item[t] \notin Settled
      BY <2>3 DEF Settled
    <2>5. shelved' \in [InTriage -> BOOLEAN]
      BY <1>1, <2>3 DEF ItemsTyped
    <2>. QED BY <1>5, <2>2, <2>3, <2>4, <2>5
  <1>8. ASSUME NEW t \in InTriage, TriageAccept(t) \/ TriageDecline(t)
        PROVE  TriageTracked' /\ SettledStay
    <2>1. item[t] \notin Settled /\ shelved' \in [InTriage -> BOOLEAN] /\ UNCHANGED mergedInto
      BY <1>1, <1>8 DEF TriageAccept, TriageDecline, UnresolvedItem, Unresolved, Settled, ItemsTyped
    <2>2. PICK i \in {"accepted", "declined"} : item' = [item EXCEPT ![t] = i]
      BY <1>8 DEF TriageAccept, TriageDecline
    <2>. QED BY <1>5, <2>1, <2>2
  <1>9. ASSUME NEW t \in InTriage, NEW u \in 0..MaxClock, TriageSnooze(t, u)
        PROVE  TriageTracked' /\ SettledStay
    BY <1>1, <1>5, <1>9 DEF TriageSnooze, UnresolvedItem, Unresolved, Settled, ItemsTyped
  <1>10. ASSUME NEW t \in InTriage, NEW s \in InTriage, TriageDuplicate(t, s)
         PROVE  TriageTracked' /\ SettledStay
    <2>1. /\ item' = [item EXCEPT ![t] = "duplicate"] /\ mergedInto' = [mergedInto EXCEPT ![t] = s]
          /\ shelved' = [shelved EXCEPT ![t] = TRUE]
      BY <1>10 DEF TriageDuplicate
    <2>2. item[t] \notin Settled /\ item[s] \in Settled /\ s # t
      BY <1>1, <1>10 DEF TriageDuplicate, Survivor, UnresolvedItem, Unresolved, Settled, ItemsTyped
    <2>3. ItemsTyped'
      BY <1>1, <1>2, <2>1 DEF ItemsTyped, Settled
    <2>4. SettledStay
      BY <1>1, <2>1, <2>2 DEF ItemsTyped, SettledStay
    <2>5. MovesAreSettled'
      BY <1>2, <2>4, MovesStay
    <2>6. \A x \in InTriage : mergedInto[x] # t
      BY <1>1, <2>2, TriageAssumption DEF MergesAreSettled
    <2>7. MergesAreSettled'
      <3>1. \A x \in InTriage : item'[x] = IF x = t THEN "duplicate" ELSE item[x]
        BY <1>1, <2>1 DEF ItemsTyped
      <3>2. \A x \in InTriage : mergedInto'[x] = IF x = t THEN s ELSE mergedInto[x]
        BY <1>1, <2>1 DEF ItemsTyped
      <3>3. ASSUME NEW x \in InTriage, mergedInto'[x] # Unmerged
            PROVE  item'[x] = "duplicate" /\ item'[mergedInto'[x]] \in Settled
        <4>1. CASE x = t
          BY <2>2, <3>1, <3>2, <4>1
        <4>2. CASE x # t
          BY <1>1, <2>2, <2>6, <3>1, <3>2, <3>3, <4>2 DEF MergesAreSettled, ItemsTyped
        <4>. QED BY <4>1, <4>2
      <3>. QED BY <3>3 DEF MergesAreSettled
    <2>8. MergesEnd'
      <3> SUFFICES ASSUME NEW S \in SUBSET InTriage, S # {} PROVE \E x \in S : mergedInto'[x] \notin S
        BY DEF MergesEnd
      <3>1. \A x \in InTriage : x # t => mergedInto'[x] = mergedInto[x]
        BY <1>1, <2>1 DEF ItemsTyped
      <3>2. CASE S = {t}
        BY <1>1, <2>1, <2>2, <3>2 DEF ItemsTyped
      <3>3. CASE S # {t}
        <4>1. S \ {t} # {} /\ S \ {t} \in SUBSET InTriage
          BY <3>3
        <4>2. PICK x \in S \ {t} : mergedInto[x] \notin S \ {t}
          BY <1>1, <4>1 DEF MergesEnd
        <4>. QED BY <2>6, <3>1, <4>2
      <3>. QED BY <3>2, <3>3
    <2>. QED BY <1>3, <2>3, <2>4, <2>5, <2>7, <2>8 DEF TriageTracked
  <1>11. ASSUME NEW t \in InTriage, Shelve(t) PROVE TriageTracked' /\ SettledStay
    BY <1>1, <1>6, <1>11 DEF Shelve, ItemsTyped
  <1>12. CASE \/ \E t, s \in InTriage : Mention(t, s)
              \/ \E t \in InTriage, l \in Tags : AttachLabel(t, l) \/ DetachLabel(t, l)
              \/ \E l \in Tags : DeleteLabel(l)
    BY <1>1, <1>6, <1>12 DEF Mention, AttachLabel, DetachLabel, DeleteLabel, ItemsTyped
  <1>. QED BY <1>7, <1>8, <1>9, <1>10, <1>11, <1>12 DEF Verbs

LEMMA WakersKeep ==
  ASSUME TriageTracked, WakersAndMover
  PROVE  TriageTracked' /\ SettledStay
  <1>1. ItemsTyped /\ MergesAreSettled /\ MergesEnd /\ MovesAreSettled /\ HeardIsTouched
    BY DEF TriageTracked
  <1>2. ASSUME ItemsTyped', SettledStay, UNCHANGED mergedInto, MovesAreSettled', HeardIsTouched'
        PROVE  TriageTracked' /\ SettledStay
    BY <1>2, NoMerge DEF TriageTracked
  <1>3. ASSUME UNCHANGED <<tables, waking>>, MovesAreSettled', HeardIsTouched'
        PROVE  TriageTracked' /\ SettledStay
    BY <1>1, <1>2, <1>3 DEF tables, ItemsTyped, SettledStay
  <1>4. ASSUME NEW n, ForgeEvent(n) PROVE TriageTracked' /\ SettledStay
    <2>1. UNCHANGED <<tables, waking, moved, mover>>
      BY <1>4 DEF ForgeEvent, Rest
    <2>2. HeardIsTouched'
      BY <1>1, <1>4, <2>1 DEF ForgeEvent, HeardIsTouched
    <2>. QED BY <1>1, <1>3, <2>1, <2>2 DEF tables, MovesAreSettled
  <1>5. ASSUME NEW e \in heard, TriageWakeOnEvent(e) PROVE TriageTracked' /\ SettledStay
    <2>1. UNCHANGED <<tables, moved, mover, touched>> /\ heard' \subseteq heard
      BY <1>5 DEF TriageWakeOnEvent
    <2>2. PICK listed : /\ listed = IF e.kind = "triage" THEN {} ELSE {t \in SnoozedUntilActivity : EventMatchesTicket(e, t)}
                        /\ waking' = [waking EXCEPT !["event"] = listed]
      BY <1>5 DEF TriageWakeOnEvent
    <2>3. listed \subseteq InTriage /\ listed \subseteq touched
      BY <1>1, <2>2 DEF HeardIsTouched, EventMatchesTicket, SnoozedUntilActivity
    <2>4. ItemsTyped' /\ waking'["event"] = listed
      BY <1>1, <2>1, <2>2, <2>3 DEF ItemsTyped, tables
    <2>5. HeardIsTouched'
      BY <1>1, <2>1, <2>3, <2>4 DEF HeardIsTouched
    <2>. QED BY <1>1, <1>2, <2>1, <2>4, <2>5 DEF tables, MovesAreSettled, SettledStay
  <1>6. CASE WakeDueTriage
    <2>1. UNCHANGED <<tables, moved, mover, touched, heard>> /\ waking' = [waking EXCEPT !["due"] = SnoozedDue]
      BY <1>6 DEF WakeDueTriage
    <2>2. ItemsTyped' /\ waking'["event"] = waking["event"]
      BY <1>1, <2>1 DEF ItemsTyped, tables, SnoozedDue
    <2>. QED BY <1>1, <1>2, <2>1, <2>2 DEF tables, MovesAreSettled, SettledStay, HeardIsTouched
  <1>7. ASSUME NEW w \in {"event", "due"}, NEW t \in InTriage, WakeItem(w, t) PROVE TriageTracked' /\ SettledStay
    <2>1. UNCHANGED <<mergedInto, shelved, moved, mover>> /\ waking' = [waking EXCEPT ![w] = waking[w] \ {t}]
          /\ \/ item[t] = "snoozed" /\ item' = [item EXCEPT ![t] = "pending"] /\ Emit({TriageEvent(t)})
             \/ UNCHANGED <<item, heard, touched>>
      BY <1>7 DEF WakeItem, StillSnoozed
    <2>2. ItemsTyped' /\ waking'["event"] \subseteq waking["event"]
      BY <1>1, <2>1 DEF ItemsTyped
    <2>3. SettledStay
      BY <1>1, <2>1 DEF SettledStay, ItemsTyped, Settled
    <2>4. HeardIsTouched'
      <3>1. CASE Emit({TriageEvent(t)})
        BY <1>1, <2>2, <3>1, EmitTouches
      <3>2. CASE UNCHANGED <<heard, touched>>
        BY <1>1, <2>2, <3>2 DEF HeardIsTouched
      <3>. QED BY <2>1, <3>1, <3>2
    <2>. QED BY <1>2, <2>1, <2>2, <2>3, <2>4, MovesStay
  <1>8. ASSUME NEW t \in InTriage, TriggerMoveToCategory(t), UNCHANGED <<tables, moved, heard, touched, waking, today, verbs>>
        PROVE  TriageTracked' /\ SettledStay
    <2>1. mover' = t /\ item[t] \in Settled
      BY <1>1, <1>8 DEF TriggerMoveToCategory, Unresolved, ItemsTyped
    <2>2. MovesAreSettled' /\ HeardIsTouched'
      BY <1>1, <1>8, <2>1 DEF MovesAreSettled, HeardIsTouched, tables
    <2>. QED BY <1>3, <1>8, <2>2
  <1>9. CASE MoveToCategory
    <2>1. /\ mover \in InTriage /\ item[mover] \in Settled /\ mover' = Unmerged /\ moved' \in {moved, moved \cup {mover}}
          /\ UNCHANGED <<tables, waking>> /\ Emit(IF mover \in moved' \ moved THEN {TicketEvent(mover)} ELSE {})
      BY <1>1, <1>9 DEF MoveToCategory, MovesAreSettled
    <2>2. MovesAreSettled'
      BY <1>1, <2>1 DEF MovesAreSettled, tables
    <2>3. HeardIsTouched'
      BY <1>1, <2>1, EmitTouches
    <2>. QED BY <1>3, <2>1, <2>2, <2>3
  <1>10. CASE Tick
    BY <1>1, <1>3, <1>10 DEF Tick, MovesAreSettled, HeardIsTouched, tables
  <1>. QED BY <1>4, <1>5, <1>6, <1>7, <1>8, <1>9, <1>10 DEF WakersAndMover

LEMMA TriageStep ==
  ASSUME TriageTracked, [TriageNext]_triageVars
  PROVE  TriageTracked' /\ ResolvedStays
  <1>1. TriageTracked' /\ SettledStay
    <2>1. CASE UNCHANGED triageVars
      BY <2>1 DEF triageVars, tables, TriageTracked, ItemsTyped, MergesAreSettled, MergesEnd, MovesAreSettled, HeardIsTouched,
         SettledStay
    <2>. QED BY <2>1, VerbsKeep, WakersKeep DEF TriageNext
  <1>. QED BY <1>1, SettledIsResolved DEF TriageTracked

LEMMA TriageStarts == TriageInit => TriageTracked
  <1> SUFFICES ASSUME TriageInit PROVE TriageTracked
    OBVIOUS
  <1>1. ItemsTyped
    BY DEF TriageInit, ItemsTyped, Settled
  <1>2. MergesAreSettled /\ MovesAreSettled
    BY DEF TriageInit, MergesAreSettled, MovesAreSettled
  <1>3. MergesEnd
    BY TriageAssumption DEF TriageInit, MergesEnd
  <1>4. HeardIsTouched
    BY DEF TriageInit, HeardIsTouched
  <1>. QED BY <1>1, <1>2, <1>3, <1>4 DEF TriageTracked

(* The safety part of TriageHolds: what humans decided stands, merges never close a circle, the
   move_ticket action leaves triage alone, and only activity ends a snooze until activity. *)
THEOREM TriageIsSafe == TriageSpec => DecisionsStand /\ WokenByActivity
  <1>1. TriageTracked => MergesEnd /\ TriageStaysPut
    BY DEF TriageTracked, MovesAreSettled, TriageStaysPut, Unresolved, Settled
  <1>2. TriageTracked' => MergesEnd' /\ TriageStaysPut'
    BY <1>1, PTL
  <1>3. TriageTracked /\ [TriageNext]_triageVars => [MergesEnd' /\ TriageStaysPut' /\ ResolvedStays]_triageVars
    BY <1>2, TriageStep
  <1>4. TriageTracked =>
          [\A t \in InTriage : WakeItem("event", t) /\ item'[t] # item[t] => t \in touched]_triageVars
    BY DEF TriageTracked, HeardIsTouched, WakeItem
  <1>5. TriageTracked /\ [TriageNext]_triageVars => TriageTracked'
    BY TriageStep
  <1>. QED BY <1>3, <1>4, <1>5, TriageStarts, PTL DEF TriageSpec, DecisionsStand, WokenByActivity


------------------------------------------------------------------------------
(* Poller. *)

PullRows == [made : BOOLEAN, open : BOOLEAN, head : Nat, draft : BOOLEAN, updated : Nat, change : Nat]

ForgeTyped ==
  /\ now \in Nat /\ changes \in Nat
  /\ pr \in [Pulls -> PullRows]
  /\ \A r \in reviews : r.pull \in Pulls /\ pr[r.pull].made /\ r.at \in 0..now
  /\ \A c \in comments : c \in [id : Nat, at : Nat, updated : Nat] /\ c.at \in 0..now /\ c.updated \in 0..now
  /\ \A s \in suites : s.at \in 0..now

KnownRow(r) ==
  DOMAIN r = {"seen", "open", "head", "draft", "reviewed"} /\ r.seen \in BOOLEAN /\ r.reviewed \in Nat
TickRow(t) == DOMAIN t = {"todo", "listing", "touched", "acts", "pull", "top", "version"}
PollTyped ==
  /\ since \in 0..now
  /\ baselined \in BOOLEAN
  /\ DOMAIN known = Pulls /\ \A p \in Pulls : KnownRow(known[p])
  /\ DOMAIN cursor = {"pulls", "comments", "checks"} /\ cursor["comments"] \in Nat /\ cursor["checks"] \in Nat
  /\ TickRow(tick)
  /\ passAt \in Resources \cup {"idle", "baseline"}
  /\ passAt = "checks" => tick.top \in Nat

Activities == {"opened", "closed", "synchronize", "ready_for_review"}
OfPulls(k) == k[1] \in Activities

(* A cursor that has a row is not older than the baseline; a step of a pass makes no row. *)
RowsHold ==
  (Rowless("comments") \/ cursor["comments"] >= since) /\ (Rowless("checks") \/ cursor["checks"] >= since)
RowsKept == (Rowless("comments") => Rowless("comments")') /\ (Rowless("checks") => Rowless("checks")') /\ RowsHold'

(* What OldStaysQuiet says of one event. *)
AllowedNews(k) ==
  /\ k[1] = "review" => k[3] >= since
  /\ k[1] = "comment" => k[3] >= since \/ Rowless("comments")
  /\ k[1] = "check" => k[3] >= since \/ Rowless("checks")

(* Nothing is said before the baseline is done, and behind it no cursor is older. *)
BehindBaseline ==
  /\ ~baselined => emitted = {} /\ passAt = "idle" /\ Rowless("comments") /\ Rowless("checks")
  /\ passAt = "baseline" => emitted = {}
  /\ baselined => RowsHold
  /\ passAt = "checks" /\ tick.todo # {} => tick.top >= cursor["checks"]
  /\ baselined => \A r \in reviews : r.at >= since \/ known[r.pull].reviewed >= since

(* What is new about the pull request at hand is said or about to be said. *)
AtHandIsTold ==
  /\ tick.acts \subseteq Activities
  /\ tick.pull # 0 =>
       /\ tick.pull \in Pulls /\ passAt = "pulls"
       /\ ~known[tick.pull].seen =>
            \E a \in {"opened", "closed"} : a \in tick.acts \/ \E k \in emitted : k[1] = a /\ k[2] = tick.pull

PollerTracked == ForgeTyped /\ PollTyped /\ BehindBaseline /\ AtHandIsTold /\ OldStaysQuiet

(* A bounded set of numbers has a greatest. *)
LEMMA Greatest ==
  ASSUME NEW n \in Nat, NEW S, S \subseteq 0..n, S # {}
  PROVE  \E t \in S : \A u \in S : u <= t
  <1> DEFINE T == {k \in Nat : n - k \in S}
  <1>1. \A y \in S : n - y \in T /\ y \in Nat
    BY DEF T
  <1>2. T # {} /\ T \subseteq Nat
    BY <1>1
  <1>3. PICK k \in T : \A j \in T : ~ (<<j, k>> \in OpToRel(<, Nat))
    BY <1>2, NatLessThanWellFounded, WFMin
  <1>4. \A j \in T : ~(j < k)
    BY <1>2, <1>3 DEF OpToRel
  <1>5. n - k \in S /\ \A y \in S : y <= n - k
    <2>1. n - k \in S
      BY DEF T
    <2>2. ASSUME NEW y \in S PROVE y <= n - k
      BY <1>1, <1>2, <1>4, <2>2
    <2>. QED BY <2>1, <2>2
  <1>. QED BY <1>5

(* The forge and the clock go on. *)
LEMMA ForgeKeeps ==
  ASSUME PollerTracked, OnForge
  PROVE  PollerTracked' /\ AnnouncedThenRecorded
  <1>1. ForgeTyped /\ PollTyped /\ BehindBaseline /\ AtHandIsTold /\ OldStaysQuiet
    BY DEF PollerTracked
  <1>2. UNCHANGED pollVars /\ now' \in {now, now + 1}
    BY DEF OnForge, OpenPull, ChangePull, Review, CompleteSuite, Comment, EditComment, Clock, Permissions, ForgeOnly, forgeVars
  <1>3. now \in Nat /\ now' \in Nat /\ now <= now' /\ changes \in Nat
    BY <1>1, <1>2 DEF ForgeTyped
  <1>4. ASSUME NEW p \in Pulls, NEW r \in PullRows, pr[p].made => r.made, Bumped(p, r)
        PROVE  pr' \in [Pulls -> PullRows] /\ (\A q \in Pulls : pr[q].made => pr'[q].made) /\ (r.made => pr'[p].made)
    <2>1. PICK s : s = [r EXCEPT !.updated = now, !.change = changes + 1]
      OBVIOUS
    <2>2. s \in PullRows /\ s.made = r.made
      <3>1. changes + 1 \in Nat /\ r \in PullRows
        BY <1>3, <1>4
      <3>2. s = [made |-> r.made, open |-> r.open, head |-> r.head, draft |-> r.draft, updated |-> now, change |-> changes + 1]
        BY <2>1, <3>1 DEF PullRows
      <3>. QED BY <1>3, <3>1, <3>2 DEF PullRows
    <2>3. pr' = [pr EXCEPT ![p] = s]
      BY <1>4, <2>1 DEF Bumped
    <2>. QED BY <1>1, <1>4, <2>2, <2>3 DEF ForgeTyped
  <1>5. ASSUME NEW p \in Pulls PROVE pr[p] \in PullRows
    BY <1>1 DEF ForgeTyped
  <1>6. /\ pr' \in [Pulls -> PullRows] /\ \A q \in Pulls : pr[q].made => pr'[q].made
        /\ \A p \in Pulls : Review(p) => pr'[p].made
    <2>1. ASSUME NEW p \in Pulls, OpenPull(p) PROVE pr' \in [Pulls -> PullRows] /\ \A q \in Pulls : pr[q].made => pr'[q].made
      <3>1. [pr[p] EXCEPT !.made = TRUE, !.open = TRUE, !.head = 1, !.draft = TRUE] \in PullRows
        BY <1>5 DEF PullRows
      <3>. QED BY <1>4, <2>1, <3>1 DEF OpenPull
    <2>2. ASSUME NEW p \in Pulls, ChangePull(p) PROVE pr' \in [Pulls -> PullRows] /\ \A q \in Pulls : pr[q].made => pr'[q].made
      <3>1. PICK r \in {[pr[p] EXCEPT !.head = pr[p].head + 1], [pr[p] EXCEPT !.draft = FALSE], [pr[p] EXCEPT !.open = ~pr[p].open]} :
              Bumped(p, r)
        BY <2>2 DEF ChangePull
      <3>2. pr[p] \in PullRows
        BY <1>5
      <3>3. r \in PullRows /\ r.made = pr[p].made
        <4>1. CASE r = [pr[p] EXCEPT !.head = pr[p].head + 1]
          <5>1. pr[p].head + 1 \in Nat
            BY <3>2 DEF PullRows
          <5>. QED BY <3>2, <4>1, <5>1 DEF PullRows
        <4>2. CASE r = [pr[p] EXCEPT !.draft = FALSE]
          BY <3>2, <4>2 DEF PullRows
        <4>3. CASE r = [pr[p] EXCEPT !.open = ~pr[p].open]
          BY <3>2, <4>3 DEF PullRows
        <4>. QED BY <3>1, <4>1, <4>2, <4>3
      <3>. QED BY <1>4, <3>1, <3>3
    <2>3. ASSUME NEW p \in Pulls, Review(p)
          PROVE  pr' \in [Pulls -> PullRows] /\ (\A q \in Pulls : pr[q].made => pr'[q].made) /\ pr'[p].made
      BY <1>4, <1>5, <2>3 DEF Review
    <2>4. CASE UNCHANGED pr
      BY <1>1, <2>3, <2>4 DEF ForgeTyped
    <2>. QED BY <2>1, <2>2, <2>3, <2>4 DEF OnForge, CompleteSuite, Comment, EditComment, Clock, Permissions, forgeVars
  <1>7. ASSUME NEW r \in reviews'
        PROVE  /\ r.pull \in Pulls /\ pr'[r.pull].made /\ r.at \in 0..now'
               /\ r \in reviews \/ r.at = now
    <2>1. CASE r \in reviews
      <3>1. r.pull \in Pulls /\ pr[r.pull].made /\ r.at \in 0..now
        BY <1>1, <2>1 DEF ForgeTyped
      <3>. QED BY <1>3, <1>6, <2>1, <3>1
    <2>2. CASE r \notin reviews
      <3>1. PICK p \in Pulls : Review(p)
        BY <2>2 DEF OnForge, OpenPull, ChangePull, CompleteSuite, Comment, EditComment, Clock, Permissions, ForgeOnly, forgeVars
      <3>2. r = [pull |-> p, id |-> changes, at |-> now]
        BY <2>2, <3>1 DEF Review
      <3>. QED BY <1>3, <1>6, <3>1, <3>2
    <2>. QED BY <2>1, <2>2
  <1>8. ASSUME NEW c \in comments'
        PROVE  c \in [id : Nat, at : Nat, updated : Nat] /\ c.at \in 0..now' /\ c.updated \in 0..now'
    <2>1. CASE c \in comments
      BY <1>1, <1>3, <2>1 DEF ForgeTyped
    <2>2. CASE c = [id |-> changes, at |-> now, updated |-> now]
      BY <1>3, <2>2
    <2>3. ASSUME NEW d \in comments, c = [d EXCEPT !.updated = now]
          PROVE  c \in [id : Nat, at : Nat, updated : Nat] /\ c.at \in 0..now' /\ c.updated \in 0..now'
      <3>1. d \in [id : Nat, at : Nat, updated : Nat] /\ d.at \in 0..now
        BY <1>1 DEF ForgeTyped
      <3>. QED BY <1>3, <2>3, <3>1
    <2>. QED BY <2>1, <2>2, <2>3 DEF OnForge, OpenPull, ChangePull, Review, CompleteSuite, Comment, EditComment, Clock, Permissions,
         ForgeOnly, forgeVars
  <1>9. ASSUME NEW s \in suites' PROVE s.at \in 0..now'
    <2>1. CASE s \in suites
      BY <1>1, <1>3, <2>1 DEF ForgeTyped
    <2>2. CASE s \notin suites
      <3>1. s.at = now
        <4>1. PICK p \in Pulls : CompleteSuite(p)
          BY <2>2 DEF OnForge, OpenPull, ChangePull, Review, Comment, EditComment, Clock, Permissions, ForgeOnly, forgeVars
        <4>2. s = [pull |-> p, head |-> pr[p].head, id |-> changes, at |-> now]
          BY <2>2, <4>1 DEF CompleteSuite
        <4>. QED BY <4>2
      <3>. QED BY <1>3, <3>1
    <2>. QED BY <2>1, <2>2
  <1>10. changes' \in Nat
    <2>1. changes' \in {changes, changes + 1}
      BY DEF OnForge, OpenPull, ChangePull, Review, CompleteSuite, Comment, EditComment, Clock, Permissions, Change, forgeVars
    <2>. QED BY <1>3, <2>1
  <1>11. ForgeTyped'
    BY <1>3, <1>6, <1>7, <1>8, <1>9, <1>10 DEF ForgeTyped
  <1>12. PollTyped'
    <2>1. since \in 0..now'
      BY <1>1, <1>3 DEF PollTyped
    <2>. QED BY <1>1, <1>2, <2>1 DEF pollVars, PollTyped, KnownRow, TickRow
  <1>13. BehindBaseline'
    <2>1. baselined => \A r \in reviews' : r.at >= since \/ known[r.pull].reviewed >= since
      <3>1. now >= since
        BY <1>1, <1>3 DEF PollTyped
      <3>. QED BY <1>1, <1>7, <3>1 DEF BehindBaseline
    <2>. QED BY <1>1, <1>2, <2>1 DEF pollVars, BehindBaseline, RowsHold, Rowless
  <1>14. AtHandIsTold' /\ OldStaysQuiet' /\ AnnouncedThenRecorded
    BY <1>1, <1>2 DEF pollVars, AtHandIsTold, OldStaysQuiet, Rowless, AnnouncedThenRecorded
  <1>. QED BY <1>11, <1>12, <1>13, <1>14 DEF PollerTracked
(* A pass that ends, well or not, leaves nothing of itself behind but what it touched. *)
LEMMA AfterIs ==
  ASSUME NEW r \in Resources, After(r), TickRow(tick)
  PROVE  /\ passAt' \in Resources \cup {"idle"} /\ TickRow(tick')
         /\ tick'.pull = 0 /\ tick'.acts = {} /\ tick'.todo = {} /\ tick'.top = 0
  <1>1. Passes = <<"pulls", "reviews", "comments", "checks">>
    BY DEF Passes
  <1>2. \E i \in 1..4 : Passes[i] = r
    BY <1>1 DEF Resources
  <1>3. PICK i \in 1..4 : i = Before(r) /\ Passes[i] = r
    BY <1>2 DEF Before
  <1>4. r # "checks" => Passes[i + 1] \in Resources
    <2>1. i = 1 \/ i = 2 \/ i = 3 \/ i = 4
      BY <1>3
    <2>. QED BY <1>1, <1>3, <2>1 DEF Resources
  <1>5. passAt' = IF r = "checks" THEN "idle" ELSE Passes[i + 1]
    BY <1>3 DEF After
  <1>6. PICK T : tick' = [NoTick EXCEPT !.touched = T]
    BY DEF After
  <1>7. tick' = [todo |-> {}, listing |-> {}, touched |-> T, acts |-> {}, pull |-> 0, top |-> 0, version |-> 0]
    BY <1>6 DEF NoTick
  <1>. QED BY <1>4, <1>5, <1>7 DEF TickRow

(* A step of a pass. *)
LEMMA PassKeeps ==
  ASSUME PollerTracked, PollTyped', baselined, UNCHANGED <<forgeVars, baselined, since>>,
         emitted \subseteq emitted', \A k \in emitted' \ emitted : OfPulls(k) \/ AllowedNews(k),
         passAt' # "baseline", RowsKept,
         \A p \in Pulls : known'[p].reviewed >= known[p].reviewed,
         passAt' = "checks" /\ tick'.todo # {} => tick'.top >= cursor'["checks"],
         AtHandIsTold'
  PROVE  PollerTracked'
  <1>1. ForgeTyped /\ PollTyped /\ BehindBaseline /\ OldStaysQuiet
    BY DEF PollerTracked
  <1>2. ForgeTyped'
    BY <1>1 DEF forgeVars, ForgeTyped
  <1>3. OldStaysQuiet'
    <2>1. \A k \in emitted' : OfPulls(k) \/ AllowedNews(k)
      BY <1>1 DEF OldStaysQuiet, AllowedNews
    <2>2. \A k : OfPulls(k) => k[1] # "review" /\ k[1] # "comment" /\ k[1] # "check"
      BY DEF OfPulls, Activities
    <2>. QED BY <2>1, <2>2 DEF OldStaysQuiet, AllowedNews, RowsKept
  <1>4. \A r \in reviews : r.at >= since \/ known'[r.pull].reviewed >= since
    <2> SUFFICES ASSUME NEW r \in reviews, known[r.pull].reviewed >= since PROVE known'[r.pull].reviewed >= since
      BY <1>1 DEF BehindBaseline
    <2>1. r.pull \in Pulls /\ since \in Nat /\ known[r.pull].reviewed \in Nat /\ known'[r.pull].reviewed \in Nat
      BY <1>1 DEF ForgeTyped, PollTyped, KnownRow
    <2>. QED BY <2>1
  <1>5. BehindBaseline'
    BY <1>4 DEF BehindBaseline, forgeVars, RowsKept
  <1>. QED BY <1>2, <1>3, <1>5 DEF PollerTracked

(* What every step of a pass relies on. *)
LEMMA InPass ==
  ASSUME PollerTracked, passAt \in Resources \/ (baselined /\ passAt # "baseline")
  PROVE  /\ baselined /\ RowsHold /\ (UNCHANGED <<cursor, since>> => RowsKept)
         /\ \A p \in Pulls : known[p].reviewed \in Nat /\ known[p].reviewed >= known[p].reviewed
         /\ since \in Nat /\ cursor["comments"] \in Nat /\ cursor["checks"] \in Nat /\ now \in Nat
         /\ passAt # "pulls" => tick.pull = 0
  BY DEF PollerTracked, ForgeTyped, PollTyped, KnownRow, BehindBaseline, AtHandIsTold, Resources, RowsHold, RowsKept, Rowless

(* The ends of passes. *)
LEMMA EndKeeps ==
  ASSUME PollerTracked, NEW r \in Resources, passAt = r, After(r), UNCHANGED <<forgeVars, known, baselined, emitted, since>>,
         \/ UNCHANGED cursor
         \/ \E u : cursor' = [cursor EXCEPT !["pulls"] = u]
  PROVE  PollerTracked' /\ AnnouncedThenRecorded
  <1>1. PollTyped /\ AtHandIsTold
    BY DEF PollerTracked
  <1>2. /\ passAt' \in Resources \cup {"idle"} /\ TickRow(tick')
        /\ tick'.pull = 0 /\ tick'.acts = {} /\ tick'.todo = {} /\ tick'.top = 0
    BY <1>1, AfterIs DEF PollTyped
  <1>3. /\ DOMAIN cursor' = {"pulls", "comments", "checks"} /\ cursor'["comments"] = cursor["comments"]
        /\ cursor'["checks"] = cursor["checks"]
    BY <1>1 DEF PollTyped
  <1>4. PollTyped'
    BY <1>1, <1>2, <1>3 DEF PollTyped, forgeVars
  <1>5. AtHandIsTold'
    BY <1>2 DEF AtHandIsTold
  <1>6. passAt' # "baseline"
    BY <1>2 DEF Resources
  <1>7. baselined /\ RowsKept
        /\ \A p \in Pulls : known'[p].reviewed >= known[p].reviewed
    <2>1. passAt \in Resources /\ UNCHANGED known
      OBVIOUS
    <2>2. baselined /\ RowsHold /\ \A p \in Pulls : known[p].reviewed >= known[p].reviewed
      BY <2>1, InPass
    <2>. QED BY <1>3, <2>1, <2>2 DEF RowsHold, RowsKept, Rowless
  <1>8. AnnouncedThenRecorded
    BY DEF AnnouncedThenRecorded
  <1>9. \A k \in emitted' \ emitted : OfPulls(k) \/ AllowedNews(k)
    OBVIOUS
  <1>. QED BY <1>2, <1>4, <1>5, <1>6, <1>7, <1>8, <1>9, PassKeeps

(* The end of a pass over comments or checks, whether or not there is a row to touch. *)
LEMMA TouchKeeps ==
  ASSUME PollerTracked, NEW r \in {"comments", "checks"}, passAt = r, UNCHANGED <<forgeVars, known, baselined, since>>,
         NEW u \in Nat, u >= cursor[r], TouchCursor(r, u),
         emitted \subseteq emitted', \A k \in emitted' \ emitted : AllowedNews(k)
  PROVE  PollerTracked' /\ AnnouncedThenRecorded
  <1>1. PollTyped /\ BehindBaseline
    BY DEF PollerTracked
  <1>2. After(r) /\ r \in Resources
    BY DEF TouchCursor, Failed, Resources
  <1>3. /\ passAt' \in Resources \cup {"idle"} /\ TickRow(tick')
        /\ tick'.pull = 0 /\ tick'.acts = {} /\ tick'.todo = {} /\ tick'.top = 0
    BY <1>1, <1>2, AfterIs DEF PollTyped
  <1>4. /\ DOMAIN cursor' = {"pulls", "comments", "checks"}
        /\ \A s \in {"comments", "checks"} :
             /\ cursor[s] \in Nat /\ cursor'[s] \in Nat
             /\ cursor[s] = 0 => cursor'[s] = 0
             /\ cursor'[s] >= cursor[s]
    <2>1. CASE Rowless(r)
      BY <1>1, <2>1 DEF TouchCursor, PollTyped
    <2>2. CASE ~Rowless(r)
      <3>1. cursor' = [cursor EXCEPT ![r] = u] /\ cursor[r] # 0
        BY <2>2 DEF TouchCursor, Rowless
      <3>. QED BY <1>1, <3>1 DEF PollTyped
    <2>. QED BY <2>1, <2>2
  <1>5. PollTyped'
    BY <1>1, <1>3, <1>4 DEF PollTyped, forgeVars
  <1>6. AtHandIsTold' /\ AnnouncedThenRecorded /\ passAt' # "baseline"
    BY <1>3 DEF AtHandIsTold, AnnouncedThenRecorded, Resources
  <1>7. /\ baselined /\ since \in Nat /\ RowsHold
        /\ \A p \in Pulls : known'[p].reviewed >= known[p].reviewed
    BY <1>2, InPass
  <1>8. RowsKept
    BY <1>4, <1>7 DEF RowsHold, RowsKept, Rowless
  <1>. QED BY <1>3, <1>5, <1>6, <1>7, <1>8, PassKeeps

LEMMA PullsKeep ==
  ASSUME PollerTracked,
         \/ StartTick \/ ListPulls \/ RecordPull \/ EndPulls
         \/ \E p \in Pulls : TakePull(p)
         \/ \E a \in tick.acts : EmitPREvent(a)
  PROVE  PollerTracked' /\ AnnouncedThenRecorded
  <1>1. ForgeTyped /\ PollTyped /\ BehindBaseline /\ AtHandIsTold
    BY DEF PollerTracked
  <1>2. UNCHANGED <<forgeVars, baselined, since>>
    BY DEF StartTick, ListPulls, RecordPull, EndPulls, TakePull, EmitPREvent, Still
  <1>3. CASE StartTick
    <2>1. /\ baselined /\ passAt = "idle" /\ passAt' = "pulls" /\ tick' = NoTick /\ UNCHANGED <<known, cursor, emitted>>
      BY <1>3 DEF StartTick
    <2>2. TickRow(NoTick) /\ NoTick.pull = 0 /\ NoTick.acts = {}
      BY DEF TickRow, NoTick
    <2>3. PollTyped'
      BY <1>1, <1>2, <2>1, <2>2 DEF PollTyped, forgeVars, Resources
    <2>4. AtHandIsTold'
      BY <2>1, <2>2 DEF AtHandIsTold
    <2>. QED BY <1>2, <2>1, <2>3, <2>4, InPass, PassKeeps DEF AnnouncedThenRecorded
  <1>4. ASSUME ListPulls PROVE PollerTracked' /\ AnnouncedThenRecorded
    <2>1. passAt = "pulls" /\ UNCHANGED <<known, cursor, emitted>>
      BY <1>4 DEF ListPulls, Fresh, Running
    <2>2. CASE After("pulls")
      BY <1>2, <2>1, <2>2, EndKeeps DEF Resources
    <2>3. CASE UNCHANGED passAt /\ \E L, M, t, v : tick' = [tick EXCEPT !.todo = L, !.listing = M, !.top = t, !.version = v]
      <3>1. TickRow(tick') /\ tick'.pull = tick.pull /\ tick'.acts = tick.acts
        BY <1>1, <2>3 DEF PollTyped, TickRow
      <3>2. PollTyped'
        BY <1>1, <1>2, <2>1, <2>3, <3>1 DEF PollTyped, forgeVars
      <3>3. AtHandIsTold'
        BY <1>1, <2>1, <2>3, <3>1 DEF AtHandIsTold
      <3>. QED BY <1>2, <2>1, <2>3, <3>2, <3>3, InPass, PassKeeps DEF AnnouncedThenRecorded, Resources
    <2>. QED BY <1>4, <2>2, <2>3 DEF ListPulls
  <1>5. CASE RecordPull
    <2>1. passAt = "pulls" /\ tick.pull # 0 /\ tick.acts = {} /\ UNCHANGED <<passAt, cursor, emitted>>
      BY <1>5 DEF RecordPull, Running, EmittedAll
    <2>2. PICK p : p = tick.pull
      OBVIOUS
    <2>3. p \in Pulls
      BY <1>1, <2>1, <2>2 DEF AtHandIsTold
    <2>4. PICK o, h, d : known' = [known EXCEPT ![p] = [seen |-> TRUE, open |-> o, head |-> h, draft |-> d, reviewed |-> known[p].reviewed]]
      <3>1. PICK r : r = Listed(tick.pull)
        OBVIOUS
      <3>. QED BY <1>5, <2>2, <3>1 DEF RecordPull
    <2>5. PICK L, T : tick' = [tick EXCEPT !.pull = 0, !.acts = {}, !.todo = L, !.touched = T]
      BY <1>5 DEF RecordPull
    <2>6. TickRow(tick') /\ tick'.pull = 0 /\ tick'.acts = {}
      BY <1>1, <2>5 DEF PollTyped, TickRow
    <2>7. DOMAIN known' = Pulls
          /\ \A q \in Pulls :
               KnownRow(known'[q]) /\ known'[q].reviewed = known[q].reviewed /\ (q # p => known'[q].seen = known[q].seen)
      <3>1. known'[p] = [seen |-> TRUE, open |-> o, head |-> h, draft |-> d, reviewed |-> known[p].reviewed]
            /\ DOMAIN known' = Pulls /\ \A q \in Pulls : q # p => known'[q] = known[q]
        BY <1>1, <2>3, <2>4 DEF PollTyped
      <3>2. KnownRow(known[p])
        BY <1>1, <2>3 DEF PollTyped
      <3>3. KnownRow(known'[p]) /\ known'[p].reviewed = known[p].reviewed
        BY <3>1, <3>2 DEF KnownRow
      <3>. QED BY <1>1, <3>1, <3>3 DEF PollTyped
    <2>8. PollTyped'
      <3>1. DOMAIN known' = Pulls /\ \A q \in Pulls : KnownRow(known'[q])
        BY <2>7
      <3>2. passAt' = "pulls" /\ cursor' = cursor
        BY <2>1
      <3>3. passAt' \in Resources \cup {"idle", "baseline"} /\ passAt' # "checks"
        BY <3>2 DEF Resources
      <3>. QED BY <1>1, <1>2, <2>6, <3>1, <3>2, <3>3 DEF PollTyped, forgeVars
    <2>9. AtHandIsTold'
      BY <2>6 DEF AtHandIsTold
    <2>10. AnnouncedThenRecorded
      <3> SUFFICES ASSUME NEW q \in Pulls, ~known[q].seen, known'[q].seen
                   PROVE  \E k \in emitted : k[1] \in {"opened", "closed"} /\ k[2] = q
        BY DEF AnnouncedThenRecorded
      <3>1. q = p
        BY <2>7
      <3>. QED BY <1>1, <2>1, <2>2, <3>1 DEF AtHandIsTold
    <2>11. \A q \in Pulls : known'[q].reviewed >= known[q].reviewed
      BY <2>1, <2>7, InPass DEF Resources
    <2>12. baselined /\ RowsKept
      BY <1>2, <2>1, InPass DEF Resources
    <2>. QED BY <1>2, <2>1, <2>8, <2>9, <2>10, <2>11, <2>12, PassKeeps
  <1>6. CASE EndPulls
    <2>1. After("pulls") /\ passAt = "pulls" /\ UNCHANGED <<known, emitted>> /\ \E u : cursor' = [cursor EXCEPT !["pulls"] = u]
      BY <1>6 DEF EndPulls, Running
    <2>. QED BY <1>2, <2>1, EndKeeps DEF Resources
  <1>7. ASSUME NEW p \in Pulls, TakePull(p) PROVE PollerTracked' /\ AnnouncedThenRecorded
    <2>1. passAt = "pulls" /\ UNCHANGED <<passAt, known, cursor, emitted>>
      BY <1>7 DEF TakePull, Running
    <2>2. PICK acts : acts = DeriveActivities(known[p], Listed(p))
      OBVIOUS
    <2>3. PICK t, L : tick' = [tick EXCEPT !.pull = p, !.acts = acts, !.top = t, !.listing = L]
      BY <1>7, <2>2 DEF TakePull
    <2>4. TickRow(tick') /\ tick'.pull = p /\ tick'.acts = acts
      BY <1>1, <2>3 DEF PollTyped, TickRow
    <2>5. acts \subseteq Activities /\ (~known[p].seen => acts = {"opened"} \/ acts = {"closed"})
      BY <2>2 DEF DeriveActivities, Activities
    <2>6. PollTyped'
      BY <1>1, <1>2, <2>1, <2>4 DEF PollTyped, forgeVars
    <2>7. AtHandIsTold'
      BY <2>1, <2>4, <2>5 DEF AtHandIsTold
    <2>. QED BY <1>2, <2>1, <2>6, <2>7, InPass, PassKeeps DEF AnnouncedThenRecorded, Resources
  <1>8. ASSUME NEW a \in tick.acts, EmitPREvent(a) PROVE PollerTracked' /\ AnnouncedThenRecorded
    <2>1. passAt = "pulls" /\ UNCHANGED <<passAt, known, cursor>>
      BY <1>8 DEF EmitPREvent, Running
    <2>2. PICK k : k = <<a, tick.pull, Listed(tick.pull).head>>
      OBVIOUS
    <2>3. emitted' = emitted \cup {k} /\ tick' = [tick EXCEPT !.acts = tick.acts \ {a}]
      BY <1>8, <2>2 DEF EmitPREvent, Says
    <2>4. a \in Activities /\ k[1] = a /\ k[2] = tick.pull
      BY <1>1, <2>2 DEF AtHandIsTold
    <2>5. TickRow(tick') /\ tick'.pull = tick.pull /\ tick'.acts = tick.acts \ {a}
      BY <1>1, <2>3 DEF PollTyped, TickRow
    <2>6. PollTyped'
      BY <1>1, <1>2, <2>1, <2>5 DEF PollTyped, forgeVars
    <2>7. AtHandIsTold'
      BY <1>1, <2>1, <2>3, <2>4, <2>5 DEF AtHandIsTold
    <2>. QED BY <1>2, <2>1, <2>3, <2>4, <2>6, <2>7, InPass, PassKeeps DEF AnnouncedThenRecorded, Resources, OfPulls
  <1>. QED BY <1>3, <1>4, <1>5, <1>6, <1>7, <1>8

(* Reviews, comments and checks: each listed from its cursor on. *)
LEMMA OthersKeep ==
  ASSUME PollerTracked,
         \/ EndReviews \/ PollComments \/ ListHeads
         \/ \E p \in Pulls : PollReviews(p) \/ PollChecks(p)
  PROVE  PollerTracked' /\ AnnouncedThenRecorded
  <1>1. ForgeTyped /\ PollTyped /\ BehindBaseline /\ AtHandIsTold
    BY DEF PollerTracked
  <1>2. UNCHANGED <<forgeVars, baselined, since>>
    BY DEF EndReviews, PollComments, ListHeads, PollReviews, PollChecks, Still
  <1>3. CASE EndReviews
    BY <1>2, <1>3, EndKeeps DEF EndReviews, Running, Resources
  <1>4. CASE PollComments
    <2>1. passAt = "comments" /\ UNCHANGED known
      BY <1>4 DEF PollComments, Fresh, Running
    <2>2. PICK cs, S, u :
            /\ cs \in Listings
            /\ S = {c.updated : c \in cs} \cup {cursor["comments"]}
            /\ u = CHOOSE t \in S : \A v \in S : v <= t
            /\ emitted' = emitted \cup {<<"comment", c.id, c.at>> : c \in {d \in cs : Created(d)}}
            /\ TouchCursor("comments", u)
      BY <1>4 DEF PollComments
    <2>3. cs \subseteq comments
      BY <2>2 DEF Listings
    <2>4. baselined /\ since \in Nat /\ cursor["comments"] \in Nat /\ cursor["checks"] \in Nat /\ now \in Nat /\ RowsHold
      BY <2>1, InPass DEF Resources
    <2>5. u \in Nat /\ u >= cursor["comments"]
      <3>1. PICK n \in Nat : n = now + cursor["comments"]
        BY <2>4
      <3>2. S \subseteq 0..n /\ cursor["comments"] \in S
        BY <1>1, <2>2, <2>3, <2>4, <3>1 DEF ForgeTyped
      <3>3. u \in S /\ \A v \in S : v <= u
        BY <2>2, <3>2, Greatest
      <3>. QED BY <2>4, <3>2, <3>3
    <2>6. ASSUME NEW k \in emitted' \ emitted PROVE AllowedNews(k)
      <3>1. PICK c \in comments : k = <<"comment", c.id, c.at>> /\ c.at >= cursor["comments"]
        BY <2>2, <2>3, <2>6 DEF Created
      <3>2. k[1] = "comment" /\ k[3] = c.at /\ c.at \in Nat
        BY <1>1, <3>1 DEF ForgeTyped
      <3>. QED BY <2>4, <3>1, <3>2 DEF AllowedNews, RowsHold
    <2>7. emitted \subseteq emitted'
      BY <2>2
    <2>. QED BY <1>2, <2>1, <2>2, <2>5, <2>6, <2>7, TouchKeeps
  <1>5. CASE ListHeads
    <2>1. passAt = "checks" /\ UNCHANGED <<known, emitted>>
      BY <1>5 DEF ListHeads, Fresh, Running
    <2>2. CASE TouchCursor("checks", cursor["checks"])
      <3>1. cursor["checks"] \in Nat /\ cursor["checks"] >= cursor["checks"]
        BY <1>1 DEF PollTyped
      <3>. QED BY <1>2, <2>1, <2>2, <3>1, TouchKeeps
    <2>3. CASE UNCHANGED <<cursor, passAt>> /\ \E H : tick' = [tick EXCEPT !.todo = H, !.top = cursor["checks"]]
      <3>1. TickRow(tick') /\ tick'.pull = tick.pull /\ tick'.acts = tick.acts /\ tick'.top = cursor["checks"]
        BY <1>1, <2>3 DEF PollTyped, TickRow
      <3>2. tick'.top \in Nat /\ tick'.top >= cursor["checks"]
        BY <1>1, <3>1 DEF PollTyped
      <3>3. PollTyped'
        BY <1>1, <1>2, <2>1, <2>3, <3>1, <3>2 DEF PollTyped, forgeVars
      <3>4. AtHandIsTold'
        BY <1>1, <2>1, <2>3, <3>1 DEF AtHandIsTold
      <3>. QED BY <1>2, <2>1, <2>3, <3>2, <3>3, <3>4, InPass, PassKeeps DEF AnnouncedThenRecorded, Resources
    <2>. QED BY <1>5, <2>2, <2>3 DEF ListHeads
  <1>6. ASSUME NEW p \in Pulls, PollReviews(p) PROVE PollerTracked' /\ AnnouncedThenRecorded
    <2>1. passAt = "reviews" /\ UNCHANGED <<passAt, cursor>> /\ \E T : tick' = [tick EXCEPT !.touched = T]
      BY <1>6 DEF PollReviews, Running
    <2>2. PICK rs : rs = {r \in reviews : r.pull = p /\ r.at >= known[p].reviewed}
      OBVIOUS
    <2>3. emitted' = emitted \cup {<<"review", r.id, r.at>> : r \in rs}
      BY <1>6, <2>2 DEF PollReviews
    <2>4. PICK S : S = {r.at : r \in rs} \cup {known[p].reviewed}
      OBVIOUS
    <2>5. PICK u : u = CHOOSE t \in S : \A r \in rs : r.at <= t
      OBVIOUS
    <2>6. known' = [known EXCEPT ![p] = [known[p] EXCEPT !.reviewed = u]]
      BY <1>6, <2>2, <2>4, <2>5 DEF PollReviews
    <2>7. baselined /\ since \in Nat /\ now \in Nat /\ known[p].reviewed \in Nat /\ tick.pull = 0 /\ RowsKept
      BY <1>2, <2>1, InPass DEF Resources
    <2>8. u \in Nat /\ u >= known[p].reviewed
      <3>1. PICK n \in Nat : n = now + known[p].reviewed
        BY <2>7
      <3>2. \A r \in rs : r.at \in 0..now /\ r.at >= known[p].reviewed /\ r.at \in S
        BY <1>1, <2>2, <2>4 DEF ForgeTyped
      <3>3. S \subseteq 0..n /\ S # {} /\ \A v \in S : v \in Nat /\ v >= known[p].reviewed
        <4>1. known[p].reviewed \in 0..n /\ known[p].reviewed >= known[p].reviewed /\ known[p].reviewed \in S
          BY <2>4, <2>7, <3>1
        <4>2. \A r \in rs : r.at \in Nat /\ r.at \in 0..n
          BY <2>7, <3>1, <3>2
        <4>3. ASSUME NEW v \in S PROVE v \in 0..n /\ v \in Nat /\ v >= known[p].reviewed
          BY <2>4, <2>7, <3>2, <4>1, <4>2
        <4>. QED BY <4>1, <4>3
      <3>4. \E t \in S : \A v \in S : v <= t
        BY <3>3, Greatest
      <3>5. \E t \in S : \A r \in rs : r.at <= t
        BY <3>2, <3>4
      <3>6. u \in S
        BY <2>5, <3>5
      <3>. QED BY <3>3, <3>6
    <2>9. DOMAIN known' = Pulls
          /\ \A q \in Pulls :
               KnownRow(known'[q]) /\ known'[q].reviewed >= known[q].reviewed /\ known'[q].seen = known[q].seen
      <3>1. DOMAIN known' = Pulls /\ known'[p] = [known[p] EXCEPT !.reviewed = u]
            /\ \A q \in Pulls : q # p => known'[q] = known[q]
        BY <1>1, <2>6 DEF PollTyped
      <3>2. \A q \in Pulls : KnownRow(known[q]) /\ known[q].reviewed \in Nat
        BY <1>1 DEF PollTyped, KnownRow
      <3>3. KnownRow(known'[p]) /\ known'[p].reviewed = u /\ known'[p].seen = known[p].seen
        BY <2>8, <3>1, <3>2 DEF KnownRow
      <3>4. ASSUME NEW q \in Pulls, q # p
            PROVE  KnownRow(known'[q]) /\ known'[q].reviewed >= known[q].reviewed /\ known'[q].seen = known[q].seen
        <4>1. known[q].reviewed >= known[q].reviewed
          BY <3>2
        <4>. QED BY <3>1, <3>2, <3>4, <4>1
      <3>. QED BY <2>8, <3>1, <3>3, <3>4
    <2>10. TickRow(tick') /\ tick'.pull = tick.pull /\ tick'.acts = tick.acts
      BY <1>1, <2>1 DEF PollTyped, TickRow
    <2>11. PollTyped'
      BY <1>1, <1>2, <2>1, <2>9, <2>10 DEF PollTyped, forgeVars
    <2>12. AtHandIsTold'
      BY <1>1, <2>7, <2>10 DEF AtHandIsTold
    <2>13. ASSUME NEW k \in emitted' \ emitted PROVE AllowedNews(k)
      <3>1. PICK r \in rs : k = <<"review", r.id, r.at>>
        BY <2>3, <2>13
      <3>2. k[1] = "review" /\ k[3] = r.at /\ r.at \in Nat /\ r.at >= known[p].reviewed /\ (r.at >= since \/ known[p].reviewed >= since)
        BY <1>1, <2>2, <2>7, <3>1 DEF ForgeTyped, BehindBaseline
      <3>. QED BY <2>7, <3>2 DEF AllowedNews
    <2>14. AnnouncedThenRecorded /\ emitted \subseteq emitted'
      BY <2>3, <2>9 DEF AnnouncedThenRecorded
    <2>. QED BY <1>2, <2>1, <2>7, <2>9, <2>11, <2>12, <2>13, <2>14, PassKeeps
  <1>7. ASSUME NEW p \in Pulls, PollChecks(p) PROVE PollerTracked' /\ AnnouncedThenRecorded
    <2>1. passAt = "checks" /\ p \in tick.todo /\ UNCHANGED known
      BY <1>7 DEF PollChecks, Running
    <2> DEFINE cs == {s \in suites : s.pull = p /\ s.head = known[p].head /\ s.at >= cursor["checks"]}
               top == CHOOSE t \in {s.at : s \in cs} \cup {tick.top} : \A s \in cs : s.at <= t
    <2>2. emitted' = emitted \cup {<<"check", s.id, s.at>> : s \in cs}
      BY <1>7 DEF PollChecks
    <2>3. tick.todo = {p} => TouchCursor("checks", Later(top, tick.top))
      BY <1>7 DEF PollChecks
    <2>4. tick.todo # {p} =>
            tick' = [tick EXCEPT !.todo = @ \ {p}, !.top = Later(top, @)] /\ UNCHANGED <<cursor, health, passAt>>
      BY <1>7 DEF PollChecks
    <2> HIDE DEF top
    <2>5. \A s \in cs : s \in suites /\ s.at >= cursor["checks"]
      OBVIOUS
    <2> HIDE DEF cs
    <2>6. baselined /\ since \in Nat /\ now \in Nat /\ tick.pull = 0 /\ cursor["comments"] \in Nat /\ cursor["checks"] \in Nat
          /\ RowsHold /\ (UNCHANGED <<cursor, since>> => RowsKept)
          /\ \A q \in Pulls : known[q].reviewed >= known[q].reviewed
      BY <2>1, InPass DEF Resources
    <2>7. tick.top \in Nat /\ tick.top >= cursor["checks"]
      BY <1>1, <2>1 DEF PollTyped, BehindBaseline
    <2>8. top \in Nat
      <3> DEFINE S == {s.at : s \in cs} \cup {tick.top}
      <3>1. PICK n \in Nat : n = now + tick.top
        BY <2>6, <2>7
      <3>2. \A s \in cs : s.at \in 0..now /\ s.at \in S
        BY <1>1, <2>5 DEF ForgeTyped
      <3>3. S \subseteq 0..n /\ S # {}
        BY <2>6, <2>7, <3>1, <3>2
      <3> HIDE DEF S
      <3>4. \E t \in S : \A s \in cs : s.at <= t
        BY <3>2, <3>3, Greatest
      <3>5. top \in S
        BY <3>4 DEF top, S
      <3>. QED BY <3>3, <3>5
    <2>9. PICK u \in Nat : u = Later(top, tick.top) /\ u >= cursor["checks"]
      BY <2>6, <2>7, <2>8 DEF Later
    <2>10. ASSUME NEW k \in emitted' \ emitted PROVE AllowedNews(k)
      <3>1. PICK s \in cs : k = <<"check", s.id, s.at>>
        BY <2>2, <2>10
      <3>2. k[1] = "check" /\ k[3] = s.at /\ s.at \in Nat /\ s.at >= cursor["checks"]
        BY <1>1, <2>5, <3>1 DEF ForgeTyped
      <3>. QED BY <2>6, <3>2 DEF AllowedNews, RowsHold
    <2>11. AnnouncedThenRecorded /\ emitted \subseteq emitted'
      BY <2>1, <2>2 DEF AnnouncedThenRecorded
    <2>12. CASE tick.todo = {p}
      BY <1>2, <2>1, <2>3, <2>9, <2>10, <2>11, <2>12, TouchKeeps
    <2>13. CASE tick.todo # {p}
      <3>1. tick' = [tick EXCEPT !.todo = tick.todo \ {p}, !.top = u] /\ UNCHANGED <<cursor, passAt>>
        BY <2>4, <2>9, <2>13
      <3>2. TickRow(tick') /\ tick'.pull = tick.pull /\ tick'.acts = tick.acts /\ tick'.top = u
        BY <1>1, <3>1 DEF PollTyped, TickRow
      <3>3. PollTyped'
        BY <1>1, <1>2, <2>1, <3>1, <3>2 DEF PollTyped, forgeVars
      <3>4. AtHandIsTold'
        BY <1>1, <2>6, <3>2 DEF AtHandIsTold
      <3>. QED BY <1>2, <2>1, <2>6, <2>9, <2>10, <2>11, <3>1, <3>2, <3>3, <3>4, PassKeeps
    <2>. QED BY <2>12, <2>13
  <1>. QED BY <1>3, <1>4, <1>5, <1>6, <1>7

(* The baseline, row by row. *)
LEMMA BaselineKeeps ==
  ASSUME PollerTracked, BaselinePulls \/ \E r \in {"comments", "checks"} : BaselineRest(r)
  PROVE  PollerTracked' /\ AnnouncedThenRecorded
  <1>1. ForgeTyped /\ PollTyped /\ BehindBaseline /\ AtHandIsTold /\ OldStaysQuiet
    BY DEF PollerTracked
  <1>2. UNCHANGED <<forgeVars, tick, emitted>>
    BY DEF BaselinePulls, BaselineRest, Still
  <1>3. ForgeTyped'
    BY <1>1, <1>2 DEF forgeVars, ForgeTyped
  <1>4. CASE BaselinePulls
    <2>1. ~baselined /\ baselined' = TRUE /\ since' = now /\ passAt' = "baseline" /\ emitted = {} /\ now \in Nat /\ passAt = "idle"
      BY <1>1, <1>4 DEF BaselinePulls, BehindBaseline, ForgeTyped
    <2>2. known' = [p \in Pulls |-> IF pr[p].made
            THEN [seen |-> TRUE, open |-> pr[p].open, head |-> pr[p].head, draft |-> pr[p].draft, reviewed |-> now]
            ELSE Unseen]
      BY <1>4 DEF BaselinePulls
    <2>3. PICK u : cursor' = [cursor EXCEPT !["pulls"] = u]
      BY <1>4 DEF BaselinePulls
    <2>4. DOMAIN known' = Pulls /\ \A p \in Pulls : KnownRow(known'[p]) /\ (pr[p].made => known'[p].reviewed = now)
      BY <2>1, <2>2 DEF KnownRow, Unseen
    <2>5. /\ DOMAIN cursor' = {"pulls", "comments", "checks"} /\ cursor'["checks"] = cursor["checks"]
          /\ cursor'["comments"] = cursor["comments"]
      BY <1>1, <2>3 DEF PollTyped
    <2>6. PollTyped'
      BY <1>1, <1>2, <2>1, <2>4, <2>5 DEF PollTyped, forgeVars
    <2>7. BehindBaseline'
      <3>1. \A r \in reviews : known'[r.pull].reviewed = now
        BY <1>1, <2>4 DEF ForgeTyped
      <3>2. RowsHold'
        BY <1>1, <1>4, <2>5 DEF RowsHold, Rowless, BehindBaseline, BaselinePulls
      <3>. QED BY <1>2, <2>1, <3>1, <3>2 DEF BehindBaseline, forgeVars
    <2>8. AtHandIsTold'
      BY <1>1, <1>2, <2>1 DEF AtHandIsTold
    <2>9. OldStaysQuiet' /\ AnnouncedThenRecorded
      BY <1>2, <2>1 DEF OldStaysQuiet, AnnouncedThenRecorded
    <2>. QED BY <1>3, <2>6, <2>7, <2>8, <2>9 DEF PollerTracked
  <1>5. ASSUME NEW r \in {"comments", "checks"}, BaselineRest(r) PROVE PollerTracked' /\ AnnouncedThenRecorded
    <2>1. /\ passAt = "baseline" /\ passAt' \in {"baseline", "idle"} /\ baselined /\ UNCHANGED <<known, baselined, since>>
          /\ cursor' = [cursor EXCEPT ![r] = since]
      BY <1>1, <1>5 DEF BaselineRest, BehindBaseline
    <2>2. /\ DOMAIN cursor' = {"pulls", "comments", "checks"} /\ cursor'[r] = since
          /\ \A s \in {"comments", "checks"} : s # r => cursor'[s] = cursor[s]
      BY <1>1, <2>1 DEF PollTyped
    <2>3. since \in Nat /\ since >= since
      BY <1>1 DEF PollTyped, ForgeTyped
    <2>4. PollTyped'
      BY <1>1, <1>2, <2>1, <2>2, <2>3 DEF PollTyped, forgeVars
    <2>5. RowsHold'
      BY <1>1, <2>1, <2>2, <2>3 DEF BehindBaseline, RowsHold, Rowless
    <2>6. BehindBaseline'
      BY <1>1, <1>2, <2>1, <2>5 DEF BehindBaseline, forgeVars
    <2>7. AtHandIsTold' /\ OldStaysQuiet' /\ AnnouncedThenRecorded
      BY <1>1, <1>2, <2>1 DEF BehindBaseline, AtHandIsTold, OldStaysQuiet, AnnouncedThenRecorded
    <2>. QED BY <1>3, <2>4, <2>6, <2>7 DEF PollerTracked
  <1>. QED BY <1>4, <1>5

LEMMA CrashKeeps ==
  ASSUME PollerTracked, PollerCrash
  PROVE  PollerTracked' /\ AnnouncedThenRecorded
  <1>1. ForgeTyped /\ PollTyped /\ BehindBaseline /\ AtHandIsTold /\ OldStaysQuiet
    BY DEF PollerTracked
  <1>2. /\ passAt' = "idle" /\ tick' = NoTick
        /\ UNCHANGED <<forgeVars, known, cursor, baselined, emitted, since>>
    BY DEF PollerCrash
  <1>3. TickRow(NoTick) /\ NoTick.pull = 0 /\ NoTick.acts = {}
    BY DEF TickRow, NoTick
  <1>4. ForgeTyped'
    BY <1>1, <1>2 DEF forgeVars, ForgeTyped
  <1>5. PollTyped'
    BY <1>1, <1>2, <1>3 DEF PollTyped, forgeVars, KnownRow
  <1>6. BehindBaseline' /\ AtHandIsTold' /\ OldStaysQuiet' /\ AnnouncedThenRecorded
    BY <1>1, <1>2, <1>3 DEF BehindBaseline, RowsHold, Rowless, forgeVars, AtHandIsTold, OldStaysQuiet, AnnouncedThenRecorded
  <1>. QED BY <1>4, <1>5, <1>6 DEF PollerTracked

LEMMA PollerStep ==
  ASSUME PollerTracked, [PollerNext]_pollerVars
  PROVE  PollerTracked' /\ AnnouncedThenRecorded
  <1>1. CASE InTick
    <2>1. ASSUME NEW r \in Resources, Skip(r) PROVE PollerTracked' /\ AnnouncedThenRecorded
      BY <2>1, EndKeeps DEF Skip, Still
    <2>. QED BY <1>1, <2>1, PullsKeep, OthersKeep, BaselineKeeps DEF InTick
  <1>2. ASSUME NEW r \in Resources, FailPass(r) PROVE PollerTracked' /\ AnnouncedThenRecorded
    BY <1>2, EndKeeps DEF FailPass, Failed
  <1>3. CASE UNCHANGED pollerVars
    <2>1. ForgeTyped' /\ PollTyped'
      BY <1>3 DEF PollerTracked, pollerVars, pollVars, forgeVars, ForgeTyped, PollTyped, KnownRow
    <2>2. BehindBaseline' /\ AtHandIsTold' /\ OldStaysQuiet' /\ AnnouncedThenRecorded
      BY <1>3 DEF PollerTracked, pollerVars, pollVars, forgeVars, BehindBaseline, RowsHold, Rowless, AtHandIsTold,
         OldStaysQuiet, AnnouncedThenRecorded
    <2>. QED BY <2>1, <2>2 DEF PollerTracked
  <1>. QED BY <1>1, <1>2, <1>3, ForgeKeeps, CrashKeeps DEF PollerNext

LEMMA PollerStarts == PollerInit => PollerTracked
  <1> SUFFICES ASSUME PollerInit PROVE PollerTracked
    OBVIOUS
  <1>1. TickRow(NoTick) /\ NoTick.pull = 0 /\ NoTick.acts = {} /\ NoTick.todo = {}
    BY DEF TickRow, NoTick
  <1>2. ForgeTyped
    BY DEF PollerInit, ForgeTyped, PullRows
  <1>3. PollTyped
    <2>1. DOMAIN known = Pulls /\ \A p \in Pulls : KnownRow(known[p])
      BY DEF PollerInit, KnownRow, Unseen
    <2>2. DOMAIN cursor = {"pulls", "comments", "checks"} /\ cursor["comments"] = 0 /\ cursor["checks"] = 0
      BY DEF PollerInit
    <2>3. since = 0 /\ now = 1 /\ baselined = FALSE /\ TickRow(tick)
      BY <1>1 DEF PollerInit
    <2>4. passAt \in Resources \cup {"idle", "baseline"} /\ passAt # "checks"
      BY DEF PollerInit
    <2>5. since \in 0..now
      BY <2>3
    <2>6. cursor["comments"] \in Nat /\ cursor["checks"] \in Nat
      BY <2>2
    <2>. QED BY <2>1, <2>2, <2>3, <2>4, <2>5, <2>6 DEF PollTyped
  <1>4. BehindBaseline /\ AtHandIsTold /\ OldStaysQuiet
    BY <1>1 DEF PollerInit, BehindBaseline, Rowless, AtHandIsTold, OldStaysQuiet
  <1>. QED BY <1>2, <1>3, <1>4 DEF PollerTracked

(* The safety part of NewsIsTold: nothing older than the baseline is ever announced, except by a
   listing that a crash within the baseline left without a cursor row, and a pull request is
   announced before it is recorded. *)
THEOREM NewsIsTrue == PollerSpec => [][OldStaysQuiet' /\ AnnouncedThenRecorded]_pollerVars
  <1>1. PollerTracked => OldStaysQuiet
    BY DEF PollerTracked
  <1>2. PollerTracked' => OldStaysQuiet'
    BY <1>1, PTL
  <1>3. PollerTracked /\ [PollerNext]_pollerVars => [OldStaysQuiet' /\ AnnouncedThenRecorded]_pollerVars
    BY <1>2, PollerStep
  <1>4. PollerTracked /\ [PollerNext]_pollerVars => PollerTracked'
    BY PollerStep
  <1>. QED BY <1>3, <1>4, PollerStarts, PTL DEF PollerSpec


------------------------------------------------------------------------------
(* RepoLink. *)

WorkerRow(x) == DOMAIN x = {"pc", "cancelled", "of"} /\ x.cancelled \in BOOLEAN

LinkTracked == DOMAIN workers = Workers /\ (\A w \in Workers : WorkerRow(workers[w])) /\ OnePoller

(* The least of a set of slots. *)
LEMMA LeastSlot ==
  ASSUME NEW S, S \subseteq Workers, S # {}
  PROVE  \E w \in S : \A v \in S : w <= v
  <1>1. S \subseteq Nat
    BY RepoLinkConstants
  <1>2. PICK w \in S : \A v \in S : ~ (<<v, w>> \in OpToRel(<, Nat))
    BY <1>1, NatLessThanWellFounded, WFMin
  <1>3. ASSUME NEW v \in S PROVE w <= v
    <2>1. w \in Nat /\ v \in Nat
      BY <1>1
    <2>2. ~(v < w)
      BY <1>2, <2>1 DEF OpToRel
    <2>. QED BY <2>1, <2>2
  <1>. QED BY <1>3

(* A worker's row changes and the registry does not. *)
LEMMA RowKeeps ==
  ASSUME LinkTracked, NEW w \in Workers, NEW x, WorkerRow(x), workers' = [workers EXCEPT ![w] = x], UNCHANGED registered,
         x.pc # "none" /\ ~x.cancelled /\ x.pc # "leave" => Polling(w) /\ ~workers[w].cancelled /\ workers[w].pc # "leave"
  PROVE  LinkTracked'
  BY DEF LinkTracked, OnePoller, Polling

(* Spawned is registered, where nobody was. *)
LEMMA SpawnKeeps ==
  ASSUME LinkTracked, registered = 0, NEW w \in Workers, workers' = Spawned(workers, w), registered' = w
  PROVE  LinkTracked'
  <1>1. PICK x : x = [pc |-> "tick", cancelled |-> FALSE, of |-> NoRepo]
    OBVIOUS
  <1>2. workers' = [workers EXCEPT ![w] = x] /\ WorkerRow(x)
    BY <1>1 DEF Spawned, WorkerRow
  <1>3. ASSUME NEW v \in Workers, Polling(v)', ~workers'[v].cancelled, workers'[v].pc # "leave"
        PROVE  registered' = v
    <2>1. CASE v # w
      <3>1. registered = v
        BY <1>2, <1>3, <2>1 DEF LinkTracked, OnePoller, Polling
      <3>. QED BY <3>1, RepoLinkConstants
    <2>. QED BY <2>1
  <1>4. DOMAIN workers' = Workers /\ \A v \in Workers : WorkerRow(workers'[v])
    BY <1>2 DEF LinkTracked
  <1>. QED BY <1>3, <1>4 DEF LinkTracked, OnePoller

(* Whoever is registered is cancelled. *)
LEMMA CancelKeeps ==
  ASSUME LinkTracked, NEW ws, ws = Cancelled(workers, registered)
  PROVE  DOMAIN ws = Workers /\ \A w \in Workers :
           WorkerRow(ws[w]) /\ ws[w].pc = workers[w].pc
           /\ (ws[w].pc # "none" /\ ~ws[w].cancelled => ws[w].pc = "leave")
  <1>1. CASE registered \in Workers
    <2>1. PICK x : x = [workers[registered] EXCEPT !.cancelled = TRUE]
      OBVIOUS
    <2>2. WorkerRow(workers[registered])
      BY <1>1 DEF LinkTracked
    <2>3. WorkerRow(x) /\ x.cancelled = TRUE /\ x.pc = workers[registered].pc
      BY <2>1, <2>2 DEF WorkerRow
    <2>4. ws = [workers EXCEPT ![registered] = x]
      BY <1>1, <2>1, RepoLinkConstants DEF Cancelled
    <2>. QED BY <1>1, <2>3, <2>4 DEF LinkTracked, OnePoller, Polling
  <1>2. CASE registered \notin Workers
    <2>1. DOMAIN ws = Workers /\ \A w \in Workers : ws[w] = workers[w]
      BY <1>2 DEF Cancelled, LinkTracked
    <2>. QED BY <1>2, <2>1 DEF LinkTracked, OnePoller, Polling
  <1>. QED BY <1>1, <1>2

LEMMA WorkersKeep ==
  ASSUME LinkTracked, NEW w \in Workers, InPoller(w)
  PROVE  LinkTracked'
  <1>1. PICK x : x = workers[w]
    OBVIOUS
  <1>2. WorkerRow(x)
    BY <1>1 DEF LinkTracked
  <1>3. WorkerRow(NoWorker) /\ NoWorker.pc = "none"
    BY DEF WorkerRow, NoWorker
  <1>4. CASE PollTick(w)
    <2>1. PICK y : /\ workers' = [workers EXCEPT ![w] = y]
                   /\ y \in {[x EXCEPT !.pc = "leave"], [x EXCEPT !.pc = "poll", !.of = repoRow.of]}
      BY <1>1, <1>4 DEF PollTick, NoRepoRowLeaves
    <2>2. WorkerRow(y) /\ y.cancelled = x.cancelled
      BY <1>2, <2>1 DEF WorkerRow
    <2>3. x.pc = "tick" /\ ~x.cancelled /\ UNCHANGED registered
      BY <1>1, <1>4 DEF PollTick
    <2>. QED BY <1>1, <2>1, <2>2, <2>3, RowKeeps DEF Polling
  <1>5. CASE Poll(w)
    <2>1. PICK y : y = [x EXCEPT !.pc = "tick"]
      OBVIOUS
    <2>2. workers' = [workers EXCEPT ![w] = y] /\ x.pc = "poll" /\ ~x.cancelled /\ UNCHANGED registered
      BY <1>1, <1>5, <2>1 DEF Poll
    <2>3. WorkerRow(y)
      BY <1>2, <2>1 DEF WorkerRow
    <2>. QED BY <1>1, <2>2, <2>3, RowKeeps DEF Polling
  <1>6. CASE Return(w)
    BY <1>3, <1>6, RowKeeps DEF Return
  <1>7. CASE Leave(w)
    <2>1. PICK ws : ws = Cancelled(workers, registered)
      OBVIOUS
    <2>2. workers' = [ws EXCEPT ![w] = NoWorker] /\ registered' = 0
      BY <1>7, <2>1 DEF Leave, DropWorker
    <2>3. DOMAIN ws = Workers /\ \A v \in Workers :
           WorkerRow(ws[v]) /\ ws[v].pc = workers[v].pc
           /\ (ws[v].pc # "none" /\ ~ws[v].cancelled => ws[v].pc = "leave")
      BY <2>1, CancelKeeps
    <2>. QED BY <1>3, <2>2, <2>3 DEF LinkTracked, OnePoller, Polling
  <1>. QED BY <1>4, <1>5, <1>6, <1>7 DEF InPoller

LEMMA RestartKeeps ==
  ASSUME LinkTracked, Restart
  PROVE  LinkTracked'
  <1>1. PICK none : none = [w \in Workers |-> NoWorker]
    OBVIOUS
  <1>2. PICK first : first = CHOOSE w \in Workers : \A v \in Workers : w <= v
    OBVIOUS
  <1>3. WorkerRow(NoWorker) /\ NoWorker.pc = "none"
    BY DEF WorkerRow, NoWorker
  <1>4. \/ workers' = none
        \/ workers' = Spawned(none, first) /\ registered' = first
    BY <1>1, <1>2 DEF Restart
  <1>5. CASE workers' = none
    BY <1>1, <1>3, <1>5 DEF LinkTracked, OnePoller, Polling
  <1>6. CASE workers' = Spawned(none, first) /\ registered' = first
    <2>1. PICK x : x = [pc |-> "tick", cancelled |-> FALSE, of |-> NoRepo]
      OBVIOUS
    <2>2. workers' = [none EXCEPT ![first] = x] /\ WorkerRow(x)
      BY <1>6, <2>1 DEF Spawned, WorkerRow
    <2>. QED BY <1>1, <1>3, <1>6, <2>2 DEF LinkTracked, OnePoller, Polling
  <1>. QED BY <1>4, <1>5, <1>6

LEMMA RepoLinkStep == LinkTracked /\ [RepoLinkNext]_repoLinkVars => LinkTracked'
  <1> SUFFICES ASSUME LinkTracked, [RepoLinkNext]_repoLinkVars PROVE LinkTracked'
    OBVIOUS
  <1>1. CASE UNCHANGED <<workers, registered>>
    BY <1>1 DEF LinkTracked, OnePoller, Polling
  <1>2. CASE HandleConnected
    <2>1. CASE registered = 0
      <3> DEFINE S == {w \in Workers : ~Polling(w)}
      <3>1. \E w \in S : \A v \in S : w <= v
        <4>1. S \subseteq Workers /\ S # {}
          BY <1>2, <2>1 DEF HandleConnected
        <4> HIDE DEF S
        <4>. QED BY <4>1, LeastSlot
      <3>2. FreeSlot \in Workers
        BY <3>1 DEF FreeSlot
      <3>3. workers' = Spawned(workers, FreeSlot) /\ registered' = FreeSlot
        BY <1>2, <2>1 DEF HandleConnected, EnsureWorker
      <3>. QED BY <2>1, <3>2, <3>3, SpawnKeeps
    <2>2. CASE registered # 0
      BY <1>1, <1>2, <2>2 DEF HandleConnected, EnsureWorker
    <2>. QED BY <2>1, <2>2
  <1>3. CASE RemoveWorker
    <2>1. workers' = Cancelled(workers, registered) /\ registered' = 0
      BY <1>3 DEF RemoveWorker
    <2>. QED BY <2>1, CancelKeeps DEF LinkTracked, OnePoller, Polling
  <1>4. ASSUME NEW w \in Workers, InPoller(w) PROVE LinkTracked'
    BY <1>4, WorkersKeep
  <1>5. CASE Restart
    BY <1>5, RestartKeeps
  <1>6. ASSUME NEW u \in Users, Rotate(u) \/ Disconnect(u) \/ (\E r \in Repos : Connect(u, r)) \/ InRequest(u)
        PROVE  LinkTracked'
    <2>1. ServiceOnly
      BY <1>6 DEF Rotate, Disconnect, Connect, InRequest, ReadBefore, WriteRow, EmitConnected, RotateSet, RotateWrite,
         DeleteRow, DeleteToken, EmitDisconnected
    <2>. QED BY <1>1, <2>1 DEF ServiceOnly, pollSide
  <1>7. CASE ClearPollState
    BY <1>1, <1>7 DEF ClearPollState
  <1>8. CASE UNCHANGED repoLinkVars
    BY <1>1, <1>8 DEF repoLinkVars, pollSide
  <1>. QED BY <1>2, <1>3, <1>4, <1>5, <1>6, <1>7, <1>8 DEF RepoLinkNext

(* One poll goroutine per project, whatever the order in which connects, disconnects, a worker's own
   exit and restarts reach the registry: the safety part of OneWorkerOrNone. *)
THEOREM OnePollerHolds == RepoLinkSpec => []OnePoller
  <1>1. RepoLinkInit => LinkTracked
    <2>1. WorkerRow(NoWorker) /\ NoWorker.pc = "none"
      BY DEF WorkerRow, NoWorker
    <2>. QED BY <2>1 DEF RepoLinkInit, LinkTracked, OnePoller, Polling
  <1>2. LinkTracked => OnePoller
    BY DEF LinkTracked
  <1>. QED BY <1>1, <1>2, RepoLinkStep, PTL DEF RepoLinkSpec
=============================================================================
