-------------------------- MODULE ElicitationProofs --------------------------
(***************************************************************************)
(* Proofs about Elicitation, for any calls, requests, responders, rows and *)
(* restarts: one human decides, and no call that waits misses the answer;  *)
(* about Session, for any messages and calls of the agent: what it is told *)
(* arrives once and in order, and what it did is on its own row; about     *)
(* Hub, for any frames, tabs and buffers: no gap and no duplicate; and     *)
(* about Attribution, for any agents, runs and pushes: whose doing it was. *)
(***************************************************************************)
EXTENDS Elicitation, Session, Hub, Attribution, FiniteSetTheorems,
        WellFoundedInduction, SequenceTheorems, TLAPS

USE DEF rowVars, callVars, respVars, Rows

------------------------------------------------------------------------------
(* What the steps are built from. *)

\* The scheduler's seam leaves a state of a run, whether the transition is refused or not.
LEMMA TransitionTyped ==
  ASSUME run \in RunState, NEW to \in RunState, Transition(to)
  PROVE  run' \in RunState
  BY DEF Transition, AfterTransition

LEMMA StateSets == {"running", "needs_input", "awaiting_approval"} \cup Terminal \subseteq RunState
  BY DEF RunState, Active, Parked, Terminal

\* Of some numbers one is the least: PendingByRequest's oldest row is there.
LEMMA Oldest ==
  ASSUME NEW S, S \subseteq Nat, S # {}
  PROVE  \E e \in S : \A f \in S : e <= f
  <1>1. PICK e \in S : \A f \in S : ~ (<<f, e>> \in OpToRel(<, Nat))
    BY NatLessThanWellFounded, WFMin
  <1>2. \A f \in S : ~(f < e)
    BY <1>1 DEF OpToRel
  <1> QED
    BY <1>2

\* A row of the request that is pending is taken up again.
LEMMA LookupFinds ==
  ASSUME TypeOK, NEW c \in Calls, SameRequest(asks[c]) # {}, Lookup(c)
  PROVE  \E e \in Rows : /\ row[e] = "pending" /\ request[e] = asks[c]
                         /\ el' = [el EXCEPT ![c] = e] /\ pc' = [pc EXCEPT ![c] = "park"]
  <1> DEFINE S == SameRequest(asks[c])
             oldest == CHOOSE e \in S : \A f \in S : e <= f
  <1>1. S \subseteq Nat
    BY ElicitationConstants DEF SameRequest, Pending
  <1>2. \E e \in S : \A f \in S : e <= f
    BY <1>1, Oldest
  <1>3. oldest \in S
    BY <1>2
  <1>4. el' = [el EXCEPT ![c] = oldest] /\ pc' = [pc EXCEPT ![c] = "park"]
    BY DEF Lookup
  <1>5. oldest \in Rows /\ row[oldest] = "pending" /\ request[oldest] = asks[c]
    BY <1>3 DEF SameRequest, Pending
  <1> QED
    BY <1>4, <1>5

\* A call that leaves with an error, or with the response its row stores, disturbs no other.
LEMMA ReturnKeeps ==
  ASSUME ElicitationInv, NEW c \in Calls, pc[c] \in {"reread", "blocked"},
         NEW r \in Responders \cup {"error"}, Return(c, r),
         r \in Responders => Resolved(el[c]) /\ response[el[c]] = r,
         UNCHANGED <<run, rowVars, respVars, rules, ending, restarts>>
  PROVE  ElicitationInv'
  <1> USE ElicitationConstants DEF ElicitationInv
  <1>1. TypeOK'
    <2>1. UNCHANGED <<run, rowVars, respVars, rules, ending, restarts, asks, el, got>>
      BY DEF Return
    <2>2. pc' = [pc EXCEPT ![c] = "returned"] /\ result' = [result EXCEPT ![c] = r]
          /\ waiters' = [waiters EXCEPT ![el[c]] = @ \ {c}]
      BY DEF Return
    <2>3. pc' \in [Calls -> {"idle", "lookup", "open", "park", "register", "reread", "blocked", "returned"}]
      BY <2>2 DEF TypeOK
    <2>4. result' \in [Calls -> Responders \cup {"none", "error"}]
      BY <2>2 DEF TypeOK
    <2>5. waiters' \in [Rows -> SUBSET Calls]
      <3>1. waiters \in [Rows -> SUBSET Calls]
        BY DEF TypeOK
      <3> QED
        BY ONLY <2>2, <3>1
    <2> QED
      BY <2>1, <2>3, <2>4, <2>5 DEF TypeOK, rowVars, respVars
  <1>2. RowsInOrder'
    BY DEF Return, RowsInOrder, Resolved
  <1>3. CallHasRow'
    BY DEF Return, TypeOK, CallHasRow, Waiting
  <1>4. WaitersAreRight'
    BY DEF Return, TypeOK, WaitersAreRight, Resolved
  <1>5. WinnerIsStored'
    BY DEF Return, WinnerIsStored, Resolved
  <1>6. OneResponse'
    <2> SUFFICES ASSUME NEW d \in Calls, result'[d] \in Responders
                 PROVE  /\ response[el[d]] = result'[d] /\ Resolved(el[d])
                        /\ request[el[d]] = asks[d]
      BY DEF Return, OneResponse, Resolved
    <2>1. CASE d = c
      BY <2>1 DEF Return, TypeOK, CallHasRow, Waiting
    <2>2. CASE d # c
      BY <2>2 DEF Return, TypeOK, OneResponse, Resolved
    <2> QED
      BY <2>1, <2>2
  <1>7. NoLostWakeup'
    BY DEF Return, TypeOK, NoLostWakeup
  <1> QED
    BY <1>1, <1>2, <1>3, <1>4, <1>5, <1>6, <1>7

------------------------------------------------------------------------------
(* The tool calls. *)

\* An agent calls a tool.
LEMMA CallKeeps ==
  ASSUME ElicitationInv, NEW c \in Calls, NEW q \in Requests, Call(c, q)
  PROVE  ElicitationInv'
  <1> USE ElicitationConstants DEF ElicitationInv
  <1>1. TypeOK'
    BY DEF Call, TypeOK
  <1>2. RowsInOrder'
    BY DEF Call, RowsInOrder, Resolved
  <1>3. CallHasRow'
    BY DEF Call, CallHasRow, Waiting
  <1>4. WaitersAreRight'
    BY DEF Call, WaitersAreRight, Resolved
  <1>5. WinnerIsStored'
    BY DEF Call, WinnerIsStored, Resolved
  <1>6. OneResponse'
    BY DEF Call, TypeOK, OneResponse, CallHasRow, Waiting
  <1>7. NoLostWakeup'
    BY DEF Call, NoLostWakeup
  <1> QED
    BY <1>1, <1>2, <1>3, <1>4, <1>5, <1>6, <1>7


\* A call finds its row, or that it has to open one.
LEMMA LookupKeeps ==
  ASSUME ElicitationInv, NEW c \in Calls, Lookup(c)
  PROVE  ElicitationInv'
  <1> USE ElicitationConstants DEF ElicitationInv
  <1>1. CASE SameRequest(asks[c]) = {}
    <2>1. /\ pc[c] = "lookup" /\ pc' = [pc EXCEPT ![c] = "open"]
          /\ UNCHANGED <<run, rowVars, asks, el, got, result, waiters, respVars, rules, ending,
                         restarts>>
      BY <1>1 DEF Lookup
    <2>2. TypeOK'
      BY <2>1 DEF TypeOK
    <2>3. RowsInOrder' /\ WinnerIsStored'
      BY <2>1 DEF RowsInOrder, WinnerIsStored, Resolved
    <2>4. CallHasRow'
      BY <2>1 DEF TypeOK, CallHasRow, Waiting
    <2>5. WaitersAreRight'
      BY <2>1 DEF TypeOK, WaitersAreRight, Resolved
    <2>6. OneResponse' /\ NoLostWakeup'
      BY <2>1 DEF TypeOK, OneResponse, NoLostWakeup
    <2> QED
      BY <2>2, <2>3, <2>4, <2>5, <2>6
  <1>2. CASE SameRequest(asks[c]) # {}
    <2>1. PICK e \in Rows : /\ row[e] = "pending" /\ request[e] = asks[c]
                            /\ el' = [el EXCEPT ![c] = e] /\ pc' = [pc EXCEPT ![c] = "park"]
      BY <1>2, LookupFinds
    <2>2. /\ pc[c] = "lookup"
          /\ UNCHANGED <<run, rowVars, asks, got, result, waiters, respVars, rules, ending, restarts>>
      BY DEF Lookup
    <2>3. TypeOK'
      BY <2>1, <2>2 DEF TypeOK
    <2>4. RowsInOrder' /\ WinnerIsStored'
      BY <2>2 DEF RowsInOrder, WinnerIsStored, Resolved
    <2>5. CallHasRow'
      BY <2>1, <2>2 DEF TypeOK, CallHasRow, Waiting, RowsInOrder
    <2>6. WaitersAreRight'
      BY <2>1, <2>2 DEF TypeOK, WaitersAreRight, Resolved
    <2>7. OneResponse'
      BY <2>1, <2>2 DEF TypeOK, OneResponse, CallHasRow
    <2>8. NoLostWakeup'
      BY <2>1, <2>2 DEF TypeOK, NoLostWakeup
    <2> QED
      BY <2>3, <2>4, <2>5, <2>6, <2>7, <2>8
  <1> QED
    BY <1>1, <1>2

\* A call opens a row of its own.
LEMMA OpenKeeps ==
  ASSUME ElicitationInv, NEW c \in Calls, OpenElicitation(c)
  PROVE  ElicitationInv'
  <1> USE ElicitationConstants DEF ElicitationInv
  <1>1. TypeOK'
    BY DEF OpenElicitation, TypeOK
  <1>2. RowsInOrder'
    BY DEF OpenElicitation, TypeOK, RowsInOrder, Resolved
  <1>3. CallHasRow'
    BY DEF OpenElicitation, TypeOK, CallHasRow, Waiting
  <1>4. WaitersAreRight'
    BY DEF OpenElicitation, TypeOK, WaitersAreRight, Resolved, CallHasRow, Waiting
  <1>5. WinnerIsStored'
    BY DEF OpenElicitation, TypeOK, WinnerIsStored, Resolved, RowsInOrder
  <1>6. OneResponse'
    BY DEF OpenElicitation, TypeOK, OneResponse, CallHasRow, Waiting
  <1>7. NoLostWakeup'
    BY DEF OpenElicitation, NoLostWakeup
  <1> QED
    BY <1>1, <1>2, <1>3, <1>4, <1>5, <1>6, <1>7


\* A call parks the run.
LEMMA ParkKeeps ==
  ASSUME ElicitationInv, NEW c \in Calls, Park(c)
  PROVE  ElicitationInv'
  <1> USE ElicitationConstants DEF ElicitationInv
  <1>1. TypeOK'
    BY TransitionTyped, StateSets DEF Park, TypeOK
  <1>2. RowsInOrder'
    BY DEF Park, RowsInOrder, Resolved
  <1>3. CallHasRow'
    BY DEF Park, CallHasRow, Waiting
  <1>4. WaitersAreRight'
    BY DEF Park, WaitersAreRight, Resolved
  <1>5. WinnerIsStored'
    BY DEF Park, WinnerIsStored, Resolved
  <1>6. OneResponse'
    BY DEF Park, OneResponse
  <1>7. NoLostWakeup'
    BY DEF Park, NoLostWakeup
  <1> QED
    BY <1>1, <1>2, <1>3, <1>4, <1>5, <1>6, <1>7


\* A call enters the waiters map before it reads the row again.
LEMMA RegisterKeeps ==
  ASSUME ElicitationInv, NEW c \in Calls, Register(c)
  PROVE  ElicitationInv'
  <1> USE ElicitationConstants DEF ElicitationInv
  <1>1. TypeOK'
    <2>1. UNCHANGED <<run, rowVars, asks, el, got, result, respVars, rules, ending, restarts>>
      BY DEF Register
    <2>2. pc' \in [Calls -> {"idle", "lookup", "open", "park", "register", "reread", "blocked", "returned"}]
      BY DEF Register, TypeOK
    <2>3. waiters' \in [Rows -> SUBSET Calls]
      <3>1. waiters \in [Rows -> SUBSET Calls]
        BY DEF TypeOK
      <3>2. waiters' = [waiters EXCEPT ![el[c]] = @ \cup {c}] /\ c \in Calls
        BY DEF Register
      <3> QED
        BY ONLY <3>1, <3>2
    <2> QED
      BY <2>1, <2>2, <2>3 DEF TypeOK, rowVars, respVars
  <1>2. RowsInOrder'
    BY DEF Register, RowsInOrder, Resolved
  <1>3. CallHasRow'
    BY DEF Register, CallHasRow, Waiting
  <1>4. WaitersAreRight'
    <2>1. el[c] \in Rows /\ pc[c] = "register"
      BY DEF Register, CallHasRow, Waiting, TypeOK
    <2>2. \A e \in Rows : waiters'[e] = IF e = el[c] THEN waiters[e] \cup {c} ELSE waiters[e]
      BY <2>1 DEF Register, TypeOK
    <2>3. \A d \in Calls : pc'[d] = IF d = c THEN "reread" ELSE pc[d]
      BY DEF Register, TypeOK
    <2>4. \A e \in Rows : \A d \in waiters'[e] : el'[d] = e /\ pc'[d] \in {"reread", "blocked"}
      BY <2>1, <2>2, <2>3 DEF Register, TypeOK, WaitersAreRight
    <2>5. ASSUME NEW d \in Calls, pc'[d] \in {"reread", "blocked"}
          PROVE  /\ d \in waiters'[el[d]] \/ Resolved(el[d])
                 /\ got[d] # "none" => Resolved(el[d]) /\ got[d] = response[el[d]]
      <3>1. CASE d = c
        <4>1. c \in waiters'[el[c]]
          BY <2>1, <2>2
        <4>2. got[c] = "none"
          BY <2>1 DEF WaitersAreRight
        <4> QED
          BY <3>1, <4>1, <4>2
      <3>2. CASE d # c
        <4>1. pc[d] \in {"reread", "blocked"}
          BY <2>3, <2>5, <3>2
        <4>2. el[d] \in Rows
          BY <4>1 DEF CallHasRow, Waiting, TypeOK
        <4>3. d \in waiters[el[d]] => d \in waiters'[el[d]]
          BY <2>2, <4>2
        <4> QED
          BY <4>1, <4>3 DEF WaitersAreRight
      <3> QED
        BY <3>1, <3>2
    <2> QED
      BY <2>4, <2>5 DEF Register, WaitersAreRight, Resolved
  <1>5. WinnerIsStored'
    BY DEF Register, WinnerIsStored, Resolved
  <1>6. OneResponse'
    BY DEF Register, OneResponse
  <1>7. NoLostWakeup'
    BY DEF Register, NoLostWakeup
  <1> QED
    BY <1>1, <1>2, <1>3, <1>4, <1>5, <1>6, <1>7

\* The row is read again: a call that finds it pending is in the waiters map, and blocks.
LEMMA RereadKeeps ==
  ASSUME ElicitationInv, NEW c \in Calls, Reread(c)
  PROVE  ElicitationInv'
  <1> USE ElicitationConstants DEF ElicitationInv
  <1>r. el[c] \in Rows /\ row[el[c]] # "absent"
    BY DEF Reread, CallHasRow, RowsInOrder, Waiting, TypeOK
  <1>1. CASE row[el[c]] = "pending"
    <2>1. /\ pc[c] = "reread" /\ pc' = [pc EXCEPT ![c] = "blocked"]
          /\ UNCHANGED <<run, rowVars, asks, el, got, result, waiters, respVars, rules, ending,
                         restarts>>
      BY <1>1 DEF Reread
    <2>2. TypeOK'
      BY <2>1 DEF TypeOK
    <2>3. RowsInOrder' /\ WinnerIsStored'
      BY <2>1 DEF RowsInOrder, WinnerIsStored, Resolved
    <2>4. CallHasRow'
      BY <2>1 DEF TypeOK, CallHasRow, Waiting
    <2>5. WaitersAreRight'
      BY <2>1 DEF TypeOK, WaitersAreRight, Resolved
    <2>6. OneResponse'
      BY <2>1 DEF TypeOK, OneResponse
    <2>7. NoLostWakeup'
      BY <1>1, <2>1 DEF TypeOK, NoLostWakeup
    <2> QED
      BY <2>2, <2>3, <2>4, <2>5, <2>6, <2>7
  <1>2. CASE row[el[c]] \in {"expired", "canceled"}
    <2>1. Return(c, "error")
      BY <1>2 DEF Reread
    <2> QED
      BY <2>1, ReturnKeeps DEF Reread
  <1>3. CASE Resolved(el[c])
    <2>1. Return(c, response[el[c]])
      BY <1>3 DEF Reread, Resolved
    <2>2. response[el[c]] \in Responders
      BY <1>r, <1>3 DEF RowsInOrder
    <2>3. pc[c] = "reread" /\ UNCHANGED <<run, rowVars, respVars, rules, ending, restarts>>
      BY DEF Reread
    <2> QED
      BY <1>3, <2>1, <2>2, <2>3, ReturnKeeps
  <1> QED
    BY <1>r, <1>1, <1>2, <1>3 DEF TypeOK, Resolved

\* A call takes the response from its channel.
LEMMA ReceiveKeeps ==
  ASSUME ElicitationInv, NEW c \in Calls, Receive(c)
  PROVE  ElicitationInv'
  <1> USE ElicitationConstants DEF ElicitationInv
  <1>1. TypeOK'
    BY DEF Receive, Return, TypeOK
  <1>2. RowsInOrder'
    BY DEF Receive, Return, RowsInOrder, Resolved
  <1>3. CallHasRow'
    BY DEF Receive, Return, TypeOK, CallHasRow, Waiting
  <1>4. WaitersAreRight'
    BY DEF Receive, Return, TypeOK, WaitersAreRight, Resolved
  <1>5. WinnerIsStored'
    BY DEF Receive, Return, WinnerIsStored, Resolved
  <1>6. OneResponse'
    BY DEF Receive, Return, TypeOK, OneResponse, CallHasRow, WaitersAreRight, Resolved, Waiting
  <1>7. NoLostWakeup'
    BY DEF Receive, Return, TypeOK, NoLostWakeup
  <1> QED
    BY <1>1, <1>2, <1>3, <1>4, <1>5, <1>6, <1>7


\* The ceiling passes: a row that is still pending expires, and nobody else is told.
LEMMA ExpireKeeps ==
  ASSUME ElicitationInv, NEW c \in Calls, Expire(c)
  PROVE  ElicitationInv'
  <1> USE ElicitationConstants DEF ElicitationInv
  <1>b. pc[c] = "blocked" /\ el[c] \in Rows
    BY DEF Expire, CallHasRow, Waiting, TypeOK
  <1>1. CASE row[el[c]] # "pending"
    <2>1. Return(c, "error") /\ UNCHANGED <<run, rowVars, respVars, rules, ending, restarts>>
      BY <1>1 DEF Expire, Respond
    <2> QED
      BY <1>b, <2>1, ReturnKeeps
  <1>2. CASE row[el[c]] = "pending"
    <2>1. /\ row' = [row EXCEPT ![el[c]] = "expired"] /\ response' = [response EXCEPT ![el[c]] = "none"]
          /\ UNCHANGED <<run, request, opened, respVars, rules, ending, restarts>>
          /\ Return(c, "error")
      BY <1>2 DEF Expire, Respond
    <2>2. TypeOK'
      BY <1>b, <2>1 DEF Return, TypeOK
    <2>3. RowsInOrder'
      BY <1>b, <1>2, <2>1 DEF Return, RowsInOrder, Resolved
    <2>4. CallHasRow'
      BY <1>b, <1>2, <2>1 DEF Return, TypeOK, CallHasRow, Waiting
    <2>5. \A e \in Rows : Resolved(e)' <=> Resolved(e)
      BY <1>b, <1>2, <2>1 DEF Resolved, TypeOK
    <2>6. \A e \in Rows : Resolved(e) => response'[e] = response[e]
      BY <1>b, <1>2, <2>1 DEF Resolved, TypeOK
    <2>7. WaitersAreRight'
      BY <1>b, <2>1, <2>5, <2>6 DEF Return, TypeOK, WaitersAreRight, CallHasRow, Waiting
    <2>8. WinnerIsStored'
      BY <2>1, <2>5, <2>6 DEF TypeOK, WinnerIsStored
    <2>9. OneResponse'
      <3> SUFFICES ASSUME NEW d \in Calls, result'[d] \in Responders
                   PROVE  /\ response'[el[d]] = result'[d] /\ Resolved(el[d])'
                          /\ request[el[d]] = asks[d]
        BY <2>1 DEF Return, OneResponse, Resolved
      <3>1. d # c /\ result[d] \in Responders
        BY <2>1 DEF Return, TypeOK
      <3>2. el[d] \in Rows /\ response[el[d]] = result[d] /\ Resolved(el[d]) /\ request[el[d]] = asks[d]
        BY <3>1 DEF TypeOK, CallHasRow, OneResponse, Resolved
      <3> QED
        BY <2>1, <2>5, <2>6, <3>1, <3>2 DEF Return, TypeOK
    <2>10. NoLostWakeup'
      BY <1>b, <2>1, <2>5, <2>6 DEF Return, TypeOK, NoLostWakeup, CallHasRow, Waiting, Resolved
    <2> QED
      BY <2>2, <2>3, <2>4, <2>7, <2>8, <2>9, <2>10
  <1> QED
    BY <1>1, <1>2

\* The client hangs up.
LEMMA HangUpKeeps ==
  ASSUME ElicitationInv, NEW c \in Calls, HangUp(c)
  PROVE  ElicitationInv'
  <1> USE ElicitationConstants DEF ElicitationInv
  <1>1. CASE pc[c] = "lookup"
    <2>1. /\ pc' = [pc EXCEPT ![c] = "returned"] /\ result' = [result EXCEPT ![c] = "error"]
          /\ UNCHANGED <<run, rowVars, asks, el, got, waiters, respVars, rules, ending, restarts>>
      BY <1>1 DEF HangUp
    <2>2. TypeOK'
      BY <2>1 DEF TypeOK
    <2>3. RowsInOrder' /\ WinnerIsStored'
      BY <2>1 DEF RowsInOrder, WinnerIsStored, Resolved
    <2>4. CallHasRow'
      BY <2>1 DEF TypeOK, CallHasRow, Waiting
    <2>5. WaitersAreRight'
      BY <1>1, <2>1 DEF TypeOK, WaitersAreRight, Resolved
    <2>6. OneResponse'
      BY <2>1 DEF TypeOK, OneResponse
    <2>7. NoLostWakeup'
      BY <2>1 DEF TypeOK, NoLostWakeup
    <2> QED
      BY <2>2, <2>3, <2>4, <2>5, <2>6, <2>7
  <1>2. CASE pc[c] # "lookup"
    <2>1. /\ pc[c] \in {"reread", "blocked"} /\ Return(c, "error")
          /\ UNCHANGED <<run, rowVars, respVars, rules, ending, restarts>>
      BY <1>2 DEF HangUp
    <2> QED
      BY <2>1, ReturnKeeps
  <1> QED
    BY <1>1, <1>2

------------------------------------------------------------------------------
(* Humans, the end of the run, restarts. *)

\* A human begins to respond to a pending row.
LEMMA HandleKeeps ==
  ASSUME ElicitationInv, NEW h \in Responders, NEW e \in Rows,
         NEW a \in {"answer", "allow", "deny", "remember"}, HandleRespond(h, e, a)
  PROVE  ElicitationInv'
  <1> USE ElicitationConstants DEF ElicitationInv
  <1>1. TypeOK'
    BY DEF HandleRespond, Pending, TypeOK
  <1>2. RowsInOrder'
    BY DEF HandleRespond, Pending, RowsInOrder, Resolved
  <1>3. CallHasRow'
    BY DEF HandleRespond, Pending, CallHasRow, Waiting
  <1>4. WaitersAreRight'
    BY DEF HandleRespond, Pending, WaitersAreRight, Resolved
  <1>5. WinnerIsStored'
    BY DEF HandleRespond, Pending, TypeOK, WinnerIsStored, Resolved
  <1>6. OneResponse'
    BY DEF HandleRespond, Pending, OneResponse
  <1>7. NoLostWakeup'
    BY DEF HandleRespond, Pending, NoLostWakeup
  <1> QED
    BY <1>1, <1>2, <1>3, <1>4, <1>5, <1>6, <1>7


\* The rule of an "always allow" is written.
LEMMA RememberKeeps ==
  ASSUME ElicitationInv, NEW h \in Responders, RememberRule(h)
  PROVE  ElicitationInv'
  <1> USE ElicitationConstants DEF ElicitationInv
  <1>1. TypeOK'
    BY DEF RememberRule, TypeOK
  <1>2. RowsInOrder'
    BY DEF RememberRule, RowsInOrder, Resolved
  <1>3. CallHasRow'
    BY DEF RememberRule, CallHasRow, Waiting
  <1>4. WaitersAreRight'
    BY DEF RememberRule, WaitersAreRight, Resolved
  <1>5. WinnerIsStored'
    BY DEF RememberRule, WinnerIsStored, Resolved
  <1>6. OneResponse'
    BY DEF RememberRule, OneResponse
  <1>7. NoLostWakeup'
    BY DEF RememberRule, NoLostWakeup
  <1> QED
    BY <1>1, <1>2, <1>3, <1>4, <1>5, <1>6, <1>7


\* The guarded update has one winner; whoever waits is still in the map.
LEMMA ResolveKeeps ==
  ASSUME ElicitationInv, NEW h \in Responders, Resolve(h)
  PROVE  ElicitationInv'
  <1> USE ElicitationConstants DEF ElicitationInv
  <1> DEFINE e == on[h]
             state == IF action[h] = "deny" THEN "denied" ELSE "answered"
  <1>e. e \in Rows /\ rpc[h] = "resolve"
    BY DEF Resolve, WinnerIsStored
  <1>1. CASE row[e] # "pending"
    <2>1. /\ rpc' = [rpc EXCEPT ![h] = "conflict"]
          /\ UNCHANGED <<run, rowVars, callVars, waiters, on, action, rules, ending, restarts>>
      BY <1>1 DEF Resolve, Respond
    <2>2. TypeOK'
      BY <2>1 DEF TypeOK
    <2>3. RowsInOrder' /\ CallHasRow' /\ WaitersAreRight' /\ OneResponse'
      BY <2>1 DEF RowsInOrder, CallHasRow, WaitersAreRight, OneResponse, Resolved, Waiting
    <2>4. WinnerIsStored'
      BY <2>1 DEF TypeOK, WinnerIsStored, Resolved
    <2>5. \A g \in Responders : rpc[g] \in {"resume", "wake"} => rpc'[g] = rpc[g]
      BY <1>e, <2>1 DEF TypeOK
    <2>6. NoLostWakeup'
      BY <2>1, <2>5 DEF NoLostWakeup
    <2> QED
      BY <2>2, <2>3, <2>4, <2>6
  <1>2. CASE row[e] = "pending"
    <2>1. /\ row' = [row EXCEPT ![e] = state] /\ response' = [response EXCEPT ![e] = h]
          /\ rpc' = [rpc EXCEPT ![h] = "resume"]
          /\ UNCHANGED <<run, request, opened, callVars, waiters, on, action, rules, ending, restarts>>
      BY <1>2 DEF Resolve, Respond
    <2>2. state \in {"answered", "denied"}
      OBVIOUS
    <2> HIDE DEF state
    <2>3. TypeOK'
      BY <1>e, <2>1, <2>2 DEF TypeOK
    <2>4. /\ Resolved(e)' /\ response'[e] = h
          /\ \A f \in Rows \ {e} : row'[f] = row[f] /\ response'[f] = response[f]
      BY <1>e, <2>1, <2>2 DEF Resolved, TypeOK
    <2>5. RowsInOrder'
      BY <1>e, <1>2, <2>1, <2>4 DEF RowsInOrder, Resolved
    <2>6. CallHasRow'
      BY <2>1 DEF CallHasRow, Waiting
    <2>7. ~Resolved(e)
      BY <1>2 DEF Resolved
    <2>8. WaitersAreRight'
      BY <2>1, <2>4, <2>7 DEF WaitersAreRight, CallHasRow, Waiting, TypeOK, Resolved
    <2>9. WinnerIsStored'
      BY <1>e, <2>1, <2>4, <2>7 DEF WinnerIsStored, TypeOK, Resolved
    <2>10. OneResponse'
      BY <2>1, <2>4, <2>7 DEF OneResponse, CallHasRow, TypeOK, Resolved
    <2>11. NoLostWakeup'
      <3> SUFFICES ASSUME NEW c \in Calls, pc[c] = "blocked", Resolved(el[c])'
                   PROVE  \/ got[c] = response'[el[c]]
                          \/ /\ c \in waiters[el[c]]
                             /\ \E g \in Responders : rpc'[g] \in {"resume", "wake"} /\ on[g] = el[c]
        BY <2>1 DEF NoLostWakeup, Resolved
      <3>1. el[c] \in Rows
        BY DEF CallHasRow, Waiting, TypeOK
      <3>2. CASE el[c] = e
        <4>1. c \in waiters[e]
          BY <2>7, <3>2 DEF WaitersAreRight
        <4>2. rpc'[h] = "resume"
          BY <2>1 DEF TypeOK
        <4> QED
          BY <3>2, <4>1, <4>2
      <3>3. CASE el[c] # e
        <4>1. Resolved(el[c]) /\ response'[el[c]] = response[el[c]]
          BY <2>1, <2>4, <3>1, <3>3 DEF Resolved
        <4>2. \A g \in Responders : rpc[g] \in {"resume", "wake"} => rpc'[g] = rpc[g]
          BY <1>e, <2>1 DEF TypeOK
        <4> QED
          BY <4>1, <4>2 DEF NoLostWakeup, Resolved
      <3> QED
        BY <3>2, <3>3
    <2> QED
      BY <2>3, <2>5, <2>6, <2>8, <2>9, <2>10, <2>11
  <1> QED
    BY <1>1, <1>2

\* The winner resumes the run.
LEMMA ResumesKeeps ==
  ASSUME ElicitationInv, NEW h \in Responders, ResolveResumes(h)
  PROVE  ElicitationInv'
  <1> USE ElicitationConstants DEF ElicitationInv
  <1>1. TypeOK'
    BY TransitionTyped, StateSets DEF ResolveResumes, TypeOK
  <1>2. RowsInOrder'
    BY DEF ResolveResumes, RowsInOrder, Resolved
  <1>3. CallHasRow'
    BY DEF ResolveResumes, CallHasRow, Waiting
  <1>4. WaitersAreRight'
    BY DEF ResolveResumes, WaitersAreRight, Resolved
  <1>5. WinnerIsStored'
    BY DEF ResolveResumes, WinnerIsStored, Resolved
  <1>6. OneResponse'
    BY DEF ResolveResumes, OneResponse
  <1>7. NoLostWakeup'
    BY DEF ResolveResumes, NoLostWakeup
  <1> QED
    BY <1>1, <1>2, <1>3, <1>4, <1>5, <1>6, <1>7


\* Everyone in the map gets the response on the channel; the others wait for another row.
LEMMA WakeKeeps ==
  ASSUME ElicitationInv, NEW h \in Responders, Wake(h)
  PROVE  ElicitationInv'
  <1> USE ElicitationConstants DEF ElicitationInv
  <1>1. TypeOK'
    BY DEF Wake, TypeOK
  <1>2. RowsInOrder'
    BY DEF Wake, RowsInOrder, Resolved
  <1>3. CallHasRow'
    BY DEF Wake, CallHasRow, Waiting
  <1>4. WaitersAreRight'
    BY DEF Wake, TypeOK, WaitersAreRight, Resolved, WinnerIsStored
  <1>5. WinnerIsStored'
    BY DEF Wake, WinnerIsStored, Resolved
  <1>6. OneResponse'
    BY DEF Wake, OneResponse
  <1>7. NoLostWakeup'
    <2> SUFFICES ASSUME NEW c \in Calls, pc[c] = "blocked", Resolved(el[c])
                 PROVE  \/ got'[c] = response[el[c]]
                        \/ /\ c \in waiters'[el[c]]
                           /\ \E g \in Responders : rpc'[g] \in {"resume", "wake"} /\ on[g] = el[c]
      BY DEF Wake, NoLostWakeup, Resolved
    <2>1. /\ rpc[h] = "wake" /\ on[h] \in Rows /\ response[on[h]] = h /\ el[c] \in Rows
      BY DEF Wake, WinnerIsStored, CallHasRow, Waiting, TypeOK
    <2>2. CASE c \in waiters[on[h]]
      <3>1. el[c] = on[h]
        BY <2>1, <2>2 DEF WaitersAreRight
      <3>2. got'[c] = h
        BY <2>2 DEF Wake
      <3> QED
        BY <2>1, <3>1, <3>2
    <2>3. CASE c \notin waiters[on[h]]
      <3>1. got'[c] = got[c]
        BY <2>3 DEF Wake
      <3>2. CASE got[c] = response[el[c]]
        BY <3>1, <3>2
      <3>3. CASE got[c] # response[el[c]]
        <4>1. PICK g \in Responders : rpc[g] \in {"resume", "wake"} /\ on[g] = el[c]
          BY <3>3 DEF NoLostWakeup, Resolved
        <4>2. c \in waiters[el[c]]
          BY <3>3 DEF NoLostWakeup, Resolved
        <4>3. el[c] # on[h] /\ g # h
          BY <2>3, <4>1, <4>2
        <4>4. c \in waiters'[el[c]] /\ rpc'[g] = rpc[g]
          BY <2>1, <4>2, <4>3 DEF Wake, TypeOK
        <4> QED
          BY <4>1, <4>4
      <3> QED
        BY <3>2, <3>3
    <2> QED
      BY <2>2, <2>3
  <1> QED
    BY <1>1, <1>2, <1>3, <1>4, <1>5, <1>6, <1>7

\* The run ends: the token goes, pending rows are canceled, the row is terminal.
LEMMA EndingKeeps ==
  ASSUME ElicitationInv, RevokeRun \/ CancelPendingElicitations \/ \E kind \in Terminal : EndRun(kind)
  PROVE  ElicitationInv'
  <1> USE ElicitationConstants DEF ElicitationInv
  <1>1. TypeOK'
    BY TransitionTyped, StateSets DEF RevokeRun, CancelPendingElicitations, EndRun, Pending,
       TypeOK
  <1>2. RowsInOrder'
    BY DEF RevokeRun, CancelPendingElicitations, EndRun, Pending, RowsInOrder, Resolved
  <1>3. CallHasRow'
    BY DEF RevokeRun, CancelPendingElicitations, EndRun, Pending, CallHasRow, Waiting
  <1>4. WaitersAreRight'
    BY DEF RevokeRun, CancelPendingElicitations, EndRun, Pending, TypeOK, WaitersAreRight,
       Resolved, CallHasRow, RowsInOrder, WinnerIsStored, Waiting
  <1>5. WinnerIsStored'
    BY DEF RevokeRun, CancelPendingElicitations, EndRun, Pending, WinnerIsStored, Resolved
  <1>6. OneResponse'
    BY DEF RevokeRun, CancelPendingElicitations, EndRun, Pending, TypeOK, OneResponse,
       CallHasRow, Waiting
  <1>7. NoLostWakeup'
    BY DEF RevokeRun, CancelPendingElicitations, EndRun, Pending, TypeOK, NoLostWakeup,
       WaitersAreRight, CallHasRow, WinnerIsStored, RowsInOrder, Resolved, Waiting
  <1> QED
    BY <1>1, <1>2, <1>3, <1>4, <1>5, <1>6, <1>7


\* A restart cuts every call and every respond request off.
LEMMA RestartKeeps ==
  ASSUME ElicitationInv, Restart
  PROVE  ElicitationInv'
  <1> USE ElicitationConstants DEF ElicitationInv
  <1>1. TypeOK'
    BY DEF Restart, TypeOK
  <1>2. RowsInOrder'
    BY DEF Restart, RowsInOrder, Resolved
  <1>3. CallHasRow'
    BY DEF Restart, CallHasRow, Waiting
  <1>4. WaitersAreRight'
    BY DEF Restart, WaitersAreRight, Resolved
  <1>5. WinnerIsStored'
    BY DEF Restart, WinnerIsStored, Resolved
  <1>6. OneResponse'
    BY DEF Restart, OneResponse
  <1>7. NoLostWakeup'
    BY DEF Restart, NoLostWakeup
  <1> QED
    BY <1>1, <1>2, <1>3, <1>4, <1>5, <1>6, <1>7


------------------------------------------------------------------------------
(* The theorem. *)

\* Nothing is asked yet, and nobody waits.
LEMMA ElicitationStarts == Init => ElicitationInv
  <1> SUFFICES ASSUME Init PROVE ElicitationInv
    OBVIOUS
  <1>1. TypeOK
    BY ElicitationConstants, StateSets DEF Init, TypeOK
  <1>2. RowsInOrder /\ CallHasRow /\ WaitersAreRight /\ WinnerIsStored
    BY ElicitationConstants DEF Init, RowsInOrder, CallHasRow, WaitersAreRight, WinnerIsStored,
       Resolved, Waiting
  <1>3. OneResponse /\ NoLostWakeup
    BY ElicitationConstants DEF Init, OneResponse, NoLostWakeup
  <1> QED
    BY <1>1, <1>2, <1>3 DEF ElicitationInv

\* Every step keeps it, one case per action.
LEMMA ElicitationStep == ElicitationInv /\ [Next]_vars => ElicitationInv'
  <1> SUFFICES ASSUME ElicitationInv, [Next]_vars PROVE ElicitationInv'
    OBVIOUS
  <1>1. CASE \E c \in Calls : CallSteps(c) \/ Expire(c) \/ HangUp(c) \/ \E q \in Requests : Call(c, q)
    BY <1>1, CallKeeps, LookupKeeps, OpenKeeps, ParkKeeps, RegisterKeeps, RereadKeeps,
       ReceiveKeeps, ExpireKeeps, HangUpKeeps DEF CallSteps
  <1>2. CASE \E h \in Responders : ResponderSteps(h)
    BY <1>2, RememberKeeps, ResolveKeeps, ResumesKeeps, WakeKeeps DEF ResponderSteps
  <1>3. CASE \E h \in Responders, e \in Rows, a \in {"answer", "allow", "deny", "remember"} :
                HandleRespond(h, e, a)
    BY <1>3, HandleKeeps
  <1>4. CASE RevokeRun \/ CancelPendingElicitations \/ \E kind \in Terminal : EndRun(kind)
    BY <1>4, EndingKeeps
  <1>5. CASE Restart
    BY <1>5, RestartKeeps
  <1>6. CASE UNCHANGED vars
    <2>1. TypeOK' /\ RowsInOrder' /\ CallHasRow' /\ WaitersAreRight' /\ WinnerIsStored'
      BY <1>6 DEF ElicitationInv, vars, TypeOK, RowsInOrder, CallHasRow, WaitersAreRight,
         WinnerIsStored, Resolved, Waiting
    <2>2. OneResponse' /\ NoLostWakeup'
      BY <1>6 DEF ElicitationInv, vars, OneResponse, NoLostWakeup
    <2> QED
      BY <2>1, <2>2 DEF ElicitationInv
  <1> QED
    BY <1>1, <1>2, <1>3, <1>4, <1>5, <1>6 DEF Next

\* The invariant of an agent's questions (service/mcp: await, Resolve, wake): whatever answers,
\* expiries, hang-ups, retries, restarts and the run's end interleave, at every moment it holds.
THEOREM ElicitationInvariant == Spec => []ElicitationInv
  BY ElicitationStarts, ElicitationStep, PTL DEF Spec

\* One human decides: a call that returns a response returns the one its row stores, and the
\* row is of the request it made (Resolve's guarded update, RespondElicitation).
THEOREM OneHumanDecides == Spec => []OneResponse
  <1>1. ElicitationInv => OneResponse
    BY DEF ElicitationInv
  <1> QED
    BY <1>1, ElicitationInvariant, PTL

\* No answer is lost on a call that waits: register first, read the row again, then block.
THEOREM NoAnswerIsLost == Spec => []NoLostWakeup
  <1>1. ElicitationInv => NoLostWakeup
    BY DEF ElicitationInv
  <1> QED
    BY <1>1, ElicitationInvariant, PTL

------------------------------------------------------------------------------
(* Session: messages.                                                                  *)

(* What the supervisor and the session know of messages is of the right kind. *)
MessagesTyped ==
  /\ message \in [Messages -> {"none", "queued", "delivered", "dropped"}]
  /\ poster \in [Messages -> {"idle", "checked", "created", "done"}]
  /\ loop \in {"launch", "select", "hand", "mark", "drop", "end", "over"}
  /\ listed \in Seq(Messages) /\ held \in Seq(Messages)
  /\ accepted \in Seq(Messages) /\ written \in Seq(Messages)
  /\ stdinClosed \in BOOLEAN /\ stopped \in BOOLEAN /\ ended \in BOOLEAN

(* While a list is handed over it holds queued messages, each once. *)
ListIsQueued ==
  /\ listed # <<>> <=> loop \in {"hand", "mark"}
  /\ \A i \in DOMAIN listed : message[listed[i]] = "queued"
  /\ \A i, j \in DOMAIN listed : listed[i] = listed[j] => i = j

(* What was accepted is marked, but for the head of the list between Steer and the mark; and
   what nobody inserted yet has no row. *)
AcceptedIsMarked ==
  /\ \A i \in DOMAIN accepted :
       \/ message[accepted[i]] \in {"delivered", "dropped"}
       \/ loop = "mark" /\ accepted[i] = Head(listed)
  /\ \A m \in Messages : poster[m] \in {"idle", "checked"} => message[m] = "none"

MessageInv ==
  MessagesTyped /\ ListIsQueued /\ AcceptedIsMarked /\ (stopped => stdinClosed) /\ NoneOvertakes

(* Any finite set of numbers can be listed in order. *)
Listings(S) ==
  {list \in [1..Cardinality(S) -> S] : \A i, j \in 1..Cardinality(S) : i < j => list[i] < list[j]}

LEMMA CanBeListed ==
  ASSUME NEW S \in SUBSET Nat, IsFiniteSet(S)
  PROVE  Listings(S) # {}
  <1> DEFINE Bad == {n \in Nat : \E T \in SUBSET Nat :
                       IsFiniteSet(T) /\ Cardinality(T) = n /\ Listings(T) = {}}
  <1>1. Listings(S) = {} => Cardinality(S) \in Bad
    BY FS_CardinalityType
  <1>. SUFFICES ASSUME Bad # {} PROVE FALSE
    BY <1>1
  <1>2. PICK n \in Bad : \A k \in Bad : n <= k
    BY Oldest
  <1>3. PICK T \in SUBSET Nat : IsFiniteSet(T) /\ Cardinality(T) = n /\ Listings(T) = {}
    BY <1>2
  <1>4. CASE T = {}
    <2>1. Cardinality(T) = 0 /\ 1..0 = {}
      BY <1>4, FS_EmptySet
    <2>2. [x \in {} |-> x] \in Listings(T)
      BY <2>1, <1>4 DEF Listings
    <2>. QED BY <2>2, <1>3
  <1>5. CASE T # {}
    <2>1. PICK e \in T : \A f \in T : e <= f
      BY <1>5, Oldest
    <2> DEFINE U == T \ {e}
    <2>2. IsFiniteSet(U) /\ Cardinality(U) = n - 1 /\ n \in Nat /\ n >= 1 /\ U \in SUBSET Nat
      <3>1. Cardinality(T) # 0 /\ n \in Nat
        BY <1>3, <1>5, FS_EmptySet
      <3>. QED BY <3>1, <1>3, FS_RemoveElement
    <2>3. n - 1 \notin Bad /\ n - 1 \in Nat
      BY <1>2, <2>2
    <2>4. PICK u \in Listings(U) : TRUE
      BY <2>2, <2>3
    <2>5. /\ u \in [1..(n - 1) -> U]
          /\ \A i, j \in 1..(n - 1) : i < j => u[i] < u[j]
      BY <2>2, <2>4 DEF Listings
    <2> DEFINE w == [i \in 1..n |-> IF i = 1 THEN e ELSE u[i - 1]]
    <2> HIDE DEF Bad
    <2>6. \A i \in 1..n : i # 1 => i - 1 \in 1..(n - 1)
      BY <2>2
    <2>7. w \in [1..n -> T]
      BY <2>5, <2>6
    <2>8. \A i, j \in 1..n : i < j => w[i] < w[j]
      <3> SUFFICES ASSUME NEW i \in 1..n, NEW j \in 1..n, i < j PROVE w[i] < w[j]
        OBVIOUS
      <3>1. j # 1 /\ j - 1 \in 1..(n - 1) /\ w[j] = u[j - 1] /\ u[j - 1] \in U
        BY <2>2, <2>5, <2>6
      <3>2. CASE i = 1
        <4>1. e \in Nat /\ u[j - 1] \in Nat /\ e <= u[j - 1] /\ u[j - 1] # e
          BY <2>1, <3>1
        <4>. QED BY <4>1, <3>1, <3>2
      <3>3. CASE i # 1
        <4>1. i - 1 \in 1..(n - 1) /\ w[i] = u[i - 1] /\ i - 1 < j - 1
          BY <2>2, <2>6, <3>3
        <4>. QED BY <4>1, <3>1, <2>5
      <3>. QED BY <3>2, <3>3
    <2>9. w \in Listings(T)
      <3> HIDE DEF w
      <3>. QED BY <1>3, <2>7, <2>8 DEF Listings
    <2>. QED BY <2>9, <1>3
  <1>. QED BY <1>4, <1>5

LEMMA QueuedListed ==
  ASSUME MessagesTyped
  PROVE  /\ QueuedForRun \in Seq(Messages)
         /\ \A i \in DOMAIN QueuedForRun : message[QueuedForRun[i]] = "queued"
         /\ \A i, j \in DOMAIN QueuedForRun : QueuedForRun[i] = QueuedForRun[j] => i = j
  <1> DEFINE queued == {m \in Messages : message[m] = "queued"}
  <1>1. IsFiniteSet(queued) /\ queued \in SUBSET Nat /\ Cardinality(queued) \in Nat
    BY SessionAssumption, FS_Subset, FS_CardinalityType
  <1>2. PICK some : some \in Listings(queued)
    BY <1>1, CanBeListed
  <1> DEFINE n == Cardinality(queued)
  <1> HIDE DEF queued
  <1>3. QueuedForRun = CHOOSE list \in [1..n -> queued] : \A i, j \in 1..n : i < j => list[i] < list[j]
    BY DEF QueuedForRun, queued
  <1>4. \E list \in [1..n -> queued] : \A i, j \in 1..n : i < j => list[i] < list[j]
    BY <1>2 DEF Listings
  <1>5. /\ QueuedForRun \in [1..n -> queued]
        /\ \A i, j \in 1..n : i < j => QueuedForRun[i] < QueuedForRun[j]
    BY <1>3, <1>4
  <1> HIDE DEF n
  <1>6. n \in Nat /\ queued \subseteq Messages /\ \A m \in queued : message[m] = "queued"
    BY <1>1 DEF n, queued
  <1>7. QueuedForRun \in Seq(Messages) /\ DOMAIN QueuedForRun = 1..n
    BY <1>5, <1>6
  <1>8. \A i, j \in 1..n : QueuedForRun[i] = QueuedForRun[j] => i = j
    <2> SUFFICES ASSUME NEW i \in 1..n, NEW j \in 1..n, QueuedForRun[i] = QueuedForRun[j], i # j
                 PROVE  FALSE
      OBVIOUS
    <2>1. QueuedForRun[i] \in Nat /\ QueuedForRun[j] \in Nat
      BY <1>5, <1>1
    <2>2. i < j \/ j < i
      BY <1>6
    <2>. QED BY <2>1, <2>2, <1>5
  <1>. QED BY <1>5, <1>6, <1>7, <1>8

(* A step that leaves the list, the rows and what was accepted alone. *)
LEMMA QuietMessages ==
  ASSUME MessageInv, UNCHANGED <<message, poster, listed, loop, accepted>>,
         held' \in Seq(Messages), written' \in Seq(Messages),
         stdinClosed' \in BOOLEAN, stopped' \in BOOLEAN, ended' \in BOOLEAN,
         ~ended' => ~ended /\ written' \o held' = written \o held,
         stopped' => stdinClosed',
         held' # <<>> /\ cli' # "exited" /\ ~stopped' => inFlight' # {} /\ ~stdinClosed'
  PROVE  MessageInv'
  <1>1. MessagesTyped' /\ ListIsQueued' /\ AcceptedIsMarked'
    BY DEF MessageInv, MessagesTyped, ListIsQueued, AcceptedIsMarked
  <1>2. NoneOvertakes'
    BY DEF MessageInv, NoneOvertakes, Writable
  <1>. QED BY <1>1, <1>2 DEF MessageInv

(* Posting one. *)
LEMMA PosterKeeps ==
  ASSUME MessageInv, NEW m \in Messages, ReadRun(m) \/ CreateMessage(m) \/ NotifySteering(m)
  PROVE  MessageInv'
  <1>1. /\ UNCHANGED <<listed, loop, held, accepted, written, stdinClosed, stopped, ended, inFlight, cli>>
        /\ message' = message \/ (poster[m] = "checked" /\ message' = [message EXCEPT ![m] = "queued"] /\ poster' = [poster EXCEPT ![m] = "created"])
    BY DEF ReadRun, CreateMessage, NotifySteering, messageVars, loopVars, adapterVars, agentVars, paperVars
  <1>2. MessagesTyped'
    BY <1>1 DEF MessageInv, MessagesTyped, ReadRun, CreateMessage, NotifySteering
  <1>3. \A k \in Messages : message[k] # "none" => message'[k] = message[k]
    BY <1>1 DEF MessageInv, MessagesTyped, AcceptedIsMarked
  <1>4. ListIsQueued'
    <2>1. \A i \in DOMAIN listed : listed[i] \in Messages
      BY DEF MessageInv, MessagesTyped
    <2>. QED BY <1>1, <1>3, <2>1 DEF MessageInv, ListIsQueued
  <1>5. AcceptedIsMarked'
    <2>1. \A i \in DOMAIN accepted : accepted[i] \in Messages
      BY DEF MessageInv, MessagesTyped
    <2>2. \A k \in Messages : poster'[k] \in {"idle", "checked"} => message'[k] = "none"
      BY <1>1 DEF MessageInv, MessagesTyped, AcceptedIsMarked, ReadRun, CreateMessage, NotifySteering, messageVars
    <2>. QED BY <1>1, <1>3, <2>1, <2>2 DEF MessageInv, AcceptedIsMarked
  <1>6. NoneOvertakes'
    BY <1>1 DEF MessageInv, NoneOvertakes, Writable
  <1>. QED BY <1>1, <1>2, <1>4, <1>5, <1>6 DEF MessageInv

(* The list is read. *)
LEMMA DrainKeeps ==
  ASSUME MessageInv, DrainAfterLaunch \/ DrainOnNudge
  PROVE  MessageInv'
  <1>1. /\ Drain /\ loop \in {"launch", "select"}
        /\ UNCHANGED <<message, poster, held, accepted, written, stdinClosed, stopped, ended, inFlight, cli>>
    BY DEF DrainAfterLaunch, DrainOnNudge, messageVars, adapterVars, agentVars, paperVars
  <1>2. listed' = QueuedForRun /\ loop' = IF listed' = <<>> THEN "select" ELSE "hand"
    BY <1>1 DEF Drain
  <1>3. MessagesTyped' /\ ListIsQueued'
    BY <1>1, <1>2, QueuedListed DEF MessageInv, MessagesTyped, ListIsQueued
  <1>4. AcceptedIsMarked'
    BY <1>1 DEF MessageInv, AcceptedIsMarked
  <1>5. NoneOvertakes'
    BY <1>1 DEF MessageInv, NoneOvertakes, Writable
  <1>. QED BY <1>1, <1>3, <1>4, <1>5 DEF MessageInv

(* The head of the list is refused, held or written. *)
LEMMA HandOverKeeps ==
  ASSUME MessageInv, HandOver
  PROVE  MessageInv'
  <1>1. /\ UNCHANGED <<message, poster, stdinClosed, stopped, ended, inFlight, cli>> /\ loop = "hand"
        /\ listed \in Seq(Messages) /\ listed # <<>> /\ Head(listed) \in Messages /\ Head(listed) = listed[1]
        /\ 1 \in DOMAIN listed /\ message[Head(listed)] = "queued"
        /\ held \in Seq(Messages) /\ accepted \in Seq(Messages) /\ written \in Seq(Messages)
    BY DEF HandOver, messageVars, MessageInv, MessagesTyped, ListIsQueued
  <1>2. CASE /\ loop' = "select" /\ listed' = <<>> /\ Kept /\ UNCHANGED accepted
    <2>1. MessagesTyped' /\ ListIsQueued' /\ AcceptedIsMarked'
      BY <1>1, <1>2 DEF MessageInv, MessagesTyped, ListIsQueued, AcceptedIsMarked, Kept
    <2>2. NoneOvertakes'
      BY <1>1, <1>2 DEF MessageInv, NoneOvertakes, Writable, Kept
    <2>. QED BY <1>1, <2>1, <2>2 DEF MessageInv
  <1>3. CASE /\ ~ended /\ ~stdinClosed /\ (inFlight # {} \/ Writable)
             /\ loop' = "mark" /\ UNCHANGED listed
             /\ accepted' = Append(accepted, Head(listed))
             /\ IF inFlight # {}
                THEN held' = Append(held, Head(listed)) /\ UNCHANGED <<stdin, written>>
                ELSE WriteUser(<<Head(listed)>>) /\ UNCHANGED held
    <2>1. ~stopped
      BY <1>3 DEF MessageInv
    <2>2. /\ held' \in Seq(Messages) /\ written' \in Seq(Messages)
          /\ accepted' = written' \o held'
      <3>0. accepted = written \o held
        BY <1>3 DEF MessageInv, NoneOvertakes
      <3>1. CASE inFlight # {}
        <4>1. held' = Append(held, Head(listed)) /\ written' = written
          BY <3>1, <1>3
        <4>. QED BY <4>1, <3>0, <1>1, <1>3
      <3>2. CASE inFlight = {}
        <4>1. written' = written \o <<Head(listed)>> /\ held' = held
          BY <3>2, <1>3 DEF WriteUser
        <4>2. held = <<>>
          BY <3>2, <1>3, <2>1 DEF MessageInv, NoneOvertakes
        <4>. QED BY <4>1, <4>2, <3>0, <1>1, <1>3
      <3>. QED BY <3>1, <3>2
    <2>3. /\ accepted' \in Seq(Messages) /\ Len(accepted') = Len(accepted) + 1
          /\ DOMAIN accepted' = DOMAIN accepted \cup {Len(accepted) + 1}
          /\ \A i \in DOMAIN accepted : accepted'[i] = accepted[i]
          /\ accepted'[Len(accepted) + 1] = Head(listed)
      BY <1>1, <1>3
    <2>4. \A i \in DOMAIN accepted : accepted[i] # Head(listed)
      BY <1>1 DEF MessageInv, AcceptedIsMarked
    <2>5. MessagesTyped' /\ ListIsQueued' /\ AcceptedIsMarked'
      <3>1. MessagesTyped'
        BY <1>1, <1>3, <2>2, <2>3 DEF MessageInv, MessagesTyped
      <3>2. ListIsQueued'
        BY <1>1, <1>3 DEF MessageInv, ListIsQueued
      <3>3. AcceptedIsMarked'
        BY <1>1, <1>3, <2>3 DEF MessageInv, AcceptedIsMarked
      <3>. QED BY <3>1, <3>2, <3>3
    <2>6. \A i, j \in DOMAIN accepted' : accepted'[i] = accepted'[j] => i = j
      BY <2>3, <2>4 DEF MessageInv, NoneOvertakes
    <2>7. held' # <<>> /\ Writable' /\ ~stopped' => inFlight' # {} /\ ~stdinClosed'
      <3>1. CASE inFlight # {}
        BY <3>1, <1>1, <1>3
      <3>2. CASE inFlight = {}
        BY <3>2, <1>1, <1>3 DEF MessageInv, NoneOvertakes, WriteUser, Writable
      <3>. QED BY <3>1, <3>2
    <2>8. NoneOvertakes'
      BY <2>2, <2>6, <2>7 DEF NoneOvertakes
    <2>. QED BY <1>1, <2>1, <2>5, <2>8 DEF MessageInv
  <1>. QED BY <1>2, <1>3 DEF HandOver

(* It is marked. *)
LEMMA MarkKeeps ==
  ASSUME MessageInv, MarkDelivered
  PROVE  MessageInv'
  <1>1. /\ UNCHANGED <<poster, held, accepted, written, stdinClosed, stopped, ended, inFlight, cli>> /\ loop = "mark"
        /\ listed \in Seq(Messages) /\ listed # <<>> /\ Head(listed) \in Messages /\ Head(listed) = listed[1]
        /\ 1 \in DOMAIN listed /\ message[Head(listed)] = "queued"
        /\ message' = [message EXCEPT ![Head(listed)] = "delivered"]
        /\ listed' = Tail(listed) /\ loop' = IF listed' = <<>> THEN "select" ELSE "hand"
    <2>1. /\ UNCHANGED <<poster, held, accepted, written, stdinClosed, stopped, ended, inFlight, cli>> /\ loop = "mark"
          /\ listed' = Tail(listed) /\ loop' = IF listed' = <<>> THEN "select" ELSE "hand"
          /\ message' = [message EXCEPT ![Head(listed)] = IF @ = "queued" THEN "delivered" ELSE @]
      BY DEF MarkDelivered, adapterVars, agentVars, paperVars
    <2>2. listed \in Seq(Messages) /\ listed # <<>>
      BY <2>1 DEF MessageInv, MessagesTyped, ListIsQueued
    <2>3. Head(listed) \in Messages /\ Head(listed) = listed[1] /\ 1 \in DOMAIN listed
      BY <2>2
    <2>4. message[Head(listed)] = "queued"
      BY <2>3 DEF MessageInv, ListIsQueued
    <2>. QED BY <2>1, <2>2, <2>3, <2>4
  <1>2. /\ listed' \in Seq(Messages)
        /\ \A i \in DOMAIN listed' : i + 1 \in DOMAIN listed /\ listed'[i] = listed[i + 1] /\ i + 1 # 1
        /\ \A i, j \in DOMAIN listed' : i + 1 = j + 1 => i = j
    BY <1>1
  <1>3. MessagesTyped'
    BY <1>1, <1>2 DEF MessageInv, MessagesTyped
  <1>4. ListIsQueued'
    <2>1. \A i \in DOMAIN listed' : listed'[i] # Head(listed) /\ listed'[i] \in Messages /\ message[listed'[i]] = "queued"
      BY <1>1, <1>2 DEF MessageInv, ListIsQueued
    <2>2. \A i \in DOMAIN listed' : message'[listed'[i]] = "queued"
      BY <2>1, <1>1 DEF MessageInv, MessagesTyped
    <2>3. \A i, j \in DOMAIN listed' : listed'[i] = listed'[j] => i = j
      BY <1>2 DEF MessageInv, ListIsQueued
    <2>. QED BY <1>1, <2>2, <2>3 DEF ListIsQueued
  <1>5. AcceptedIsMarked'
    <2>1. \A i \in DOMAIN accepted : accepted[i] \in Messages
      BY DEF MessageInv, MessagesTyped
    <2>. QED BY <1>1, <2>1 DEF MessageInv, MessagesTyped, AcceptedIsMarked
  <1>6. NoneOvertakes'
    BY <1>1 DEF MessageInv, NoneOvertakes, Writable
  <1>. QED BY <1>1, <1>3, <1>4, <1>5, <1>6 DEF MessageInv

(* The terminal path. *)
LEMMA EndKeeps ==
  ASSUME MessageInv, WaitReturns \/ DropQueued \/ EndRow
  PROVE  MessageInv'
  <1>1. /\ UNCHANGED <<poster, listed, held, accepted, written, stdinClosed, stopped, ended, inFlight, cli>>
        /\ loop \in {"select", "drop", "end"} /\ loop' \in {"drop", "end", "over"}
        /\ message' = message \/ message' = [m \in Messages |-> IF message[m] = "queued" THEN "dropped" ELSE message[m]]
    BY DEF WaitReturns, DropQueued, EndRow, messageVars, adapterVars, agentVars, paperVars
  <1>2. listed = <<>>
    BY <1>1 DEF MessageInv, ListIsQueued
  <1>3. MessagesTyped' /\ ListIsQueued'
    BY <1>1, <1>2 DEF MessageInv, MessagesTyped, ListIsQueued
  <1>4. AcceptedIsMarked'
    <2>1. \A i \in DOMAIN accepted : accepted[i] \in Messages
      BY DEF MessageInv, MessagesTyped
    <2>. QED BY <1>1, <2>1 DEF MessageInv, MessagesTyped, AcceptedIsMarked
  <1>5. NoneOvertakes'
    BY <1>1 DEF MessageInv, NoneOvertakes, Writable
  <1>. QED BY <1>1, <1>3, <1>4, <1>5 DEF MessageInv

(* What is held is written, or stays held for an agent that is gone. *)
LEMMA Flushed ==
  ASSUME MessageInv, FlushQueue \/ Kept
  PROVE  /\ held' \in Seq(Messages) /\ written' \in Seq(Messages)
         /\ written' \o held' = written \o held
         /\ Kept => held' = held
         /\ FlushQueue => (Writable => held' = <<>>)
         /\ held = <<>> => held' = <<>>
  <1>1. held \in Seq(Messages) /\ written \in Seq(Messages)
    BY DEF MessageInv, MessagesTyped
  <1>2. CASE held' = held /\ written' = written
    BY <1>1, <1>2 DEF FlushQueue, Kept, WriteUser
  <1>3. CASE FlushQueue /\ Writable
    <2>1. held' = <<>> /\ written' = written \o held
      BY <1>3 DEF FlushQueue, WriteUser
    <2>2. written \o held \in Seq(Messages) /\ (written \o held) \o <<>> = written \o held
      BY <1>1
    <2>. QED BY <2>1, <2>2, <1>1 DEF Kept
  <1>. QED BY <1>2, <1>3 DEF FlushQueue, Kept

(* The session, and the agent. *)
LEMMA PumpKeepsMessages ==
  ASSUME MessageInv,
         \/ \E t \in ToolCalls : BeginAction(t) \/ HandleToolProgress(t) \/ HandleUser(t)
         \/ HandleResult \/ Finish \/ StopSession \/ OthersAppend \/ CliSteps
  PROVE  MessageInv'
  <1>0. /\ held \in Seq(Messages) /\ written \in Seq(Messages) /\ stdinClosed \in BOOLEAN /\ stopped \in BOOLEAN
        /\ ended \in BOOLEAN /\ (stopped => stdinClosed)
        /\ held # <<>> /\ cli # "exited" /\ ~stopped => inFlight # {} /\ ~stdinClosed
    BY DEF MessageInv, MessagesTyped, NoneOvertakes, Writable
  <1>1. ASSUME NEW t \in ToolCalls, BeginAction(t) \/ HandleToolProgress(t) PROVE MessageInv'
    <2>1. UNCHANGED <<message, poster, listed, loop, accepted, held, written, stdinClosed, stopped, ended, cli>>
      BY <1>1 DEF BeginAction, HandleToolProgress, messageVars, loopVars, paperVars
    <2>2. inFlight \subseteq inFlight'
      BY <1>1 DEF BeginAction, HandleToolProgress
    <2>3. held' # <<>> /\ cli' # "exited" /\ ~stopped' => inFlight' # {} /\ ~stdinClosed'
      BY <1>0, <2>1, <2>2
    <2>. QED BY <1>0, <2>1, <2>3, QuietMessages
  <1>2. ASSUME NEW t \in ToolCalls, HandleUser(t) PROVE MessageInv'
    <2>1. /\ UNCHANGED <<message, poster, listed, loop, accepted, stdinClosed, stopped, ended, cli>>
          /\ IF inFlight' = {} /\ ~stdinClosed THEN FlushQueue ELSE Kept
      BY <1>2 DEF HandleUser, messageVars, loopVars
    <2>2. held' # <<>> /\ cli' # "exited" /\ ~stopped' => inFlight' # {} /\ ~stdinClosed'
      BY <1>0, <2>1, Flushed DEF Writable
    <2>. QED BY <1>0, <2>1, <2>2, Flushed, QuietMessages
  <1>3. CASE HandleResult
    <2>1. UNCHANGED <<message, poster, listed, loop, accepted, inFlight, stopped, ended, cli>> /\ TurnEnded
      BY <1>3 DEF HandleResult, messageVars, loopVars
    <2>2. CASE (held = <<>> \/ stdinClosed) /\ stdinClosed' = TRUE /\ Kept
      <3>1. held' # <<>> /\ cli' # "exited" /\ ~stopped' => inFlight' # {} /\ ~stdinClosed'
        BY <1>0, <2>1, <2>2, Flushed
      <3>. QED BY <1>0, <2>1, <2>2, <3>1, Flushed, QuietMessages
    <2>3. CASE held # <<>> /\ ~stdinClosed /\ FlushQueue /\ stdinClosed' = ~Writable
      <3>1. held' # <<>> /\ cli' # "exited" /\ ~stopped' => inFlight' # {} /\ ~stdinClosed'
        BY <2>1, <2>3, Flushed DEF Writable
      <3>2. ~stopped /\ stdinClosed' \in BOOLEAN
        BY <1>0, <2>3
      <3>. QED BY <1>0, <2>1, <2>3, <3>1, <3>2, Flushed, QuietMessages
    <2>. QED BY <2>1, <2>2, <2>3 DEF TurnEnded
  <1>4. CASE Finish
    <2>1. /\ UNCHANGED <<message, poster, listed, loop, accepted, written, inFlight, stdinClosed, stopped, cli>>
          /\ ended' = TRUE /\ held' = <<>>
      BY <1>4 DEF Finish, messageVars, loopVars, agentVars, paperVars
    <2>2. <<>> \in Seq(Messages)
      OBVIOUS
    <2>. QED BY <1>0, <2>1, <2>2, QuietMessages
  <1>5. CASE StopSession
    <2>1. /\ UNCHANGED <<message, poster, listed, loop, accepted, written, held, inFlight, ended, cli>>
          /\ stopped' = TRUE /\ stdinClosed' = TRUE
      BY <1>5 DEF StopSession, messageVars, loopVars, agentVars, paperVars
    <2>. QED BY <1>0, <2>1, QuietMessages
  <1>6. CASE OthersAppend \/ CliSteps
    <2>1. /\ UNCHANGED <<message, poster, listed, loop, accepted, written, held, inFlight, ended, stopped, stdinClosed>>
          /\ cli' # "exited" => cli # "exited"
      BY <1>6 DEF OthersAppend, CliSteps, CliEndsTurn, CliHears, CliExits, CliUses, CliHeartbeat, CliReturns,
         messageVars, loopVars, adapterVars, agentVars, paperVars
    <2>2. held' # <<>> /\ cli' # "exited" /\ ~stopped' => inFlight' # {} /\ ~stdinClosed'
      BY <1>0, <2>1
    <2>. QED BY <1>0, <2>1, <2>2, QuietMessages
  <1>. QED BY <1>1, <1>2, <1>3, <1>4, <1>5, <1>6

------------------------------------------------------------------------------
(* Session: the transcript.                                                            *)

SinkRows == [what : {"other", "action", "progress", "result", "undelivered"},
             call : ToolCalls \cup {0}, done : BOOLEAN]
StreamLines == [what : {"use", "progress", "done", "result"}, call : ToolCalls \cup {0}]

TranscriptTyped ==
  /\ inFlight \subseteq ToolCalls /\ calling \subseteq ToolCalls
  /\ actionSeq \in [ToolCalls -> Nat] /\ progressSeq \in [ToolCalls -> Nat]
  /\ seqMap \in Seq(Nat) /\ transcript \in Seq(SinkRows) /\ stdout \in Seq(StreamLines)

\* The adapter's numbers are of rows that are there.
NumbersMapped == \A k \in DOMAIN seqMap : seqMap[k] \in DOMAIN transcript

\* A call's number is the one of its row; so is that of its heartbeats; and no other row is
\* the call's.
NumbersAreRight ==
  /\ \A t \in ToolCalls : actionSeq[t] # 0 =>
       /\ actionSeq[t] \in DOMAIN seqMap
       /\ transcript[seqMap[actionSeq[t]]] = SinkRow("action", t, t \notin inFlight)
  /\ \A t \in ToolCalls : progressSeq[t] # 0 =>
       /\ progressSeq[t] \in DOMAIN seqMap
       /\ transcript[seqMap[progressSeq[t]]] = SinkRow("progress", t, FALSE)
  /\ \A j \in DOMAIN transcript : \A t \in ToolCalls : transcript[j].call = t =>
       transcript[j].what = "progress" \/ (actionSeq[t] # 0 /\ j = seqMap[actionSeq[t]])

\* A call is told of once, and before its result is.
Announced(t) == actionSeq[t] # 0 \/ \E h \in DOMAIN stdout : stdout[h] = StreamLine("use", t)

StreamInOrder ==
  \A t \in ToolCalls :
    /\ t \in calling => Announced(t)
    /\ \A k \in DOMAIN stdout : stdout[k] = StreamLine("use", t) =>
         /\ actionSeq[t] = 0
         /\ \A h \in DOMAIN stdout : stdout[h] = stdout[k] => h = k
    /\ \A k \in DOMAIN stdout : stdout[k] = StreamLine("done", t) =>
         \/ actionSeq[t] # 0
         \/ \E h \in DOMAIN stdout : h < k /\ stdout[h] = StreamLine("use", t)

TranscriptInv == TranscriptTyped /\ NumbersMapped /\ NumbersAreRight /\ StreamInOrder

LEMMA OwnRow ==
  ASSUME TranscriptInv
  PROVE  ResultsOnOwnRow
  <1> SUFFICES ASSUME NEW t \in ToolCalls, actionSeq[t] # 0
               PROVE  \E i \in DOMAIN transcript :
                        /\ transcript[i] = SinkRow("action", t, t \notin inFlight)
                        /\ \A j \in DOMAIN transcript \ {i} :
                             transcript[j].call = t => transcript[j].what = "progress"
    BY DEF ResultsOnOwnRow
  <1> DEFINE i == seqMap[actionSeq[t]]
  <1>1. i \in DOMAIN transcript /\ transcript[i] = SinkRow("action", t, t \notin inFlight)
    BY DEF TranscriptInv, NumbersMapped, NumbersAreRight
  <1>2. \A j \in DOMAIN transcript \ {i} : transcript[j].call = t => transcript[j].what = "progress"
    BY DEF TranscriptInv, NumbersAreRight
  <1>. QED BY <1>1, <1>2

(* A line is taken from the stream: what is left was behind it. *)
LEMMA LineTaken ==
  ASSUME TranscriptInv, stdout # <<>>
  PROVE  /\ Head(stdout) = stdout[1] /\ 1 \in DOMAIN stdout
         /\ Tail(stdout) \in Seq(StreamLines)
         /\ \A k \in DOMAIN Tail(stdout) : k + 1 \in DOMAIN stdout /\ Tail(stdout)[k] = stdout[k + 1] /\ k + 1 # 1
         /\ \A k \in DOMAIN stdout : k # 1 => k - 1 \in DOMAIN Tail(stdout) /\ Tail(stdout)[k - 1] = stdout[k]
  <1>1. stdout \in Seq(StreamLines)
    BY DEF TranscriptInv, TranscriptTyped
  <1>. QED BY <1>1

(* The stream without its head, which was not a call's first word or has been entered. *)
LEMMA StreamTail ==
  ASSUME TranscriptInv, stdout # <<>>, stdout' = Tail(stdout), UNCHANGED calling,
         \A t \in ToolCalls : actionSeq'[t] = actionSeq[t]
                                \/ (stdout[1] = StreamLine("use", t) /\ actionSeq'[t] # 0),
         \A t \in ToolCalls : stdout[1] = StreamLine("use", t) => actionSeq'[t] # 0
  PROVE  StreamInOrder'
  <1> SUFFICES ASSUME NEW t \in ToolCalls
               PROVE  /\ t \in calling' => Announced(t)'
                      /\ \A k \in DOMAIN stdout' : stdout'[k] = StreamLine("use", t) =>
                           /\ actionSeq'[t] = 0
                           /\ \A h \in DOMAIN stdout' : stdout'[h] = stdout'[k] => h = k
                      /\ \A k \in DOMAIN stdout' : stdout'[k] = StreamLine("done", t) =>
                           \/ actionSeq'[t] # 0
                           \/ \E h \in DOMAIN stdout' : h < k /\ stdout'[h] = StreamLine("use", t)
    BY DEF StreamInOrder, Announced, StreamLine
  <1>0. /\ stdout \in Seq(StreamLines)
        /\ \A k \in DOMAIN stdout' : k \in Nat /\ k + 1 \in DOMAIN stdout /\ stdout'[k] = stdout[k + 1] /\ k + 1 # 1
        /\ \A k \in DOMAIN stdout : k \in Nat /\ (k # 1 => k - 1 \in DOMAIN stdout' /\ stdout'[k - 1] = stdout[k])
        /\ 1 \in DOMAIN stdout
    BY LineTaken DEF TranscriptInv, TranscriptTyped
  <1>1. actionSeq[t] # 0 => actionSeq'[t] # 0
    OBVIOUS
  <1>2. \A h \in DOMAIN stdout : stdout[h] = StreamLine("use", t) =>
          actionSeq'[t] # 0 \/ (h # 1 /\ h - 1 \in DOMAIN stdout' /\ stdout'[h - 1] = StreamLine("use", t))
    BY <1>0
  <1>3. t \in calling' => Announced(t)'
    BY <1>1, <1>2 DEF TranscriptInv, StreamInOrder, Announced, StreamLine
  <1>4. ASSUME NEW k \in DOMAIN stdout', stdout'[k] = StreamLine("use", t)
        PROVE  actionSeq'[t] = 0 /\ \A h \in DOMAIN stdout' : stdout'[h] = stdout'[k] => h = k
    <2>1. k + 1 \in DOMAIN stdout /\ stdout[k + 1] = StreamLine("use", t) /\ k + 1 # 1
      BY <1>0, <1>4
    <2>2. actionSeq[t] = 0 /\ \A h \in DOMAIN stdout : stdout[h] = stdout[k + 1] => h = k + 1
      BY <2>1 DEF TranscriptInv, StreamInOrder
    <2>3. stdout[1] # StreamLine("use", t)
      BY <2>1, <2>2, <1>0
    <2>4. actionSeq'[t] = 0
      BY <2>2, <2>3
    <2>5. \A h \in DOMAIN stdout' : stdout'[h] = stdout'[k] => h = k
      BY <2>2, <1>0
    <2>. QED BY <2>4, <2>5
  <1>5. ASSUME NEW k \in DOMAIN stdout', stdout'[k] = StreamLine("done", t), actionSeq'[t] = 0
        PROVE  \E h \in DOMAIN stdout' : h < k /\ stdout'[h] = StreamLine("use", t)
    <2>1. k + 1 \in DOMAIN stdout /\ stdout[k + 1] = StreamLine("done", t) /\ actionSeq[t] = 0
      BY <1>0, <1>1, <1>5
    <2>2. PICK h \in DOMAIN stdout : h < k + 1 /\ stdout[h] = StreamLine("use", t)
      BY <2>1 DEF TranscriptInv, StreamInOrder
    <2>3. h # 1 /\ h - 1 \in DOMAIN stdout' /\ stdout'[h - 1] = StreamLine("use", t)
      BY <2>2, <1>2, <1>5
    <2>4. h - 1 < k
      BY <2>2, <1>0
    <2>. QED BY <2>3, <2>4
  <1>. QED BY <1>3, <1>4, <1>5

(* A row at the end, whether the adapter's or not, moves none. *)
LEMMA RowAdded ==
  ASSUME TranscriptInv, NEW r \in SinkRows, transcript' = Append(transcript, r),
         seqMap' = seqMap \/ seqMap' = Append(seqMap, Len(transcript) + 1)
  PROVE  /\ transcript' \in Seq(SinkRows) /\ seqMap' \in Seq(Nat)
         /\ NumbersMapped'
         /\ DOMAIN seqMap \subseteq DOMAIN seqMap'
         /\ \A k \in DOMAIN seqMap : seqMap'[k] = seqMap[k] /\ transcript'[seqMap[k]] = transcript[seqMap[k]]
         /\ \A j \in DOMAIN transcript : transcript'[j] = transcript[j]
         /\ \A j \in DOMAIN transcript' : j \in DOMAIN transcript \/ (j = Len(transcript) + 1 /\ transcript'[j] = r)
         /\ seqMap' # seqMap => /\ Len(seqMap) + 1 \in DOMAIN seqMap' /\ Len(seqMap) + 1 # 0
                                /\ Len(seqMap) + 1 \in Nat
                                /\ seqMap'[Len(seqMap) + 1] = Len(transcript) + 1
                                /\ transcript'[Len(transcript) + 1] = r
  <1>1. /\ transcript \in Seq(SinkRows) /\ seqMap \in Seq(Nat) /\ Len(transcript) + 1 \in Nat
        /\ \A k \in DOMAIN seqMap : seqMap[k] \in DOMAIN transcript
    BY DEF TranscriptInv, TranscriptTyped, NumbersMapped
  <1>2. /\ transcript' \in Seq(SinkRows) /\ DOMAIN transcript' = DOMAIN transcript \cup {Len(transcript) + 1}
        /\ \A j \in DOMAIN transcript : transcript'[j] = transcript[j]
        /\ transcript'[Len(transcript) + 1] = r
    BY <1>1
  <1>3. CASE seqMap' = seqMap
    BY <1>1, <1>2, <1>3 DEF NumbersMapped
  <1>4. CASE seqMap' = Append(seqMap, Len(transcript) + 1)
    <2>1. /\ seqMap' \in Seq(Nat) /\ DOMAIN seqMap' = DOMAIN seqMap \cup {Len(seqMap) + 1}
          /\ \A k \in DOMAIN seqMap : seqMap'[k] = seqMap[k]
          /\ seqMap'[Len(seqMap) + 1] = Len(transcript) + 1
          /\ Len(seqMap) + 1 \in Nat /\ Len(seqMap) + 1 # 0
      BY <1>1, <1>4
    <2>. QED BY <1>1, <1>2, <2>1 DEF NumbersMapped
  <1>. QED BY <1>3, <1>4

(* A row is written again in its place. *)
LEMMA RowRewritten ==
  ASSUME TranscriptInv, NEW r \in SinkRows, NEW k \in DOMAIN seqMap, EmitAgain(k, r)
  PROVE  /\ transcript' \in Seq(SinkRows) /\ seqMap' = seqMap /\ DOMAIN transcript' = DOMAIN transcript
         /\ NumbersMapped'
         /\ transcript'[seqMap[k]] = r /\ seqMap[k] \in DOMAIN transcript
         /\ \A j \in DOMAIN transcript : j # seqMap[k] => transcript'[j] = transcript[j]
  <1>1. seqMap[k] \in DOMAIN transcript /\ transcript \in Seq(SinkRows)
    BY DEF TranscriptInv, TranscriptTyped, NumbersMapped
  <1>2. transcript' = [transcript EXCEPT ![seqMap[k]] = r] /\ seqMap' = seqMap
    BY DEF EmitAgain
  <1>3. transcript' \in Seq(SinkRows) /\ DOMAIN transcript' = DOMAIN transcript
    BY <1>1, <1>2
  <1>. QED BY <1>1, <1>2, <1>3 DEF TranscriptInv, NumbersMapped

(* A row of no call. *)
LEMMA ForeignRow ==
  ASSUME TranscriptInv, NEW r \in SinkRows, transcript' = Append(transcript, r), r.call = 0,
         seqMap' = seqMap \/ seqMap' = Append(seqMap, Len(transcript) + 1),
         UNCHANGED <<actionSeq, progressSeq, inFlight>>
  PROVE  NumbersMapped' /\ NumbersAreRight' /\ transcript' \in Seq(SinkRows) /\ seqMap' \in Seq(Nat)
  <1>1. /\ transcript' \in Seq(SinkRows) /\ seqMap' \in Seq(Nat) /\ NumbersMapped'
        /\ DOMAIN seqMap \subseteq DOMAIN seqMap'
        /\ \A k \in DOMAIN seqMap : seqMap'[k] = seqMap[k] /\ transcript'[seqMap[k]] = transcript[seqMap[k]]
        /\ \A j \in DOMAIN transcript : transcript'[j] = transcript[j]
        /\ \A j \in DOMAIN transcript' : j \in DOMAIN transcript \/ (j = Len(transcript) + 1 /\ transcript'[j] = r)
    BY RowAdded
  <1>2. \A t \in ToolCalls : actionSeq'[t] # 0 =>
          /\ actionSeq'[t] \in DOMAIN seqMap'
          /\ transcript'[seqMap'[actionSeq'[t]]] = SinkRow("action", t, t \notin inFlight')
    BY <1>1 DEF TranscriptInv, NumbersAreRight
  <1>3. \A t \in ToolCalls : progressSeq'[t] # 0 =>
          /\ progressSeq'[t] \in DOMAIN seqMap'
          /\ transcript'[seqMap'[progressSeq'[t]]] = SinkRow("progress", t, FALSE)
    BY <1>1 DEF TranscriptInv, NumbersAreRight
  <1>4. \A j \in DOMAIN transcript' : \A t \in ToolCalls : transcript'[j].call = t =>
          transcript'[j].what = "progress" \/ (actionSeq'[t] # 0 /\ j = seqMap'[actionSeq'[t]])
    <2>1. ASSUME NEW j \in DOMAIN transcript, NEW t \in ToolCalls, transcript'[j].call = t,
                 transcript'[j].what # "progress"
          PROVE  actionSeq'[t] # 0 /\ j = seqMap'[actionSeq'[t]]
      <3>0. transcript[j].call = t /\ transcript[j].what # "progress"
        BY <1>1, <2>1
      <3>1. actionSeq[t] # 0 /\ j = seqMap[actionSeq[t]] /\ actionSeq[t] \in DOMAIN seqMap
        BY <3>0 DEF TranscriptInv, NumbersAreRight
      <3>. QED BY <3>1, <1>1
    <2>2. \A t \in ToolCalls : r.call # t
      BY SessionAssumption
    <2>. QED BY <1>1, <2>1, <2>2
  <1>. QED BY <1>1, <1>2, <1>3, <1>4 DEF NumbersAreRight, SinkRow

(* A line is said. *)
LEMMA LineSaid ==
  ASSUME TranscriptInv, NEW line \in StreamLines, Says(line),
         UNCHANGED <<actionSeq, progressSeq, inFlight, seqMap, transcript>>, calling' \subseteq ToolCalls,
         \A t \in ToolCalls : t \in calling' => t \in calling \/ line = StreamLine("use", t),
         \A t \in ToolCalls : line = StreamLine("use", t) =>
           actionSeq[t] = 0 /\ \A h \in DOMAIN stdout : stdout[h] # line,
         \A t \in ToolCalls : line = StreamLine("done", t) => t \in calling
  PROVE  TranscriptInv'
  <1>1. /\ stdout' \in Seq(StreamLines) /\ DOMAIN stdout' = DOMAIN stdout \cup {Len(stdout) + 1}
        /\ \A k \in DOMAIN stdout : stdout'[k] = stdout[k] /\ k < Len(stdout) + 1
        /\ stdout'[Len(stdout) + 1] = line
    BY DEF Says, TranscriptInv, TranscriptTyped
  <1>2. TranscriptTyped' /\ NumbersMapped'
    BY <1>1 DEF TranscriptInv, TranscriptTyped, NumbersMapped
  <1>3. NumbersAreRight'
    BY DEF TranscriptInv, NumbersAreRight
  <1>4. StreamInOrder'
    <2> SUFFICES ASSUME NEW t \in ToolCalls
                 PROVE  /\ t \in calling' => Announced(t)'
                        /\ \A k \in DOMAIN stdout' : stdout'[k] = StreamLine("use", t) =>
                             /\ actionSeq'[t] = 0
                             /\ \A h \in DOMAIN stdout' : stdout'[h] = stdout'[k] => h = k
                        /\ \A k \in DOMAIN stdout' : stdout'[k] = StreamLine("done", t) =>
                             \/ actionSeq'[t] # 0
                             \/ \E h \in DOMAIN stdout' : h < k /\ stdout'[h] = StreamLine("use", t)
      BY DEF StreamInOrder, Announced, StreamLine
    <2>1. Announced(t) => actionSeq[t] # 0 \/ \E h \in DOMAIN stdout : stdout[h] = StreamLine("use", t)
      BY DEF Announced
    <2>2. t \in calling => Announced(t)
      BY DEF TranscriptInv, StreamInOrder
    <2>3. t \in calling' => Announced(t)'
      BY <1>1, <2>1, <2>2 DEF Announced, StreamLine
    <2>4. \A k \in DOMAIN stdout' : stdout'[k] = StreamLine("use", t) =>
                             /\ actionSeq'[t] = 0
                             /\ \A h \in DOMAIN stdout' : stdout'[h] = stdout'[k] => h = k
      BY <1>1 DEF TranscriptInv, StreamInOrder
    <2>5. \A k \in DOMAIN stdout' : stdout'[k] = StreamLine("done", t) =>
                             \/ actionSeq'[t] # 0
                             \/ \E h \in DOMAIN stdout' : h < k /\ stdout'[h] = StreamLine("use", t)
      <3>1. ASSUME NEW k \in DOMAIN stdout, stdout'[k] = StreamLine("done", t), actionSeq'[t] = 0
            PROVE  \E h \in DOMAIN stdout' : h < k /\ stdout'[h] = StreamLine("use", t)
        BY <1>1, <3>1 DEF TranscriptInv, StreamInOrder
      <3>2. ASSUME line = StreamLine("done", t), actionSeq'[t] = 0
            PROVE  \E h \in DOMAIN stdout' : h < Len(stdout) + 1 /\ stdout'[h] = StreamLine("use", t)
        BY <1>1, <2>1, <2>2, <3>2
      <3>. QED BY <1>1, <3>1, <3>2
    <2>. QED BY <2>3, <2>4, <2>5
  <1>. QED BY <1>2, <1>3, <1>4 DEF TranscriptInv

(* The call's row is made. *)
LEMMA BeginKeeps ==
  ASSUME TranscriptInv, NEW t \in ToolCalls, BeginAction(t)
  PROVE  TranscriptInv'
  <1> DEFINE n == Len(seqMap) + 1
             r == SinkRow("action", t, FALSE)
  <1>1. /\ stdout # <<>> /\ Head(stdout).what = "use" /\ Head(stdout).call = t /\ stdout' = Tail(stdout)
        /\ transcript' = Append(transcript, r) /\ seqMap' = Append(seqMap, Len(transcript) + 1)
        /\ actionSeq' = [actionSeq EXCEPT ![t] = n] /\ inFlight' = inFlight \cup {t}
        /\ UNCHANGED <<progressSeq, calling>>
    BY DEF BeginAction, Line, OfCall, EmitNew
  <1>2. /\ actionSeq \in [ToolCalls -> Nat] /\ progressSeq \in [ToolCalls -> Nat] /\ stdout \in Seq(StreamLines)
        /\ seqMap \in Seq(Nat)
    BY DEF TranscriptInv, TranscriptTyped
  <1>3. stdout[1] = StreamLine("use", t)
    <2>1. stdout[1] \in StreamLines /\ Head(stdout) = stdout[1]
      BY <1>1, <1>2
    <2>. QED BY <2>1, <1>1 DEF StreamLines, StreamLine
  <1>4. actionSeq[t] = 0
    BY <1>1, <1>3, LineTaken DEF TranscriptInv, StreamInOrder
  <1>5. r \in SinkRows /\ r.what = "action" /\ r.call = t
    BY DEF SinkRow, SinkRows
  <1> HIDE DEF r
  <1>6. seqMap' # seqMap
    BY <1>1, <1>2
  <1>7. /\ transcript' \in Seq(SinkRows) /\ seqMap' \in Seq(Nat) /\ NumbersMapped'
        /\ DOMAIN seqMap \subseteq DOMAIN seqMap'
        /\ \A k \in DOMAIN seqMap : seqMap'[k] = seqMap[k] /\ transcript'[seqMap[k]] = transcript[seqMap[k]]
        /\ \A j \in DOMAIN transcript : transcript'[j] = transcript[j]
        /\ \A j \in DOMAIN transcript' : j \in DOMAIN transcript \/ (j = Len(transcript) + 1 /\ transcript'[j] = r)
        /\ n \in DOMAIN seqMap' /\ n # 0 /\ n \in Nat /\ seqMap'[n] = Len(transcript) + 1
        /\ transcript'[Len(transcript) + 1] = r
    BY <1>1, <1>5, <1>6, RowAdded
  <1> HIDE DEF n
  <1>8. /\ actionSeq' \in [ToolCalls -> Nat] /\ actionSeq'[t] = n
        /\ \A u \in ToolCalls : u # t => actionSeq'[u] = actionSeq[u]
    BY <1>1, <1>2, <1>7
  <1>9. TranscriptTyped'
    BY <1>1, <1>7, <1>8, LineTaken DEF TranscriptInv, TranscriptTyped
  <1>10. NumbersAreRight'
    <2>1. \A u \in ToolCalls : actionSeq'[u] # 0 =>
            /\ actionSeq'[u] \in DOMAIN seqMap'
            /\ transcript'[seqMap'[actionSeq'[u]]] = SinkRow("action", u, u \notin inFlight')
      <3> SUFFICES ASSUME NEW u \in ToolCalls, actionSeq'[u] # 0
                   PROVE  /\ actionSeq'[u] \in DOMAIN seqMap'
                          /\ transcript'[seqMap'[actionSeq'[u]]] = SinkRow("action", u, u \notin inFlight')
        OBVIOUS
      <3>1. CASE u = t
        <4>1. (t \notin inFlight') = FALSE
          BY <1>1
        <4>. QED BY <3>1, <4>1, <1>7, <1>8 DEF r
      <3>2. CASE u # t
        <4>1. (u \notin inFlight') = (u \notin inFlight)
          BY <3>2, <1>1
        <4>. QED BY <3>2, <4>1, <1>7, <1>8 DEF TranscriptInv, NumbersAreRight
      <3>. QED BY <3>1, <3>2
    <2>2. \A u \in ToolCalls : progressSeq'[u] # 0 =>
            /\ progressSeq'[u] \in DOMAIN seqMap'
            /\ transcript'[seqMap'[progressSeq'[u]]] = SinkRow("progress", u, FALSE)
      <3> SUFFICES ASSUME NEW u \in ToolCalls, progressSeq'[u] # 0
                   PROVE  /\ progressSeq'[u] \in DOMAIN seqMap'
                          /\ transcript'[seqMap'[progressSeq'[u]]] = SinkRow("progress", u, FALSE)
        OBVIOUS
      <3>1. progressSeq'[u] = progressSeq[u]
        BY <1>1
      <3>2. /\ progressSeq[u] \in DOMAIN seqMap
            /\ transcript[seqMap[progressSeq[u]]] = SinkRow("progress", u, FALSE)
        BY <3>1 DEF TranscriptInv, NumbersAreRight
      <3>. QED BY <1>7, <3>1, <3>2
    <2>3. \A j \in DOMAIN transcript' : \A u \in ToolCalls : transcript'[j].call = u =>
            transcript'[j].what = "progress" \/ (actionSeq'[u] # 0 /\ j = seqMap'[actionSeq'[u]])
      <3> SUFFICES ASSUME NEW j \in DOMAIN transcript', NEW u \in ToolCalls, transcript'[j].call = u,
                          transcript'[j].what # "progress"
                   PROVE  actionSeq'[u] # 0 /\ j = seqMap'[actionSeq'[u]]
        OBVIOUS
      <3>1. CASE j \in DOMAIN transcript
        <4>1. actionSeq[u] # 0 /\ j = seqMap[actionSeq[u]] /\ actionSeq[u] \in DOMAIN seqMap
          BY <3>1, <1>7 DEF TranscriptInv, NumbersAreRight
        <4>. QED BY <4>1, <1>4, <1>7, <1>8
      <3>2. CASE j = Len(transcript) + 1 /\ transcript'[j] = r
        BY <3>2, <1>5, <1>7, <1>8
      <3>. QED BY <3>1, <3>2, <1>7
    <2>. QED BY <2>1, <2>2, <2>3 DEF NumbersAreRight, SinkRow
  <1>11. StreamInOrder'
    <2>1. \A u \in ToolCalls : stdout[1] = StreamLine("use", u) => u = t
      BY <1>3 DEF StreamLine
    <2>2. \A u \in ToolCalls : \/ actionSeq'[u] = actionSeq[u]
                               \/ stdout[1] = StreamLine("use", u) /\ actionSeq'[u] # 0
      BY <1>3, <1>7, <1>8
    <2>3. \A u \in ToolCalls : stdout[1] = StreamLine("use", u) => actionSeq'[u] # 0
      BY <2>1, <1>7, <1>8
    <2>. QED BY <2>2, <2>3, <1>1, StreamTail
  <1>. QED BY <1>7, <1>9, <1>10, <1>11 DEF TranscriptInv

(* Heartbeats of a call share a row. *)
LEMMA ProgressKeeps ==
  ASSUME TranscriptInv, NEW t \in ToolCalls, HandleToolProgress(t)
  PROVE  TranscriptInv'
  <1> DEFINE n == Len(seqMap) + 1
             r == SinkRow("progress", t, FALSE)
  <1>1. /\ stdout # <<>> /\ Head(stdout).what = "progress" /\ stdout' = Tail(stdout)
        /\ UNCHANGED <<inFlight, actionSeq, calling>>
    BY DEF HandleToolProgress, Line
  <1>2. /\ actionSeq \in [ToolCalls -> Nat] /\ progressSeq \in [ToolCalls -> Nat] /\ stdout \in Seq(StreamLines)
        /\ seqMap \in Seq(Nat) /\ transcript \in Seq(SinkRows)
    BY DEF TranscriptInv, TranscriptTyped
  <1>3. StreamInOrder'
    <2>1. Head(stdout) = stdout[1]
      BY <1>1, LineTaken
    <2>2. \A u \in ToolCalls : stdout[1] # StreamLine("use", u)
      BY <1>1, <2>1 DEF StreamLine
    <2>. QED BY <1>1, <2>2, StreamTail
  <1>4. r \in SinkRows /\ r.what = "progress"
    BY DEF SinkRow, SinkRows
  <1>5. CASE progressSeq[t] = 0
    <2>1. /\ transcript' = Append(transcript, r) /\ seqMap' = Append(seqMap, Len(transcript) + 1)
          /\ progressSeq' = [progressSeq EXCEPT ![t] = n]
      BY <1>5 DEF HandleToolProgress, EmitNew
    <2>2. seqMap' # seqMap
      BY <1>2, <2>1
    <2> HIDE DEF r
    <2>3. /\ transcript' \in Seq(SinkRows) /\ seqMap' \in Seq(Nat) /\ NumbersMapped'
          /\ DOMAIN seqMap \subseteq DOMAIN seqMap'
          /\ \A k \in DOMAIN seqMap : seqMap'[k] = seqMap[k] /\ transcript'[seqMap[k]] = transcript[seqMap[k]]
          /\ \A j \in DOMAIN transcript : transcript'[j] = transcript[j]
          /\ \A j \in DOMAIN transcript' : j \in DOMAIN transcript \/ (j = Len(transcript) + 1 /\ transcript'[j] = r)
          /\ n \in DOMAIN seqMap' /\ n # 0 /\ n \in Nat /\ seqMap'[n] = Len(transcript) + 1
          /\ transcript'[Len(transcript) + 1] = r
      BY <2>1, <2>2, <1>4, RowAdded
    <2> HIDE DEF n
    <2>4. /\ progressSeq' \in [ToolCalls -> Nat] /\ progressSeq'[t] = n
          /\ \A u \in ToolCalls : u # t => progressSeq'[u] = progressSeq[u]
      BY <1>2, <2>1, <2>3
    <2>5. TranscriptTyped'
      BY <1>1, <2>3, <2>4, LineTaken DEF TranscriptInv, TranscriptTyped
    <2>6. \A u \in ToolCalls : actionSeq'[u] # 0 =>
            /\ actionSeq'[u] \in DOMAIN seqMap'
            /\ transcript'[seqMap'[actionSeq'[u]]] = SinkRow("action", u, u \notin inFlight')
      BY <1>1, <2>3 DEF TranscriptInv, NumbersAreRight
    <2>7. \A u \in ToolCalls : progressSeq'[u] # 0 =>
            /\ progressSeq'[u] \in DOMAIN seqMap'
            /\ transcript'[seqMap'[progressSeq'[u]]] = SinkRow("progress", u, FALSE)
      <3> SUFFICES ASSUME NEW u \in ToolCalls, progressSeq'[u] # 0
                   PROVE  /\ progressSeq'[u] \in DOMAIN seqMap'
                          /\ transcript'[seqMap'[progressSeq'[u]]] = SinkRow("progress", u, FALSE)
        OBVIOUS
      <3>1. CASE u = t
        BY <3>1, <2>3, <2>4 DEF r
      <3>2. CASE u # t
        <4>1. progressSeq'[u] = progressSeq[u]
          BY <3>2, <2>4
        <4>2. /\ progressSeq[u] \in DOMAIN seqMap
              /\ transcript[seqMap[progressSeq[u]]] = SinkRow("progress", u, FALSE)
          BY <4>1 DEF TranscriptInv, NumbersAreRight
        <4>. QED BY <4>1, <4>2, <2>3
      <3>. QED BY <3>1, <3>2
    <2>8. \A j \in DOMAIN transcript' : \A u \in ToolCalls : transcript'[j].call = u =>
            transcript'[j].what = "progress" \/ (actionSeq'[u] # 0 /\ j = seqMap'[actionSeq'[u]])
      <3>1. ASSUME NEW j \in DOMAIN transcript, NEW u \in ToolCalls, transcript'[j].call = u,
                   transcript'[j].what # "progress"
            PROVE  actionSeq'[u] # 0 /\ j = seqMap'[actionSeq'[u]]
        <4>1. actionSeq[u] # 0 /\ j = seqMap[actionSeq[u]] /\ actionSeq[u] \in DOMAIN seqMap
          BY <2>3, <3>1 DEF TranscriptInv, NumbersAreRight
        <4>. QED BY <4>1, <1>1, <2>3
      <3>. QED BY <3>1, <1>4, <2>3
    <2>9. NumbersAreRight'
      BY <2>6, <2>7, <2>8 DEF NumbersAreRight, SinkRow
    <2>. QED BY <1>3, <2>3, <2>5, <2>9 DEF TranscriptInv
  <1>6. CASE progressSeq[t] # 0
    <2>1. EmitAgain(progressSeq[t], r) /\ UNCHANGED progressSeq
      BY <1>6 DEF HandleToolProgress
    <2>2. progressSeq[t] \in DOMAIN seqMap /\ transcript[seqMap[progressSeq[t]]] = r
      BY <1>6 DEF TranscriptInv, NumbersAreRight
    <2> HIDE DEF r
    <2>3. /\ transcript' \in Seq(SinkRows) /\ seqMap' = seqMap /\ DOMAIN transcript' = DOMAIN transcript
          /\ NumbersMapped'
          /\ transcript'[seqMap[progressSeq[t]]] = r
          /\ \A j \in DOMAIN transcript : j # seqMap[progressSeq[t]] => transcript'[j] = transcript[j]
      BY <2>1, <2>2, <1>4, RowRewritten
    <2>4. \A j \in DOMAIN transcript : transcript'[j] = transcript[j]
      BY <2>2, <2>3
    <2>5. \A k \in DOMAIN seqMap : seqMap[k] \in DOMAIN transcript
      BY DEF TranscriptInv, NumbersMapped
    <2>6. NumbersAreRight'
      <3>1. \A u \in ToolCalls : actionSeq'[u] # 0 =>
              /\ actionSeq'[u] \in DOMAIN seqMap'
              /\ transcript'[seqMap'[actionSeq'[u]]] = SinkRow("action", u, u \notin inFlight')
        BY <1>1, <2>3, <2>4, <2>5 DEF TranscriptInv, NumbersAreRight
      <3>2. \A u \in ToolCalls : progressSeq'[u] # 0 =>
              /\ progressSeq'[u] \in DOMAIN seqMap'
              /\ transcript'[seqMap'[progressSeq'[u]]] = SinkRow("progress", u, FALSE)
        BY <2>1, <2>3, <2>4, <2>5 DEF TranscriptInv, NumbersAreRight
      <3>3. \A j \in DOMAIN transcript' : \A u \in ToolCalls : transcript'[j].call = u =>
              transcript'[j].what = "progress" \/ (actionSeq'[u] # 0 /\ j = seqMap'[actionSeq'[u]])
        BY <1>1, <2>3, <2>4 DEF TranscriptInv, NumbersAreRight
      <3>. QED BY <3>1, <3>2, <3>3 DEF NumbersAreRight, SinkRow
    <2>7. TranscriptTyped'
      BY <1>1, <2>1, <2>3, LineTaken DEF TranscriptInv, TranscriptTyped
    <2>. QED BY <1>3, <2>3, <2>6, <2>7 DEF TranscriptInv
  <1>. QED BY <1>5, <1>6

(* The result goes onto the call's row. *)
LEMMA ResultKeeps ==
  ASSUME TranscriptInv, NEW t \in ToolCalls, HandleUser(t)
  PROVE  TranscriptInv'
  <1> DEFINE k == actionSeq[t]
             r == SinkRow("action", t, TRUE)
  <1>1. /\ stdout # <<>> /\ Head(stdout).what = "done" /\ Head(stdout).call = t /\ stdout' = Tail(stdout)
        /\ EmitAgain(k, r) /\ inFlight' = inFlight \ {t}
        /\ progressSeq' = [progressSeq EXCEPT ![t] = 0]
        /\ UNCHANGED <<actionSeq, calling>>
    BY DEF HandleUser, Line, OfCall
  <1>2. /\ actionSeq \in [ToolCalls -> Nat] /\ progressSeq \in [ToolCalls -> Nat] /\ stdout \in Seq(StreamLines)
        /\ seqMap \in Seq(Nat) /\ transcript \in Seq(SinkRows)
    BY DEF TranscriptInv, TranscriptTyped
  <1>3. stdout[1] = StreamLine("done", t)
    <2>1. stdout[1] \in StreamLines /\ Head(stdout) = stdout[1]
      BY <1>1, <1>2
    <2>. QED BY <2>1, <1>1 DEF StreamLines, StreamLine
  <1>4. k # 0
    <2>1. \A h \in DOMAIN stdout : ~(h < 1)
      BY <1>2
    <2>. QED BY <2>1, <1>1, <1>3, LineTaken DEF TranscriptInv, StreamInOrder
  <1>5. StreamInOrder'
    <2>1. \A u \in ToolCalls : stdout[1] # StreamLine("use", u)
      BY <1>3 DEF StreamLine
    <2>. QED BY <1>1, <2>1, StreamTail
  <1>6. k \in DOMAIN seqMap /\ transcript[seqMap[k]] = SinkRow("action", t, t \notin inFlight)
    BY <1>4 DEF TranscriptInv, NumbersAreRight
  <1>7. r \in SinkRows /\ r.call = t /\ r.what = "action"
    BY DEF SinkRow, SinkRows
  <1>8. transcript[seqMap[k]].call = t /\ transcript[seqMap[k]].what = "action"
    BY <1>6 DEF SinkRow
  <1> HIDE DEF r
  <1>9. /\ transcript' \in Seq(SinkRows) /\ seqMap' = seqMap /\ DOMAIN transcript' = DOMAIN transcript
        /\ NumbersMapped'
        /\ transcript'[seqMap[k]] = r /\ seqMap[k] \in DOMAIN transcript
        /\ \A j \in DOMAIN transcript : j # seqMap[k] => transcript'[j] = transcript[j]
    BY <1>1, <1>6, <1>7, RowRewritten
  <1>10. \A i \in DOMAIN seqMap : seqMap[i] \in DOMAIN transcript
    BY DEF TranscriptInv, NumbersMapped
  <1>11. /\ progressSeq' \in [ToolCalls -> Nat]
         /\ \A u \in ToolCalls : progressSeq'[u] # 0 => u # t /\ progressSeq'[u] = progressSeq[u]
    BY <1>1, <1>2
  <1>12. TranscriptTyped'
    BY <1>1, <1>9, <1>11, LineTaken DEF TranscriptInv, TranscriptTyped
  <1>13. NumbersAreRight'
    <2>1. \A u \in ToolCalls : actionSeq'[u] # 0 =>
            /\ actionSeq'[u] \in DOMAIN seqMap'
            /\ transcript'[seqMap'[actionSeq'[u]]] = SinkRow("action", u, u \notin inFlight')
      <3> SUFFICES ASSUME NEW u \in ToolCalls, actionSeq[u] # 0
                   PROVE  /\ actionSeq[u] \in DOMAIN seqMap
                          /\ transcript'[seqMap[actionSeq[u]]] = SinkRow("action", u, u \notin inFlight')
        BY <1>1, <1>9
      <3>1. CASE u = t
        <4>1. (t \notin inFlight') = TRUE
          BY <1>1
        <4>. QED BY <3>1, <4>1, <1>6, <1>9 DEF r
      <3>2. CASE u # t
        <4>1. (u \notin inFlight') = (u \notin inFlight)
          BY <3>2, <1>1
        <4>2. /\ actionSeq[u] \in DOMAIN seqMap
              /\ transcript[seqMap[actionSeq[u]]] = SinkRow("action", u, u \notin inFlight)
          BY DEF TranscriptInv, NumbersAreRight
        <4>3. seqMap[actionSeq[u]] # seqMap[k]
          BY <4>2, <1>8, <3>2 DEF SinkRow
        <4>. QED BY <4>1, <4>2, <4>3, <1>9, <1>10
      <3>. QED BY <3>1, <3>2
    <2>2. \A u \in ToolCalls : progressSeq'[u] # 0 =>
            /\ progressSeq'[u] \in DOMAIN seqMap'
            /\ transcript'[seqMap'[progressSeq'[u]]] = SinkRow("progress", u, FALSE)
      <3> SUFFICES ASSUME NEW u \in ToolCalls, progressSeq'[u] # 0
                   PROVE  /\ progressSeq[u] \in DOMAIN seqMap
                          /\ transcript'[seqMap[progressSeq[u]]] = SinkRow("progress", u, FALSE)
        BY <1>9, <1>11
      <3>1. /\ progressSeq[u] \in DOMAIN seqMap
            /\ transcript[seqMap[progressSeq[u]]] = SinkRow("progress", u, FALSE)
        BY <1>11 DEF TranscriptInv, NumbersAreRight
      <3>2. seqMap[progressSeq[u]] # seqMap[k]
        BY <3>1, <1>8 DEF SinkRow
      <3>. QED BY <3>1, <3>2, <1>9, <1>10
    <2>3. \A j \in DOMAIN transcript' : \A u \in ToolCalls : transcript'[j].call = u =>
            transcript'[j].what = "progress" \/ (actionSeq'[u] # 0 /\ j = seqMap'[actionSeq'[u]])
      <3> SUFFICES ASSUME NEW j \in DOMAIN transcript, NEW u \in ToolCalls, transcript'[j].call = u,
                          transcript'[j].what # "progress"
                   PROVE  actionSeq[u] # 0 /\ j = seqMap[actionSeq[u]]
        BY <1>1, <1>9
      <3>1. CASE j = seqMap[k]
        BY <3>1, <1>4, <1>7, <1>9
      <3>2. CASE j # seqMap[k]
        BY <3>2, <1>9 DEF TranscriptInv, NumbersAreRight
      <3>. QED BY <3>1, <3>2
    <2>. QED BY <2>1, <2>2, <2>3 DEF NumbersAreRight, SinkRow
  <1>. QED BY <1>5, <1>9, <1>12, <1>13 DEF TranscriptInv

(* The rest of the rows. *)
LEMMA OtherRowsKeep ==
  ASSUME TranscriptInv, HandleResult \/ Finish \/ OthersAppend
  PROVE  TranscriptInv'
  <1>0. \A what \in {"other", "result", "undelivered"} :
          SinkRow(what, 0, TRUE) \in SinkRows /\ SinkRow(what, 0, TRUE).call = 0
    BY DEF SinkRow, SinkRows
  <1>1. CASE HandleResult
    <2>1. /\ stdout # <<>> /\ Head(stdout).what = "result" /\ stdout' = Tail(stdout)
          /\ transcript' = Append(transcript, SinkRow("result", 0, TRUE))
          /\ seqMap' = Append(seqMap, Len(transcript) + 1)
          /\ UNCHANGED <<inFlight, actionSeq, progressSeq, calling>>
      BY <1>1 DEF HandleResult, Line, EmitNew
    <2>2. NumbersMapped' /\ NumbersAreRight' /\ transcript' \in Seq(SinkRows) /\ seqMap' \in Seq(Nat)
      BY <1>0, <2>1, ForeignRow
    <2>3. Head(stdout) = stdout[1]
      BY <2>1, LineTaken
    <2>4. \A u \in ToolCalls : stdout[1] # StreamLine("use", u)
      BY <2>1, <2>3 DEF StreamLine
    <2>5. StreamInOrder'
      BY <2>1, <2>4, StreamTail
    <2>6. TranscriptTyped'
      BY <2>1, <2>2, LineTaken DEF TranscriptInv, TranscriptTyped
    <2>. QED BY <2>2, <2>5, <2>6 DEF TranscriptInv
  <1>2. CASE Finish \/ OthersAppend
    <2>1. /\ UNCHANGED <<inFlight, actionSeq, progressSeq, stdout, calling>>
          /\ \/ UNCHANGED <<seqMap, transcript>>
             \/ /\ transcript' = Append(transcript, SinkRow("undelivered", 0, TRUE))
                /\ seqMap' = Append(seqMap, Len(transcript) + 1)
             \/ /\ transcript' = Append(transcript, SinkRow("other", 0, TRUE))
                /\ seqMap' = seqMap
      BY <1>2 DEF Finish, OthersAppend, EmitNew, rowsVars, agentVars, adapterVars
    <2>2. StreamInOrder'
      BY <2>1 DEF TranscriptInv, StreamInOrder, Announced
    <2>3. NumbersMapped' /\ NumbersAreRight' /\ transcript' \in Seq(SinkRows) /\ seqMap' \in Seq(Nat)
      <3>1. CASE UNCHANGED <<seqMap, transcript>>
        BY <2>1, <3>1 DEF TranscriptInv, TranscriptTyped, NumbersMapped, NumbersAreRight
      <3>. QED BY <3>1, <1>0, <2>1, ForeignRow
    <2>4. TranscriptTyped'
      BY <2>1, <2>3 DEF TranscriptInv, TranscriptTyped
    <2>. QED BY <2>2, <2>3, <2>4 DEF TranscriptInv
  <1>. QED BY <1>1, <1>2

(* The agent says what it does in order. *)
LEMMA CliKeeps ==
  ASSUME TranscriptInv, CliSteps
  PROVE  TranscriptInv'
  <1>0. calling \subseteq ToolCalls
    BY DEF TranscriptInv, TranscriptTyped
  <1>1. ASSUME NEW t \in ToolCalls, CliUses(t) PROVE TranscriptInv'
    <2>1. /\ Says(StreamLine("use", t)) /\ calling' = calling \cup {t} /\ actionSeq[t] = 0
          /\ \A h \in DOMAIN stdout : stdout[h] # StreamLine("use", t)
          /\ UNCHANGED <<actionSeq, progressSeq, inFlight, seqMap, transcript>>
      BY <1>1 DEF CliUses, ToSet, adapterVars, rowsVars
    <2>2. /\ StreamLine("use", t) \in StreamLines
          /\ \A u \in ToolCalls : StreamLine("use", t) = StreamLine("use", u) => u = t
          /\ \A u \in ToolCalls : StreamLine("use", t) # StreamLine("done", u)
      BY DEF StreamLine, StreamLines
    <2>. QED BY <1>0, <2>1, <2>2, LineSaid
  <1>2. ASSUME NEW t \in ToolCalls, CliHeartbeat(t) \/ CliReturns(t) PROVE TranscriptInv'
    <2>1. PICK what \in {"progress", "done"} :
            /\ Says(StreamLine(what, t)) /\ calling' \subseteq calling /\ t \in calling
            /\ UNCHANGED <<actionSeq, progressSeq, inFlight, seqMap, transcript>>
      BY <1>2 DEF CliHeartbeat, CliReturns, adapterVars, rowsVars
    <2>2. /\ StreamLine(what, t) \in StreamLines
          /\ \A u \in ToolCalls : StreamLine(what, t) # StreamLine("use", u)
          /\ \A u \in ToolCalls : StreamLine(what, t) = StreamLine("done", u) => u = t
      BY DEF StreamLine, StreamLines
    <2>. QED BY <1>0, <2>1, <2>2, LineSaid
  <1>3. CASE CliEndsTurn
    <2>1. /\ Says(StreamLine("result", 0)) /\ calling' = {}
          /\ UNCHANGED <<actionSeq, progressSeq, inFlight, seqMap, transcript>>
      BY <1>3 DEF CliEndsTurn, adapterVars, rowsVars
    <2>2. /\ StreamLine("result", 0) \in StreamLines
          /\ \A u \in ToolCalls : StreamLine("result", 0) # StreamLine("use", u)
          /\ \A u \in ToolCalls : StreamLine("result", 0) # StreamLine("done", u)
      BY DEF StreamLine, StreamLines
    <2>. QED BY <2>1, <2>2, LineSaid
  <1>4. CASE CliHears \/ CliExits
    <2>1. calling' \subseteq calling /\ UNCHANGED <<actionSeq, progressSeq, inFlight, seqMap, transcript, stdout>>
      BY <1>4 DEF CliHears, CliExits, adapterVars, rowsVars
    <2>2. TranscriptTyped'
      BY <2>1 DEF TranscriptInv, TranscriptTyped
    <2>3. NumbersMapped' /\ NumbersAreRight'
      BY <2>1 DEF TranscriptInv, NumbersMapped, NumbersAreRight
    <2>4. StreamInOrder'
      BY <2>1 DEF TranscriptInv, StreamInOrder, Announced
    <2>. QED BY <2>2, <2>3, <2>4 DEF TranscriptInv
  <1>. QED BY <1>1, <1>2, <1>3, <1>4 DEF CliSteps

(* What people, the supervisor and a stop do writes no row. *)
LEMMA OutsideKeeps ==
  ASSUME TranscriptInv, UNCHANGED <<actionSeq, progressSeq, inFlight, seqMap, transcript, stdout, calling>>
  PROVE  TranscriptInv'
  <1>1. TranscriptTyped'
    BY DEF TranscriptInv, TranscriptTyped
  <1>2. NumbersMapped' /\ NumbersAreRight'
    BY DEF TranscriptInv, NumbersMapped, NumbersAreRight
  <1>3. StreamInOrder'
    BY DEF TranscriptInv, StreamInOrder, Announced
  <1>. QED BY <1>1, <1>2, <1>3 DEF TranscriptInv

------------------------------------------------------------------------------
LEMMA SessionStarts == SessionInit => MessageInv /\ TranscriptInv
  <1> SUFFICES ASSUME SessionInit PROVE MessageInv /\ TranscriptInv
    OBVIOUS
  <1>1. MessagesTyped
    <2>1. <<>> \in Seq(Messages)
      OBVIOUS
    <2>. QED BY <2>1 DEF SessionInit, MessagesTyped
  <1>2. ListIsQueued /\ AcceptedIsMarked
    BY DEF SessionInit, ListIsQueued, AcceptedIsMarked
  <1>3. NoneOvertakes
    BY DEF SessionInit, NoneOvertakes
  <1>4. TranscriptTyped
    <2>1. SinkRow("other", 0, TRUE) \in SinkRows
      BY DEF SinkRow, SinkRows
    <2>2. /\ \A r \in SinkRows : <<r>> \in Seq(SinkRows)
          /\ <<>> \in Seq(Nat) /\ <<>> \in Seq(StreamLines)
      OBVIOUS
    <2>. QED BY <2>1, <2>2 DEF SessionInit, TranscriptTyped
  <1>5. NumbersMapped /\ StreamInOrder
    BY DEF SessionInit, NumbersMapped, StreamInOrder
  <1>6. NumbersAreRight
    <2>1. \A j \in DOMAIN transcript : transcript[j].call = 0
      BY DEF SessionInit, SinkRow
    <2>. QED BY <2>1, SessionAssumption DEF SessionInit, NumbersAreRight
  <1>. QED BY <1>1, <1>2, <1>3, <1>4, <1>5, <1>6 DEF MessageInv, TranscriptInv, SessionInit

LEMMA SessionSteps == MessageInv /\ TranscriptInv /\ [SessionNext]_sessionAll => MessageInv' /\ TranscriptInv'
  <1> SUFFICES ASSUME MessageInv, TranscriptInv, [SessionNext]_sessionAll
               PROVE  MessageInv' /\ TranscriptInv'
    OBVIOUS
  <1>1. CASE UNCHANGED sessionAll
    <2>1. MessageInv'
      BY <1>1 DEF sessionAll, messageVars, loopVars, adapterVars, agentVars, paperVars, MessageInv, MessagesTyped,
         ListIsQueued, AcceptedIsMarked, NoneOvertakes, Writable
    <2>. QED BY <1>1, <2>1, OutsideKeeps DEF sessionAll, adapterVars, rowsVars, agentVars
  <1>2. ASSUME NEW m \in Messages, ReadRun(m) \/ CreateMessage(m) \/ NotifySteering(m)
        PROVE  MessageInv' /\ TranscriptInv'
    BY <1>2, PosterKeeps, OutsideKeeps DEF ReadRun, CreateMessage, NotifySteering, adapterVars, rowsVars, agentVars
  <1>3. CASE SuperviseMessages
    <2>1. MessageInv'
      BY <1>3, DrainKeeps, HandOverKeeps, MarkKeeps, EndKeeps DEF SuperviseMessages
    <2>2. UNCHANGED <<actionSeq, progressSeq, inFlight, seqMap, transcript, stdout, calling>>
      BY <1>3 DEF SuperviseMessages, DrainAfterLaunch, DrainOnNudge, HandOver, MarkDelivered, WaitReturns,
         DropQueued, EndRow, adapterVars, rowsVars, agentVars
    <2>. QED BY <2>1, <2>2, OutsideKeeps
  <1>4. CASE PumpStdout
    <2>1. MessageInv'
      BY <1>4, PumpKeepsMessages DEF PumpStdout
    <2>. QED BY <1>4, <2>1, BeginKeeps, ProgressKeeps, ResultKeeps, OtherRowsKeep DEF PumpStdout
  <1>5. CASE StopSession \/ OthersAppend \/ CliSteps
    <2>1. MessageInv'
      BY <1>5, PumpKeepsMessages
    <2>2. StopSession => UNCHANGED <<actionSeq, progressSeq, inFlight, seqMap, transcript, stdout, calling>>
      BY DEF StopSession, rowsVars, agentVars
    <2>. QED BY <1>5, <2>1, <2>2, OutsideKeeps, OtherRowsKeep, CliKeeps
  <1>. QED BY <1>1, <1>2, <1>3, <1>4, <1>5 DEF SessionNext

(* What a session promises: messages reach the agent once and in the order they were taken,
   none is held while nothing is in flight, and a call's result is on its one row, for any
   messages, calls and interleaving with heartbeats and other writers (Steer,
   flushQueueLocked, turnEndedLocked, handleUserLocked, seqMap). *)
THEOREM SessionInvariant == SessionSpec => []SessionInv
  <1>1. MessageInv /\ TranscriptInv => SessionInv
    BY OwnRow DEF MessageInv, SessionInv
  <1>. QED BY <1>1, SessionStarts, SessionSteps, PTL DEF SessionSpec


------------------------------------------------------------------------------
(* Hub. *)

HubTyped ==
  /\ published \in Nat /\ published <= Len(TopicOf) /\ hubClosed \in BOOLEAN /\ conns \subseteq Tabs
  /\ ch \in [Tabs -> Seq(Nat)] /\ owed \in [Tabs -> Seq(Nat)]
  /\ killed \in [Tabs -> BOOLEAN] /\ deadline \in [Tabs -> BOOLEAN]
  /\ lastId \in [Tabs -> Nat] /\ known \in [Tabs -> Nat] /\ connects \in [Tabs -> Nat]
  /\ gapless \in [Tabs -> BOOLEAN] /\ wroteLate \in [Tabs -> BOOLEAN]
  /\ \A c \in Tabs : connects[c] <= MaxConnects /\ Len(ch[c]) <= ConnBuffer

(* The ring holds the last frames, without a hole. *)
RingAligned ==
  /\ ring \in Seq(Nat) /\ Len(ring) <= RingSize
  /\ \A i \in 1..Len(ring) : ring[i] = published - Len(ring) + i

(* What a tab knows was published, and an id that can be resumed from is all it knows. *)
TabFollows(c) ==
  /\ lastId[c] <= known[c] /\ known[c] <= published
  /\ InRing(lastId[c]) => known[c] = lastId[c]
  /\ \A i \in 1..Len(owed[c]) : owed[c][i] <= published
  /\ \A i \in 1..Len(ch[c]) : ch[c][i] <= published
  /\ gapless[c] \/ wroteLate[c]

Rising(s) == \A i, j \in 1..Len(s) : i < j => s[i] < s[j]

(* What is to be written is in order and new, the backlog first, and nothing the tab wants is
   missing from it. *)
Backlog(c) ==
  /\ Rising(owed[c]) /\ Rising(ch[c])
  /\ \A i \in 1..Len(owed[c]) : \A j \in 1..Len(ch[c]) : owed[c][i] < ch[c][j]
  /\ \A i \in 1..Len(owed[c]) : known[c] < owed[c][i]
  /\ \A i \in 1..Len(ch[c]) : known[c] < ch[c][i]

Complete(c) ==
  \A g \in (known[c] + 1)..published : TopicOf[g] \in Wants[c] =>
    \/ \E i \in 1..Len(owed[c]) : owed[c][i] = g
    \/ \E i \in 1..Len(ch[c]) : ch[c][i] = g

HubTracked ==
  /\ HubTyped /\ RingAligned
  /\ \A c \in Tabs : TabFollows(c)
  /\ \A c \in conns : ~killed[c] => Backlog(c) /\ Complete(c)

LEMMA TailOf ==
  ASSUME NEW s \in Seq(Nat), Len(s) > 0
  PROVE  /\ Tail(s) \in Seq(Nat) /\ Len(Tail(s)) = Len(s) - 1 /\ Len(s) \in Nat /\ s[1] \in Nat
         /\ \A i \in 1..Len(Tail(s)) : Tail(s)[i] \in Nat /\ \E j \in 1..Len(s) : Tail(s)[i] = s[j]
         /\ \A i \in 1..Len(s) : i = 1 \/ \E j \in 1..Len(Tail(s)) : Tail(s)[j] = s[i]
         /\ Rising(s) => Rising(Tail(s)) /\ \A i \in 1..Len(Tail(s)) : s[1] < Tail(s)[i]
  <1> DEFINE t == Tail(s)
  <1>1. t \in Seq(Nat) /\ Len(t) = Len(s) - 1 /\ Len(s) \in Nat /\ Len(t) \in Nat /\ s[1] \in Nat
    OBVIOUS
  <1>2. \A i \in 1..Len(t) : t[i] = s[i + 1]
    OBVIOUS
  <1> HIDE DEF t
  <1>3. \A i \in 1..Len(t) : i + 1 \in 1..Len(s) /\ 1 < i + 1
    BY <1>1
  <1>4. \A i \in 1..Len(s) : i = 1 \/ (i - 1 \in 1..Len(t) /\ (i - 1) + 1 = i)
    BY <1>1
  <1>5. \A i \in 1..Len(s) : i = 1 \/ \E j \in 1..Len(t) : t[j] = s[i]
    BY <1>2, <1>4
  <1>6. \A i \in 1..Len(t) : t[i] \in Nat /\ \E j \in 1..Len(s) : t[i] = s[j]
    <2>1. \A i \in 1..Len(t) : t[i] \in Nat
      BY <1>1
    <2>2. ASSUME NEW i \in 1..Len(t) PROVE \E j \in 1..Len(s) : t[i] = s[j]
      <3>1. i + 1 \in 1..Len(s) /\ t[i] = s[i + 1]
        BY <1>2, <1>3
      <3>. QED BY <3>1
    <2>. QED BY <2>1, <2>2
  <1>7. ASSUME Rising(s) PROVE Rising(t) /\ \A i \in 1..Len(t) : s[1] < t[i]
    <2>1. ASSUME NEW i \in 1..Len(t), NEW j \in 1..Len(t), i < j PROVE t[i] < t[j]
      <3>1. i + 1 < j + 1
        BY <1>1, <2>1
      <3>. QED BY <1>2, <1>3, <1>7, <3>1 DEF Rising
    <2>2. ASSUME NEW i \in 1..Len(t) PROVE s[1] < t[i]
      <3>1. 1 \in 1..Len(s)
        BY <1>1, <2>2
      <3>. QED BY <1>2, <1>3, <1>7, <3>1 DEF Rising
    <2>. QED BY <2>1, <2>2 DEF Rising
  <1>. QED BY <1>1, <1>5, <1>6, <1>7 DEF t

(* What register replays: the frames after the one it was asked for that are for the tab, in
   order, all of them. *)
LEMMA ReplayIsExact ==
  ASSUME RingAligned, published \in Nat, NEW c \in Tabs, NEW from \in Nat
  PROVE  LET sent == FramesFor(c, from) IN
         /\ sent \in Seq(Nat)
         /\ Rising(sent)
         /\ \A i \in 1..Len(sent) : from <= sent[i] /\ sent[i] <= published
         /\ \A g \in ToSet(ring) : g >= from /\ TopicOf[g] \in Wants[c] =>
              \E i \in 1..Len(sent) : sent[i] = g
  <1> DEFINE missed == {f \in ToSet(ring) : f >= from /\ TopicOf[f] \in Wants[c]}
  <1> DEFINE n == Cardinality(missed)
  <1> DEFINE list == FramesFor(c, from)
  <1>1. ring \in Seq(Nat) /\ \A i \in 1..Len(ring) : ring[i] <= published
    BY DEF RingAligned
  <1>2. /\ missed \subseteq Nat
        /\ \A f \in missed : f \in ToSet(ring) /\ from <= f /\ f <= published
        /\ missed \subseteq 0..published
    BY <1>1 DEF ToSet
  <1>3. IsFiniteSet(missed) /\ n \in Nat
    <2> HIDE DEF missed
    <2>1. IsFiniteSet(missed)
      BY <1>2, FS_BoundedSetOfNaturals
    <2>. QED BY <2>1, FS_CardinalityType
  <1>4. PICK some : some \in Listings(missed)
    BY <1>2, <1>3, CanBeListed
  <1> HIDE DEF missed
  <1>5. list = CHOOSE x \in [1..n -> missed] : \A i, j \in 1..n : i < j => x[i] < x[j]
    BY DEF FramesFor, missed
  <1>6. \E x \in [1..n -> missed] : \A i, j \in 1..n : i < j => x[i] < x[j]
    BY <1>4 DEF Listings
  <1> HIDE DEF list
  <1>7. /\ list \in [1..n -> missed]
        /\ \A i, j \in 1..n : i < j => list[i] < list[j]
    BY <1>5, <1>6
  <1>8. list \in Seq(Nat) /\ Len(list) = n
    <2> HIDE DEF n
    <2>1. n \in Nat /\ missed \subseteq Nat /\ list \in [1..n -> missed]
      BY <1>2, <1>3, <1>7
    <2>2. list \in [1..n -> Nat]
      BY <2>1
    <2>. QED BY <2>1, <2>2
  <1>9. ASSUME NEW g \in missed, \A i \in 1..n : list[i] # g
        PROVE  FALSE
    <2> DEFINE rest == missed \ {g}
    <2>1. IsFiniteSet(rest) /\ Cardinality(rest) = n - 1
      BY <1>3, FS_RemoveElement
    <2>2. IsFiniteSet(1..n) /\ Cardinality(1..n) = n
      BY <1>3, FS_Interval
    <2>3. list \in [1..n -> rest]
      BY <1>7, <1>9
    <2> HIDE DEF n, rest
    <2>4. Cardinality(rest) < Cardinality(1..n)
      BY <1>3, <2>1, <2>2
    <2>5. PICK i \in 1..n, j \in 1..n : i # j /\ list[i] = list[j]
      BY <2>1, <2>2, <2>3, <2>4, FS_PigeonHole
    <2>6. i < j \/ j < i
      BY <1>3, <2>5
    <2>7. list[i] \in Nat /\ list[j] \in Nat
      BY <1>2, <1>7
    <2>. QED BY <1>7, <2>5, <2>6, <2>7
  <1>10. \A g \in ToSet(ring) : g >= from /\ TopicOf[g] \in Wants[c] => \E i \in 1..n : list[i] = g
    BY <1>9 DEF missed
  <1> HIDE DEF n
  <1>11. \A i \in 1..Len(list) : from <= list[i] /\ list[i] <= published
    BY <1>2, <1>7, <1>8
  <1>12. Rising(list)
    BY <1>7, <1>8 DEF Rising
  <1>. QED BY <1>7, <1>8, <1>10, <1>11, <1>12 DEF list

(* A step that leaves the ring and what the tabs know and hold alone. *)
LEMMA HubQuiet ==
  ASSUME HubTracked, UNCHANGED <<published, ch, owed, seenVars>>,
         ring' = ring \/ ring' = <<>>, hubClosed' \in BOOLEAN, conns' \subseteq conns,
         killed' \in [Tabs -> BOOLEAN], deadline' \in [Tabs -> BOOLEAN],
         \A c \in Tabs : killed[c] => killed'[c]
  PROVE  HubTracked'
  <1>1. HubTyped'
    BY DEF HubTracked, HubTyped, seenVars
  <1>2. RingAligned'
    <2>1. CASE ring' = ring
      BY <2>1 DEF HubTracked, RingAligned
    <2>2. CASE ring' = <<>>
      <3>1. ring' \in Seq(Nat) /\ Len(ring') = 0
        BY <2>2
      <3>. QED BY <3>1, HubAssumption DEF RingAligned
    <2>. QED BY <2>1, <2>2
  <1>3. ASSUME NEW c \in Tabs PROVE TabFollows(c)'
    <2>1. InRing(lastId[c])' => InRing(lastId[c])
      BY DEF InRing, seenVars
    <2>. QED BY <2>1 DEF HubTracked, TabFollows, seenVars
  <1>4. ASSUME NEW c \in conns', ~killed'[c] PROVE Backlog(c)' /\ Complete(c)'
    <2>1. c \in conns /\ c \in Tabs /\ ~killed[c]
      BY <1>4 DEF HubTracked, HubTyped
    <2>. QED BY <2>1 DEF HubTracked, Backlog, Complete, seenVars
  <1>. QED BY <1>1, <1>2, <1>3, <1>4 DEF HubTracked

(* A frame into the ring. *)
LEMMA RingGrows ==
  ASSUME HubTracked, HandleEvent
  PROVE  RingAligned' /\ \A i \in DOMAIN ring' : ring'[i] = published + 1 \/ \E j \in DOMAIN ring : ring'[i] = ring[j]
  <1> DEFINE f == published + 1
  <1> DEFINE more == Append(ring, f)
  <1> DEFINE drop == IF Len(more) > RingSize THEN Len(more) - RingSize ELSE 0
  <1>1. ring \in Seq(Nat) /\ f \in Nat /\ Len(ring) \in Nat /\ Len(ring) <= RingSize /\ RingSize \in Nat /\ RingSize > 0
    BY HubAssumption DEF HubTracked, HubTyped, RingAligned
  <1>2. more \in Seq(Nat) /\ Len(more) = Len(ring) + 1
        /\ \A i \in 1..Len(more) : more[i] = IF i = Len(ring) + 1 THEN f ELSE ring[i]
    BY <1>1
  <1>3. ASSUME NEW i \in 1..Len(more) PROVE more[i] = published + 1 - Len(more) + i
    <2> HIDE DEF more
    <2>1. published \in Nat /\ \A j \in 1..Len(ring) : ring[j] = published - Len(ring) + j
      BY DEF HubTracked, HubTyped, RingAligned
    <2>2. CASE i = Len(ring) + 1
      BY <1>1, <1>2, <2>1, <2>2
    <2>3. CASE i # Len(ring) + 1
      <3>1. i \in 1..Len(ring) /\ more[i] = ring[i]
        BY <1>1, <1>2, <2>3
      <3>2. ring[i] = published - Len(ring) + i
        BY <2>1, <3>1
      <3>. QED BY <1>1, <1>2, <2>1, <3>1, <3>2
    <2>. QED BY <2>2, <2>3
  <1>4. ring' = SubSeq(more, drop + 1, Len(more)) /\ published' = f
    BY <1>1, <1>2 DEF HandleEvent, LastOf
  <1> HIDE DEF more
  <1>5. drop \in Nat /\ drop < Len(more) /\ Len(more) - drop <= RingSize
    BY <1>1, <1>2
  <1> HIDE DEF drop
  <1>6. /\ ring' \in Seq(Nat) /\ Len(ring') = Len(more) - drop
        /\ \A i \in 1..Len(ring') : ring'[i] = more[drop + i] /\ drop + i \in 1..Len(more)
    BY <1>2, <1>4, <1>5
  <1>7. RingAligned'
    <2>1. published \in Nat
      BY DEF HubTracked, HubTyped
    <2>2. ASSUME NEW i \in 1..Len(ring') PROVE ring'[i] = published' - Len(ring') + i
      <3>1. ring'[i] = more[drop + i] /\ drop + i \in 1..Len(more)
        BY <1>6
      <3>2. more[drop + i] = published + 1 - Len(more) + (drop + i)
        BY <1>3, <3>1
      <3>3. /\ Len(more) \in Nat /\ drop \in Nat /\ Len(ring') = Len(more) - drop
            /\ published' = published + 1 /\ i \in Nat
        BY <1>2, <1>4, <1>5, <1>6
      <3>4. Len(ring') \in Nat
        BY <1>6
      <3>. QED BY <2>1, <3>1, <3>2, <3>3, <3>4
    <2>3. Len(ring') <= RingSize
      BY <1>5, <1>6
    <2>. QED BY <1>6, <2>2, <2>3 DEF RingAligned
  <1>8. \A i \in DOMAIN ring' : ring'[i] = published + 1 \/ \E j \in DOMAIN ring : ring'[i] = ring[j]
    <2>0. DOMAIN ring' = 1..Len(ring') /\ DOMAIN ring = 1..Len(ring)
      BY <1>1, <1>6
    <2> SUFFICES ASSUME NEW i \in 1..Len(ring')
                 PROVE  ring'[i] = f \/ \E j \in 1..Len(ring) : ring'[i] = ring[j]
      BY <2>0
    <2>1. ring'[i] = more[drop + i] /\ drop + i \in 1..Len(more)
      BY <1>6
    <2>2. CASE drop + i = Len(ring) + 1
      BY <1>2, <2>1, <2>2
    <2>3. CASE drop + i # Len(ring) + 1
      <3>1. drop + i \in 1..Len(ring)
        BY <1>1, <1>2, <2>1, <2>3
      <3>. QED BY <1>2, <2>1, <2>3, <3>1
    <2>. QED BY <2>2, <2>3
  <1>. QED BY <1>7, <1>8

LEMMA HandleEventKeeps ==
  ASSUME HubTracked, HandleEvent
  PROVE  HubTracked'
  <1> DEFINE f == published + 1
  <1> DEFINE to == {c \in conns : TopicOf[f] \in Wants[c]}
  <1> DEFINE full == {c \in to : Len(ch[c]) = ConnBuffer}
  <1>1. /\ published' = f /\ published < Len(TopicOf) /\ published \in Nat
        /\ ch' = [c \in Tabs |-> IF c \in to \ full THEN Append(ch[c], f) ELSE ch[c]]
        /\ killed' = [c \in Tabs |-> killed[c] \/ c \in full]
        /\ UNCHANGED <<hubClosed, conns, owed, deadline, lastId, connects, known, gapless, wroteLate>>
    BY DEF HandleEvent, seenVars, HubTracked, HubTyped
  <1>2. /\ ch \in [Tabs -> Seq(Nat)] /\ owed \in [Tabs -> Seq(Nat)] /\ conns \subseteq Tabs
        /\ lastId \in [Tabs -> Nat] /\ known \in [Tabs -> Nat] /\ killed \in [Tabs -> BOOLEAN]
    BY DEF HubTracked, HubTyped
  <1>3. ASSUME NEW c \in Tabs
        PROVE  /\ ch'[c] \in Seq(Nat) /\ Len(ch'[c]) <= ConnBuffer
               /\ \/ ch'[c] = ch[c]
                  \/ /\ ch'[c] = Append(ch[c], f) /\ Len(ch'[c]) = Len(ch[c]) + 1
                     /\ \A i \in 1..Len(ch'[c]) : ch'[c][i] = IF i = Len(ch[c]) + 1 THEN f ELSE ch[c][i]
               /\ ch'[c] = ch[c] => c \notin to \/ c \in full
    <2>1. ch[c] \in Seq(Nat) /\ Len(ch[c]) <= ConnBuffer /\ f \in Nat /\ ConnBuffer \in Nat /\ Len(ch[c]) \in Nat
      BY <1>1, <1>2, HubAssumption DEF HubTracked, HubTyped
    <2>2. CASE c \in to \ full
      <3>1. ch'[c] = Append(ch[c], f) /\ Len(ch[c]) # ConnBuffer
        BY <1>1, <2>2
      <3> HIDE DEF f
      <3>2. Len(Append(ch[c], f)) = Len(ch[c]) + 1 /\ Append(ch[c], f) \in Seq(Nat)
            /\ \A i \in 1..(Len(ch[c]) + 1) : Append(ch[c], f)[i] = IF i = Len(ch[c]) + 1 THEN f ELSE ch[c][i]
        BY <2>1
      <3>3. ch'[c] # ch[c]
        BY <3>1, <3>2, <2>1
      <3>. QED BY <2>1, <3>1, <3>2, <3>3
    <2>3. CASE ~(c \in to \ full)
      <3>1. ch'[c] = ch[c]
        BY <1>1, <2>3
      <3>. QED BY <2>1, <2>3, <3>1
    <2>. QED BY <2>2, <2>3
  <1> HIDE DEF to, full
  <1>4. HubTyped'
    <2>1. ch' \in [Tabs -> Seq(Nat)] /\ killed' \in [Tabs -> BOOLEAN]
      BY <1>1, <1>2, <1>3
    <2>. QED BY <1>1, <1>3, <2>1, HubAssumption DEF HubTracked, HubTyped
  <1>5. ASSUME NEW c \in Tabs PROVE TabFollows(c)'
    <2>1. /\ lastId[c] \in Nat /\ known[c] \in Nat /\ TabFollows(c) /\ owed[c] \in Seq(Nat) /\ ch[c] \in Seq(Nat)
          /\ Len(ch[c]) \in Nat
      BY <1>2 DEF HubTracked
    <2>2. InRing(lastId[c])' => known[c] = lastId[c]
      BY <1>1, <2>1, RingGrows DEF InRing, TabFollows
    <2>3. \A i \in 1..Len(owed[c]) : owed[c][i] <= f
      BY <1>1, <2>1 DEF TabFollows
    <2>4. \A i \in 1..Len(ch'[c]) : ch'[c][i] <= f
      <3>1. \A i \in 1..Len(ch[c]) : ch[c][i] <= f /\ ch[c][i] \in Nat
        BY <1>1, <2>1 DEF TabFollows
      <3>. QED BY <1>1, <1>3, <2>1, <3>1
    <2>. QED BY <1>1, <2>1, <2>2, <2>3, <2>4 DEF TabFollows
  <1>6. ASSUME NEW c \in conns', ~killed'[c] PROVE Backlog(c)' /\ Complete(c)'
    <2>1. c \in conns /\ c \in Tabs /\ ~killed[c] /\ c \notin full
      BY <1>1, <1>2, <1>6
    <2>2. /\ Backlog(c) /\ Complete(c) /\ TabFollows(c) /\ known[c] \in Nat
          /\ owed[c] \in Seq(Nat) /\ ch[c] \in Seq(Nat) /\ Len(ch[c]) \in Nat
      BY <1>2, <2>1 DEF HubTracked
    <2>3. /\ \A i \in 1..Len(owed[c]) : owed[c][i] \in Nat /\ owed[c][i] < f
          /\ \A i \in 1..Len(ch[c]) : ch[c][i] \in Nat /\ ch[c][i] < f
          /\ known[c] < f
      <3>1. /\ \A i \in 1..Len(owed[c]) : owed[c][i] <= published
            /\ \A i \in 1..Len(ch[c]) : ch[c][i] <= published
            /\ known[c] <= published /\ published \in Nat /\ f = published + 1
        BY <1>1, <2>2 DEF TabFollows
      <3>2. (\A i \in 1..Len(owed[c]) : owed[c][i] \in Nat) /\ (\A i \in 1..Len(ch[c]) : ch[c][i] \in Nat)
        BY <2>2
      <3>3. \A i \in 1..Len(owed[c]) : owed[c][i] < f
        BY <3>1, <3>2
      <3>4. \A i \in 1..Len(ch[c]) : ch[c][i] < f
        BY <3>1, <3>2
      <3>5. known[c] < f
        BY <2>2, <3>1
      <3>. QED BY <3>2, <3>3, <3>4, <3>5
    <2>4. CASE ch'[c] = ch[c]
      <3>1. TopicOf[f] \notin Wants[c]
        BY <1>3, <2>1, <2>4 DEF to
      <3>2. Backlog(c)'
        BY <1>1, <2>2, <2>4 DEF Backlog
      <3>3. \A g \in (known[c] + 1)..f : g = f \/ g \in (known[c] + 1)..published
        BY <1>1, <2>2
      <3>4. Complete(c)'
        <4>1. published' = f /\ owed' = owed /\ known' = known
          BY <1>1
        <4>2. ASSUME NEW g \in (known[c] + 1)..f, TopicOf[g] \in Wants[c]
              PROVE  \/ \E i \in 1..Len(owed[c]) : owed[c][i] = g
                     \/ \E i \in 1..Len(ch[c]) : ch[c][i] = g
          <5>1. g \in (known[c] + 1)..published
            BY <3>1, <3>3, <4>2
          <5>. QED BY <2>2, <4>2, <5>1 DEF Complete
        <4>. QED BY <2>4, <4>1, <4>2 DEF Complete
      <3>. QED BY <3>2, <3>4
    <2>5. CASE ch'[c] # ch[c]
      <3>1. /\ Len(ch'[c]) = Len(ch[c]) + 1
            /\ \A i \in 1..Len(ch'[c]) : ch'[c][i] = IF i = Len(ch[c]) + 1 THEN f ELSE ch[c][i]
        BY <1>3, <2>1, <2>5
      <3>2. Backlog(c)'
        <4>1. Rising(ch'[c])
          <5> SUFFICES ASSUME NEW i \in 1..Len(ch'[c]), NEW j \in 1..Len(ch'[c]), i < j
                       PROVE  ch'[c][i] < ch'[c][j]
            BY DEF Rising
          <5>1. i \in 1..Len(ch[c]) /\ ch'[c][i] = ch[c][i]
            BY <2>2, <3>1
          <5>2. CASE j = Len(ch[c]) + 1
            BY <2>3, <3>1, <5>1, <5>2
          <5>3. CASE j # Len(ch[c]) + 1
            <6>1. j \in 1..Len(ch[c]) /\ ch'[c][j] = ch[c][j]
              BY <2>2, <3>1, <5>3
            <6>. QED BY <2>2, <5>1, <6>1 DEF Backlog, Rising
          <5>. QED BY <5>2, <5>3
        <4>5. \A j \in 1..Len(ch'[c]) : ch'[c][j] = f \/ \E k \in 1..Len(ch[c]) : ch'[c][j] = ch[c][k]
          BY <2>2, <3>1
        <4>2. \A i \in 1..Len(owed[c]) : \A j \in 1..Len(ch'[c]) : owed[c][i] < ch'[c][j]
          BY <2>2, <2>3, <4>5 DEF Backlog
        <4>3. \A i \in 1..Len(ch'[c]) : known[c] < ch'[c][i]
          BY <2>2, <2>3, <4>5 DEF Backlog
        <4>. QED BY <1>1, <2>2, <4>1, <4>2, <4>3 DEF Backlog
      <3>3. Len(ch[c]) + 1 \in 1..Len(ch'[c]) /\ ch'[c][Len(ch[c]) + 1] = f
            /\ \A i \in 1..Len(ch[c]) : i \in 1..Len(ch'[c]) /\ ch'[c][i] = ch[c][i]
        <4> DEFINE k == Len(ch[c])
        <4>1. k \in Nat /\ Len(ch'[c]) = k + 1
              /\ \A i \in 1..Len(ch'[c]) : ch'[c][i] = IF i = k + 1 THEN f ELSE ch[c][i]
          BY <2>2, <3>1
        <4> HIDE DEF k
        <4>2. k + 1 \in 1..Len(ch'[c]) /\ \A i \in 1..k : i \in 1..Len(ch'[c]) /\ i # k + 1
          BY <4>1
        <4>3. ch'[c][k + 1] = f /\ \A i \in 1..k : ch'[c][i] = ch[c][i]
          BY <4>1, <4>2
        <4>. QED BY <4>2, <4>3 DEF k
      <3>4. \A g \in (known[c] + 1)..f : g = f \/ g \in (known[c] + 1)..published
        BY <1>1, <2>2
      <3>5. Complete(c)'
        <4> SUFFICES ASSUME NEW g \in (known[c] + 1)..f, TopicOf[g] \in Wants[c]
                     PROVE  \/ \E i \in 1..Len(owed[c]) : owed[c][i] = g
                            \/ \E i \in 1..Len(ch'[c]) : ch'[c][i] = g
          BY <1>1 DEF Complete
        <4>1. CASE g = f
          BY <3>3, <4>1
        <4>2. CASE g \in (known[c] + 1)..published
          BY <2>2, <3>3, <4>2 DEF Complete
        <4>. QED BY <3>4, <4>1, <4>2
      <3>. QED BY <3>2, <3>5
    <2>. QED BY <2>4, <2>5
  <1>. QED BY <1>4, <1>5, <1>6, RingGrows DEF HubTracked

LEMMA HubRegisterKeeps ==
  ASSUME HubTracked, NEW c \in Tabs, RegisterConn(c)
  PROVE  HubTracked'
  <1>1. /\ ch \in [Tabs -> Seq(Nat)] /\ owed \in [Tabs -> Seq(Nat)] /\ conns \subseteq Tabs
        /\ lastId \in [Tabs -> Nat] /\ known \in [Tabs -> Nat] /\ killed \in [Tabs -> BOOLEAN]
        /\ gapless \in [Tabs -> BOOLEAN] /\ wroteLate \in [Tabs -> BOOLEAN] /\ published \in Nat
        /\ lastId[c] \in Nat /\ RingAligned /\ TabFollows(c)
    BY DEF HubTracked, HubTyped
  <1>2. /\ Replay(c, lastId[c]) \in Seq(Nat)
        /\ Rising(Replay(c, lastId[c]))
        /\ \A i \in 1..Len(Replay(c, lastId[c])) :
             lastId[c] + 1 <= Replay(c, lastId[c])[i] /\ Replay(c, lastId[c])[i] <= published
        /\ InRing(lastId[c]) => \A g \in ToSet(ring) : g >= lastId[c] + 1 /\ TopicOf[g] \in Wants[c] =>
              \E i \in 1..Len(Replay(c, lastId[c])) : Replay(c, lastId[c])[i] = g
        /\ ~InRing(lastId[c]) => Len(Replay(c, lastId[c])) = 0
    <2>1. lastId[c] + 1 \in Nat
      BY <1>1
    <2>2. CASE InRing(lastId[c])
      <3>1. Replay(c, lastId[c]) = FramesFor(c, lastId[c] + 1)
        BY <2>2 DEF Replay
      <3>2. LET sent == FramesFor(c, lastId[c] + 1) IN
            /\ sent \in Seq(Nat)
            /\ Rising(sent)
            /\ \A i \in 1..Len(sent) : lastId[c] + 1 <= sent[i] /\ sent[i] <= published
            /\ \A g \in ToSet(ring) : g >= lastId[c] + 1 /\ TopicOf[g] \in Wants[c] =>
                 \E i \in 1..Len(sent) : sent[i] = g
        BY <1>1, <2>1, ReplayIsExact
      <3>. QED BY <2>2, <3>1, <3>2
    <2>3. CASE ~InRing(lastId[c])
      <3>1. Replay(c, lastId[c]) = <<>>
        BY <2>3 DEF Replay
      <3>2. <<>> \in Seq(Nat) /\ Len(<<>>) = 0
        OBVIOUS
      <3>. QED BY <2>3, <3>1, <3>2 DEF Rising
    <2>. QED BY <2>2, <2>3
  <1> DEFINE list == Replay(c, lastId[c])
  <1> HIDE DEF list
  <1>3. /\ owed' = [owed EXCEPT ![c] = list] /\ ch' = [ch EXCEPT ![c] = <<>>]
        /\ conns' = conns \cup {c}
        /\ killed' = [killed EXCEPT ![c] = FALSE] /\ deadline' = [deadline EXCEPT ![c] = FALSE]
        /\ connects[c] < MaxConnects /\ connects' = [connects EXCEPT ![c] = @ + 1]
        /\ known' = [known EXCEPT ![c] = IF ~InRing(lastId[c]) THEN published ELSE known[c]]
        /\ gapless' = [gapless EXCEPT ![c] = gapless[c] \/ ~InRing(lastId[c])]
        /\ wroteLate' = [wroteLate EXCEPT ![c] = wroteLate[c] /\ InRing(lastId[c])]
        /\ UNCHANGED <<published, ring, hubClosed, lastId>>
    BY DEF RegisterConn, list
  <1>4. /\ list \in Seq(Nat) /\ Len(list) \in Nat /\ <<>> \in Seq(Nat) /\ Len(<<>>) = 0
        /\ Rising(list) /\ Rising(<<>>)
        /\ \A i \in 1..Len(list) : lastId[c] + 1 <= list[i] /\ list[i] <= published /\ list[i] \in Nat
        /\ ~InRing(lastId[c]) => Len(list) = 0
    <2>1. list \in Seq(Nat)
      BY <1>2 DEF list
    <2>2. Len(list) \in Nat /\ (\A i \in 1..Len(list) : list[i] \in Nat) /\ <<>> \in Seq(Nat) /\ Len(<<>>) = 0
      BY <2>1
    <2>3. Rising(<<>>)
      BY <2>2 DEF Rising
    <2>. QED BY <1>2, <2>1, <2>2, <2>3 DEF list
  <1>5. InRing(lastId[c]) => \A g \in ToSet(ring) : g >= lastId[c] + 1 /\ TopicOf[g] \in Wants[c] =>
              \E i \in 1..Len(list) : list[i] = g
    BY <1>2 DEF list
  <1>6. HubTyped'
    <2>1. /\ owed' \in [Tabs -> Seq(Nat)] /\ ch' \in [Tabs -> Seq(Nat)] /\ known' \in [Tabs -> Nat]
          /\ gapless' \in [Tabs -> BOOLEAN] /\ wroteLate' \in [Tabs -> BOOLEAN] /\ conns' \subseteq Tabs
      BY <1>1, <1>3, <1>4
    <2>2. killed' \in [Tabs -> BOOLEAN] /\ deadline' \in [Tabs -> BOOLEAN] /\ connects' \in [Tabs -> Nat]
      BY <1>3 DEF HubTracked, HubTyped
    <2>3. \A t \in Tabs : connects'[t] <= MaxConnects
      BY <1>3, HubAssumption DEF HubTracked, HubTyped
    <2>4. \A t \in Tabs : Len(ch'[t]) <= ConnBuffer
      BY <1>1, <1>3, <1>4, HubAssumption DEF HubTracked, HubTyped
    <2>. QED BY <1>3, <2>1, <2>2, <2>3, <2>4 DEF HubTracked, HubTyped
  <1>7. RingAligned'
    BY <1>1, <1>3 DEF RingAligned
  <1>8. /\ owed'[c] = list /\ ch'[c] = <<>> /\ lastId'[c] = lastId[c]
        /\ known'[c] = IF ~InRing(lastId[c]) THEN published ELSE known[c]
        /\ (gapless'[c] = (gapless[c] \/ ~InRing(lastId[c])))
        /\ (wroteLate'[c] = (wroteLate[c] /\ InRing(lastId[c])))
    BY <1>1, <1>3
  <1>9. ASSUME NEW t \in Tabs PROVE TabFollows(t)'
    <2>1. CASE t = c
      <3>1. InRing(lastId[c])' <=> InRing(lastId[c])
        BY <1>3 DEF InRing
      <3>2. lastId[c] <= known'[c] /\ known'[c] <= published /\ (InRing(lastId[c]) => known'[c] = lastId[c])
        BY <1>1, <1>8 DEF TabFollows
      <3>3. gapless'[c] \/ wroteLate'[c]
        BY <1>1, <1>8 DEF TabFollows
      <3>4. published' = published /\ lastId' = lastId
        BY <1>3
      <3>5. (\A i \in 1..Len(list) : list[i] <= published) /\ (\A i \in 1..Len(<<>>) : <<>>[i] <= published)
        BY <1>4
      <3>6. TabFollows(c)'
        BY <1>8, <3>1, <3>2, <3>3, <3>4, <3>5 DEF TabFollows
      <3>. QED BY <2>1, <3>6
    <2>2. CASE t # c
      <3>1. /\ owed'[t] = owed[t] /\ ch'[t] = ch[t] /\ known'[t] = known[t] /\ lastId'[t] = lastId[t]
            /\ (gapless'[t] = gapless[t]) /\ (wroteLate'[t] = wroteLate[t])
        BY <1>1, <1>3, <2>2
      <3>2. TabFollows(t) /\ (InRing(lastId[t])' <=> InRing(lastId[t]))
        BY <1>3 DEF HubTracked, InRing
      <3>. QED BY <1>3, <3>1, <3>2 DEF TabFollows
    <2>. QED BY <2>1, <2>2
  <1>10. ASSUME NEW t \in conns', ~killed'[t] PROVE Backlog(t)' /\ Complete(t)'
    <2>1. CASE t = c
      <3>2. known'[c] \in Nat
        BY <1>1, <1>8
      <3>1. known'[c] = lastId[c] \/ Len(list) = 0
        <4>1. CASE InRing(lastId[c])
          BY <1>1, <1>8, <4>1 DEF TabFollows
        <4>2. CASE ~InRing(lastId[c])
          BY <1>4, <4>2
        <4>. QED BY <4>1, <4>2
      <3>3. Backlog(c)'
        <4>1. ASSUME NEW i \in 1..Len(list) PROVE known'[c] < list[i]
          <5>1. lastId[c] + 1 <= list[i] /\ list[i] \in Nat /\ lastId[c] \in Nat /\ Len(list) # 0
            BY <1>1, <1>4
          <5>. QED BY <3>1, <5>1
        <4>. QED BY <1>4, <1>8, <4>1 DEF Backlog
      <3>4. Complete(c)'
        <4> SUFFICES ASSUME NEW g \in (known'[c] + 1)..published, TopicOf[g] \in Wants[c]
                     PROVE  \E i \in 1..Len(list) : list[i] = g
          BY <1>3, <1>8 DEF Complete
        <4>1. InRing(lastId[c]) /\ known'[c] = lastId[c]
          BY <1>1, <1>8, <3>2 DEF TabFollows
        <4>2. PICK k \in 1..Len(ring) : ring[k] = lastId[c]
          BY <1>1, <4>1 DEF InRing, RingAligned
        <4> DEFINE p == k + (g - lastId[c])
        <4>3. p \in 1..Len(ring) /\ ring[p] = g
          <5>1. /\ ring \in Seq(Nat) /\ Len(ring) \in Nat /\ k \in 1..Len(ring) /\ lastId[c] \in Nat
                /\ published \in Nat /\ g \in (lastId[c] + 1)..published
                /\ \A i \in 1..Len(ring) : ring[i] = published - Len(ring) + i
            BY <1>1, <4>1 DEF RingAligned
          <5>2. lastId[c] = published - Len(ring) + k
            BY <4>2, <5>1
          <5>3. p \in 1..Len(ring)
            BY <5>1, <5>2
          <5>4. ring[p] = published - Len(ring) + p
            BY <5>1, <5>3
          <5>. QED BY <5>1, <5>2, <5>3, <5>4
        <4> HIDE DEF p
        <4>4. g \in ToSet(ring) /\ g >= lastId[c] + 1
          <5>1. g \in ToSet(ring)
            BY <4>3 DEF ToSet
          <5>2. g \in (lastId[c] + 1)..published /\ lastId[c] \in Nat /\ published \in Nat
            BY <1>1, <4>1
          <5>. QED BY <5>1, <5>2
        <4>. QED BY <1>5, <4>1, <4>4
      <3>. QED BY <2>1, <3>3, <3>4
    <2>2. CASE t # c
      <3>1. t \in conns /\ t \in Tabs /\ ~killed[t]
        BY <1>1, <1>3, <1>10, <2>2
      <3>2. owed'[t] = owed[t] /\ ch'[t] = ch[t] /\ known'[t] = known[t] /\ published' = published
        BY <1>1, <1>3, <2>2, <3>1
      <3>3. Backlog(t) /\ Complete(t)
        BY <3>1 DEF HubTracked
      <3>. QED BY <3>2, <3>3 DEF Backlog, Complete
    <2>. QED BY <2>1, <2>2
  <1>. QED BY <1>6, <1>7, <1>9, <1>10 DEF HubTracked

(* The frame in front is written. *)
LEMMA WriteKeeps ==
  ASSUME HubTracked, NEW c \in Tabs, WriteBacklog(c) \/ WriteLive(c)
  PROVE  HubTracked'
  <1> DEFINE f == IF owed[c] # <<>> THEN Head(owed[c]) ELSE Head(ch[c])
  <1>1. /\ ch \in [Tabs -> Seq(Nat)] /\ owed \in [Tabs -> Seq(Nat)] /\ conns \subseteq Tabs
        /\ lastId \in [Tabs -> Nat] /\ known \in [Tabs -> Nat] /\ killed \in [Tabs -> BOOLEAN]
        /\ gapless \in [Tabs -> BOOLEAN] /\ wroteLate \in [Tabs -> BOOLEAN] /\ published \in Nat
        /\ RingAligned /\ TabFollows(c) /\ Len(owed[c]) \in Nat /\ Len(ch[c]) \in Nat
        /\ owed[c] \in Seq(Nat) /\ ch[c] \in Seq(Nat) /\ known[c] \in Nat
    BY DEF HubTracked, HubTyped
  <1>2. /\ lastId' = [lastId EXCEPT ![c] = f] /\ known' = [known EXCEPT ![c] = f]
        /\ gapless' = [gapless EXCEPT ![c] =
             gapless[c] /\ f > known[c] /\ \A g \in (known[c] + 1)..(f - 1) : TopicOf[g] \notin Wants[c]]
        /\ wroteLate' = [wroteLate EXCEPT ![c] = wroteLate[c] \/ killed[c]]
        /\ UNCHANGED <<published, ring, hubClosed, conns, killed, deadline, connects>>
        /\ c \in conns
    BY DEF WriteBacklog, WriteLive, Reaches, connVars
  <1>3. /\ owed' \in [Tabs -> Seq(Nat)] /\ ch' \in [Tabs -> Seq(Nat)]
        /\ \A t \in Tabs : t # c => owed'[t] = owed[t] /\ ch'[t] = ch[t]
        /\ \/ /\ Len(owed[c]) > 0 /\ f = owed[c][1] /\ ch'[c] = ch[c] /\ owed'[c] = Tail(owed[c])
           \/ /\ Len(owed[c]) = 0 /\ Len(ch[c]) > 0 /\ f = ch[c][1]
              /\ owed'[c] = owed[c] /\ ch'[c] = Tail(ch[c])
    <2>1. CASE WriteBacklog(c)
      <3>1. owed[c] # <<>> /\ ch' = ch /\ owed' = [owed EXCEPT ![c] = Tail(owed[c])]
        BY <2>1 DEF WriteBacklog
      <3>2. Len(owed[c]) > 0 /\ Tail(owed[c]) \in Seq(Nat) /\ f = owed[c][1]
        BY <1>1, <3>1
      <3> HIDE DEF f
      <3>. QED BY <1>1, <3>1, <3>2
    <2>2. CASE WriteLive(c)
      <3>1. owed[c] = <<>> /\ ch[c] # <<>> /\ owed' = owed /\ ch' = [ch EXCEPT ![c] = Tail(ch[c])]
        BY <2>2 DEF WriteLive, connVars
      <3>2. Len(owed[c]) = 0 /\ Len(ch[c]) > 0 /\ Tail(ch[c]) \in Seq(Nat) /\ f = ch[c][1]
        BY <1>1, <3>1
      <3> HIDE DEF f
      <3>. QED BY <1>1, <3>1, <3>2
    <2>. QED BY <2>1, <2>2
  <1> HIDE DEF f
  <1>4. f \in Nat /\ f <= published
    <2>1. /\ \A i \in 1..Len(owed[c]) : owed[c][i] <= published
          /\ \A i \in 1..Len(ch[c]) : ch[c][i] <= published
          /\ owed[c] \in Seq(Nat) /\ ch[c] \in Seq(Nat) /\ Len(owed[c]) \in Nat /\ Len(ch[c]) \in Nat
      BY <1>1 DEF TabFollows
    <2>2. CASE Len(owed[c]) > 0 /\ f = owed[c][1]
      <3>1. 1 \in 1..Len(owed[c])
        BY <2>1, <2>2
      <3>. QED BY <2>1, <2>2, <3>1
    <2>3. CASE Len(ch[c]) > 0 /\ f = ch[c][1]
      <3>1. 1 \in 1..Len(ch[c])
        BY <2>1, <2>3
      <3>. QED BY <2>1, <2>3, <3>1
    <2>. QED BY <1>3, <2>2, <2>3
  <1>5. /\ Len(owed'[c]) \in Nat /\ Len(ch'[c]) \in Nat /\ Len(ch'[c]) <= Len(ch[c])
        /\ \A i \in 1..Len(owed'[c]) : \E j \in 1..Len(owed[c]) : owed'[c][i] = owed[c][j]
        /\ \A i \in 1..Len(ch'[c]) : \E j \in 1..Len(ch[c]) : ch'[c][i] = ch[c][j]
    <2>1. CASE Len(owed[c]) > 0
      <3>1. ch'[c] = ch[c] /\ owed'[c] = Tail(owed[c])
        BY <1>3, <2>1
      <3>2. /\ Len(Tail(owed[c])) = Len(owed[c]) - 1
            /\ \A i \in 1..Len(Tail(owed[c])) : \E j \in 1..Len(owed[c]) : Tail(owed[c])[i] = owed[c][j]
        BY <1>1, <2>1, TailOf
      <3>3. Len(Tail(owed[c])) \in Nat
        BY <1>1, <2>1, <3>2
      <3>4. Len(ch[c]) <= Len(ch[c]) /\ \A i \in 1..Len(ch[c]) : \E j \in 1..Len(ch[c]) : ch[c][i] = ch[c][j]
        BY <1>1
      <3>5. Len(ch[c]) \in Nat
        BY <1>1
      <3>. QED BY <3>1, <3>2, <3>3, <3>4, <3>5
    <2>2. CASE ~(Len(owed[c]) > 0)
      <3>1. Len(ch[c]) > 0 /\ owed'[c] = owed[c] /\ ch'[c] = Tail(ch[c])
        BY <1>3, <2>2
      <3>2. /\ Len(Tail(ch[c])) = Len(ch[c]) - 1
            /\ \A i \in 1..Len(Tail(ch[c])) : \E j \in 1..Len(ch[c]) : Tail(ch[c])[i] = ch[c][j]
        BY <1>1, <3>1, TailOf
      <3>3. Len(Tail(ch[c])) \in Nat /\ Len(Tail(ch[c])) <= Len(ch[c])
        BY <1>1, <3>1, <3>2
      <3>4. \A i \in 1..Len(owed[c]) : \E j \in 1..Len(owed[c]) : owed[c][i] = owed[c][j]
        OBVIOUS
      <3>5. Len(owed[c]) \in Nat
        BY <1>1
      <3>. QED BY <3>1, <3>2, <3>3, <3>4, <3>5
    <2>. QED BY <2>1, <2>2
  <1>6. /\ lastId'[c] = f /\ known'[c] = f
        /\ (gapless'[c] = (gapless[c] /\ f > known[c] /\ \A g \in (known[c] + 1)..(f - 1) : TopicOf[g] \notin Wants[c]))
        /\ (wroteLate'[c] = (wroteLate[c] \/ killed[c]))
    BY <1>1, <1>2
  <1>7. HubTyped'
    <2>1. /\ lastId' \in [Tabs -> Nat] /\ known' \in [Tabs -> Nat]
      BY <1>1, <1>2, <1>4
    <2>2. gapless' \in [Tabs -> BOOLEAN] /\ wroteLate' \in [Tabs -> BOOLEAN]
      BY <1>1, <1>2
    <2>3. ASSUME NEW t \in Tabs PROVE Len(ch'[t]) <= ConnBuffer
      <3>1. Len(ch[t]) <= ConnBuffer /\ ConnBuffer \in Nat
        BY HubAssumption DEF HubTracked, HubTyped
      <3>2. t = c \/ ch'[t] = ch[t]
        BY <1>3
      <3>. QED BY <1>1, <1>5, <3>1, <3>2
    <2>. QED BY <1>2, <1>3, <2>1, <2>2, <2>3 DEF HubTracked, HubTyped
  <1>8. RingAligned'
    BY <1>1, <1>2 DEF RingAligned
  <1>9. ~killed[c] =>
          /\ f > known[c] /\ \A g \in (known[c] + 1)..(f - 1) : TopicOf[g] \notin Wants[c]
          /\ Backlog(c)' /\ Complete(c)'
    <2> SUFFICES ASSUME ~killed[c]
                 PROVE  /\ f > known[c] /\ \A g \in (known[c] + 1)..(f - 1) : TopicOf[g] \notin Wants[c]
                        /\ Backlog(c)' /\ Complete(c)'
      OBVIOUS
    <2>1. Backlog(c) /\ Complete(c)
      BY <1>2 DEF HubTracked
    <2>9. ASSUME known[c] < f, Backlog(c)',
                 \A i \in 1..Len(owed'[c]) : f < owed'[c][i] /\ owed'[c][i] \in Nat,
                 \A i \in 1..Len(ch'[c]) : f < ch'[c][i] /\ ch'[c][i] \in Nat,
                 \A g \in (known[c] + 1)..published : TopicOf[g] \in Wants[c] =>
                   \/ g = f
                   \/ \E i \in 1..Len(owed'[c]) : owed'[c][i] = g
                   \/ \E i \in 1..Len(ch'[c]) : ch'[c][i] = g
          PROVE  /\ f > known[c] /\ \A g \in (known[c] + 1)..(f - 1) : TopicOf[g] \notin Wants[c]
                 /\ Backlog(c)' /\ Complete(c)'
      <3>1. ASSUME NEW g \in (known[c] + 1)..(f - 1), TopicOf[g] \in Wants[c] PROVE FALSE
        <4>1. g \in (known[c] + 1)..published /\ g < f /\ g \in Nat
          BY <1>1, <1>4
        <4>2. \A k \in Nat : f < k => k # g
          BY <1>4, <4>1
        <4>3. g # f
          BY <1>4, <4>1
        <4>. QED BY <2>9, <3>1, <4>1, <4>2, <4>3
      <3>2. Complete(c)'
        <4> SUFFICES ASSUME NEW g \in (f + 1)..published, TopicOf[g] \in Wants[c]
                     PROVE  \/ \E i \in 1..Len(owed'[c]) : owed'[c][i] = g
                            \/ \E i \in 1..Len(ch'[c]) : ch'[c][i] = g
          BY <1>2, <1>6 DEF Complete
        <4>1. g \in (known[c] + 1)..published /\ g # f
          BY <1>1, <1>4, <2>9
        <4>. QED BY <2>9, <4>1
      <3>3. f > known[c]
        BY <1>1, <1>4, <2>9
      <3>. QED BY <2>9, <3>1, <3>2, <3>3
    <2>2. CASE Len(owed[c]) > 0
      <3>1. f = owed[c][1] /\ ch'[c] = ch[c] /\ owed'[c] = Tail(owed[c]) /\ 1 \in 1..Len(owed[c])
        BY <1>1, <1>3, <2>2
      <3>2. /\ \A i \in 1..Len(owed[c]) : i = 1 \/ \E j \in 1..Len(owed'[c]) : owed'[c][j] = owed[c][i]
            /\ \A i \in 1..Len(owed'[c]) : \E j \in 1..Len(owed[c]) : owed'[c][i] = owed[c][j]
            /\ Rising(owed'[c]) /\ \A i \in 1..Len(owed'[c]) : f < owed'[c][i] /\ owed'[c][i] \in Nat
        BY <1>1, <2>1, <2>2, <3>1, TailOf DEF Backlog
      <3>3. /\ \A i \in 1..Len(ch[c]) : ch[c][i] \in Nat /\ f < ch[c][i]
            /\ known[c] < f
        BY <1>1, <2>1, <3>1 DEF Backlog
      <3>4. ASSUME NEW g \in (known[c] + 1)..published, TopicOf[g] \in Wants[c]
            PROVE  \/ g = f
                   \/ \E i \in 1..Len(owed'[c]) : owed'[c][i] = g
                   \/ \E i \in 1..Len(ch'[c]) : ch'[c][i] = g
        <4>1. CASE \E i \in 1..Len(owed[c]) : owed[c][i] = g
          <5>1. PICK i \in 1..Len(owed[c]) : owed[c][i] = g
            BY <4>1
          <5>2. i = 1 \/ \E j \in 1..Len(owed'[c]) : owed'[c][j] = owed[c][i]
            BY <3>2
          <5>. QED BY <3>1, <5>1, <5>2
        <4>2. CASE \E i \in 1..Len(ch[c]) : ch[c][i] = g
          BY <3>1, <4>2
        <4>. QED BY <2>1, <3>4, <4>1, <4>2 DEF Complete
      <3>5. Backlog(c)'
        <4>1. \A i \in 1..Len(owed'[c]) : \A j \in 1..Len(ch'[c]) : owed'[c][i] < ch'[c][j]
          BY <2>1, <3>1, <3>2 DEF Backlog
        <4>. QED BY <1>6, <2>1, <3>1, <3>2, <3>3, <4>1 DEF Backlog
      <3>6. \A i \in 1..Len(ch'[c]) : f < ch'[c][i] /\ ch'[c][i] \in Nat
        BY <3>1, <3>3
      <3>. QED BY <3>2, <3>3, <3>4, <3>5, <3>6, <2>9
    <2>3. CASE ~(Len(owed[c]) > 0)
      <3>1. /\ Len(owed[c]) = 0 /\ Len(ch[c]) > 0 /\ f = ch[c][1] /\ owed'[c] = owed[c] /\ ch'[c] = Tail(ch[c])
            /\ 1 \in 1..Len(ch[c])
        BY <1>1, <1>3, <2>3
      <3>2. /\ \A i \in 1..Len(ch[c]) : i = 1 \/ \E j \in 1..Len(ch'[c]) : ch'[c][j] = ch[c][i]
            /\ Rising(ch'[c]) /\ \A i \in 1..Len(ch'[c]) : f < ch'[c][i] /\ ch'[c][i] \in Nat
        BY <1>1, <2>1, <3>1, TailOf DEF Backlog
      <3>3. known[c] < f
        BY <1>1, <2>1, <3>1 DEF Backlog
      <3>4. ASSUME NEW g \in (known[c] + 1)..published, TopicOf[g] \in Wants[c]
            PROVE  \/ g = f
                   \/ \E i \in 1..Len(owed'[c]) : owed'[c][i] = g
                   \/ \E i \in 1..Len(ch'[c]) : ch'[c][i] = g
        BY <2>1, <3>1, <3>2, <3>4 DEF Complete
      <3>5. Backlog(c)'
        BY <1>6, <2>1, <3>1, <3>2 DEF Backlog
      <3>6. \A i \in 1..Len(owed'[c]) : f < owed'[c][i] /\ owed'[c][i] \in Nat
        BY <3>1
      <3>. QED BY <3>2, <3>3, <3>4, <3>5, <3>6, <2>9
    <2>. QED BY <2>2, <2>3
  <1>10. ASSUME NEW t \in Tabs PROVE TabFollows(t)'
    <2>1. CASE t = c
      <3>1. gapless'[c] \/ wroteLate'[c]
        BY <1>1, <1>6, <1>9 DEF TabFollows
      <3>2. (\A i \in 1..Len(owed'[c]) : owed'[c][i] <= published) /\ (\A i \in 1..Len(ch'[c]) : ch'[c][i] <= published)
        BY <1>1, <1>5 DEF TabFollows
      <3>. QED BY <1>2, <1>4, <1>6, <2>1, <3>1, <3>2 DEF TabFollows
    <2>2. CASE t # c
      <3>1. /\ owed'[t] = owed[t] /\ ch'[t] = ch[t] /\ known'[t] = known[t] /\ lastId'[t] = lastId[t]
            /\ (gapless'[t] = gapless[t]) /\ (wroteLate'[t] = wroteLate[t])
        BY <1>1, <1>2, <1>3, <2>2
      <3>2. TabFollows(t)
        BY DEF HubTracked
      <3>3. InRing(lastId[t])' => InRing(lastId[t])
        BY <1>2, <3>1 DEF InRing
      <3>. QED BY <1>2, <3>1, <3>2, <3>3 DEF TabFollows
    <2>. QED BY <2>1, <2>2
  <1>11. ASSUME NEW t \in conns', ~killed'[t] PROVE Backlog(t)' /\ Complete(t)'
    <2>1. CASE t = c
      BY <1>2, <1>9, <1>11, <2>1
    <2>2. CASE t # c
      <3>1. t \in conns /\ t \in Tabs /\ ~killed[t]
        BY <1>1, <1>2, <1>11
      <3>2. owed'[t] = owed[t] /\ ch'[t] = ch[t] /\ known'[t] = known[t] /\ published' = published
        BY <1>1, <1>2, <1>3, <2>2, <3>1
      <3>3. Backlog(t) /\ Complete(t)
        BY <3>1 DEF HubTracked
      <3>. QED BY <3>2, <3>3 DEF Backlog, Complete
    <2>. QED BY <2>1, <2>2
  <1>. QED BY <1>7, <1>8, <1>10, <1>11 DEF HubTracked

LEMMA HubStarts == HubInit => HubTracked
  <1> SUFFICES ASSUME HubInit PROVE HubTracked
    OBVIOUS
  <1>1. /\ <<>> \in Seq(Nat) /\ Len(<<>>) = 0 /\ ConnBuffer \in Nat /\ RingSize \in Nat /\ MaxConnects \in Nat
        /\ Len(TopicOf) \in Nat
    BY HubAssumption
  <1>2. HubTyped
    <2>1. /\ ch \in [Tabs -> Seq(Nat)] /\ owed \in [Tabs -> Seq(Nat)]
          /\ lastId \in [Tabs -> Nat] /\ known \in [Tabs -> Nat] /\ connects \in [Tabs -> Nat]
      BY <1>1 DEF HubInit
    <2>2. /\ killed \in [Tabs -> BOOLEAN] /\ deadline \in [Tabs -> BOOLEAN]
          /\ gapless \in [Tabs -> BOOLEAN] /\ wroteLate \in [Tabs -> BOOLEAN]
      BY DEF HubInit
    <2>3. \A c \in Tabs : connects[c] = 0 /\ Len(ch[c]) = 0
      BY <1>1 DEF HubInit
    <2>4. \A c \in Tabs : connects[c] <= MaxConnects /\ Len(ch[c]) <= ConnBuffer
      BY <1>1, <2>3
    <2>5. published \in Nat /\ published <= Len(TopicOf)
      BY <1>1 DEF HubInit
    <2>6. hubClosed \in BOOLEAN /\ conns \subseteq Tabs
      BY DEF HubInit
    <2>. QED BY <2>1, <2>2, <2>4, <2>5, <2>6 DEF HubTyped
  <1>3. RingAligned
    BY <1>1 DEF HubInit, RingAligned
  <1>4. \A c \in Tabs : TabFollows(c)
    BY <1>1 DEF HubInit, TabFollows, InRing
  <1>. QED BY <1>2, <1>3, <1>4 DEF HubInit, HubTracked

LEMMA HubSteps == HubTracked /\ [HubNext]_hubVars => HubTracked'
  <1> SUFFICES ASSUME HubTracked, [HubNext]_hubVars PROVE HubTracked'
    OBVIOUS
  <1>1. hubClosed \in BOOLEAN /\ killed \in [Tabs -> BOOLEAN] /\ deadline \in [Tabs -> BOOLEAN]
    BY DEF HubTracked, HubTyped
  <1>2. CASE UNCHANGED hubVars
    BY <1>1, <1>2, HubQuiet DEF hubVars, seenVars
  <1>3. CASE HandleEvent
    BY <1>3, HandleEventKeeps
  <1>4. CASE HubRestarts \/ NewHub
    <2>1. CASE HubRestarts
      BY <1>1, <2>1, HubQuiet DEF HubRestarts, seenVars
    <2>2. CASE NewHub
      BY <1>1, <2>2, HubQuiet DEF NewHub, connVars
    <2>. QED BY <1>4, <2>1, <2>2
  <1>5. ASSUME NEW c \in Tabs,
               RegisterConn(c) \/ WriteBacklog(c) \/ WriteLive(c) \/ ExpireDeadline(c) \/ Unregister(c)
        PROVE  HubTracked'
    <2>1. CASE ExpireDeadline(c) \/ Unregister(c)
      <3>1. deadline' \in [Tabs -> BOOLEAN] /\ killed' \in [Tabs -> BOOLEAN]
            /\ \A t \in Tabs : killed[t] => killed'[t]
        BY <1>1, <2>1 DEF ExpireDeadline, Unregister
      <3>. QED BY <1>1, <2>1, <3>1, HubQuiet DEF ExpireDeadline, Unregister
    <2>. QED BY <1>5, <2>1, HubRegisterKeeps, WriteKeeps
  <1>. QED BY <1>2, <1>3, <1>4, <1>5 DEF HubNext

(* "no gap and no duplicate": whatever the ring, the buffers, the topics, the tabs and the
   restarts, a tab is sent each frame of its topics once and in order across reconnects until
   it has to refetch, unless it was written to after it had been killed (handleEvent, register,
   the writer's select). *)
THEOREM HubInvariant == HubSpec => []HubInv
  <1>1. HubTracked => HubInv
    <2> SUFFICES ASSUME HubTracked PROVE HubInv
      OBVIOUS
    <2>1. HubTypeOK
      <3>1. \A c \in Tabs : lastId[c] \in 0..published
        BY DEF HubTracked, HubTyped, TabFollows
      <3>2. \A c \in Tabs : connects[c] \in 0..MaxConnects
        BY HubAssumption DEF HubTracked, HubTyped
      <3>3. published \in 0..Len(TopicOf)
        BY HubAssumption DEF HubTracked, HubTyped
      <3>. QED BY <3>1, <3>2, <3>3 DEF HubTracked, HubTyped, RingAligned, HubTypeOK
    <2>2. NoGap
      BY DEF HubTracked, TabFollows, NoGap
    <2>3. ChannelsInOrder
      <3> SUFFICES ASSUME NEW c \in conns, NEW i \in DOMAIN ch[c], ~killed[c]
                   PROVE  (i > 1 => ch[c][i - 1] < ch[c][i]) /\ lastId[c] < ch[c][i]
        BY DEF ChannelsInOrder
      <3>1. /\ c \in Tabs /\ ch[c] \in Seq(Nat) /\ lastId[c] \in Nat /\ known[c] \in Nat
            /\ Backlog(c) /\ TabFollows(c)
        BY DEF HubTracked, HubTyped
      <3>2. i \in 1..Len(ch[c]) /\ ch[c][i] \in Nat
        BY <3>1
      <3>3. i > 1 => i - 1 \in 1..Len(ch[c]) /\ i - 1 < i
        BY <3>1, <3>2
      <3>4. i > 1 => ch[c][i - 1] < ch[c][i]
        BY <3>1, <3>2, <3>3 DEF Backlog, Rising
      <3>5. lastId[c] < ch[c][i]
        BY <3>1, <3>2 DEF Backlog, TabFollows
      <3>. QED BY <3>4, <3>5
    <2>. QED BY <2>1, <2>2, <2>3 DEF HubInv
  <1>. QED BY <1>1, HubStarts, HubSteps, PTL DEF HubSpec


------------------------------------------------------------------------------
(* Attribution. *)

Project == {Hands[n] : n \in DOMAIN Hands}

\* Who opened the pull request is who its marker names.
OfferIsMarked ==
  /\ "state" \in DOMAIN offer
  /\ IF offer.state = "none" THEN offer.by = Nothing /\ offer.body = <<>>
     ELSE \/ offer.by = Someone /\ offer.body = <<>>
          \/ \E r \in Shifts : offer.by = OfRun(r) /\ offer.body = <<OfRun(r)>>

\* A run's commit carries its trailer.
TipIsMarked ==
  /\ DOMAIN tip = {"no", "by", "trailer", "mails"}
  /\ tip.by.run = 0 \/ (tip.by.run \in Shifts /\ tip.trailer = tip.by.run)

\* A text in an agent's own words has its marker alone, a person's has none; a marker that is
\* quoted is a run's, and names its agent.
TextIsMarked ==
  /\ spoken # NoText => spoken.act \in {"review", "comment"}
  /\ spoken.plain /\ spoken.by # Someone => spoken.body = <<spoken.by>> /\ spoken.by.agent \in Project
  /\ spoken.plain /\ spoken.by = Someone => spoken.body = <<>>
  /\ spoken.body # <<>> =>
       \/ spoken.body[1] = spoken.by
       \/ spoken.body[1].run = 0
       \/ HandOf[spoken.body[1].run] = spoken.body[1].agent

Marked == OfferIsMarked /\ TipIsMarked /\ TextIsMarked

EventIsTrue(e) == PushNamesItsRun(e) /\ AgentIsNamed(e) /\ HumanIsAPerson(e)

\* Runs are numbered from one.
LEMMA ShiftsAre ==
  /\ \E n \in Nat : Shifts = 1..n
  /\ \A r \in Shifts : r # 0 /\ HandOf[r] \in Project
  <1>1. HandOf \in Seq(Project) /\ NoHand \notin Project
    BY AttributionAssumption DEF Project
  <1>2. Len(HandOf) \in Nat /\ DOMAIN HandOf = 1..Len(HandOf) /\ HandOf \in [1..Len(HandOf) -> Project]
    BY <1>1, LenProperties
  <1>3. PICK n \in Nat : n = Len(HandOf) /\ Shifts = 1..n
    BY <1>2 DEF Shifts
  <1>4. \A r \in Shifts : r # 0 /\ HandOf[r] \in Project
    BY <1>2, <1>3
  <1>. QED BY <1>3, <1>4

\* The latest of some runs.
LEMMA LatestShift ==
  ASSUME NEW S, S \subseteq Shifts, S # {}
  PROVE  (CHOOSE r \in S : \A q \in S : q <= r) \in S
  <1>1. PICK n \in Nat : Shifts = 1..n
    BY ShiftsAre
  <1> DEFINE T == {k \in Nat : n - k \in S}
  <1>2. \A y \in S : n - y \in T /\ y \in Nat
    BY <1>1 DEF T
  <1>3. T # {} /\ T \subseteq Nat
    BY <1>2
  <1>4. PICK k \in T : \A j \in T : ~ (<<j, k>> \in OpToRel(<, Nat))
    BY <1>3, NatLessThanWellFounded, WFMin
  <1>5. \A j \in T : ~(j < k)
    BY <1>3, <1>4 DEF OpToRel
  <1>6. n - k \in S /\ \A y \in S : y <= n - k
    BY <1>2, <1>3, <1>5
  <1>. QED BY <1>6

\* The run that is looked up for an agent is one of its own, and not of long ago.
LEMMA CauseIsItsOwn ==
  ASSUME NEW a
  PROVE  CauseRun(a) = 0 \/ (CauseRun(a) \in Shifts /\ HandOf[CauseRun(a)] = a /\ shift[CauseRun(a)] # "old")
  <1> DEFINE mine == {r \in Shifts : Stored(r) /\ HandOf[r] = a}
             going == {r \in mine : shift[r] = "going"}
             of == IF going # {} THEN going ELSE mine
  <1>1. of \subseteq Shifts /\ \A r \in of : HandOf[r] = a
    OBVIOUS
  <1>2. LatestForAgentOnBranch(a) = IF of = {} THEN 0 ELSE CHOOSE r \in of : \A q \in of : q <= r
    BY DEF LatestForAgentOnBranch
  <1> HIDE DEF of
  <1>3. LatestForAgentOnBranch(a) = 0 \/ LatestForAgentOnBranch(a) \in of
    BY <1>1, <1>2, LatestShift
  <1>. QED BY <1>1, <1>3 DEF CauseRun

\* What an event says, by what it is put down to.
LEMMA EventIs ==
  ASSUME NEW act, NEW att, NEW onPull, NEW person \in BOOLEAN, NEW truth, NEW read,
         NewEvent(act, att, onPull, person, truth, read)
  PROVE  /\ said'.act = act /\ said'.truth = truth /\ said'.read = read /\ said'.agent = att.agent
         /\ said'.kind = (IF att # Nothing THEN "agent" ELSE IF person THEN "human" ELSE "external")
         /\ said'.says = said'.kind
         /\ att = Nothing => said'.cause = 0
         /\ att # Nothing /\ att.run # 0 => said'.cause = att.run
         /\ att # Nothing /\ att.run = 0 => said'.cause \in {0, CauseRun(att.agent)}
  BY DEF NewEvent, ActorBody, ActorKindFor

\* Signals name one of the project, or nobody.
LEMMA SignalsAre ==
  /\ \A body : AttributeBody(body) = Nothing
               \/ (body # <<>> /\ AttributeBody(body) = body[1] /\ body[1].agent \in Project)
  /\ \A body : body # <<>> /\ body[1].agent \in Project => AttributeBody(body) = body[1]
  /\ \A r : Stored(r) => AttributeTrailer(r) = OfRun(r)
  /\ \A r : ~Stored(r) => AttributeTrailer(r) = Nothing
  /\ \A branch : AttributeBranch(branch).run = 0
  /\ \A mails : AttributeEmail(mails).run = 0
  /\ Nothing.run = 0 /\ Nothing.agent = NoHand /\ NoHand \notin Project
  <1>1. NoHand \notin Project /\ \A a : Known(a) <=> a \in Project
    BY AttributionAssumption DEF Project, Known
  <1>2. \A branch : AttributeBranch(branch).run = 0
    BY DEF AttributeBranch, First, Nothing
  <1>3. \A mails : AttributeEmail(mails).run = 0
    BY DEF AttributeEmail, First, Nothing
  <1>4. Nothing.run = 0 /\ Nothing.agent = NoHand
    BY DEF Nothing
  <1>. QED BY <1>1, <1>2, <1>3, <1>4 DEF AttributeBody, ParseMarker, AttributeTrailer, OfRun

\* What a marker or a lookup says of an agent's run holds whatever the event.
LEMMA CausesKeep ==
  ASSUME NEW act, NEW att, NEW onPull, NEW person \in BOOLEAN, NEW truth, NEW read,
         NewEvent(act, att, onPull, person, truth, read),
         att.run # 0 => HandOf[att.run] = att.agent \/ att.run = truth.run
  PROVE  said'.cause \notin {0, said'.truth.run} => HandOf[said'.cause] = said'.agent
  <1>1. /\ said'.truth = truth /\ said'.agent = att.agent
        /\ att = Nothing => said'.cause = 0
        /\ att # Nothing /\ att.run # 0 => said'.cause = att.run
        /\ att # Nothing /\ att.run = 0 => said'.cause \in {0, CauseRun(att.agent)}
    BY EventIs
  <1>2. CauseRun(att.agent) = 0 \/ HandOf[CauseRun(att.agent)] = att.agent
    BY CauseIsItsOwn
  <1>. QED BY <1>1, <1>2

LEMMA OpenedOrClosed ==
  ASSUME Marked, NEW act \in {"opened", "closed"}, NEW person \in BOOLEAN, NEW truth, NEW read,
         NewEvent(act, Or(AttributeBody(offer.body), AttributeBranch(offer.branch)), TRUE, person, truth, read),
         offer.state # "none", person => act = "opened" /\ truth = Someone
  PROVE  EventIsTrue(said')
  <1>1. PICK att : att = Or(AttributeBody(offer.body), AttributeBranch(offer.branch))
    OBVIOUS
  <1>2. /\ said'.act = act /\ said'.truth = truth /\ said'.says = said'.kind
        /\ said'.kind = (IF att # Nothing THEN "agent" ELSE IF person THEN "human" ELSE "external")
        /\ said'.agent = att.agent
        /\ att = Nothing => said'.cause = 0
        /\ att # Nothing /\ att.run # 0 => said'.cause = att.run
        /\ att # Nothing /\ att.run = 0 => said'.cause \in {0, CauseRun(att.agent)}
    <2>1. PICK onPull \in BOOLEAN : NewEvent(act, att, onPull, person, truth, read)
      BY <1>1
    <2>2. /\ said'.act = act /\ said'.truth = truth /\ said'.read = read /\ said'.agent = att.agent
          /\ said'.kind = (IF att # Nothing THEN "agent" ELSE IF person THEN "human" ELSE "external")
          /\ said'.says = said'.kind
          /\ att = Nothing => said'.cause = 0
          /\ att # Nothing /\ att.run # 0 => said'.cause = att.run
          /\ att # Nothing /\ att.run = 0 => said'.cause \in {0, CauseRun(att.agent)}
      BY <2>1, EventIs
    <2>. QED BY <2>2
  <1>3. att.run # 0 => HandOf[att.run] = att.agent
    <2>1. AttributeBranch(offer.branch).run = 0 /\ AttributeBody(offer.body) \in {Nothing, offer.body[1]}
          /\ (AttributeBody(offer.body) # Nothing => offer.body # <<>>)
      BY SignalsAre
    <2>2. offer.body # <<>> => \E r \in Shifts : offer.body[1] = OfRun(r)
      BY DEF Marked, OfferIsMarked
    <2>3. att.run # 0 => att = AttributeBody(offer.body) /\ att # Nothing
      BY <1>1, <2>1, SignalsAre DEF Or
    <2>4. att.run # 0 => \E r \in Shifts : att = OfRun(r)
      BY <2>1, <2>2, <2>3
    <2>. QED BY <2>4 DEF OfRun
  <1>4. said'.cause \notin {0, said'.truth.run} => HandOf[said'.cause] = said'.agent
    BY <1>1, <1>3, CausesKeep
  <1>. QED BY <1>2, <1>4 DEF EventIsTrue, PushNamesItsRun, AgentIsNamed, HumanIsAPerson

LEMMA Pushed ==
  ASSUME Marked, NEW read, NEW onPull, NEW person \in BOOLEAN, ~person,
         NewEvent("synchronize", AttributePush(read), onPull, person, tip.by, read), offer.state # "none"
  PROVE  EventIsTrue(said')
  <1>1. PICK att : att = AttributePush(read)
    OBVIOUS
  <1>2. /\ said'.act = "synchronize" /\ said'.truth = tip.by /\ said'.read = read /\ said'.says = said'.kind
        /\ said'.kind = (IF att # Nothing THEN "agent" ELSE "external") /\ said'.agent = att.agent
        /\ att = Nothing => said'.cause = 0
        /\ att # Nothing /\ att.run # 0 => said'.cause = att.run
        /\ att # Nothing /\ att.run = 0 => said'.cause \in {0, CauseRun(att.agent)}
    <2>1. NewEvent("synchronize", att, onPull, person, tip.by, read)
      BY <1>1
    <2>2. /\ said'.act = "synchronize" /\ said'.truth = tip.by /\ said'.read = read /\ said'.agent = att.agent
          /\ said'.kind = (IF att # Nothing THEN "agent" ELSE IF person THEN "human" ELSE "external")
          /\ said'.says = said'.kind
          /\ att = Nothing => said'.cause = 0
          /\ att # Nothing /\ att.run # 0 => said'.cause = att.run
          /\ att # Nothing /\ att.run = 0 => said'.cause \in {0, CauseRun(att.agent)}
      BY <2>1, EventIs
    <2>. QED BY <2>2
  <1>3. PICK opening : opening = [AttributeBody(offer.body) EXCEPT !.run = 0]
    OBVIOUS
  <1>4. opening.run = 0
    <2>1. AttributeBody(offer.body) = Nothing \/ \E r \in Shifts : AttributeBody(offer.body) = OfRun(r)
      BY SignalsAre DEF Marked, OfferIsMarked
    <2>. QED BY <1>3, <2>1 DEF Nothing, OfRun
  <1>5. PICK branch : branch = AttributeBranch(offer.branch) /\ branch.run = 0
    BY SignalsAre
  <1>6. PICK trailer, email : trailer = AttributeTrailer(tip.trailer) /\ email = AttributeEmail(tip.mails) /\ email.run = 0
    BY SignalsAre
  <1>7. att = Or(Or(IF read THEN Or(trailer, email) ELSE Nothing, branch), opening)
    BY <1>1, <1>3, <1>5, <1>6 DEF AttributePush
  <1>8. trailer = Nothing \/ trailer = OfRun(tip.trailer)
    BY <1>6, SignalsAre
  <1>9. att.run # 0 => read /\ att = trailer /\ trailer # Nothing
    BY <1>4, <1>5, <1>6, <1>7, SignalsAre DEF Or
  <1>10. att.run # 0 => HandOf[att.run] = att.agent
    BY <1>8, <1>9 DEF OfRun
  <1>11. said'.cause \notin {0, said'.truth.run} => HandOf[said'.cause] = said'.agent
    BY <1>1, <1>10, CausesKeep
  <1>12. ASSUME read, Stored(tip.by.run) PROVE said'.cause = tip.by.run
    <2>1. tip.by.run # 0 /\ tip.trailer = tip.by.run
      BY <1>12 DEF Stored, Marked, TipIsMarked
    <2>2. trailer = OfRun(tip.by.run)
      BY <1>6, <1>12, <2>1, SignalsAre
    <2>3. trailer.run = tip.by.run /\ trailer # Nothing
      BY <2>1, <2>2 DEF OfRun, Nothing
    <2>4. att = trailer
      BY <1>7, <1>12, <2>3 DEF Or
    <2>. QED BY <1>2, <2>1, <2>3, <2>4
  <1>13. ASSUME ~read, offer.by # Someone, shift[offer.by.run] = "old" PROVE said'.cause # offer.by.run
    <2>1. offer.by.run # 0
      <3>1. PICK r \in Shifts : offer.by = OfRun(r)
        BY <1>13 DEF Marked, OfferIsMarked
      <3>. QED BY <3>1, ShiftsAre DEF OfRun
    <2>2. CauseRun(att.agent) = 0 \/ shift[CauseRun(att.agent)] # "old"
      BY CauseIsItsOwn
    <2>3. att.run = 0
      BY <1>9, <1>13
    <2>. QED BY <1>2, <1>13, <2>1, <2>2, <2>3
  <1>. QED BY <1>2, <1>11, <1>12, <1>13 DEF EventIsTrue, PushNamesItsRun, AgentIsNamed, HumanIsAPerson

LEMMA Spoken ==
  ASSUME Marked, spoken # NoText, NEW onPull,
         NewEvent(spoken.act, AttributeBody(spoken.body), onPull, ~spoken.bot, spoken.by, spoken.plain)
  PROVE  EventIsTrue(said')
  <1>1. PICK att : att = AttributeBody(spoken.body)
    OBVIOUS
  <1>2. PICK person \in BOOLEAN : person = ~spoken.bot
    OBVIOUS
  <1>3. /\ said'.act = spoken.act /\ said'.truth = spoken.by /\ said'.read = spoken.plain /\ said'.says = said'.kind
        /\ said'.kind = (IF att # Nothing THEN "agent" ELSE IF person THEN "human" ELSE "external") /\ said'.agent = att.agent
        /\ att = Nothing => said'.cause = 0
        /\ att # Nothing /\ att.run # 0 => said'.cause = att.run
    <2>1. NewEvent(spoken.act, att, onPull, person, spoken.by, spoken.plain)
      BY <1>1, <1>2
    <2>. QED BY <2>1, EventIs
  <1>4. att = Nothing \/ (spoken.body # <<>> /\ att = spoken.body[1])
    BY <1>1, SignalsAre
  <1>5. att.run # 0 => HandOf[att.run] = att.agent \/ att.run = spoken.by.run
    BY <1>4, SignalsAre DEF Marked, TextIsMarked
  <1>6. said'.cause \notin {0, said'.truth.run} => HandOf[said'.cause] = said'.agent
    BY <1>1, <1>2, <1>5, CausesKeep
  <1>7. ASSUME spoken.plain, spoken.by # Someone PROVE att = spoken.by /\ att # Nothing
    <2>1. spoken.body = <<spoken.by>> /\ spoken.by.agent \in Project
      BY <1>7 DEF Marked, TextIsMarked
    <2>2. spoken.body # <<>> /\ spoken.body[1] = spoken.by
      BY <2>1
    <2>. QED BY <1>1, <2>1, <2>2, SignalsAre
  <1>8. spoken.plain /\ spoken.by = Someone => att = Nothing
    BY <1>4 DEF Marked, TextIsMarked
  <1>9. spoken.act \in {"review", "comment"}
    BY DEF Marked, TextIsMarked
  <1>. QED BY <1>2, <1>3, <1>6, <1>7, <1>8, <1>9 DEF EventIsTrue, PushNamesItsRun, AgentIsNamed, HumanIsAPerson

\* What is written keeps to the markers.
LEMMA TextsAre ==
  ASSUME NEW act \in {"review", "comment"}, NEW by, NEW bot, NEW q,
         by # Someone => by.agent \in Project, q = Nothing \/ q.run = 0 \/ HandOf[q.run] = q.agent,
         spoken' = Text(act, by, bot, q)
  PROVE  TextIsMarked'
  <1>1. /\ spoken'.act = act /\ spoken'.by = by /\ spoken'.plain = (q = Nothing)
        /\ spoken'.body = IF by = Someone THEN Quoting(q) ELSE Quoting(q) \o <<by>>
    BY DEF Text, WithMarker, Marker
  <1>2. CASE q = Nothing
    <2>1. Quoting(q) = <<>> /\ <<>> \o <<by>> = <<by>> /\ <<by>>[1] = by
      <3>1. PICK s : s = <<by>>
        OBVIOUS
      <3>2. s \in Seq({by})
        BY <3>1
      <3>3. <<>> \o s = s
        BY <3>2, ConcatEmptySeq
      <3>. QED BY <1>2, <3>1, <3>3 DEF Quoting
    <2>. QED BY <1>1, <1>2, <2>1 DEF TextIsMarked
  <1>3. CASE q # Nothing
    <2>1. Quoting(q) = <<q>>
      BY <1>3 DEF Quoting, Marker
    <2>2. spoken'.body[1] = q
      <3>1. PICK s, t : s = <<q>> /\ t = <<by>>
        OBVIOUS
      <3>2. s \in Seq({q, by}) /\ t \in Seq({q, by}) /\ Len(s) = 1 /\ Len(t) = 1 /\ s[1] = q
        BY <3>1
      <3>3. (s \o t)[1] = s[1]
        BY <3>2, ConcatProperties
      <3>. QED BY <1>1, <2>1, <3>1, <3>2, <3>3
    <2>. QED BY <1>1, <1>3, <2>2 DEF TextIsMarked, Nothing
  <1>. QED BY <1>2, <1>3

LEMMA QuotesAre == \A q \in Quotable : q = Nothing \/ q.run = 0 \/ HandOf[q.run] = q.agent
  BY DEF Quotable, OfRun

\* Who speaks.
LEMMA SpeakersKeep ==
  ASSUME Marked, \/ \E r \in Shifts : RunSpeaks(r)
                 \/ \E n \in DOMAIN Hands : RuleSpeaks(Hands[n])
                 \/ PersonSpeaks
  PROVE  Marked' /\ UNCHANGED said
  <1>1. UNCHANGED <<offer, tip, said>>
    BY DEF RunSpeaks, RuleSpeaks, PersonSpeaks, Speaks
  <1>2. ASSUME NEW r \in Shifts, RunSpeaks(r) PROVE TextIsMarked'
    <2>1. PICK q \in Quotable : spoken' = Text("review", OfRun(r), FALSE, q)
      BY <1>2 DEF RunSpeaks, Speaks
    <2>2. OfRun(r).agent \in Project
      BY ShiftsAre DEF OfRun
    <2>. QED BY <2>1, <2>2, QuotesAre, TextsAre
  <1>3. ASSUME NEW n \in DOMAIN Hands, RuleSpeaks(Hands[n]) PROVE TextIsMarked'
    <2>1. PICK r \in {0, said.cause} : spoken' = Text("comment", [agent |-> Hands[n], run |-> r], FALSE, Nothing)
      BY <1>3 DEF RuleSpeaks, Speaks
    <2>2. [agent |-> Hands[n], run |-> r].agent \in Project
      BY DEF Project
    <2>. QED BY <2>1, <2>2, TextsAre
  <1>4. ASSUME PersonSpeaks PROVE TextIsMarked'
    <2>1. PICK q \in Quotable : \E bot \in BOOLEAN : spoken' = Text("comment", Someone, bot, q)
      BY <1>4 DEF PersonSpeaks, Speaks
    <2>2. PICK bot : spoken' = Text("comment", Someone, bot, q)
      BY <2>1
    <2>3. q = Nothing \/ q.run = 0 \/ HandOf[q.run] = q.agent
      BY QuotesAre
    <2>. QED BY <2>2, <2>3, TextsAre
  <1>. QED BY <1>1, <1>2, <1>3, <1>4 DEF Marked, OfferIsMarked, TipIsMarked

\* Who opens, pushes and closes.
LEMMA PullsKeep ==
  ASSUME Marked, \/ \E r \in Shifts : OpensPull(r) \/ RunPushes(r)
                 \/ PersonOpensPull \/ PersonPushes \/ PersonCloses
  PROVE  Marked' /\ UNCHANGED said
  <1>1. UNCHANGED <<spoken, said>>
    BY DEF OpensPull, RunPushes, PersonOpensPull, PersonPushes, PersonCloses, Push
  <1>2. TextIsMarked'
    BY <1>1 DEF Marked, TextIsMarked
  <1>3. ASSUME NEW c, DOMAIN c = {"no", "by", "trailer", "mails"}, Push(c), c.by.run = 0 \/ (c.by.run \in Shifts /\ c.trailer = c.by.run)
        PROVE  Marked'
    <2>1. tip' = [c EXCEPT !.no = tip.no + 1] /\ UNCHANGED offer
      BY <1>3 DEF Push
    <2>2. DOMAIN tip' = {"no", "by", "trailer", "mails"} /\ tip'.by = c.by /\ tip'.trailer = c.trailer
      BY <1>3, <2>1
    <2>. QED BY <1>2, <1>3, <2>1, <2>2 DEF Marked, OfferIsMarked, TipIsMarked
  <1>4. ASSUME NEW r \in Shifts, OpensPull(r) PROVE Marked'
    <2>1. offer'.state = "open" /\ offer'.by = OfRun(r) /\ offer'.body = <<OfRun(r)>>
      BY <1>4 DEF OpensPull, Marker
    <2>2. tip' = [no |-> 1, by |-> OfRun(r), trailer |-> r, mails |-> {HandOf[r]}] /\ OfRun(r).run = r
      BY <1>4 DEF OpensPull, OfRun
    <2>3. DOMAIN tip' = {"no", "by", "trailer", "mails"} /\ tip'.by = OfRun(r) /\ tip'.trailer = r
      BY <2>2
    <2>4. "state" \in DOMAIN offer'
      BY <1>4 DEF OpensPull
    <2>5. OfferIsMarked'
      BY <2>1, <2>4 DEF OfferIsMarked
    <2>6. TipIsMarked'
      BY <2>2, <2>3 DEF TipIsMarked
    <2>. QED BY <1>2, <2>5, <2>6 DEF Marked
  <1>5. ASSUME NEW r \in Shifts, RunPushes(r) PROVE Marked'
    <2>1. PICK c : c = [no |-> 0, by |-> OfRun(r), trailer |-> r, mails |-> {HandOf[r]}]
      OBVIOUS
    <2>2. Push(c) /\ DOMAIN c = {"no", "by", "trailer", "mails"} /\ c.by.run = r /\ c.trailer = r
      BY <1>5, <2>1 DEF RunPushes, OfRun
    <2>. QED BY <1>3, <2>2
  <1>6. CASE PersonOpensPull
    <2>1. "state" \in DOMAIN offer' /\ offer'.state = "open" /\ offer'.by = Someone /\ offer'.body = <<>>
      BY <1>6 DEF PersonOpensPull
    <2>2. tip' = [no |-> 1, by |-> Someone, trailer |-> 0, mails |-> {Person}] /\ Someone.run = 0
      BY <1>6 DEF PersonOpensPull, Someone
    <2>3. DOMAIN tip' = {"no", "by", "trailer", "mails"} /\ tip'.by = Someone
      BY <2>2
    <2>4. OfferIsMarked' /\ TipIsMarked'
      BY <2>1, <2>2, <2>3 DEF OfferIsMarked, TipIsMarked
    <2>. QED BY <1>1, <1>2, <2>4 DEF Marked
  <1>7. CASE PersonPushes
    <2>1. ASSUME NEW c, Push(c), DOMAIN c = {"no", "by", "trailer", "mails"}, c.by = Someone PROVE Marked'
      <3>1. Someone.run = 0
        BY DEF Someone
      <3>2. c.by.run = 0
        BY <2>1, <3>1
      <3>. QED BY <1>3, <2>1, <3>2
    <2>2. PICK c, d : /\ c = [no |-> 0, by |-> Someone, trailer |-> 0, mails |-> {Person}]
                      /\ d = [tip EXCEPT !.by = Someone, !.mails = @ \cup {Person}]
      OBVIOUS
    <2>3. Push(c) \/ Push(d)
      BY <1>7, <2>2 DEF PersonPushes
    <2>4. DOMAIN c = {"no", "by", "trailer", "mails"} /\ c.by = Someone
      BY <2>2
    <2>5. DOMAIN d = {"no", "by", "trailer", "mails"} /\ d.by = Someone
      <3>1. DOMAIN tip = {"no", "by", "trailer", "mails"}
        BY DEF Marked, TipIsMarked
      <3>. QED BY <2>2, <3>1
    <2>. QED BY <1>1, <2>1, <2>3, <2>4, <2>5
  <1>8. CASE PersonCloses
    <2>1. offer.state = "open" /\ offer' = [offer EXCEPT !.state = "closed"] /\ UNCHANGED tip
      BY <1>8 DEF PersonCloses
    <2>2. offer'.state = "closed" /\ offer'.by = offer.by /\ offer'.body = offer.body
      BY <2>1 DEF Marked, OfferIsMarked
    <2>3. OfferIsMarked'
      BY <2>1, <2>2 DEF Marked, OfferIsMarked
    <2>. QED BY <1>1, <1>2, <2>1, <2>3 DEF Marked, TipIsMarked
  <1>. QED BY <1>1, <1>4, <1>5, <1>6, <1>7, <1>8

\* The poller.
LEMMA PollerKeeps ==
  ASSUME Marked, (\E act \in {"opened", "synchronize", "closed"} : EmitPREvent(act)) \/ EmitText
  PROVE  Marked' /\ EventIsTrue(said')
  <1>1. UNCHANGED <<offer, tip>> /\ spoken' \in {spoken, NoText}
    BY DEF EmitPREvent, EmitText, Polls
  <1>2. Marked'
    <2>1. spoken' = NoText => TextIsMarked'
      BY DEF TextIsMarked, NoText
    <2>. QED BY <1>1, <2>1 DEF Marked, OfferIsMarked, TipIsMarked, TextIsMarked
  <1>3. ASSUME NEW act \in {"opened", "synchronize", "closed"}, EmitPREvent(act) PROVE EventIsTrue(said')
    <2>1. PICK att : att = Or(AttributeBody(offer.body), AttributeBranch(offer.branch))
      OBVIOUS
    <2>2. \/ act = "opened" /\ offer.state = "open" /\ NewEvent(act, att, TRUE, offer.by = Someone, offer.by, TRUE)
          \/ act = "closed" /\ offer.state = "closed" /\ NewEvent(act, att, TRUE, FALSE, Someone, FALSE)
          \/ act = "synchronize" /\ offer.state = "open"
             /\ \E read \in BOOLEAN : NewEvent(act, AttributePush(read), TRUE, FALSE, tip.by, read)
      BY <1>3, <2>1 DEF EmitPREvent
    <2>3. CASE act = "opened"
      <3>1. NewEvent(act, att, TRUE, offer.by = Someone, offer.by, TRUE) /\ offer.state # "none"
        BY <2>2, <2>3
      <3>2. PICK person \in BOOLEAN : person = (offer.by = Someone)
        OBVIOUS
      <3>. QED BY <2>1, <2>3, <3>1, <3>2, OpenedOrClosed
    <2>4. CASE act = "closed"
      <3>1. NewEvent(act, att, TRUE, FALSE, Someone, FALSE) /\ offer.state # "none"
        BY <2>2, <2>4
      <3>. QED BY <2>1, <2>4, <3>1, OpenedOrClosed
    <2>5. CASE act = "synchronize"
      <3>1. PICK read : NewEvent(act, AttributePush(read), TRUE, FALSE, tip.by, read)
        BY <2>2, <2>5
      <3>2. PICK person \in BOOLEAN : person = FALSE
        OBVIOUS
      <3>3. NewEvent("synchronize", AttributePush(read), TRUE, person, tip.by, read) /\ offer.state # "none"
        BY <2>2, <2>5, <3>1, <3>2
      <3>. QED BY <3>2, <3>3, Pushed
    <2>. QED BY <2>3, <2>4, <2>5
  <1>4. ASSUME EmitText PROVE EventIsTrue(said')
    <2>1. PICK onPull : NewEvent(spoken.act, AttributeBody(spoken.body), onPull, ~spoken.bot, spoken.by, spoken.plain)
      BY <1>4 DEF EmitText
    <2>2. spoken # NoText
      BY <1>4 DEF EmitText
    <2>. QED BY <2>1, <2>2, Spoken
  <1>. QED BY <1>2, <1>3, <1>4

LEMMA AttributionStep ==
  ASSUME Marked, [AttributionNext]_attributionVars
  PROVE  Marked' /\ (said' # said => EventIsTrue(said'))
  <1>1. CASE UNCHANGED <<offer, tip, spoken, said>>
    BY <1>1 DEF Marked, OfferIsMarked, TipIsMarked, TextIsMarked
  <1>2. ASSUME NEW r \in Shifts, Queued(r) \/ Ended(r) \/ Restored(r) \/ Aged PROVE UNCHANGED <<offer, tip, spoken, said>>
    BY <1>2 DEF Queued, Ended, Restored, Aged, OnlyRuns
  <1>3. Aged => UNCHANGED <<offer, tip, spoken, said>>
    BY DEF Aged, OnlyRuns
  <1>4. UNCHANGED attributionVars => UNCHANGED <<offer, tip, spoken, said>>
    BY DEF attributionVars
  <1>. QED BY <1>1, <1>2, <1>3, <1>4, SpeakersKeep, PullsKeep, PollerKeeps DEF AttributionNext

\* For any agents, names, runs and templates: a push is put down to the run that made the commit and
\* to no run of long ago; an agent's own words are its own; and only a person's word is a human's.
\* (The first three parts of AttributionHolds; the fourth is about folds over names.)
THEOREM AttributionNames ==
  AttributionSpec => [][said' # said => PushNamesItsRun(said') /\ AgentIsNamed(said') /\ HumanIsAPerson(said')]_attributionVars
  <1>1. AttributionInit => Marked
    BY DEF AttributionInit, Marked, OfferIsMarked, TipIsMarked, TextIsMarked, NoOffer, NoTip, NoText, Nothing
  <1>2. Marked /\ [AttributionNext]_attributionVars => Marked'
    BY AttributionStep
  <1>3. Marked /\ [AttributionNext]_attributionVars =>
          [said' # said => PushNamesItsRun(said') /\ AgentIsNamed(said') /\ HumanIsAPerson(said')]_attributionVars
    BY AttributionStep DEF EventIsTrue
  <1>. QED BY <1>1, <1>2, <1>3, PTL DEF AttributionSpec
==============================================================================
