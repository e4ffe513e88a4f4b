----------------------------- MODULE Elicitation -----------------------------
(***************************************************************************)
(* One run's questions and approvals: the MCP tool calls that block on a   *)
(* human, the humans who answer, the expiry of a call, the client that     *)
(* hangs up and asks again, the end of the run, and a restart of the       *)
(* process, all over the same elicitation rows.                            *)
(*                                                                         *)
(* A tool call and a respond request are goroutines; each statement on the *)
(* store, each transition and each use of the waiters map is one step.     *)
(* A request's text is a model value; equal requests are byte-identical.   *)
(***************************************************************************)
EXTENDS RunStates, Naturals

CONSTANTS
  Calls,        \* tool calls the agent makes
  Requests,     \* request texts
  Approvals,    \* the requests that ask for an approval; the others are questions
  Responders,   \* respond requests of humans
  MaxRows,      \* bound: elicitation rows created
  MaxRestarts   \* bound: restarts of the process

ASSUME ElicitationConstants ==
  /\ Approvals \subseteq Requests /\ {"none", "error"} \cap Responders = {}
  /\ MaxRows \in Nat /\ MaxRestarts \in Nat

Rows == 1..MaxRows

VARIABLES
  run,       \* runs.state
  row,       \* elicitations.state, "absent" before the row exists
  request,   \* the request of each row, "none" before it exists
  response,  \* the responder whose response the row stores, "none" if there is none
  opened,    \* rows created so far; ids follow created_at
  pc, asks, el, got,   \* tool calls: where each is, what it asks, its row, its channel
  result,    \* what a call returned: a responder's response, "error", or "none"
  waiters,   \* the waiters map
  rpc, on, action,     \* respond requests: where each is, its row, its action
  rules,     \* responders whose "always allow" rule is written
  ending,    \* the terminal path: "no", "revoked", "canceled" (rows), "done"
  restarts

rowVars  == <<row, request, response, opened>>
callVars == <<pc, asks, el, got, result>>
respVars == <<rpc, on, action>>
vars == <<run, rowVars, callVars, waiters, respVars, rules, ending, restarts>>

Init ==
  /\ run = "running"
  /\ row = [e \in Rows |-> "absent"] /\ request = [e \in Rows |-> "none"]
  /\ response = [e \in Rows |-> "none"] /\ opened = 0
  /\ pc = [c \in Calls |-> "idle"] /\ asks = [c \in Calls |-> "none"]
  /\ el = [c \in Calls |-> 0] /\ got = [c \in Calls |-> "none"]
  /\ result = [c \in Calls |-> "none"]
  /\ waiters = [e \in Rows |-> {}]
  /\ rpc = [h \in Responders |-> "idle"] /\ on = [h \in Responders |-> 0]
  /\ action = [h \in Responders |-> "none"]
  /\ rules = {} /\ ending = "no" /\ restarts = 0

Pending == {e \in Rows : row[e] = "pending"}

RespondUnguarded(e, state, by) ==
  /\ row' = [row EXCEPT ![e] = state] /\ response' = [response EXCEPT ![e] = by]
  /\ UNCHANGED <<request, opened>>

\* The store's guarded update: only a pending row is resolved.
Respond(e, state, by) ==
  IF row[e] = "pending"
  THEN /\ row' = [row EXCEPT ![e] = state] /\ response' = [response EXCEPT ![e] = by]
       /\ UNCHANGED <<request, opened>>
  ELSE UNCHANGED rowVars

\* The scheduler's seam; a refused transition is logged and dropped.
Transition(to) == run' = AfterTransition(run, to)

------------------------------------------------------------------------------
(* Tool calls: ask_human and a request_approval that parks. *)

\* The token is checked when the request arrives.
Call(c, q) ==
  /\ pc[c] = "idle" /\ ending = "no"
  /\ pc' = [pc EXCEPT ![c] = "lookup"] /\ asks' = [asks EXCEPT ![c] = q]
  /\ UNCHANGED <<run, rowVars, el, got, result, waiters, respVars, rules, ending, restarts>>

\* PendingByRequest: the oldest pending row of this very request.
SameRequest(q) == {e \in Pending : request[e] = q}

Lookup(c) ==
  /\ pc[c] = "lookup"
  /\ IF SameRequest(asks[c]) = {}
     THEN pc' = [pc EXCEPT ![c] = "open"] /\ UNCHANGED el
     ELSE /\ pc' = [pc EXCEPT ![c] = "park"]
          /\ el' = [el EXCEPT ![c] = CHOOSE e \in SameRequest(asks[c]) :
                                       \A f \in SameRequest(asks[c]) : e <= f]
  /\ UNCHANGED <<run, rowVars, asks, got, result, waiters, respVars, rules, ending, restarts>>

\* openElicitation writes the row even when the caller is gone by now.
OpenElicitation(c) ==
  /\ pc[c] = "open" /\ opened < MaxRows
  /\ opened' = opened + 1
  /\ row' = [row EXCEPT ![opened + 1] = "pending"]
  /\ request' = [request EXCEPT ![opened + 1] = asks[c]]
  /\ el' = [el EXCEPT ![c] = opened + 1]
  /\ pc' = [pc EXCEPT ![c] = "park"]
  /\ UNCHANGED <<run, response, asks, got, result, waiters, respVars, rules, ending, restarts>>

Park(c) ==
  /\ pc[c] = "park"
  /\ Transition(IF asks[c] \in Approvals THEN "awaiting_approval" ELSE "needs_input")
  /\ pc' = [pc EXCEPT ![c] = "register"]
  /\ UNCHANGED <<rowVars, asks, el, got, result, waiters, respVars, rules, ending, restarts>>

Register(c) ==
  /\ pc[c] = "register"
  /\ waiters' = [waiters EXCEPT ![el[c]] = @ \cup {c}]
  /\ pc' = [pc EXCEPT ![c] = "reread"]
  /\ UNCHANGED <<run, rowVars, asks, el, got, result, respVars, rules, ending, restarts>>

\* A call returns r and leaves the waiters map.
Return(c, r) ==
  /\ pc' = [pc EXCEPT ![c] = "returned"] /\ result' = [result EXCEPT ![c] = r]
  /\ waiters' = [waiters EXCEPT ![el[c]] = @ \ {c}]
  /\ UNCHANGED <<asks, el, got>>

\* The row is read once more: a response that landed before registration is used.
Reread(c) ==
  /\ pc[c] = "reread"
  /\ IF row[el[c]] = "pending"
     THEN /\ pc' = [pc EXCEPT ![c] = "blocked"]
          /\ UNCHANGED <<asks, el, got, result, waiters>>
     ELSE Return(c, IF row[el[c]] \in {"expired", "canceled"} THEN "error"
                    ELSE response[el[c]])
  /\ UNCHANGED <<run, rowVars, respVars, rules, ending, restarts>>

Receive(c) ==
  /\ pc[c] = "blocked" /\ got[c] # "none"
  /\ Return(c, got[c])
  /\ UNCHANGED <<run, rowVars, respVars, rules, ending, restarts>>

\* The ceiling passes: the row expires, the run stays parked.
Expire(c) ==
  /\ pc[c] = "blocked"
  /\ Respond(el[c], "expired", "none")
  /\ Return(c, "error")
  /\ UNCHANGED <<run, respVars, rules, ending, restarts>>

\* The client hangs up: the row stays as it is.
HangUp(c) ==
  /\ pc[c] \in {"lookup", "reread", "blocked"}
  /\ IF pc[c] = "lookup"
     THEN /\ pc' = [pc EXCEPT ![c] = "returned"] /\ result' = [result EXCEPT ![c] = "error"]
          /\ UNCHANGED <<asks, el, got, waiters>>
     ELSE Return(c, "error")
  /\ UNCHANGED <<run, rowVars, respVars, rules, ending, restarts>>

------------------------------------------------------------------------------
(* Humans. *)

\* handleRespond up to Resolve: the row must be pending when it is read, and the action
\* must fit it.
Actions(e) == IF request[e] \in Approvals THEN {"allow", "deny", "remember"} ELSE {"answer"}

HandleRespond(h, e, a) ==
  /\ rpc[h] = "idle" /\ e \in Pending /\ a \in Actions(e)
  /\ on' = [on EXCEPT ![h] = e] /\ action' = [action EXCEPT ![h] = a]
  /\ rpc' = [rpc EXCEPT ![h] = IF a = "remember" THEN "rule" ELSE "resolve"]
  /\ UNCHANGED <<run, rowVars, callVars, waiters, rules, ending, restarts>>

RememberRule(h) ==
  /\ rpc[h] = "rule"
  /\ rules' = rules \cup {h}
  /\ rpc' = [rpc EXCEPT ![h] = "resolve"]
  /\ UNCHANGED <<run, rowVars, callVars, waiters, on, action, ending, restarts>>

\* Resolve: the loser of a race is told that the row is not pending.
Resolve(h) ==
  /\ rpc[h] = "resolve"
  /\ Respond(on[h], IF action[h] = "deny" THEN "denied" ELSE "answered", h)
  /\ rpc' = [rpc EXCEPT ![h] = IF row[on[h]] = "pending" THEN "resume" ELSE "conflict"]
  /\ UNCHANGED <<run, callVars, waiters, on, action, rules, ending, restarts>>

ResolveResumes(h) ==
  /\ rpc[h] = "resume"
  /\ Transition("running")
  /\ rpc' = [rpc EXCEPT ![h] = "wake"]
  /\ UNCHANGED <<rowVars, callVars, waiters, on, action, rules, ending, restarts>>

WakeOne(h) ==
  /\ rpc[h] = "wake"
  /\ rpc' = [rpc EXCEPT ![h] = "done"]
  /\ LET e == on[h]
         first == IF waiters[e] = {} THEN {} ELSE {CHOOSE c \in waiters[e] : TRUE} IN
     /\ got' = [c \in Calls |-> IF c \in first THEN h ELSE got[c]]
     /\ waiters' = [waiters EXCEPT ![e] = {}]
  /\ UNCHANGED <<run, rowVars, pc, asks, el, result, on, action, rules, ending, restarts>>

\* wake: every registered waiter gets the response on its own channel.
Wake(h) ==
  /\ rpc[h] = "wake"
  /\ rpc' = [rpc EXCEPT ![h] = "done"]
  /\ got' = [c \in Calls |-> IF c \in waiters[on[h]] THEN h ELSE got[c]]
  /\ waiters' = [waiters EXCEPT ![on[h]] = {}]
  /\ UNCHANGED <<run, rowVars, pc, asks, el, result, on, action, rules, ending, restarts>>

------------------------------------------------------------------------------
(* The end of the run, as the supervisor's finish goes through it, and restarts. *)

RevokeRun ==
  /\ ending = "no" /\ ending' = "revoked"
  /\ UNCHANGED <<run, rowVars, callVars, waiters, respVars, rules, restarts>>

CancelPendingElicitations ==
  /\ ending = "revoked" /\ ending' = "canceled"
  /\ row' = [e \in Rows |-> IF e \in Pending THEN "canceled" ELSE row[e]]
  /\ UNCHANGED <<run, request, response, opened, callVars, waiters, respVars, rules, restarts>>

EndRun(kind) ==
  /\ ending = "canceled" /\ ending' = "done"
  /\ kind \in {"completed", "failed", "canceled"}
  /\ Transition(kind)
  /\ UNCHANGED <<rowVars, callVars, waiters, respVars, rules, restarts>>

\* The process restarts and the container is reattached: rows remain, calls and respond
\* requests are cut off, the waiters map is empty.
Restart ==
  /\ restarts < MaxRestarts /\ ending = "no"
  /\ restarts' = restarts + 1
  /\ pc' = [c \in Calls |-> IF pc[c] = "idle" THEN "idle" ELSE "returned"]
  /\ result' = [c \in Calls |-> IF pc[c] \in {"idle", "returned"} THEN result[c] ELSE "error"]
  /\ got' = [c \in Calls |-> "none"] /\ waiters' = [e \in Rows |-> {}]
  /\ rpc' = [h \in Responders |-> IF rpc[h] = "idle" THEN "idle" ELSE "done"]
  /\ UNCHANGED <<run, rowVars, asks, el, on, action, rules, ending>>

------------------------------------------------------------------------------
CallSteps(c) ==
  Lookup(c) \/ OpenElicitation(c) \/ Park(c) \/ Register(c) \/ Reread(c) \/ Receive(c)

ResponderSteps(h) == RememberRule(h) \/ Resolve(h) \/ ResolveResumes(h) \/ Wake(h)

Next ==
  \/ \E c \in Calls : CallSteps(c) \/ Expire(c) \/ HangUp(c) \/ \E q \in Requests : Call(c, q)
  \/ \E h \in Responders : ResponderSteps(h)
  \/ \E h \in Responders, e \in Rows, a \in {"answer", "allow", "deny", "remember"} :
        HandleRespond(h, e, a)
  \/ RevokeRun \/ CancelPendingElicitations \/ (\E kind \in Terminal : EndRun(kind))
  \/ Restart

Spec == Init /\ [][Next]_vars

\* Goroutines run.  Nothing obliges an agent to ask, a human to answer, a call to expire
\* or a client to hang up.
Fairness ==
  /\ \A c \in Calls : WF_vars(CallSteps(c))
  /\ \A h \in Responders : WF_vars(ResponderSteps(h))

FairSpec == Spec /\ Fairness

------------------------------------------------------------------------------
(* Properties. *)

TypeOK ==
  /\ run \in RunState
  /\ row \in [Rows -> {"absent", "pending", "answered", "denied", "expired", "canceled"}]
  /\ request \in [Rows -> Requests \cup {"none"}]
  /\ response \in [Rows -> Responders \cup {"none"}] /\ opened \in 0..MaxRows
  /\ pc \in [Calls -> {"idle", "lookup", "open", "park", "register", "reread", "blocked",
                       "returned"}]
  /\ asks \in [Calls -> Requests \cup {"none"}] /\ el \in [Calls -> 0..MaxRows]
  /\ got \in [Calls -> Responders \cup {"none"}]
  /\ result \in [Calls -> Responders \cup {"none", "error"}]
  /\ waiters \in [Rows -> SUBSET Calls]
  /\ rpc \in [Responders -> {"idle", "rule", "resolve", "resume", "wake", "conflict", "done"}]
  /\ on \in [Responders -> 0..MaxRows]
  /\ action \in [Responders -> {"none", "answer", "allow", "deny", "remember"}]
  /\ rules \subseteq Responders
  /\ ending \in {"no", "revoked", "canceled", "done"} /\ restarts \in 0..MaxRestarts

\* One human decides: every call that waited on an elicitation and got a response got the
\* one the row stores, whoever raced, expired or retried.
OneResponse ==
  \A c \in Calls :
    result[c] \in Responders => /\ response[el[c]] = result[c]
                                /\ row[el[c]] \in {"answered", "denied"}
                                /\ request[el[c]] = asks[c]

\* No wakeup is lost: a call blocked on a row that a human resolved has the response on its
\* channel, or is still in the waiters map of a Resolve that has yet to wake it.
NoLostWakeup ==
  \A c \in Calls :
    pc[c] = "blocked" /\ row[el[c]] \in {"answered", "denied"} =>
      \/ got[c] = response[el[c]]
      \/ /\ c \in waiters[el[c]]
         /\ \E h \in Responders : rpc[h] \in {"resume", "wake"} /\ on[h] = el[c]

Resolved(e) == row[e] \in {"answered", "denied"}

\* A call between finding its row and its return.
Waiting(c) == pc[c] \in {"park", "register", "reread", "blocked"}

\* Rows come in the order of their ids, and what is resolved names its responder.
RowsInOrder ==
  /\ \A e \in Rows : row[e] = "absent" <=> e > opened
  /\ \A e \in Rows : Resolved(e) => response[e] \in Responders

\* A call that waits, or got a response, has a row of the very request it makes; only a call
\* that is over has a result.
CallHasRow ==
  /\ \A c \in Calls : Waiting(c) \/ result[c] \in Responders =>
                         el[c] \in 1..opened /\ request[el[c]] = asks[c]
  /\ \A c \in Calls : result[c] # "none" => pc[c] = "returned"

\* Whoever is in the waiters map waits on that row, whoever waits on a row nobody resolved is
\* in the map, and a channel holds the response its row stores.
WaitersAreRight ==
  /\ \A e \in Rows : \A c \in waiters[e] : el[c] = e /\ pc[c] \in {"reread", "blocked"}
  /\ \A c \in Calls : pc[c] \in {"reread", "blocked"} =>
        /\ c \in waiters[el[c]] \/ Resolved(el[c])
        /\ got[c] # "none" => Resolved(el[c]) /\ got[c] = response[el[c]]
  /\ \A c \in Calls : got[c] # "none" => pc[c] \in {"reread", "blocked", "returned"}

\* A responder that won has its response in the row; one on its way has a row.
WinnerIsStored ==
  /\ \A h \in Responders : rpc[h] \in {"resume", "wake"} =>
        on[h] \in Rows /\ Resolved(on[h]) /\ response[on[h]] = h
  /\ \A h \in Responders : rpc[h] \in {"rule", "resolve"} => on[h] \in Rows

\* What holds of rows, waiters and calls at every moment, whatever interleaves.
ElicitationInv ==
  /\ TypeOK /\ RowsInOrder /\ CallHasRow /\ WaitersAreRight /\ WinnerIsStored
  /\ OneResponse /\ NoLostWakeup

\* No call stays blocked on a resolved row: it returns, without waiting for its ceiling.
AnswerReturns ==
  []<>(\A c \in Calls : ~(pc[c] = "blocked" /\ row[el[c]] \in {"answered", "denied"}))

==============================================================================
