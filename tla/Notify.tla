------------------------------- MODULE Notify -------------------------------
(***************************************************************************)
(* The attention row of a run (internal/service/notify/service.go,         *)
(* http.go; internal/kernel/store/notifications.go): the ticker that turns *)
(* unanswered elicitations into one, the subscriber that rewrites it when  *)
(* the run ends, the person who reads or dismisses it, and a restart that  *)
(* delivers the run's last event again.                                    *)
(***************************************************************************)
EXTENDS FiniteSets, Naturals

CONSTANTS
  Persons,      \* whom the run may be routed to
  Asks,         \* the elicitations of the run
  Nothing,      \* no row, no copy
  MaxReroutes, MaxCrashesN

Copies  == Asks \cup {"finished", "failed"}   \* flavor, title and body of a row
Fates == {"live", "completed", "failed", "canceled"}

ASSUME NotifyAssumption ==
  /\ Nothing \notin Copies /\ Asks \cap {"finished", "failed"} = {}
  /\ Persons # {} /\ MaxReroutes \in Nat /\ MaxCrashesN \in Nat

VARIABLES
  run,          \* the run's state
  ask,          \* what became of each elicitation
  routedTo,     \* requested_by, else the ticket's assignee, else the project's owner
  row,          \* the one row per person: its copy and state
  event,        \* the event of the terminal transition
  toUpdate,     \* handleRunEvent: persons and rows it read and has not looked at yet
  listed,       \* Escalate: PendingOlderThan's answer, what is left of it
  escalating,   \* escalateOne: the elicitation whose run was live when it looked
  target,       \* and the person it is for
  raced,        \* history: the run ended while escalateOne had already looked at it
  reroutes, crashesN

notifyVars == <<run, ask, routedTo, row, event, toUpdate, listed, escalating, target,
                raced, reroutes, crashesN>>
tickVars   == <<listed, escalating, target>>

NoRow == [copy |-> Nothing, state |-> "dismissed"]

NotifyTypeOK ==
  /\ run \in Fates /\ ask \in [Asks -> {"unasked", "fresh", "due", "resolved"}]
  /\ routedTo \in Persons
  /\ row \in [Persons -> [copy : Copies \cup {Nothing}, state : {"unread", "read", "dismissed"}]]
  /\ event \in {"none", "pending", "handling", "done"} /\ \A x \in toUpdate : x[1] \in Persons
  /\ listed \subseteq Asks /\ escalating \in Asks \cup {Nothing} /\ target \in Persons
  /\ raced \in BOOLEAN /\ reroutes \in 0..MaxReroutes /\ crashesN \in 0..MaxCrashesN

NotifyInit ==
  /\ run = "live" /\ ask = [e \in Asks |-> "unasked"]
  /\ routedTo = CHOOSE u \in Persons : TRUE
  /\ row = [u \in Persons |-> NoRow]
  /\ event = "none" /\ toUpdate = {} /\ listed = {} /\ escalating = Nothing /\ target = routedTo
  /\ raced = FALSE /\ reroutes = 0 /\ crashesN = 0

Pending == {e \in Asks : ask[e] \in {"fresh", "due"}}

------------------------------------------------------------------------------
(* The run, its questions and the people.                                    *)

AgentAsks(e) ==
  /\ run = "live" /\ ask[e] = "unasked"
  /\ ask' = [ask EXCEPT ![e] = "fresh"]
  /\ UNCHANGED <<run, routedTo, row, event, toUpdate, tickVars, raced, reroutes, crashesN>>

SixtySeconds(e) ==
  /\ ask[e] = "fresh"
  /\ ask' = [ask EXCEPT ![e] = "due"]
  /\ UNCHANGED <<run, routedTo, row, event, toUpdate, tickVars, raced, reroutes, crashesN>>

Answered(e) ==
  /\ e \in Pending
  /\ ask' = [ask EXCEPT ![e] = "resolved"]
  /\ UNCHANGED <<run, routedTo, row, event, toUpdate, tickVars, raced, reroutes, crashesN>>

\* finish cancels the run's elicitations, then writes the terminal state and its event.
RunEnds(kind) ==
  /\ run = "live"
  /\ run' = kind
  /\ ask' = [e \in Asks |-> IF e \in Pending THEN "resolved" ELSE ask[e]]
  /\ event' = "pending"
  /\ raced' = (escalating # Nothing)
  /\ UNCHANGED <<routedTo, row, toUpdate, tickVars, reroutes, crashesN>>

\* The ticket gets another assignee.
Reassigned(u) ==
  /\ reroutes < MaxReroutes /\ u # routedTo
  /\ routedTo' = u
  /\ reroutes' = reroutes + 1
  /\ UNCHANGED <<run, ask, row, event, toUpdate, tickVars, raced, crashesN>>

\* MarkState of a row that is its reader's own, by id: whatever it says by now.
MarkState(u, s) ==
  /\ row[u] # NoRow /\ s \in {"read", "dismissed"}
  /\ row' = [row EXCEPT ![u].state = s]
  /\ UNCHANGED <<run, ask, routedTo, event, toUpdate, tickVars, raced, reroutes, crashesN>>

\* Upsert: insert, or update in place and back to unread.
Upsert(u, c) == row' = [row EXCEPT ![u] = [copy |-> c, state |-> "unread"]]

------------------------------------------------------------------------------
(* handleRunEvent.                                                           *)

\* The run is read, not the event; ForRun.
HandleRunEvent ==
  /\ event = "pending"
  /\ toUpdate' = {<<u, row[u]>> : u \in {p \in Persons : row[p] # NoRow}}
  /\ event' = IF toUpdate' = {} THEN "done" ELSE "handling"
  /\ UNCHANGED <<run, ask, routedTo, row, tickVars, raced, reroutes, crashesN>>

TerminalCopy == IF run = "completed" THEN "finished" ELSE "failed"

UpdateRowAlways(x) ==
  /\ event = "handling" /\ x \in toUpdate
  /\ IF run = "canceled" THEN row' = [row EXCEPT ![x[1]].state = "dismissed"]
     ELSE Upsert(x[1], TerminalCopy)
  /\ toUpdate' = toUpdate \ {x}
  /\ event' = IF toUpdate' = {} THEN "done" ELSE "handling"
  /\ UNCHANGED <<run, ask, routedTo, tickVars, raced, reroutes, crashesN>>
\* A canceled run's row is dismissed; any other gets the outcome, once.
UpdateRow(x) ==
  /\ event = "handling" /\ x \in toUpdate
  /\ IF run # "canceled" /\ x[2].copy # TerminalCopy THEN Upsert(x[1], TerminalCopy)
     ELSE IF run = "canceled" /\ x[2].state # "dismissed"
       THEN row' = [row EXCEPT ![x[1]].state = "dismissed"]
     ELSE UNCHANGED row
  /\ toUpdate' = toUpdate \ {x}
  /\ event' = IF toUpdate' = {} THEN "done" ELSE "handling"
  /\ UNCHANGED <<run, ask, routedTo, tickVars, raced, reroutes, crashesN>>
------------------------------------------------------------------------------
(* Escalate.                                                                 *)

Escalate ==
  /\ listed = {} /\ escalating = Nothing
  /\ listed' = {e \in Asks : ask[e] = "due"}
  /\ listed' # {}
  /\ UNCHANGED <<run, ask, routedTo, row, event, toUpdate, escalating, target, raced, reroutes, crashesN>>

\* escalateOne: an ended run's elicitation is passed over; RouteTo.
LookAtRun(e) ==
  /\ e \in listed /\ escalating = Nothing
  /\ listed' = listed \ {e}
  /\ IF run = "live" THEN escalating' = e /\ target' = routedTo ELSE UNCHANGED <<escalating, target>>
  /\ UNCHANGED <<run, ask, routedTo, row, event, toUpdate, raced, reroutes, crashesN>>

\* A row that carries this ask is left alone, whatever its state.
EscalateOne ==
  /\ escalating # Nothing
  /\ IF row[target].copy = escalating THEN UNCHANGED row ELSE Upsert(target, escalating)
  /\ escalating' = Nothing
  /\ UNCHANGED <<run, ask, routedTo, event, toUpdate, listed, target, raced, reroutes, crashesN>>

\* A crash; the bus delivers the event again if another subscriber had not acknowledged it.
NotifyCrash ==
  /\ crashesN < MaxCrashesN
  /\ crashesN' = crashesN + 1
  /\ listed' = {} /\ escalating' = Nothing /\ toUpdate' = {}
  /\ event' \in IF event = "none" THEN {"none"} ELSE IF event = "done" THEN {"done", "pending"} ELSE {"pending"}
  /\ UNCHANGED <<run, ask, routedTo, row, target, raced, reroutes>>

------------------------------------------------------------------------------
NotifyNext ==
  \/ \E e \in Asks : AgentAsks(e) \/ SixtySeconds(e) \/ Answered(e) \/ LookAtRun(e)
  \/ \E kind \in Fates \ {"live"} : RunEnds(kind)
  \/ \E u \in Persons : Reassigned(u) \/ \E s \in {"read", "dismissed"} : MarkState(u, s)
  \/ \E x \in toUpdate : UpdateRow(x)
  \/ HandleRunEvent \/ Escalate \/ EscalateOne \/ NotifyCrash

NotifySpec == NotifyInit /\ [][NotifyNext]_notifyVars

------------------------------------------------------------------------------
\* Once its end has been handled, a run that failed or completed says so to everybody it had
\* asked anything of, and a canceled one asks nothing of anybody; unless an escalation had
\* looked at the run before it ended and wrote after ("a race here is harmless").
EndIsShown ==
  event = "done" /\ ~raced => \A u \in Persons :
    row[u] # NoRow => IF run = "canceled" THEN row[u].state # "unread" ELSE row[u].copy = TerminalCopy

\* "reading it must quiet the badge while the same question stays open", and a redelivered
\* event must not "flip read -> unread": a row somebody has read comes back only with another
\* copy.  Filing, updating and escalating an attention row keep to it, also after a restart.
ReadStaysRead ==
  \A u \in Persons :
    row[u].state # "unread" /\ row'[u].state = "unread" => row'[u].copy # row[u].copy

AttentionIsTrue == [][NotifyTypeOK' /\ EndIsShown' /\ ReadStaysRead]_notifyVars

==============================================================================
