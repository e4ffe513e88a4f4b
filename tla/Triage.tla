-------------------------------- MODULE Triage --------------------------------
(***************************************************************************)
(* The triage queue: tickets that triggers create wait off the board until *)
(* a human accepts, merges, declines or snoozes them; a bus handler and a  *)
(* ticker wake what is snoozed; the move_ticket action may not touch what  *)
(* is still in triage.                                                     *)
(*                                                                         *)
(* A verb is one transaction.  The two wakers and the action first list or *)
(* read and then act, and a verb may come between.  A criterion is its     *)
(* text; positions are those of Ordering.                                  *)
(***************************************************************************)
EXTENDS Naturals, Sequences, FiniteSets

CONSTANTS
  Filed,      \* tickets that triggers create
  Native,     \* tickets of humans, on the board from the start
  Tags,       \* labels of the project
  RuleTags,   \* labels the triggers name
  Unmerged,
  PROf,       \* the pull request linked to a ticket, 0 if none
  MaxVerbs,   \* bound: requests of humans
  MaxClock    \* bound: instants

InTriage == Filed \cup Native     \* every ticket

ASSUME TriageAssumption == Unmerged \notin InTriage

Activity == 0                     \* snooze_until NULL: until new activity

VARIABLES
  item,       \* triage_items.state, "none" without an item
  wakeAt,     \* snooze_until of a snoozed item
  mergedInto, \* duplicate_of
  shelved,    \* tickets.archived_at set
  tags, criteria,   \* the labels and the checklist of each ticket
  mentioned,  \* the ticket each mention points at, by the ticket it was written for
  moved,      \* tickets the move_ticket action took out of the backlog
  heard,      \* events on their way to the handler
  touched,    \* history: tickets with an event that counts as activity
  waking,     \* the items each waker has listed and not looked at yet
  mover,      \* the ticket a move_ticket action has found movable
  today, verbs

tables == <<item, wakeAt, mergedInto, shelved, tags, criteria, mentioned>>
triageVars == <<tables, moved, heard, touched, waking, mover, today, verbs>>

Unresolved(t) == item[t] \in {"pending", "snoozed"}

\* ForProject's filter: archived tickets and tickets in triage are not on the board.
OnTheBoard == {t \in InTriage : item[t] # "absent" /\ ~shelved[t] /\ ~Unresolved(t)}

Emit(events) ==
  /\ heard' = heard \cup events
  /\ touched' = touched \cup {e.on : e \in {f \in events : f.kind # "triage"}}

TicketEvent(t) == [kind |-> "ticket", on |-> t]
TriageEvent(t) == [kind |-> "triage", on |-> t]

Verb == verbs < MaxVerbs /\ verbs' = verbs + 1
Rest == UNCHANGED <<moved, waking, mover, today>>

------------------------------------------------------------------------------
(* The verbs; each re-reads the item and its ticket in its transaction. *)

\* Ticket, item and labels in one transaction: never visible on the board in between.
\* Labels are those of the rule that the project knows.
CreateFromTrigger(t) ==
  /\ item[t] = "absent"
  /\ item' = [item EXCEPT ![t] = "pending"]
  /\ tags' = [tags EXCEPT ![t] = RuleTags \cap Tags]
  /\ Emit({TriageEvent(t)})
  /\ UNCHANGED <<wakeAt, mergedInto, shelved, criteria, mentioned, verbs>> /\ Rest

UnresolvedItem(t) == Unresolved(t) /\ ~shelved[t]

TriageAccept(t) ==
  /\ Verb /\ UnresolvedItem(t)
  /\ item' = [item EXCEPT ![t] = "accepted"] /\ wakeAt' = [wakeAt EXCEPT ![t] = Activity]
  /\ Emit({TriageEvent(t), TicketEvent(t)})
  /\ UNCHANGED <<mergedInto, shelved, tags, criteria, mentioned>> /\ Rest

\* Who may survive a merge: another ticket, not archived, not itself awaiting triage.
Survivor(t, s) == s # t /\ item[s] # "absent" /\ ~shelved[s] /\ ~Unresolved(s)

\* Labels, criteria and mentions go to the survivor; the duplicate is archived.
TriageDuplicate(t, s) ==
  /\ Verb /\ UnresolvedItem(t) /\ Survivor(t, s)
  /\ tags' = [tags EXCEPT ![s] = @ \cup tags[t]]
  /\ criteria' = [criteria EXCEPT ![s] = @ \o criteria[t]]
  /\ mentioned' = [m \in DOMAIN mentioned |-> IF mentioned[m] = t THEN s ELSE mentioned[m]]
  /\ item' = [item EXCEPT ![t] = "duplicate"] /\ wakeAt' = [wakeAt EXCEPT ![t] = Activity]
  /\ mergedInto' = [mergedInto EXCEPT ![t] = s]
  /\ shelved' = [shelved EXCEPT ![t] = TRUE]
  /\ Emit({TriageEvent(t), TicketEvent(t), TicketEvent(s)})
  /\ Rest

TriageDecline(t) ==
  /\ Verb /\ UnresolvedItem(t)
  /\ item' = [item EXCEPT ![t] = "declined"] /\ wakeAt' = [wakeAt EXCEPT ![t] = Activity]
  /\ shelved' = [shelved EXCEPT ![t] = TRUE]
  /\ Emit({TriageEvent(t), TicketEvent(t)})
  /\ UNCHANGED <<mergedInto, tags, criteria, mentioned>> /\ Rest

\* Until a later instant, or until new activity; a snoozed item may be snoozed again.
TriageSnooze(t, until) ==
  /\ Verb /\ UnresolvedItem(t)
  /\ until = Activity \/ until > today
  /\ item' = [item EXCEPT ![t] = "snoozed"] /\ wakeAt' = [wakeAt EXCEPT ![t] = until]
  /\ Emit({TriageEvent(t)})
  /\ UNCHANGED <<mergedInto, shelved, tags, criteria, mentioned>> /\ Rest

------------------------------------------------------------------------------
(* Other requests on the tickets. *)

Shelve(t) ==
  /\ Verb /\ item[t] # "absent"
  /\ shelved' = [shelved EXCEPT ![t] = ~@]
  /\ Emit({TicketEvent(t)})
  /\ UNCHANGED <<item, wakeAt, mergedInto, tags, criteria, mentioned>> /\ Rest

\* Attaching twice, or detaching what is not there, changes and emits nothing.
AttachLabel(t, l) ==
  /\ Verb /\ item[t] # "absent" /\ ~shelved[t] /\ l \notin tags[t]
  /\ tags' = [tags EXCEPT ![t] = @ \cup {l}]
  /\ Emit({TicketEvent(t)})
  /\ UNCHANGED <<item, wakeAt, mergedInto, shelved, criteria, mentioned>> /\ Rest

DetachLabel(t, l) ==
  /\ Verb /\ item[t] # "absent" /\ ~shelved[t] /\ l \in tags[t]
  /\ tags' = [tags EXCEPT ![t] = @ \ {l}]
  /\ Emit({TicketEvent(t)})
  /\ UNCHANGED <<item, wakeAt, mergedInto, shelved, criteria, mentioned>> /\ Rest

\* DetachAll and Delete in one transaction; the event is about the label.
DeleteLabel(l) ==
  /\ Verb /\ \E t \in InTriage : l \in tags[t]
  /\ tags' = [t \in InTriage |-> tags[t] \ {l}]
  /\ UNCHANGED <<item, wakeAt, mergedInto, shelved, criteria, mentioned, heard, touched>> /\ Rest

\* A comment or description that mentions a ticket, archived ones included.
Mention(m, t) ==
  /\ Verb /\ item[t] # "absent" /\ item[m] # "absent" /\ ~shelved[m]
  /\ mentioned' = [mentioned EXCEPT ![m] = t]
  /\ Emit({TicketEvent(m)})
  /\ UNCHANGED <<item, wakeAt, mergedInto, shelved, tags, criteria>> /\ Rest

\* An event of the forge about a pull request.
ForgeEvent(n) ==
  /\ [kind |-> "forge", on |-> n] \notin heard
  /\ heard' = heard \cup {[kind |-> "forge", on |-> n]}
  /\ touched' = touched \cup {t \in InTriage : PROf[t] = n}
  /\ UNCHANGED <<tables, verbs>> /\ Rest

------------------------------------------------------------------------------
(* The wakers. *)

\* The event's subject is the ticket, or its linked pull request.
EventMatchesTicket(e, t) ==
  \/ e.kind # "forge" /\ e.on = t
  \/ e.kind = "forge" /\ PROf[t] = e.on

SnoozedUntilActivity == {t \in InTriage : item[t] = "snoozed" /\ wakeAt[t] = Activity /\ ~shelved[t]}

\* Events of kind triage wake nothing.
TriageWakeOnEvent(e) ==
  /\ waking["event"] = {} /\ e \in heard
  /\ heard' = heard \ {e}
  /\ waking' = [waking EXCEPT !["event"] =
       IF e.kind = "triage" THEN {} ELSE {t \in SnoozedUntilActivity : EventMatchesTicket(e, t)}]
  /\ UNCHANGED <<tables, moved, touched, mover, today, verbs>>

SnoozedDue ==
  {t \in InTriage : item[t] = "snoozed" /\ ~shelved[t] /\ wakeAt[t] # Activity /\ wakeAt[t] <= today}

\* A scan of the ticker that finds something.
WakeDueTriage ==
  /\ waking["due"] = {} /\ SnoozedDue # {}
  /\ waking' = [waking EXCEPT !["due"] = SnoozedDue]
  /\ UNCHANGED <<tables, moved, heard, touched, mover, today, verbs>>

StillListed(t) == TRUE

\* The re-read inside wakeItem's transaction.
StillSnoozed(t) == item[t] = "snoozed"

WakeItem(w, t) ==
  /\ t \in waking[w]
  /\ waking' = [waking EXCEPT ![w] = @ \ {t}]
  /\ IF StillSnoozed(t)
     THEN /\ item' = [item EXCEPT ![t] = "pending"] /\ wakeAt' = [wakeAt EXCEPT ![t] = Activity]
          /\ Emit({TriageEvent(t)})
     ELSE UNCHANGED <<item, wakeAt, heard, touched>>
  /\ UNCHANGED <<mergedInto, shelved, tags, criteria, mentioned, moved, mover, today, verbs>>

------------------------------------------------------------------------------
(* The move_ticket action: refused while the item is unresolved. *)

TriggerMoveToCategory(t) == mover = Unmerged /\ item[t] # "absent" /\ ~Unresolved(t) /\ mover' = t

\* moveToCategory: an archived ticket stays, and so does one already there.
MoveToCategory ==
  /\ mover # Unmerged /\ mover' = Unmerged
  /\ moved' = IF shelved[mover] THEN moved ELSE moved \cup {mover}
  /\ Emit(IF mover \in moved' \ moved THEN {TicketEvent(mover)} ELSE {})
  /\ UNCHANGED <<tables, waking, today, verbs>>

Tick ==
  /\ today < MaxClock /\ today' = today + 1
  /\ UNCHANGED <<tables, moved, heard, touched, waking, mover, verbs>>

------------------------------------------------------------------------------
Verbs ==
  \/ \E t \in Filed : CreateFromTrigger(t)
  \/ \E t \in InTriage : TriageAccept(t) \/ TriageDecline(t) \/ Shelve(t)
  \/ \E t, s \in InTriage : TriageDuplicate(t, s) \/ Mention(t, s)
  \/ \E t \in InTriage, u \in 0..MaxClock : TriageSnooze(t, u)
  \/ \E t \in InTriage, l \in Tags : AttachLabel(t, l) \/ DetachLabel(t, l)
  \/ \E l \in Tags : DeleteLabel(l)

WakersAndMover ==
  \/ \E n \in {PROf[t] : t \in InTriage} \ {0} : ForgeEvent(n)
  \/ \E e \in heard : TriageWakeOnEvent(e)
  \/ WakeDueTriage
  \/ \E w \in {"event", "due"}, t \in InTriage : WakeItem(w, t)
  \/ (\E t \in InTriage : TriggerMoveToCategory(t)) /\ UNCHANGED <<tables, moved, heard, touched, waking, today, verbs>>
  \/ MoveToCategory
  \/ Tick

TriageInit ==
  /\ item = [t \in InTriage |-> IF t \in Native THEN "none" ELSE "absent"]
  /\ wakeAt = [t \in InTriage |-> Activity] /\ mergedInto = [t \in InTriage |-> Unmerged]
  /\ shelved = [t \in InTriage |-> FALSE]
  /\ tags = [t \in InTriage |-> {}] /\ criteria = [t \in InTriage |-> <<t>>]
  /\ mentioned = [t \in InTriage |-> t]
  /\ moved = {} /\ heard = {} /\ touched = {}
  /\ waking = [w \in {"event", "due"} |-> {}] /\ mover = Unmerged
  /\ today = 1 /\ verbs = 0

TriageNext == Verbs \/ WakersAndMover

\* The ticker scans every 30 s and finishes its list; humans owe nothing.
TriageFairness ==
  /\ WF_triageVars(WakeDueTriage)
  /\ WF_triageVars(\E t \in InTriage : WakeItem("due", t))

TriageSpec == TriageInit /\ [][TriageNext]_triageVars /\ TriageFairness

------------------------------------------------------------------------------
(* Properties. *)

\* A resolved item stays as it was resolved, whatever a waker or another tab listed
\* before (wakeItem re-reads: "another tab may have resolved it meanwhile"); so a ticket the
\* board once showed leaves it by being archived only.
ResolvedStays ==
  /\ \A t \in InTriage : item[t] \in {"accepted", "duplicate", "declined"} => item'[t] = item[t]
  /\ \A t \in OnTheBoard : shelved'[t] \/ t \in OnTheBoard'

\* Merging never closes a circle, also when archived duplicates are restored and merged into
\* again: no set of tickets keeps duplicate_of to itself, so following it from any ticket ends at
\* one that is no duplicate.
MergesEnd == \A S \in SUBSET InTriage : S # {} => \E t \in S : mergedInto[t] \notin S

\* A ticket in triage is invisible to move_ticket: what the action moved was resolved, or
\* never in triage (TriggerMoveToCategory).
TriageStaysPut == \A t \in moved : ~Unresolved(t)

\* Only activity ends a snooze until new activity: the queue's own events do not wake what
\* they just snoozed (TriageWakeOnEvent).
WokenByActivity ==
  [][\A t \in InTriage : WakeItem("event", t) /\ item'[t] # item[t] => t \in touched]_triageVars

\* A snooze that is over is noticed: no item stays snoozed past its time, unless its ticket
\* is archived (WakeDueTriage, SnoozedDue).
DueIsWoken == []<>(\A t \in InTriage : ~(item[t] = "snoozed" /\ wakeAt[t] \in 1..today /\ ~shelved[t]))

\* Triage is left by a human's decision only, and every merge leads to a ticket.
DecisionsStand == [][MergesEnd' /\ TriageStaysPut' /\ ResolvedStays]_triageVars

\* A snooze ends when its time comes or something happens, and for nothing else.
SnoozesEnd == WokenByActivity /\ DueIsWoken

\* The queue holds: what humans decided stands, and a snooze ends when it should and then.
TriageHolds == DecisionsStand /\ SnoozesEnd
=============================================================================
