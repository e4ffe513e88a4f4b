------------------------------- MODULE Tickets -------------------------------
(***************************************************************************)
(* The rows of tickets and columns under concurrent requests.  Update,     *)
(* Move and the column requests are one transaction each; every other      *)
(* request reads outside its transaction and writes later, and several of  *)
(* them write the whole row they read.                                     *)
(*                                                                         *)
(* A worker is a goroutine serving one request: of the HTTP API, of the    *)
(* scheduler's mover, or of a move_ticket action.                          *)
(***************************************************************************)
EXTENDS Naturals, FiniteSets

CONSTANTS
  Slots,       \* tickets that may exist
  Boards,      \* columns that may exist
  Kinds,       \* categories
  Required,    \* requiredCategories: backlog, running and done
  FirstKind,   \* the categories of the columns the board starts with, "gone" where none
  Delegates,   \* agents
  None,        \* no parent, no delegate, no ticket
  Workers,
  MaxRequests  \* bound: requests

TicketRows == [column : Boards, parent : Slots \cup {None}, delegate : Delegates \cup {None},
               archived : BOOLEAN]

ASSUME TicketConstants ==
  /\ Required \subseteq Kinds /\ "gone" \notin Kinds
  /\ None \notin Slots \cup Delegates \cup TicketRows
  /\ FirstKind \in [Boards -> Kinds \cup {"gone"}]
  /\ \A k \in Required : \E c \in Boards : FirstKind[c] = k
  /\ \E c \in Boards : FirstKind[c] = "backlog" /\ \A d \in Boards : FirstKind[d] = "backlog" => c <= d

VARIABLES
  ticketRow,   \* the row of each ticket: column, parent, delegate, archived; or None
  kind,        \* columns.category; "gone" when there is no such column
  auto,        \* columns with auto_start_delegate
  live,        \* tickets and agents with a run that is not terminal
  job,         \* what each worker serves: its step, and what it read
  requests,
  restored     \* history: tickets an Unarchive wrote last

ticketVars == <<ticketRow, kind, auto, live, job, requests, restored>>

Standing == {c \in Boards : kind[c] # "gone"}
Exists == {t \in Slots : ticketRow[t] # None}
Idle == [at |-> "idle", ticket |-> None, row |-> None, to |-> None]

BoardTyped ==
  /\ ticketRow \in [Slots -> TicketRows \cup {None}]
  /\ kind \in [Boards -> Kinds \cup {"gone"}] /\ auto \subseteq Boards
  /\ live \subseteq Slots \X Delegates /\ restored \subseteq Slots
JobsTyped ==
  job \in [Workers -> {Idle}
    \cup [at : {"insert", "cancel", "restore"}, ticket : Slots, row : TicketRows, to : {None}]
    \cup [at : {"save"}, ticket : Slots, row : TicketRows, to : Delegates \cup {None}]
    \cup [at : {"request"}, ticket : Slots, row : TicketRows, to : Delegates]
    \cup [at : {"place"}, ticket : Slots, row : TicketRows, to : Boards]
    \cup [at : {"placeAndStart"}, ticket : Slots, to : Boards,
          row : {x \in TicketRows : x.delegate # None}]]
TicketsTypeOK == BoardTyped /\ JobsTyped

Begin == requests < MaxRequests /\ requests' = requests + 1
JobDone(w) == job' = [job EXCEPT ![w] = Idle]
Goto(w, at) == job' = [job EXCEPT ![w].at = at]
OnlyTickets == UNCHANGED <<kind, auto, live>>

\* The first column of a category by position; columns were created in order.
ByCategory(k) == {c \in Boards : kind[c] = k}
IsFirst(c, k) == c \in ByCategory(k) /\ \A d \in ByCategory(k) : c <= d

\* Same project, not archived, and itself not a sub-ticket.
ParentOK(p) == p \in Exists /\ ~ticketRow[p].archived /\ ticketRow[p].parent = None

CountChildren(t) == Cardinality({u \in Exists : ticketRow[u].parent = t})

------------------------------------------------------------------------------
(* Requests of one transaction. *)

Reparent(t, p) ==
  /\ t \in Exists /\ ~ticketRow[t].archived
  /\ p = None \/ (p # t /\ ParentOK(p) /\ CountChildren(t) = 0)
  /\ ticketRow[t].parent # p
  /\ Begin
  /\ ticketRow' = [ticketRow EXCEPT ![t].parent = p]
  /\ OnlyTickets /\ UNCHANGED <<job, restored>>

SetDelegate(t, a) ==
  /\ t \in Exists /\ ~ticketRow[t].archived /\ ticketRow[t].delegate # a
  /\ Begin
  /\ ticketRow' = [ticketRow EXCEPT ![t].delegate = a]
  /\ OnlyTickets /\ UNCHANGED <<job, restored>>

\* maybeAutoStart, after the commit: the row and the column are those the move read.
AutoStart(w, t, row, from, to) ==
  job' = [job EXCEPT ![w] =
    IF from # to /\ to \in auto /\ row.delegate # None
    THEN [at |-> "request", ticket |-> t, row |-> row, to |-> row.delegate] ELSE Idle]

Move(w, t, c) ==
  /\ job[w].at = "idle" /\ t \in Exists /\ ~ticketRow[t].archived /\ c \in Standing
  /\ Begin
  /\ ticketRow' = [ticketRow EXCEPT ![t].column = c]
  /\ AutoStart(w, t, ticketRow[t], ticketRow[t].column, c)
  /\ OnlyTickets /\ UNCHANGED restored

AddColumn(c, k) ==
  /\ kind[c] = "gone" /\ \A d \in Boards : d < c => kind[d] # "gone" \* ids are not reused
  /\ \A t \in Exists : ticketRow[t].column # c
  /\ Begin
  /\ kind' = [kind EXCEPT ![c] = k]
  /\ UNCHANGED <<ticketRow, auto, live, job, restored>>

\* The guardrail behind delete and category change.
RequireCategorySurvives(c) == kind[c] \in Required => Cardinality(ByCategory(kind[c])) > 1

UpdateCategory(c, k) ==
  /\ c \in Standing /\ k # kind[c] /\ RequireCategorySurvives(c)
  /\ Begin
  /\ kind' = [kind EXCEPT ![c] = k]
  /\ UNCHANGED <<ticketRow, auto, live, job, restored>>

ToggleAutoStart(c) ==
  /\ c \in Standing
  /\ Begin
  /\ auto' = IF c \in auto THEN auto \ {c} ELSE auto \cup {c}
  /\ UNCHANGED <<ticketRow, kind, live, job, restored>>

\* Tickets, archived ones included, go to the destination; without tickets none is needed.
DropColumn(c, d) ==
  /\ c \in Standing /\ RequireCategorySurvives(c)
  /\ (\E t \in Exists : ticketRow[t].column = c) => d \in Standing \ {c}
  /\ Begin
  /\ ticketRow' = [t \in Slots |-> IF t \in Exists /\ ticketRow[t].column = c
                                   THEN [ticketRow[t] EXCEPT !.column = d] ELSE ticketRow[t]]
  /\ kind' = [kind EXCEPT ![c] = "gone"] /\ auto' = auto \ {c}
  /\ UNCHANGED <<live, job, restored>>

------------------------------------------------------------------------------
(* Requests that read, and write in a later transaction. *)

\* Create and Subtickets: column and parent are read before the transaction.
CreateRead(w, t, c, p) ==
  /\ job[w].at = "idle" /\ t \notin Exists /\ \A u \in Slots : u < t => u \in Exists
  /\ \A v \in Workers : ~(job[v].at = "insert" /\ job[v].ticket = t)
  /\ c \in Standing /\ (p = None \/ ParentOK(p))
  /\ Begin
  /\ job' = [job EXCEPT ![w] = [at |-> "insert", ticket |-> t, to |-> None,
       row |-> [column |-> c, parent |-> p, delegate |-> None, archived |-> FALSE]]]
  /\ OnlyTickets /\ UNCHANGED <<ticketRow, restored>>

SubticketsRead(w, t, p) == ParentOK(p) /\ CreateRead(w, t, ticketRow[p].column, p)

WriteUnchecked(t, row) == ticketRow' = [ticketRow EXCEPT ![t] = row]

\* An INSERT, or the UPDATE of every mutable column; the foreign key refuses a column that
\* is gone, and the request fails.
Write(t, row) ==
  ticketRow' = IF row.column \in Standing THEN [ticketRow EXCEPT ![t] = row] ELSE ticketRow

Insert(w) ==
  /\ job[w].at = "insert"
  /\ Write(job[w].ticket, job[w].row) /\ JobDone(w)
  /\ OnlyTickets /\ UNCHANGED <<requests, restored>>

\* Archive: the row, the count the human confirmed, the cancellation, the whole row.
ArchiveRead(w, t) ==
  /\ job[w].at = "idle" /\ t \in Exists /\ ~ticketRow[t].archived
  /\ Begin
  /\ job' = [job EXCEPT ![w] = [at |-> "cancel", ticket |-> t, to |-> None,
       row |-> [ticketRow[t] EXCEPT !.archived = TRUE]]]
  /\ OnlyTickets /\ UNCHANGED <<ticketRow, restored>>

CancelTicketRuns(w) ==
  /\ job[w].at = "cancel"
  /\ live' = {r \in live : r[1] # job[w].ticket}
  /\ Goto(w, "save")
  /\ UNCHANGED <<ticketRow, kind, auto, requests, restored>>

UnarchiveRead(w, t) ==
  /\ job[w].at = "idle" /\ t \in Exists /\ ticketRow[t].archived
  /\ Begin
  /\ job' = [job EXCEPT ![w] = [at |-> "restore", ticket |-> t, to |-> None,
       row |-> [ticketRow[t] EXCEPT !.archived = FALSE]]]
  /\ OnlyTickets /\ UNCHANGED <<ticketRow, restored>>

\* Delegate: an enabled agent; the row is written when the delegate is new.
DelegateRead(w, t, a) ==
  /\ job[w].at = "idle" /\ t \in Exists /\ ~ticketRow[t].archived
  /\ Begin
  /\ job' = [job EXCEPT ![w] = [at |-> IF ticketRow[t].delegate = a THEN "request" ELSE "save",
       ticket |-> t, to |-> a, row |-> [ticketRow[t] EXCEPT !.delegate = a]]]
  /\ OnlyTickets /\ UNCHANGED <<ticketRow, restored>>

\* The write of Archive, Unarchive and Delegate: every column of the row read before.
Save(w) ==
  /\ job[w].at \in {"save", "restore"}
  /\ Write(job[w].ticket, job[w].row)
  /\ restored' = IF job[w].at = "restore" THEN restored \cup {job[w].ticket}
                 ELSE restored \ {job[w].ticket}
  /\ IF job[w].at = "save" /\ job[w].to # None /\ job[w].row.column \in Standing
     THEN Goto(w, "request") ELSE JobDone(w)
  /\ OnlyTickets /\ UNCHANGED requests

\* Comment: an agent is mentioned on a ticket that is not archived yet.
Comment(w, t, a) ==
  /\ job[w].at = "idle" /\ t \in Exists /\ ~ticketRow[t].archived
  /\ Begin
  /\ job' = [job EXCEPT ![w] = [at |-> "request", ticket |-> t, to |-> a, row |-> ticketRow[t]]]
  /\ OnlyTickets /\ UNCHANGED <<ticketRow, restored>>

\* The scheduler's seam.
RequestRun(w) ==
  /\ job[w].at = "request"
  /\ live' = live \cup {<<job[w].ticket, job[w].to>>}
  /\ JobDone(w)
  /\ UNCHANGED <<ticketRow, kind, auto, requests, restored>>

\* moveToCategory: archived, or already in the category, is a no-op; the first column of it.
MoveToCategoryRead(w, t, k, c) ==
  /\ job[w].at = "idle" /\ t \in Exists /\ ~ticketRow[t].archived
  /\ kind[ticketRow[t].column] # k /\ IsFirst(c, k)
  /\ Begin
  /\ \E at \in {"place"} \cup (IF c \in auto /\ ticketRow[t].delegate # None THEN {"placeAndStart"} ELSE {}) :
       job' = [job EXCEPT ![w] = [at |-> at, ticket |-> t, to |-> c, row |-> ticketRow[t]]]
  /\ OnlyTickets /\ UNCHANGED <<ticketRow, restored>>

\* It writes column and position only; the action's move starts the delegate when the column
\* it chose did so.
MoveToCategoryWrite(w) ==
  LET t == job[w].ticket c == job[w].to IN
  /\ job[w].at \in {"place", "placeAndStart"}
  /\ IF c \in Standing
     THEN /\ ticketRow' = [ticketRow EXCEPT ![t].column = c]
          /\ IF job[w].at = "place" THEN JobDone(w)
             ELSE job' = [job EXCEPT ![w].at = "request", ![w].to = job[w].row.delegate]
     ELSE UNCHANGED ticketRow /\ JobDone(w)
  /\ OnlyTickets /\ UNCHANGED <<requests, restored>>

\* A run reaches a terminal state.
RunOver(r) ==
  /\ r \in live /\ live' = live \ {r}
  /\ UNCHANGED <<ticketRow, kind, auto, job, requests, restored>>

------------------------------------------------------------------------------
Transactions ==
  \/ \E t \in Slots, p \in Slots \cup {None} : Reparent(t, p)
  \/ \E t \in Slots, a \in Delegates \cup {None} : SetDelegate(t, a)
  \/ \E w \in Workers, t \in Slots, c \in Boards : Move(w, t, c)
  \/ \E c \in Boards, k \in Kinds : AddColumn(c, k) \/ UpdateCategory(c, k)
  \/ \E c \in Boards : ToggleAutoStart(c)
  \/ \E c \in Boards, d \in Boards : DropColumn(c, d)

ReadThenWrite ==
  \/ \E w \in Workers, t \in Slots, c \in Boards, p \in Slots \cup {None} : CreateRead(w, t, c, p)
  \/ \E w \in Workers, t \in Slots, p \in Slots : SubticketsRead(w, t, p)
  \/ \E w \in Workers, t \in Slots : ArchiveRead(w, t) \/ UnarchiveRead(w, t)
  \/ \E w \in Workers, t \in Slots, a \in Delegates : DelegateRead(w, t, a) \/ Comment(w, t, a)
  \/ \E w \in Workers, t \in Slots, k \in Kinds, c \in Boards : MoveToCategoryRead(w, t, k, c)
  \/ \E w \in Workers : Insert(w) \/ CancelTicketRuns(w) \/ Save(w) \/ RequestRun(w) \/ MoveToCategoryWrite(w)
  \/ \E r \in live : RunOver(r)

\* One ticket in the first column.
TicketsInit ==
  /\ kind = FirstKind
  /\ ticketRow = [t \in Slots |-> IF \A u \in Slots : t <= u
       THEN [column |-> CHOOSE c \in Boards : IsFirst(c, "backlog"), parent |-> None,
             delegate |-> None, archived |-> FALSE]
       ELSE None]
  /\ auto = {} /\ live = {} /\ job = [w \in Workers |-> Idle] /\ requests = 0 /\ restored = {}

TicketsNext == Transactions \/ ReadThenWrite

TicketsSpec == TicketsInit /\ [][TicketsNext]_ticketVars

------------------------------------------------------------------------------
(* Properties. *)

\* A board never loses its last backlog, running or done column, whether a column is
\* deleted or given another category (requireCategorySurvives): automation aims at them.
BoardKeepsCategories == \A k \in Required : ByCategory(k) # {}

\* No ticket, archived or not, is left in a column that is gone, however a stale write, a
\* move and the deletion of the column interleave.
TicketsKeepColumns == \A t \in Exists : ticketRow[t].column \in Standing

\* "a mutation on an archived ticket: everything but unarchive is refused"
\* (ArchivedError, service.go:121): an archived ticket becomes visible again only because
\* somebody unarchived it.
OnlyUnarchiveRestores ==
  [][\A t \in Exists : ticketRow[t].archived /\ ~ticketRow'[t].archived => t \in restored']_ticketVars

\* Tickets are archived, never deleted: what a request is still to place is there.
PlacedExist == \A w \in Workers : job[w].at \in {"place", "placeAndStart"} => job[w].ticket \in Exists

\* Whatever interleaves, every ticket has a column and automation has its three.
BoardConsistent == TicketsTypeOK /\ BoardKeepsCategories /\ TicketsKeepColumns /\ PlacedExist
=============================================================================
