---------------------------------- MODULE Desk ----------------------------------
(***************************************************************************)
(* What people ask of runs: to stop one, take it over, dismiss it, ask an   *)
(* agent for one, and what waits for a person.  A handler reads, decides    *)
(* and writes in steps of its own, while the runs go on.                    *)
(*                                                                         *)
(* Supervision is what Supervisor says in detail: the first stop asked for *)
(* is the one that counts, and one that comes after the outcome is decided *)
(* comes too late.  One project, one agent, one ticket.  A refused request *)
(* leaves nothing behind, and is no step.                                  *)
(***************************************************************************)
EXTENDS Naturals, FiniteSets

CONSTANTS
  Clerks,       \* people with a request each
  NoOne,
  MaxJobs,      \* bound: runs
  MaxHitches    \* bound: broken requests and crashes

ASSUME DeskAssumption == NoOne \notin Clerks /\ MaxJobs \in Nat \ {0} /\ MaxHitches \in Nat

Jobs == 1 .. MaxJobs

VARIABLES
  job,       \* the rows of runs, by seq
  stops,     \* supervisor -> the stop asked for, and the outcome once it is decided
  pulls,     \* run -> its pull request, as the poller last saw it
  pages,     \* runs whose wiki proposal is pending
  member, hired,   \* who asks is a member; the agent is enabled
  audited,   \* the audit trail
  desk,      \* clerk -> the request under way
  reader,    \* the inbox request: where it is, and the rows read
  waited,   \* history: what needed a person all the while the inbox is read, and at some time
  hitches

deskVars == <<job, stops, pulls, pages, member, hired, audited, desk, reader, waited, hitches>>

NoReason == <<"none", NoOne>>
NoJob   == [state |-> "none", ticket |-> FALSE, reason |-> NoReason, note |-> NoOne, acked |-> FALSE, brief |-> NoOne]
NoStop  == [kind |-> "none", why |-> NoReason, outcome |-> "none"]
NoDesk  == [doing |-> "none", at |-> "none", run |-> 0]
NoReader == [at |-> "none", rows |-> {}, let |-> FALSE]

Parked   == {"needs_input", "awaiting_approval"}
Finished == {"completed", "failed", "timed_out", "canceled", "loop_stopped"}
Live     == Parked \cup {"queued", "running"}
LiveJobs == {r \in Jobs : job[r].state \in Live}
Supervised(r) == job[r].state \in Parked \cup {"running"}

------------------------------------------------------------------------------
(* What needs a person. *)

\* A timed-out run is not in it.
NeedsYouRows ==
  {r \in Jobs : \/ job[r].state \in Parked
                \/ job[r].state \in {"failed", "loop_stopped"} /\ ~job[r].acked}

Flavor(state) ==
  CASE state = "needs_input" -> "question" [] state = "awaiting_approval" -> "approval" [] OTHER -> "failure"

\* The pull requests of completed runs, open as far as the poller knows.
OpenAgentPRs == {r \in Jobs : job[r].state = "completed" /\ pulls[r] \in {"unseen", "open"}}

RunItems  == {<<"run", r, Flavor(job[r].state)>> : r \in NeedsYouRows}
PageItems == {<<"page", r, "review">> : r \in pages}
PullItems == {<<"pull", r, "review">> : r \in OpenAgentPRs}
Needs == RunItems \cup PageItems \cup PullItems

------------------------------------------------------------------------------
(* The runs, and who else changes what is read. *)

\* Mutant: the note of the latest run of the ticket, whether it has one or not.
LatestNoteUnfiltered ==
  LET those == {r \in Jobs : job[r].ticket}
  IN IF those = {} THEN NoOne ELSE job[CHOOSE r \in those : \A q \in those : q <= r].note

\* The note of the latest run of the ticket that has one.
LatestTakeoverNote ==
  LET noted == {r \in Jobs : job[r].ticket /\ job[r].note # NoOne}
  IN IF noted = {} THEN NoOne ELSE job[CHOOSE r \in noted : \A q \in noted : q <= r].note

\* The prompt, and in it the note, is put together when the run is queued.
Row(state, ticket) ==
  [NoJob EXCEPT !.state = state, !.ticket = ticket, !.brief = IF ticket THEN LatestTakeoverNote ELSE NoOne]
Insert(state, ticket) ==
  \E r \in Jobs : /\ job[r] = NoJob /\ \A q \in 1 .. r - 1 : job[q] # NoJob
                  /\ job' = [job EXCEPT ![r] = Row(state, ticket)]

DeskRest == UNCHANGED <<desk, reader, audited, hitches>>
OthersStill == UNCHANGED <<pulls, pages, member, hired>>

\* The ticket is delegated again; the loop guard may record a stop instead.
Delegated ==
  /\ Insert("queued", TRUE) \/ Insert("loop_stopped", TRUE)
  /\ UNCHANGED stops /\ OthersStill /\ DeskRest

\* Admission, a question or an approval, and the answer.
Moves(r) ==
  /\ \/ job[r].state = "queued" /\ job' = [job EXCEPT ![r].state = "running"]
     \/ job[r].state = "running" /\ \E p \in Parked : job' = [job EXCEPT ![r].state = p]
     \/ job[r].state \in Parked /\ job' = [job EXCEPT ![r].state = "running"]
  /\ UNCHANGED stops /\ OthersStill /\ DeskRest

RequestStop(r, kind, why) ==
  stops' = IF stops[r].kind = "none" THEN [stops EXCEPT ![r] = [@ EXCEPT !.kind = kind, !.why = why]] ELSE stops

WallClock(r) ==
  /\ job[r].state = "running" /\ RequestStop(r, "timed_out", <<"wall clock", NoOne>>)
  /\ UNCHANGED job /\ OthersStill /\ DeskRest

\* The session is over, and what that makes the run is decided; its row says so later.
OutcomeOf(r) ==
  /\ Supervised(r) /\ stops[r].outcome = "none"
  /\ \E outcome \in IF stops[r].kind # "none" THEN {stops[r].kind} ELSE {"completed", "failed"} :
       stops' = [stops EXCEPT ![r] = [@ EXCEPT !.outcome = outcome,
                                               !.why = IF stops[r].kind = "none" THEN NoReason ELSE stops[r].why]]
  /\ UNCHANGED job /\ OthersStill /\ DeskRest

Finish(r) ==
  /\ Supervised(r) /\ stops[r].outcome # "none"
  /\ LET why == IF stops[r].outcome \in {"canceled", "timed_out"} THEN stops[r].why ELSE NoReason
     IN job' = [job EXCEPT ![r] = [@ EXCEPT !.state = stops[r].outcome, !.reason = why]]
  /\ UNCHANGED stops /\ OthersStill /\ DeskRest

\* A page proposed by a run and reviewed; a pull request opened for a run, seen and closed.
PapersChange(r) ==
  /\ \/ job[r].state = "running" /\ pages' = pages \cup {r} /\ UNCHANGED pulls
     \/ r \in pages /\ pages' = pages \ {r} /\ UNCHANGED pulls
     \/ job[r].state = "completed" /\ pulls[r] = "none" /\ pulls' = [pulls EXCEPT ![r] = "unseen"] /\ UNCHANGED pages
     \/ pulls[r] = "unseen" /\ pulls' = [pulls EXCEPT ![r] = "open"] /\ UNCHANGED pages
     \/ pulls[r] = "open" /\ pulls' = [pulls EXCEPT ![r] = "closed"] /\ UNCHANGED pages
  /\ UNCHANGED <<job, stops, member, hired>> /\ DeskRest

MemberLeaves ==
  /\ member /\ member' = FALSE /\ UNCHANGED <<job, stops, pulls, pages, hired>> /\ DeskRest
AgentDisabled ==
  /\ hired /\ hired' = FALSE /\ UNCHANGED <<job, stops, pulls, pages, member>> /\ DeskRest

------------------------------------------------------------------------------
(* Requests. *)

Step(c, at) == desk' = [desk EXCEPT ![c].at = at] /\ UNCHANGED <<reader, hitches>>
Answer(c)   == desk' = [desk EXCEPT ![c] = [NoDesk EXCEPT !.doing = "done"]] /\ UNCHANGED <<reader, hitches>>
Quiet == UNCHANGED <<job, stops>> /\ OthersStill

\* Membership, through the run, once.
RequireRunMember(c, doing, at, r) ==
  /\ desk[c] = NoDesk /\ member /\ job[r] # NoJob
  /\ desk' = [desk EXCEPT ![c] = [doing |-> doing, at |-> at, run |-> r]]

HandleStop(c, r) ==
  /\ RequireRunMember(c, "stop", "audit", r) /\ r \in LiveJobs
  /\ Quiet /\ UNCHANGED <<audited, reader, hitches>>
HandleTakeover(c, r) ==
  /\ RequireRunMember(c, "takeover", "audit", r) /\ r \in LiveJobs
  /\ Quiet /\ UNCHANGED <<audited, reader, hitches>>

Audit(c) == audited' = audited \cup {<<desk[c].doing, desk[c].run, c>>}

\* Before the run is touched.
AuditFirst(c) ==
  /\ desk[c].doing \in {"stop", "takeover"} /\ desk[c].at = "audit" /\ Audit(c)
  /\ Step(c, IF desk[c].doing = "stop" THEN "stop" ELSE "take") /\ Quiet

\* The run may have ended since: then nothing is done, and the answer is the same.
TakeoverRun(c) ==
  /\ desk[c].at = "take"
  /\ IF desk[c].run \in LiveJobs THEN Step(c, "note") ELSE Answer(c)
  /\ Quiet /\ UNCHANGED audited

SetTakeoverNote(c) ==
  /\ desk[c].at = "note" /\ job' = [job EXCEPT ![desk[c].run].note = c]
  /\ Step(c, "stop") /\ UNCHANGED <<stops, audited>> /\ OthersStill

\* A queued run is canceled in place, a supervised one is told.
StopRequested(c) ==
  LET r == desk[c].run
      why == <<desk[c].doing, c>>
  IN /\ desk[c].at = "stop" /\ Answer(c)
     /\ IF job[r].state = "queued"
        THEN job' = [job EXCEPT ![r] = [@ EXCEPT !.state = "canceled", !.reason = why]] /\ UNCHANGED stops
        ELSE /\ UNCHANGED job
             /\ IF Supervised(r) THEN RequestStop(r, "canceled", why) ELSE UNCHANGED stops
     /\ OthersStill /\ UNCHANGED audited

HandleAcknowledge(c, r) ==
  /\ RequireRunMember(c, "acknowledge", "stamp", r) /\ job[r].state \in Finished
  /\ Quiet /\ UNCHANGED <<audited, reader, hitches>>
Acknowledge(c) ==
  /\ desk[c].at = "stamp" /\ job[desk[c].run].state \in Finished
  /\ job' = [job EXCEPT ![desk[c].run].acked = TRUE]
  /\ Step(c, "recorded") /\ UNCHANGED <<stops, audited>> /\ OthersStill

\* An agent is asked for a run without a ticket: the handler looks at the agent, Enqueue
\* looks again, and the row is written behind that.
HandleCreate(c) ==
  /\ desk[c] = NoDesk /\ member /\ hired
  /\ desk' = [desk EXCEPT ![c] = [doing |-> "create", at |-> "load", run |-> 0]]
  /\ Quiet /\ UNCHANGED <<audited, reader, hitches>>
LoadRequestRows(c) ==
  /\ desk[c].at = "load" /\ Step(c, IF hired THEN "insert" ELSE "recorded") /\ Quiet /\ UNCHANGED audited
RequestRun(c) ==
  /\ desk[c].at = "insert" /\ Insert("queued", FALSE)
  /\ Step(c, "recorded") /\ UNCHANGED <<stops, audited>> /\ OthersStill

\* A dismissal and a request for a run are audited behind the fact.
AuditAfter(c) == desk[c].at = "recorded" /\ Audit(c) /\ Answer(c) /\ Quiet

\* The request breaks off, or the process dies: what supervisors were told is lost with
\* them, and the runs are supervised again.
Hitch == hitches < MaxHitches /\ hitches' = hitches + 1
BreaksOff(c) ==
  /\ Hitch /\ desk[c].at # "none" /\ desk' = [desk EXCEPT ![c] = [NoDesk EXCEPT !.doing = "done"]]
  /\ Quiet /\ UNCHANGED <<audited, reader>>
DeskCrash ==
  /\ Hitch /\ desk' = [c \in Clerks |-> IF desk[c] = NoDesk THEN NoDesk ELSE [NoDesk EXCEPT !.doing = "done"]]
  /\ stops' = [r \in Jobs |-> NoStop]
  /\ reader' = IF reader.at = "none" THEN reader ELSE [NoReader EXCEPT !.at = "done"]
  /\ UNCHANGED <<job, audited>> /\ OthersStill

------------------------------------------------------------------------------
(* The inbox: three lists, one after the other, then who may see them. *)

Turn(from, to, rows) ==
  /\ reader.at = from /\ reader' = [reader EXCEPT !.at = to, !.rows = @ \cup rows]
  /\ Quiet /\ UNCHANGED <<audited, desk, hitches>>

ReadRuns  == Turn("none", "pages", RunItems)
ReadPages == Turn("pages", "pulls", PageItems)
ReadPulls == Turn("pulls", "rows", PullItems)
HandleInbox ==
  /\ reader.at = "rows" /\ reader' = [reader EXCEPT !.at = "answered", !.let = member]
  /\ Quiet /\ UNCHANGED <<audited, desk, hitches>>
InboxIsRead ==
  /\ reader.at = "answered" /\ reader' = [NoReader EXCEPT !.at = "done"]
  /\ Quiet /\ UNCHANGED <<audited, desk, hitches>>

Watching ==
  waited' = CASE reader'.at \in {"none", "done"} -> [always |-> {}, ever |-> {}]
               [] reader.at = "none" /\ reader'.at = "pages" -> [always |-> Needs, ever |-> Needs]
               [] OTHER -> IF reader.at = "answered" \/ reader'.at = "answered" THEN waited
                           ELSE [always |-> waited.always \cap Needs', ever |-> waited.ever \cup Needs']

------------------------------------------------------------------------------
DeskInit ==
  /\ job = [r \in Jobs |-> IF r = 1 THEN [NoJob EXCEPT !.state = "running", !.ticket = TRUE] ELSE NoJob]
  /\ stops = [r \in Jobs |-> NoStop] /\ pulls = [r \in Jobs |-> "none"] /\ pages = {}
  /\ member = TRUE /\ hired = TRUE /\ audited = {} /\ hitches = 0
  /\ desk = [c \in Clerks |-> NoDesk] /\ reader = NoReader /\ waited = [always |-> {}, ever |-> {}]

RunsGoOn ==
  \/ Delegated \/ MemberLeaves \/ AgentDisabled
  \/ \E r \in Jobs : Moves(r) \/ WallClock(r) \/ OutcomeOf(r) \/ Finish(r) \/ PapersChange(r)

Asked ==
  \E c \in Clerks :
    \/ \E r \in Jobs : HandleStop(c, r) \/ HandleTakeover(c, r) \/ HandleAcknowledge(c, r)
    \/ HandleCreate(c) \/ AuditFirst(c) \/ TakeoverRun(c) \/ SetTakeoverNote(c) \/ StopRequested(c)
    \/ Acknowledge(c) \/ LoadRequestRows(c) \/ RequestRun(c) \/ AuditAfter(c) \/ BreaksOff(c)

DeskNext ==
  /\ RunsGoOn \/ Asked \/ DeskCrash \/ ReadRuns \/ ReadPages \/ ReadPulls \/ HandleInbox \/ InboxIsRead
  /\ Watching

DeskSpec == DeskInit /\ [][DeskNext]_deskVars

------------------------------------------------------------------------------
(* Properties. *)

\* Nobody stops a run or leaves a note on it without the audit trail saying so first,
\* wherever the request breaks off (handleStop, handleTakeover).
ActsAreAudited ==
  \A r \in Jobs :
    /\ job[r].reason[1] \in {"stop", "takeover"} => <<job[r].reason[1], r, job[r].reason[2]>> \in audited
    /\ job[r].note # NoOne => <<"takeover", r, job[r].note>> \in audited

\* The inbox, read in three parts while everything moves, shows what waited for a person
\* all along and nothing that never did (NeedsYou).
InboxIsHonest ==
  reader.at = "answered" /\ reader.let =>
    waited.always \subseteq reader.rows /\ reader.rows \subseteq waited.ever

\* A run of the ticket queued behind a takeover has a note in its prompt (TakeoverRun,
\* LatestTakeoverNote: "It is injected into the prompt of the next run").
TakeoverIsToldOn ==
  \A r \in Jobs :
    /\ job[r] = NoJob /\ job'[r].ticket
    /\ \E q \in Jobs : job[q].state = "canceled" /\ job[q].ticket /\ job[q].reason[1] = "takeover"
    => job'[r].brief # NoOne

DeskHolds == [][ActsAreAudited' /\ InboxIsHonest' /\ TakeoverIsToldOn]_deskVars
=============================================================================
