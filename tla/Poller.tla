--------------------------------- MODULE Poller ---------------------------------
(***************************************************************************)
(* One project's poll worker: a tick runs five passes over the forge, each *)
(* with its own cursor and its own health, and turns what differs from the *)
(* recorded state into events.                                             *)
(*                                                                         *)
(* A request to the forge and a statement on the store are one step; the   *)
(* forge changes in between.  Times are those of one clock.  The bus drops *)
(* an event whose dedupe key it has; a key stands for its event.  The two  *)
(* comment listings are one function; one resource stands for both.  A     *)
(* cursor of 0 is a row that does not exist: every instant is later.       *)
(***************************************************************************)
EXTENDS Naturals, FiniteSets

CONSTANTS
  Pulls,       \* numbers of pull requests
  MaxChanges,  \* bound: changes on the forge
  MaxNow,      \* bound: instants
  MaxFaults    \* bound: failing requests, crashes and refusals

ASSUME PollerAssumption ==
  /\ Pulls \subseteq Nat \ {0}
  /\ MaxChanges \in Nat /\ MaxNow \in Nat /\ MaxFaults \in Nat

Passes == <<"pulls", "reviews", "comments", "checks">>
Resources == {"pulls", "reviews", "comments", "checks"}
Before(r) == CHOOSE i \in 1..4 : Passes[i] = r

VARIABLES
  pr, reviews, comments, suites,  \* the forge
  now, changes, faults,
  denied,      \* resources the token may not read
  known,       \* poll_pr_state
  cursor,      \* poll_cursors
  etag,        \* of the pull listing: the change it reflects, 0 for none
  baselined,   \* baseline_done
  health,      \* resourceState: ticks to skip, and whether the resource is disabled
  passAt, tick,    \* the pass under way, and the tick's memory
  emitted,     \* events on the bus
  since            \* history: when the baseline ran

forgeVars == <<pr, reviews, comments, suites, now, changes>>
pollVars  == <<known, cursor, etag, baselined, health, passAt, tick, emitted, since>>
pollerVars == <<forgeVars, pollVars, denied, faults>>

NoTick == [todo |-> {}, listing |-> {}, touched |-> {}, acts |-> {}, pull |-> 0, top |-> 0, version |-> 0]
Unseen == [seen |-> FALSE, open |-> FALSE, head |-> 0, draft |-> FALSE, reviewed |-> 0]

Later(a, b) == IF a > b THEN a ELSE b

------------------------------------------------------------------------------
(* The forge. *)

Change == changes < MaxChanges /\ changes' = changes + 1
Bumped(p, r) == pr' = [pr EXCEPT ![p] = [r EXCEPT !.updated = now, !.change = changes + 1]]
ForgeOnly == UNCHANGED <<now, pollVars, denied, faults>>

OpenPull(p) ==
  /\ Change /\ ~pr[p].made
  /\ Bumped(p, [pr[p] EXCEPT !.made = TRUE, !.open = TRUE, !.head = 1, !.draft = TRUE])
  /\ UNCHANGED <<reviews, comments, suites>> /\ ForgeOnly

\* A push, ready for review, a close or a reopen.
ChangePull(p) ==
  /\ Change /\ pr[p].made
  /\ \/ pr[p].head < 2 /\ Bumped(p, [pr[p] EXCEPT !.head = @ + 1])
     \/ pr[p].draft /\ Bumped(p, [pr[p] EXCEPT !.draft = FALSE])
     \/ Bumped(p, [pr[p] EXCEPT !.open = ~@])
  /\ UNCHANGED <<reviews, comments, suites>> /\ ForgeOnly

\* A review bumps its pull request's updated_at.
Review(p) ==
  /\ Change /\ pr[p].made
  /\ reviews' = reviews \cup {[pull |-> p, id |-> changes, at |-> now]}
  /\ Bumped(p, pr[p])
  /\ UNCHANGED <<comments, suites>> /\ ForgeOnly

Comment ==
  /\ Change
  /\ comments' = comments \cup {[id |-> changes, at |-> now, updated |-> now]}
  /\ UNCHANGED <<pr, reviews, suites>> /\ ForgeOnly

EditComment(c) ==
  /\ Change
  /\ comments' = (comments \ {c}) \cup {[c EXCEPT !.updated = now]}
  /\ UNCHANGED <<pr, reviews, suites>> /\ ForgeOnly

\* CI completes on a head; this bumps nothing.
CompleteSuite(p) ==
  /\ Change /\ pr[p].made
  /\ suites' = suites \cup {[pull |-> p, head |-> pr[p].head, id |-> changes, at |-> now]}
  /\ UNCHANGED <<pr, reviews, comments>> /\ ForgeOnly

Clock ==
  /\ now < MaxNow /\ now' = now + 1
  /\ UNCHANGED <<pr, reviews, comments, suites, changes, pollVars, denied, faults>>

Permissions(r) ==
  /\ faults < MaxFaults /\ faults' = faults + 1
  /\ denied' = IF r \in denied THEN denied \ {r} ELSE denied \cup {r}
  /\ UNCHANGED <<forgeVars, pollVars>>

------------------------------------------------------------------------------
(* A tick. *)

Still == UNCHANGED <<forgeVars, denied, faults>>

\* The cold start: every pull request listed is recorded and nothing is emitted.  The first
\* cursor written says that the baseline is done.
BaselinePulls ==
  /\ passAt = "idle" /\ ~baselined /\ "pulls" \notin denied
  /\ known' = [p \in Pulls |-> IF pr[p].made
       THEN [seen |-> TRUE, open |-> pr[p].open, head |-> pr[p].head, draft |-> pr[p].draft, reviewed |-> now]
       ELSE Unseen]
  /\ LET made == {p \in Pulls : pr[p].made}
         mx   == CHOOSE u \in {pr[p].updated : p \in made} \cup {0} : \A p \in made : pr[p].updated <= u
     IN cursor' = [cursor EXCEPT !["pulls"] = IF made # {} THEN mx ELSE now]
  /\ baselined' = TRUE /\ since' = now /\ passAt' = "baseline"
  /\ UNCHANGED <<etag, health, tick, emitted>> /\ Still

Rowless(r) == cursor[r] = 0

\* The other cursors, one row after the other, with the time the tick began.
BaselineRest(r) ==
  /\ passAt = "baseline" /\ Rowless(r) /\ (r = "checks" => ~Rowless("comments"))
  /\ cursor' = [cursor EXCEPT ![r] = since]
  /\ passAt' = IF r = "checks" THEN "idle" ELSE passAt
  /\ UNCHANGED <<known, etag, baselined, health, tick, emitted, since>> /\ Still

\* The next pass of runPasses, or the end of the tick.
After(r) ==
  /\ passAt' = IF r = "checks" THEN "idle" ELSE Passes[Before(r) + 1]
  /\ tick' = [NoTick EXCEPT !.touched = IF r = "pulls" THEN (tick.touched \cup {tick.pull}) \ {0}
                                         ELSE tick.touched]

StartTick ==
  /\ passAt = "idle" /\ baselined /\ passAt' = "pulls" /\ tick' = NoTick
  /\ UNCHANGED <<known, cursor, etag, baselined, health, emitted, since>> /\ Still

\* resourceDue: not inside a backoff, and not disabled before the re-check.
Due(r) == health[r].wait = 0

Skip(r) ==
  /\ passAt = r /\ tick = [NoTick EXCEPT !.touched = tick.touched] /\ ~Due(r)
  /\ health' = [health EXCEPT ![r].wait = @ - 1]
  /\ After(r)
  /\ UNCHANGED <<known, cursor, etag, baselined, emitted, since>> /\ Still

ResourceOK(r) == health' = [health EXCEPT ![r] = [wait |-> 0, disabled |-> FALSE]]

\* resourceTransient and resourceDenied: only this resource pays.
Failed(r, wait, off) ==
  /\ health' = [health EXCEPT ![r] = [wait |-> wait, disabled |-> off]]
  /\ After(r)

\* A request of the pass fails, or is refused; nothing the pass did is undone.
FailPass(r) ==
  /\ passAt = r /\ Due(r)
  /\ \/ faults < MaxFaults /\ faults' = faults + 1 /\ Failed(r, 1, FALSE)
     \/ r \in denied /\ faults' = faults /\ Failed(r, 2, TRUE)
  /\ UNCHANGED <<known, cursor, etag, baselined, emitted, since, forgeVars, denied>>

Running(r) == passAt = r /\ Due(r) /\ r \notin denied
Fresh(r)   == Running(r) /\ tick = [NoTick EXCEPT !.touched = tick.touched]

\* touchCursor ends a pass, and fails where there is no row to touch.
TouchCursor(r, t) ==
  IF Rowless(r) THEN Failed(r, 1, FALSE) /\ UNCHANGED cursor
  ELSE cursor' = [cursor EXCEPT ![r] = t] /\ ResourceOK(r) /\ After(r)

\* Emit drops duplicates.
Says(key) == emitted' = emitted \cup {key}

------------------------------------------------------------------------------
(* pollPulls. *)

Version == CHOOSE v \in {pr[p].change : p \in Pulls} : \A p \in Pulls : pr[p].change <= v

\* The request carries the ETag of the listing before it, if there was one.
NotModified == etag # 0 /\ etag = Version

\* The listing, oldest first; a 304 ends the pass.
ListPulls ==
  /\ Fresh("pulls")
  /\ LET listed == {p \in Pulls : pr[p].made /\ pr[p].updated >= cursor["pulls"]}
     IN IF NotModified \/ listed = {}
        THEN ResourceOK("pulls") /\ After("pulls")
        ELSE /\ tick' = [tick EXCEPT !.todo = listed, !.listing = {<<p, pr[p]>> : p \in listed},
                           !.top = cursor["pulls"], !.version = Version]
             /\ UNCHANGED <<health, passAt>>
  /\ UNCHANGED <<known, cursor, etag, baselined, emitted, since>> /\ Still

Listed(p) == (CHOOSE x \in tick.listing : x[1] = p)[2]

\* What happened since the recorded state.
DeriveActivities(prev, r) ==
  IF ~prev.seen THEN {IF r.open THEN "opened" ELSE "closed"}
  ELSE {a \in {"synchronize", "ready_for_review", "opened", "closed"} :
          \/ a = "synchronize" /\ r.head # prev.head /\ r.open
          \/ a = "ready_for_review" /\ prev.open /\ r.open /\ prev.draft /\ ~r.draft
          \/ a = "opened" /\ ~prev.open /\ r.open
          \/ a = "closed" /\ prev.open /\ ~r.open}

\* The next pull request of the listing; with an activity its detail is read, which may be
\* newer than the listing; if that fails, the listing serves.
TakePull(p) ==
  /\ Running("pulls") /\ tick.pull = 0 /\ p \in tick.todo
  /\ \A q \in tick.todo : Listed(p).updated <= Listed(q).updated
  /\ \E detail \in IF faults < MaxFaults THEN {pr[p], Listed(p)} ELSE {pr[p]} :
       LET acts == DeriveActivities(known[p], Listed(p))
       IN /\ tick' = [tick EXCEPT !.pull = p, !.acts = acts, !.top = Later(@, Listed(p).updated),
                        !.listing = IF acts = {} THEN @ ELSE {x \in @ : x[1] # p} \cup {<<p, detail>>}]
          /\ faults' = IF acts # {} /\ detail # pr[p] THEN faults + 1 ELSE faults
  /\ UNCHANGED <<known, cursor, etag, baselined, health, passAt, emitted, since, forgeVars, denied>>

\* emitPREvent; the key is the activity and the head.
EmitPREvent(a) ==
  /\ Running("pulls") /\ a \in tick.acts
  /\ Says(<<a, tick.pull, Listed(tick.pull).head>>)
  /\ tick' = [tick EXCEPT !.acts = @ \ {a}]
  /\ UNCHANGED <<known, cursor, etag, baselined, health, passAt, since>> /\ Still

EmittedAll == tick.pull # 0 /\ tick.acts = {}

\* The upsert behind the events of one pull request.
RecordPull ==
  /\ Running("pulls") /\ EmittedAll
  /\ LET p == tick.pull
         r == Listed(p)
     IN /\ known' = [known EXCEPT ![p] =
             [seen |-> TRUE, open |-> r.open, head |-> r.head, draft |-> r.draft, reviewed |-> @.reviewed]]
        /\ tick' = [tick EXCEPT !.pull = 0, !.acts = {}, !.todo = @ \ {p}, !.touched = @ \cup {p}]
  /\ UNCHANGED <<cursor, etag, baselined, health, passAt, emitted, since>> /\ Still

EndPulls ==
  /\ Running("pulls") /\ tick.pull = 0 /\ tick.todo = {} /\ tick.listing # {}
  /\ cursor' = [cursor EXCEPT !["pulls"] = tick.top] /\ etag' = tick.version
  /\ ResourceOK("pulls") /\ After("pulls")
  /\ UNCHANGED <<known, baselined, emitted, since>> /\ Still

------------------------------------------------------------------------------
(* The other passes. *)

\* One touched pull request: its reviews from the cursor on, then the cursor.
PollReviews(p) ==
  /\ Running("reviews") /\ p \in tick.touched
  /\ LET rs == {r \in reviews : r.pull = p /\ r.at >= known[p].reviewed}
     IN /\ emitted' = emitted \cup {<<"review", r.id, r.at>> : r \in rs}
        /\ known' = [known EXCEPT ![p].reviewed =
             CHOOSE t \in {r.at : r \in rs} \cup {@} : \A r \in rs : r.at <= t]
  /\ tick' = [tick EXCEPT !.touched = @ \ {p}]
  /\ UNCHANGED <<cursor, etag, baselined, health, passAt, since>> /\ Still

EndReviews ==
  /\ Running("reviews") /\ tick.touched = {}
  /\ ResourceOK("reviews") /\ After("reviews")
  /\ UNCHANGED <<known, cursor, etag, baselined, emitted, since>> /\ Still

CreatedOrEdited(c) == c.updated >= cursor["comments"]

\* An edit reappears in the listing, but it was created before.
Created(c) == c.updated >= cursor["comments"] /\ c.at >= cursor["comments"]

\* What is listed, oldest update first.  From a cursor on that is everything (Listing is about the
\* rest); without one it may be more than the pages hold, and ends early.
Listings ==
  {cs \in SUBSET comments :
     IF Rowless("comments") THEN \A c \in cs, d \in comments \ cs : c.updated <= d.updated ELSE cs = comments}

\* One listing, behind one cursor.
PollComments ==
  /\ Fresh("comments")
  /\ \E cs \in Listings :
       /\ emitted' = emitted \cup {<<"comment", c.id, c.at>> : c \in {d \in cs : Created(d)}}
       /\ TouchCursor("comments",
            CHOOSE t \in {c.updated : c \in cs} \cup {cursor["comments"]} :
              \A u \in {c.updated : c \in cs} \cup {cursor["comments"]} : u <= t)
  /\ UNCHANGED <<known, etag, baselined, since>> /\ Still

\* The open heads, one listing each, all behind one cursor that moves at the end.
ListHeads ==
  /\ Fresh("checks")
  /\ LET heads == {p \in Pulls : known[p].seen /\ known[p].open}
     IN IF heads = {} THEN TouchCursor("checks", cursor["checks"])
        ELSE tick' = [tick EXCEPT !.todo = heads, !.top = cursor["checks"]] /\ UNCHANGED <<cursor, health, passAt>>
  /\ UNCHANGED <<known, etag, baselined, emitted, since>> /\ Still

PollChecks(p) ==
  /\ Running("checks") /\ p \in tick.todo /\ \A q \in tick.todo : p <= q
  /\ LET cs == {s \in suites : s.pull = p /\ s.head = known[p].head /\ s.at >= cursor["checks"]}
     IN /\ emitted' = emitted \cup {<<"check", s.id, s.at>> : s \in cs}
        /\ LET top == CHOOSE t \in {s.at : s \in cs} \cup {tick.top} : \A s \in cs : s.at <= t
           IN IF tick.todo = {p}
              THEN TouchCursor("checks", Later(top, tick.top))
              ELSE /\ tick' = [tick EXCEPT !.todo = @ \ {p}, !.top = Later(top, @)]
                   /\ UNCHANGED <<cursor, health, passAt>>
  /\ UNCHANGED <<known, etag, baselined, since>> /\ Still

\* The process dies: health and the tick are in memory only.
PollerCrash ==
  /\ faults < MaxFaults /\ faults' = faults + 1
  /\ passAt' = "idle" /\ tick' = NoTick
  /\ health' = [r \in Resources |-> [wait |-> 0, disabled |-> FALSE]]
  /\ UNCHANGED <<known, cursor, etag, baselined, emitted, since, forgeVars, denied>>

------------------------------------------------------------------------------
OnForge ==
  \/ \E p \in Pulls : OpenPull(p) \/ ChangePull(p) \/ Review(p) \/ CompleteSuite(p)
  \/ Comment \/ (\E c \in comments : EditComment(c)) \/ Clock
  \/ \E r \in Resources : Permissions(r)

InTick ==
  \/ BaselinePulls \/ (\E r \in {"comments", "checks"} : BaselineRest(r))
  \/ StartTick \/ ListPulls \/ RecordPull \/ EndPulls \/ EndReviews \/ PollComments \/ ListHeads
  \/ \E p \in Pulls : TakePull(p) \/ PollReviews(p) \/ PollChecks(p)
  \/ \E a \in tick.acts : EmitPREvent(a)
  \/ \E r \in Resources : Skip(r)

PollerInit ==
  /\ pr = [p \in Pulls |-> [made |-> FALSE, open |-> FALSE, head |-> 0, draft |-> FALSE, updated |-> 0, change |-> 0]]
  /\ reviews = {} /\ comments = {} /\ suites = {}
  /\ now = 1 /\ changes = 0 /\ faults = 0 /\ denied = {}
  /\ known = [p \in Pulls |-> Unseen] /\ cursor = [r \in {"pulls", "comments", "checks"} |-> 0]
  /\ etag = 0 /\ baselined = FALSE
  /\ health = [r \in Resources |-> [wait |-> 0, disabled |-> FALSE]]
  /\ passAt = "idle" /\ tick = NoTick /\ emitted = {}
  /\ since = 0

PollerNext == OnForge \/ InTick \/ (\E r \in Resources : FailPass(r)) \/ PollerCrash

\* The worker ticks for ever, and a refusal is an answer too.
PollerFairness == WF_pollerVars(InTick \/ \E r \in denied : FailPass(r))

PollerSpec == PollerInit /\ [][PollerNext]_pollerVars /\ PollerFairness

------------------------------------------------------------------------------
(* Properties. *)

\* Nothing that was there before the project was connected fires a trigger, and neither does
\* editing it later (baseline, pollComments).  The exception is exact: a crash within the
\* baseline leaves listings without a row, and what such a listing brings is announced.
OldStaysQuiet ==
  \A k \in emitted :
    /\ k[1] = "review" => k[3] >= since
    /\ k[1] = "comment" => k[3] >= since \/ Rowless("comments")
    /\ k[1] = "check" => k[3] >= since \/ Rowless("checks")

\* The same, crash or not (poller.go: "A repo with 40 open PRs must not fire 40 triggers on
\* connect").  Not so: the pull cursor says the baseline is done before the others exist.
ConnectIsQuiet ==
  \A k \in emitted : k[1] \in {"review", "comment", "check"} => k[3] >= since

\* A comment is delivered however the other resources fare: refused ones, failed passes and
\* crashes delay it at most (runPasses, resourceDenied, resourceOK).  The one exception is a
\* crash within the baseline before the row of the comments is written: every later pass then
\* lists from the beginning and fails at touchCursor, so a comment behind the last page never comes.
CommentsDelivered ==
  []<>(\/ "comments" \in denied
       \/ "pulls" \in denied /\ ~baselined
       \/ baselined /\ Rowless("comments")
       \/ \A c \in comments : c.at > since /\ since # 0 => <<"comment", c.id, c.at>> \in emitted)

\* A pull request first seen after the baseline is announced before it is recorded, so a
\* failure or a crash in between repeats the announcement instead of losing it (pollPulls).
AnnouncedThenRecorded ==
  \A p \in Pulls : baselined /\ ~known[p].seen /\ known'[p].seen =>
    \E k \in emitted : k[1] \in {"opened", "closed"} /\ k[2] = p

\* A pull request already closed when the event is made is not announced as opened.  Not so:
\* the activity is derived from the listing, and the detail read behind it may find it closed.
GoneIsNotOpened ==
  [][\A p \in Pulls : (\E h \in 1..2 : <<"opened", p, h>> \in emitted' \ emitted) =>
       \A x \in tick.listing : x[1] = p => x[2].open]_pollerVars

\* The poller tells what is new and nothing else, now or in the end: old activity stays
\* quiet, a pull request is announced before it is recorded, and comments arrive.
NewsIsTold == [][OldStaysQuiet' /\ AnnouncedThenRecorded]_pollerVars /\ CommentsDelivered
=============================================================================
