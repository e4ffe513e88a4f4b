----------------------------- MODULE ForgeClient -----------------------------
(***************************************************************************)
(* Talking to the forge.  One transport carries every request: a gate for  *)
(* a budget known to be spent, retries of 5xx, one sleep through a close    *)
(* reset.  On it submit_review: a review, a refused REQUEST_CHANGES tried   *)
(* again as a comment, the record of the write, the event about it.         *)
(*                                                                          *)
(* The module's health is the set of its outstanding causes.  Each cause    *)
(* is noted under one lock and reported under another, in two steps.        *)
(***************************************************************************)
EXTENDS Naturals, FiniteSets

CONSTANTS
  Reviewers,    \* submit_review calls
  Readers,      \* requests of the poller
  Scopes,    \* what the poller reads for the project
  MaxAttempts,  \* maxAttempts: tries of a request the forge answers with 5xx
  MaxSleep,     \* maxSleep: the longest wait for a reset
  MaxTime,       \* bound: instants
  MaxPasses     \* bound: poller passes whose outcome changes something

Requests == Reviewers \cup Readers

ASSUME ClientAssumption ==
  /\ Reviewers \cap Readers = {} /\ "rate-limit" \notin Scopes
  /\ MaxAttempts \in Nat \ {0} /\ {MaxSleep, MaxTime, MaxPasses} \subseteq Nat

VARIABLES
  clock, blockedUntil, degraded,   \* transport; 0 means not blocked
  request,                       \* the requests and, around them, the review calls
  forge, announced, cut,         \* reviews on the forge; events; calls cut off after writing
  causes,                        \* moduleHealth
  refused, noted, forgetting, overtaken, passes

budgetVars == <<blockedUntil, degraded>>
reviewVars == <<forge, announced, cut>>
healthVars == <<refused, noted, forgetting, overtaken, passes>>
clientVars  == <<clock, budgetVars, request, reviewVars, causes, healthVars>>

NoRequest == [pc |-> "idle", intended |-> "none", event |-> "none", tries |-> 0, sent |-> 0, slept |-> FALSE,
         until |-> 0, next |-> "none", id |-> 0]

Step(c, r) == request' = [request EXCEPT ![c] = r]
Doing(c, pc)  == request[c].pc = pc

------------------------------------------------------------------------------
(* RoundTrip. *)

\* toolSubmitReview: the findings call for an event, unless the agent names one.  Any event
\* other than these two is refused before the forge is asked, and so is an ungranted review.
SubmitReview(c, e) ==
  /\ Doing(c, "idle") /\ Step(c, [NoRequest EXCEPT !.pc = "gate", !.intended = e, !.event = e])
  /\ UNCHANGED <<clock, budgetVars, reviewVars, causes, healthVars>>

Read(c) ==
  /\ Doing(c, "idle") /\ Step(c, [NoRequest EXCEPT !.pc = "gate"])
  /\ UNCHANGED <<clock, budgetVars, reviewVars, causes, healthVars>>

\* waitIfBlocked: a close reset is waited for, a far one fails the request unsent.
WaitIfBlocked(c) ==
  /\ Doing(c, "gate")
  /\ Step(c, IF blockedUntil <= clock THEN [request[c] EXCEPT !.pc = "send"]
             ELSE IF blockedUntil > clock + MaxSleep THEN [request[c] EXCEPT !.pc = "failed"]
             ELSE [request[c] EXCEPT !.pc = "asleep", !.until = blockedUntil])
  /\ UNCHANGED <<clock, budgetVars, reviewVars, causes, healthVars>>

Wake(c) ==
  /\ Doing(c, "asleep") /\ clock >= request[c].until
  /\ Step(c, [request[c] EXCEPT !.pc = "send"])
  /\ UNCHANGED <<clock, budgetVars, reviewVars, causes, healthVars>>

\* recordBudget: the budget under the lock, the report after it.
RecordBudget(c, r, next, until) ==
  /\ degraded' = FALSE /\ blockedUntil' = IF until > clock THEN until ELSE 0
  /\ Step(c, [r EXCEPT !.pc = IF degraded THEN "healthy" ELSE next, !.next = next])

Exhaust(c, r, reset) ==
  /\ degraded' = TRUE /\ blockedUntil' = reset
  /\ Step(c, [r EXCEPT !.pc = IF degraded THEN "failed" ELSE "exhausted", !.next = "failed"])

\* onHealthy, onExhausted: one cause of the module's health.
Report(c) ==
  /\ request[c].pc \in {"healthy", "exhausted"}
  /\ causes' = IF Doing(c, "healthy") THEN causes \ {"rate-limit"} ELSE causes \cup {"rate-limit"}
  /\ Step(c, [request[c] EXCEPT !.pc = request[c].next])
  /\ UNCHANGED <<clock, budgetVars, reviewVars, healthVars>>

MaySleep(r, reset) == reset > clock /\ reset <= clock + MaxSleep /\ ~r.slept

\* The forge answers, or the network fails.  A write may have been carried out before a 5xx
\* or a network failure; after a sleep its body is spent and it cannot be sent again.
Sendable(c) == Doing(c, "send") /\ ~(c \in Reviewers /\ request[c].slept)
Sent(c) == [request[c] EXCEPT !.sent = IF Sendable(c) THEN @ + 1 ELSE @]

\* Only a refused REQUEST_CHANGES is tried again, as a comment.
RetryAny(r, by422) == r.event = "REQUEST_CHANGES"
Retry(r, by422) == r.event = "REQUEST_CHANGES" /\ by422

AfterFailure(c, r, by422) ==
  IF c \in Reviewers /\ Retry(r, by422)
  THEN [NoRequest EXCEPT !.pc = "gate", !.intended = r.intended, !.event = "COMMENT", !.sent = r.sent]
  ELSE [r EXCEPT !.pc = "failed"]

Written(c) == forge \cup {[id |-> Cardinality(forge) + 1, call |-> c, event |-> request[c].event]}

\* Done; the answer may spend the budget until a later instant.
Accepted(c, until) ==
  /\ Sendable(c)
  /\ RecordBudget(c, [Sent(c) EXCEPT !.id = Cardinality(forge) + 1], IF c \in Reviewers THEN "emit" ELSE "done", until)
  /\ forge' = IF c \in Reviewers THEN Written(c) ELSE forge
  /\ UNCHANGED <<clock, announced, cut, causes, healthVars>>

\* 422: GitHub refuses the event and writes nothing.
Refused(c) ==
  /\ Sendable(c) /\ c \in Reviewers
  /\ LET r == AfterFailure(c, Sent(c), TRUE) IN RecordBudget(c, r, r.pc, 0)
  /\ UNCHANGED <<clock, reviewVars, causes, healthVars>>

ServerError(c, wrote) ==
  /\ Sendable(c)
  /\ wrote => c \in Reviewers
  /\ forge' = IF wrote THEN Written(c) ELSE forge
  /\ cut' = IF wrote THEN cut \cup {c} ELSE cut
  /\ IF request[c].tries + 1 < MaxAttempts
     THEN Step(c, [Sent(c) EXCEPT !.tries = @ + 1]) /\ UNCHANGED budgetVars
     ELSE LET r == AfterFailure(c, Sent(c), FALSE) IN RecordBudget(c, r, r.pc, 0)
  /\ UNCHANGED <<clock, announced, causes, healthVars>>

NetworkError(c, wrote) ==
  /\ Doing(c, "send")
  /\ wrote => c \in Reviewers /\ Sendable(c)
  /\ forge' = IF wrote THEN Written(c) ELSE forge
  /\ Step(c, AfterFailure(c, Sent(c), FALSE))
  /\ UNCHANGED <<clock, budgetVars, announced, cut, causes, healthVars>>

\* A 403 or 429 without budget: sleep through a close reset and try once more, or give up.
RateLimited(c, reset) ==
  /\ Sendable(c)
  /\ IF MaySleep(request[c], reset)
     THEN /\ Step(c, [Sent(c) EXCEPT !.pc = "asleep", !.until = reset, !.slept = TRUE, !.tries = 0])
          /\ UNCHANGED budgetVars
     ELSE Exhaust(c, Sent(c), reset)
  /\ UNCHANGED <<clock, reviewVars, causes, healthVars>>

\* What the forge accepted.
ReviewState(r) == r.event

\* emitAgentReview; an event that cannot be written is not tried again.
EmitAgentReview(c) ==
  /\ Doing(c, "emit") /\ Step(c, [request[c] EXCEPT !.pc = "done"])
  /\ \/ announced' = announced \cup {[id |-> request[c].id, state |-> ReviewState(request[c])]}
     \/ announced' = announced
  /\ UNCHANGED <<clock, budgetVars, forge, cut, causes, healthVars>>

ClockTicks ==
  /\ clock < MaxTime /\ clock' = clock + 1
  /\ UNCHANGED <<budgetVars, request, reviewVars, causes, healthVars>>

------------------------------------------------------------------------------
(* The poller's resources: refused for good, or readable again. *)

\* The state is noted before it is reported; a connect in between overtakes the report.
Pass(r, isRefused) ==
  /\ noted[r] = "none" /\ passes < MaxPasses /\ passes' = passes + 1
  /\ refused' = IF isRefused THEN refused \cup {r} ELSE refused \ {r}
  /\ overtaken' = (overtaken \/ r \in forgetting)
  /\ UNCHANGED <<clock, budgetVars, request, reviewVars, causes, forgetting>>

ScopeDenied(r) == Pass(r, TRUE) /\ noted' = [noted EXCEPT ![r] = "refused"]

ScopeReadable(r) == Pass(r, FALSE) /\ noted' = [noted EXCEPT ![r] = IF r \in refused THEN "readable" ELSE "none"]

ReportResource(r) ==
  /\ noted[r] # "none" /\ noted' = [noted EXCEPT ![r] = "none"]
  /\ causes' = IF noted[r] = "refused" THEN causes \cup {r} ELSE causes \ {r}
  /\ UNCHANGED <<clock, budgetVars, request, reviewVars, refused, forgetting, overtaken, passes>>

\* forgetResources, on connect and disconnect.
ForgetResources ==
  /\ forgetting = {}
  /\ forgetting' = Scopes /\ refused' = {}
  /\ overtaken' = (overtaken \/ \E r \in Scopes : noted[r] # "none")
  /\ UNCHANGED <<clock, budgetVars, request, reviewVars, causes, noted, passes>>

ForgetCause(r) ==
  /\ r \in forgetting /\ forgetting' = forgetting \ {r} /\ causes' = causes \ {r}
  /\ UNCHANGED <<clock, budgetVars, request, reviewVars, refused, noted, overtaken, passes>>

------------------------------------------------------------------------------
ClientInit ==
  /\ clock = 1 /\ blockedUntil = 0 /\ degraded = FALSE
  /\ request = [c \in Requests |-> NoRequest] /\ forge = {} /\ announced = {} /\ cut = {}
  /\ causes = {} /\ refused = {} /\ noted = [r \in Scopes |-> "none"]
  /\ forgetting = {} /\ overtaken = FALSE /\ passes = 0

Forge(c) ==
  \/ Refused(c)
  \/ \E w \in BOOLEAN : ServerError(c, w) \/ NetworkError(c, w)
  \/ \E t \in 0..MaxTime : Accepted(c, t) \/ RateLimited(c, t)

TransportNext ==
  \/ \E c \in Reviewers, e \in {"COMMENT", "REQUEST_CHANGES"} : SubmitReview(c, e)
  \/ \E c \in Readers : Read(c)
  \/ \E c \in Requests : WaitIfBlocked(c) \/ Wake(c) \/ Forge(c) \/ Report(c) \/ EmitAgentReview(c)
  \/ ClockTicks

ScopesNext ==
  \/ \E r \in Scopes : ScopeDenied(r) \/ ScopeReadable(r) \/ ReportResource(r) \/ ForgetCause(r)
  \/ ForgetResources

ClientNext == TransportNext \/ ScopesNext

ClientSpec == ClientInit /\ [][ClientNext]_clientVars

------------------------------------------------------------------------------
(* Properties. *)

Events == {"COMMENT", "REQUEST_CHANGES"}
Rows ==
  [pc : {"idle", "gate", "send", "asleep", "healthy", "exhausted", "emit", "done", "failed"},
   intended : Events \cup {"none"}, event : Events \cup {"none"}, tries : 0..(MaxAttempts - 1), sent : Nat,
   slept : BOOLEAN, until : Nat, next : {"none", "gate", "emit", "done", "failed"}, id : Nat]

ClientTypeOK ==
  /\ clock \in Nat /\ blockedUntil \in Nat /\ degraded \in BOOLEAN
  /\ request \in [Requests -> Rows]
  /\ \A c \in Requests : request[c].pc \in {"healthy", "exhausted"} => request[c].next # "none"
  /\ forge \subseteq [id : Nat, call : Reviewers, event : Events] /\ IsFiniteSet(forge)
  /\ announced \subseteq [id : Nat, state : Events] /\ cut \subseteq Reviewers
ScopesTypeOK ==
  /\ causes \subseteq Scopes \cup {"rate-limit"} /\ {refused, forgetting} \subseteq SUBSET Scopes
  /\ noted \in [Scopes -> {"none", "refused", "readable"}]
  /\ overtaken \in BOOLEAN /\ passes \in 0..MaxPasses

\* Once a call's review is on the forge, the call asks for nothing more; one whose review was
\* written under a 5xx is excepted: the transport sends it again.
Ahead(c, pcs) ==
  request[c].pc \in pcs \/ (request[c].pc \in {"healthy", "exhausted"} /\ request[c].next \in pcs)
WrittenIsSettled ==
  \A r \in forge : r.call \notin cut => Ahead(r.call, {"emit", "done", "failed"})

\* A tool call leaves at most one review on the forge: only a refusal, which writes nothing,
\* is tried again as a comment (ErrReviewEventRejected).
OneReviewPerCall == \A r, s \in forge : r.call = s.call /\ r.call \notin cut => r = s

\* The event that continues a workflow says what the forge accepted, not what was asked for
\* (emitAgentReview, reviewState).
Posted(id, state) == \E r \in forge : r.id = id /\ r.event = state
EventSaysAccepted ==
  /\ \A a \in announced : Posted(a.id, a.state)
  /\ \A c \in Requests : Ahead(c, {"emit"}) =>
       c \in Reviewers /\ Posted(request[c].id, request[c].event)

\* However the forge answers, a call asks it only so often: a read is tried MaxAttempts
\* times before one sleep and after it, a review for each of its two events (RoundTrip,
\* attemptWithRetries, toolSubmitReview).
BoundedRequests == \A c \in Requests : request[c].sent <= 2 * MaxAttempts

\* Of those, as many are left as the tries still to come may need.
Again(c) == request[c].event # request[c].intended
LeftToSend ==
  \A c \in Requests :
    /\ c \in Reviewers /\ Again(c) => request[c].event = "COMMENT"
    /\ c \in Readers => ~Again(c)
    /\ Ahead(c, {"gate", "send", "asleep"}) =>
         /\ c \in Reviewers => request[c].event \in Events
         /\ request[c].sent <= (IF Again(c) THEN MaxAttempts ELSE 0) +
              (IF ~request[c].slept THEN request[c].tries
               ELSE IF c \in Reviewers THEN MaxAttempts ELSE MaxAttempts + request[c].tries)

\* With the poller between two passes the card shows a resource exactly while it is refused,
\* unless a connect overtook a report (resourceOK, resourceDenied, forgetResources).
CauseMeansDenied ==
  forgetting = {} /\ ~overtaken => \A r \in Scopes : noted[r] = "none" => (r \in causes <=> r \in refused)

\* So it is while a pass or a connect goes on, of what they have not reached.
ReportsAreDue ==
  ~overtaken => \A r \in Scopes :
    /\ noted[r] = "none" /\ r \notin forgetting => (r \in causes <=> r \in refused)
    /\ noted[r] # "none" => r \notin forgetting /\ (r \in refused <=> noted[r] = "refused")
    /\ r \in forgetting => r \notin refused

\* However the forge answers, a call leaves one review, of the kind that is announced, after
\* a bounded number of requests; and the card shows what is refused (toolSubmitReview,
\* attemptWithRetries, resourceDenied).
TransportInv ==
  /\ ClientTypeOK /\ WrittenIsSettled /\ OneReviewPerCall /\ EventSaysAccepted
  /\ BoundedRequests /\ LeftToSend
ForgeClientInv == TransportInv /\ ScopesTypeOK /\ CauseMeansDenied /\ ReportsAreDue
==============================================================================
