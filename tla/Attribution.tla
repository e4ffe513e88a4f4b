------------------------------- MODULE Attribution -------------------------------
(***************************************************************************)
(* Whose doing is it?  The poller sees what happened to a pull request and *)
(* names the agent, and the run, behind it: from a marker in the text that *)
(* was written, from the commit that was pushed, from the branch.  The     *)
(* depth of a chain is counted along these runs, and starts again with a   *)
(* human's word.                                                           *)
(*                                                                         *)
(* One project and one pull request; the runs of it work on its branch.    *)
(* Texts, names and templates are sequences of what the poller looks for.  *)
(***************************************************************************)
EXTENDS Integers, Sequences, SequencesExt, FiniteSets

CONSTANTS
  Hands,       \* the agents of the project, in the order they are listed
  HandOf,      \* run -> its agent; runs are numbered as they are queued
  HandName,    \* agent -> its name, a sequence of letters
  Templates,   \* branch templates: literals, "{agent}" and "{key}"
  MaxSlug,
  Person,      \* who is no agent
  Stranger,    \* an agent id that is none here
  MaxPushes    \* bound

Shifts == DOMAIN HandOf
NoHand == "none"

\* A run's agent is one of the project's, and an agent is someone.
ASSUME AttributionAssumption ==
  /\ HandOf \in Seq({Hands[n] : n \in DOMAIN Hands})
  /\ NoHand \notin {Hands[n] : n \in DOMAIN Hands}

VARIABLES
  shift,       \* run -> none, going, ended, old, or lost
  template,
  offer,       \* the pull request
  tip,         \* its head commit
  seenTip,     \* the head poll_pr_state has
  spoken,      \* a text on the forge and not polled yet, at most one
  said         \* the last event, and in `truth' and `read' what really happened

attributionVars == <<shift, template, offer, tip, seenTip, spoken, said>>

\* An attribution, and who it really was: an agent, and a run where there is one.
Nothing == [agent |-> NoHand, run |-> 0]
Someone == [agent |-> Person, run |-> 0]
OfRun(r)   == [agent |-> HandOf[r], run |-> r]

NoOffer == [state |-> "none", by |-> Nothing, body |-> <<>>, branch |-> <<>>]
NoTip   == [no |-> 0, by |-> Nothing, trailer |-> 0, mails |-> {}]
NoText  == [act |-> "none", by |-> Nothing, bot |-> FALSE, body |-> <<>>, plain |-> FALSE]
Silence == [act |-> "none", kind |-> "none", says |-> "none", agent |-> NoHand, cause |-> 0,
            truth |-> Nothing, read |-> FALSE]

------------------------------------------------------------------------------
(* Branch names. *)

Letters == {"d", "e", "v", "2"}
Folded(c) == IF c = "E'" THEN "e" ELSE IF c \in Letters THEN c ELSE ""

\* The branch builder's: accents are folded, and a long name is cut at a word.
Slugify(name) ==
  LET Put(s, c) ==
        IF s.cut THEN s
        ELSE IF Folded(c) = "" THEN [s EXCEPT !.gap = s.out # <<>>]
        ELSE LET parted == IF s.gap THEN Append(s.out, "-") ELSE s.out
                 dashes == {i \in 2 .. Len(s.out) : s.out[i] = "-"}
             IN IF Len(parted) < MaxSlug THEN [out |-> Append(parted, Folded(c)), gap |-> FALSE, cut |-> FALSE]
                ELSE [s EXCEPT !.cut = TRUE,
                        !.out = IF s.gap \/ dashes = {} THEN @
                                ELSE SubSeq(@, 1, (CHOOSE i \in dashes : \A j \in dashes : j <= i) - 1)]
  IN FoldLeft(Put, [out |-> <<>>, gap |-> FALSE, cut |-> FALSE], name).out

\* The poller's: neither.
AgentSlug(name) ==
  LET Put(s, c) ==
        IF c \in Letters
        THEN [out |-> Append(IF s.gap THEN Append(s.out, "-") ELSE s.out, c), gap |-> FALSE]
        ELSE [s EXCEPT !.gap = s.out # <<>>]
  IN FoldLeft(Put, [out |-> <<>>, gap |-> FALSE], name).out

BranchName(tmpl, a) ==
  FoldLeft(LAMBDA out, x : out \o (CASE x = "{agent}" -> Slugify(HandName[a]) [] x = "{key}" -> <<"K", "1">> [] OTHER -> <<x>>),
           <<>>, tmpl)

\* The literal text around {agent} is a prefix, with the slug in it.
BranchMatchesAgent(branch, tmpl, a) ==
  LET i    == IF Contains(tmpl, "{agent}") THEN CHOOSE n \in DOMAIN tmpl : tmpl[n] = "{agent}" ELSE 0
      pre  == SubSeq(tmpl, 1, i - 1)
      rest == SubSeq(tmpl, i + 1, Len(tmpl))
      j    == SelectInSeq(rest, LAMBDA x : x = "{key}")
      slug == AgentSlug(HandName[a])
  IN /\ i # 0 /\ ~Contains(pre, "{key}") /\ slug # <<>>
     /\ IF j = 0 THEN branch = pre \o slug \o rest
        ELSE j > 1 /\ IsPrefix(pre \o slug \o SubSeq(rest, 1, j - 1), branch)

------------------------------------------------------------------------------
(* Signals. *)

Known(a) == \E n \in DOMAIN Hands : Hands[n] = a
First(Fits(_)) ==
  LET ns == {n \in DOMAIN Hands : Fits(Hands[n])}
  IN IF ns = {} THEN Nothing
     ELSE [agent |-> Hands[CHOOSE n \in ns : \A m \in ns : n <= m], run |-> 0]

ParseMarker(body) == IF body = <<>> THEN Nothing ELSE body[1]
AttributeBody(body) == IF Known(ParseMarker(body).agent) THEN ParseMarker(body) ELSE Nothing

Stored(r) == r # 0 /\ shift[r] \notin {"none", "lost"}
AttributeTrailer(r) == IF Stored(r) THEN [agent |-> HandOf[r], run |-> r] ELSE Nothing
AttributeEmail(mails) == First(LAMBDA a : a \in mails)
AttributeBranch(branch) == First(LAMBDA a : BranchMatchesAgent(branch, template, a))

Or(att, other) == IF att = Nothing THEN other ELSE att

\* Mutant: as for any other activity, the body of the pull request goes first.
AttributePushByBody(read) ==
  LET commit == IF read THEN Or(AttributeTrailer(tip.trailer), AttributeEmail(tip.mails)) ELSE Nothing
  IN Or(Or(AttributeBody(offer.body), commit), AttributeBranch(offer.branch))

\* A push has no text of its own: the commit tells, if it can be read, then the branch, and
\* the body of the pull request at last, but not the run in it.
AttributePush(read) ==
  LET commit == IF read THEN Or(AttributeTrailer(tip.trailer), AttributeEmail(tip.mails)) ELSE Nothing
  IN Or(Or(commit, AttributeBranch(offer.branch)), [AttributeBody(offer.body) EXCEPT !.run = 0])

\* The agent's latest run on the branch, one that goes on before one that ended.
LatestForAgentOnBranch(a) ==
  LET mine  == {r \in Shifts : Stored(r) /\ HandOf[r] = a}
      going == {r \in mine : shift[r] = "going"}
      of    == IF going # {} THEN going ELSE mine
  IN IF of = {} THEN 0 ELSE CHOOSE r \in of : \A q \in of : q <= r

CauseRun(a) ==
  LET r == LatestForAgentOnBranch(a)
  IN IF r # 0 /\ shift[r] # "old" THEN r ELSE 0

ActorKindFor(person) == IF person THEN "human" ELSE "external"

ActorBody(att, person) == IF att # Nothing THEN "agent" ELSE ActorKindFor(person)

\* The envelope; only with its pull request at hand has it a branch.  The bus refuses an event caused by a run it does not have.
NewEvent(act, att, onPull, person, truth, read) ==
  LET cause == IF att = Nothing THEN 0 ELSE IF att.run # 0 THEN att.run
               ELSE IF onPull THEN CauseRun(att.agent) ELSE 0
  IN /\ cause = 0 \/ Stored(cause)
     /\ said' = [act |-> act, kind |-> IF att # Nothing THEN "agent" ELSE ActorKindFor(person),
                 says |-> ActorBody(att, person),
                 agent |-> att.agent, cause |-> cause, truth |-> truth, read |-> read]

------------------------------------------------------------------------------
(* What happens. *)

OnlyRuns == UNCHANGED <<template, offer, tip, seenTip, spoken, said>>

Queued(r) ==
  /\ shift[r] = "none" /\ (\A q \in Shifts : q < r => shift[q] # "none")
  /\ shift' = [shift EXCEPT ![r] = "going"] /\ OnlyRuns
Ended(r) == shift[r] = "going" /\ shift' = [shift EXCEPT ![r] = "ended"] /\ OnlyRuns

\* A week later.
Aged ==
  /\ \E r \in Shifts : shift[r] = "ended"
  /\ shift' = [r \in Shifts |-> IF shift[r] = "ended" THEN "old" ELSE shift[r]] /\ OnlyRuns

\* The database is an older copy of itself: the latest runs are not in it.
Restored(r) ==
  /\ shift[r] \in {"ended", "old"} /\ (\A q \in Shifts : q > r => shift[q] \in {"none", "lost"})
  /\ shift' = [shift EXCEPT ![r] = "lost"] /\ OnlyRuns

Marker(a) == <<a>>
Elsewhere == UNCHANGED <<shift, template>>

\* Opened for a run on the branch built for its agent, or by a person on one of theirs.
OpensPull(r) ==
  /\ offer = NoOffer /\ shift[r] = "ended"
  /\ offer' = [state |-> "open", by |-> OfRun(r), body |-> Marker(OfRun(r)), branch |-> BranchName(template, HandOf[r])]
  /\ tip' = [no |-> 1, by |-> OfRun(r), trailer |-> r, mails |-> {HandOf[r]}]
  /\ UNCHANGED <<seenTip, spoken, said>> /\ Elsewhere
PersonOpensPull ==
  /\ offer = NoOffer
  /\ offer' = [state |-> "open", by |-> Someone, body |-> <<>>, branch |-> <<"fix">>]
  /\ tip' = [no |-> 1, by |-> Someone, trailer |-> 0, mails |-> {Person}]
  /\ UNCHANGED <<seenTip, spoken, said>> /\ Elsewhere

Push(c) ==
  /\ offer.state = "open" /\ tip.no < MaxPushes /\ tip' = [c EXCEPT !.no = tip.no + 1]
  /\ UNCHANGED <<offer, seenTip, spoken, said>> /\ Elsewhere
RunPushes(r) ==
  shift[r] = "going" /\ Push([no |-> 0, by |-> OfRun(r), trailer |-> r, mails |-> {HandOf[r]}])
\* A commit of their own, or the head amended, with the trailer it had.
PersonPushes ==
  \/ Push([no |-> 0, by |-> Someone, trailer |-> 0, mails |-> {Person}])
  \/ Push([tip EXCEPT !.by = Someone, !.mails = @ \cup {Person}])

PersonCloses ==
  /\ offer.state = "open" /\ offer' = [offer EXCEPT !.state = "closed"]
  /\ UNCHANGED <<tip, seenTip, spoken, said>> /\ Elsewhere

\* A review or a comment: an agent's ends with its marker, which without a run behind it
\* names none, and may quote another's before it; a person may quote one too.
Speaks(t) ==
  /\ offer.state = "open" /\ spoken = NoText /\ spoken' = t
  /\ UNCHANGED <<offer, tip, seenTip, said>> /\ Elsewhere
Quotable == {Nothing, [agent |-> Stranger, run |-> 0]} \cup {OfRun(r) : r \in {q \in Shifts : shift[q] # "none"}}
Quoting(q) == IF q = Nothing THEN <<>> ELSE Marker(q)
WithMarker(body, by) == body \o Marker(by)
Text(act, by, bot, q) ==
  [act |-> act, by |-> by, bot |-> bot, plain |-> q = Nothing,
   body |-> IF by = Someone THEN Quoting(q) ELSE WithMarker(Quoting(q), by)]
RunSpeaks(r)  == shift[r] = "going" /\ \E q \in Quotable : Speaks(Text("review", OfRun(r), FALSE, q))
\* A rule answers an event, in the name of an agent and of the run that caused the event.
RuleSpeaks(a) ==
  \E r \in {0, said.cause} : Speaks(Text("comment", [agent |-> a, run |-> r], FALSE, Nothing))
PersonSpeaks  == \E q \in Quotable, bot \in BOOLEAN : Speaks(Text("comment", Someone, bot, q))

------------------------------------------------------------------------------
(* The poller. *)

Polls == UNCHANGED <<shift, template, offer, tip>>

\* Opened, closed, or a push since: of several pushes the last one.  Of a push or a close it
\* is not known who did it.
EmitPREvent(act) ==
  LET att == Or(AttributeBody(offer.body), AttributeBranch(offer.branch))
  IN /\ UNCHANGED spoken /\ Polls
     /\ \/ /\ act = "opened" /\ offer.state = "open" /\ seenTip = 0 /\ seenTip' = tip.no
           /\ NewEvent(act, att, TRUE, offer.by = Someone, offer.by, TRUE)
        \/ /\ act = "closed" /\ offer.state = "closed" /\ seenTip \in 1 .. MaxPushes /\ seenTip' = MaxPushes + 1
           /\ NewEvent(act, att, TRUE, FALSE, Someone, FALSE)
        \/ /\ act = "synchronize" /\ offer.state = "open" /\ seenTip \notin {0, tip.no} /\ seenTip' = tip.no
           /\ \E read \in BOOLEAN : NewEvent(act, AttributePush(read), TRUE, FALSE, tip.by, read)

\* A review, which is asked for by its pull request, or a comment, which may come without.
EmitText ==
  /\ spoken # NoText /\ seenTip # 0 /\ spoken' = NoText /\ UNCHANGED seenTip /\ Polls
  /\ \E onPull \in IF spoken.act = "review" THEN {TRUE} ELSE BOOLEAN :
       NewEvent(spoken.act, AttributeBody(spoken.body), onPull,
                ~spoken.bot, spoken.by, spoken.plain)

------------------------------------------------------------------------------
AttributionInit ==
  /\ shift = [r \in Shifts |-> "none"] /\ template \in Templates
  /\ offer = NoOffer /\ tip = NoTip /\ seenTip = 0 /\ spoken = NoText /\ said = Silence

AttributionNext ==
  \/ \E r \in Shifts : Queued(r) \/ Ended(r) \/ Restored(r) \/ OpensPull(r) \/ RunPushes(r) \/ RunSpeaks(r)
  \/ Aged \/ PersonOpensPull \/ PersonPushes \/ PersonCloses \/ PersonSpeaks \/ (\E n \in DOMAIN Hands : RuleSpeaks(Hands[n]))
  \/ (\E act \in {"opened", "synchronize", "closed"} : EmitPREvent(act)) \/ EmitText

AttributionSpec == AttributionInit /\ [][AttributionNext]_attributionVars

------------------------------------------------------------------------------
(* Properties. *)

\* A push is put down to the run that made the commit, and not to the one that opened the
\* pull request, whose marker its body has for ever; where the commit could not be read, an
\* opening run of long ago is not named either (emitPREvent).
PushNamesItsRun(e) ==
  e.act = "synchronize" =>
    /\ e.read /\ Stored(e.truth.run) => e.cause = e.truth.run
    /\ ~e.read /\ offer.by # Someone /\ shift[offer.by.run] = "old" => e.cause # offer.by.run

\* What an agent wrote is its own, and of the run it names; one that was looked up for it is
\* a run of its own (attributeBody, withMarker, causeRun).
AgentIsNamed(e) ==
  /\ e.act \in {"review", "comment"} /\ e.read /\ e.truth # Someone =>
       e.agent = e.truth.agent /\ (e.truth.run # 0 => e.cause = e.truth.run)
  /\ e.cause \notin {0, e.truth.run} => HandOf[e.cause] = e.agent

\* Only a person's word starts a chain anew, and every person's does that is in their own
\* words; conditions on the actor see the same (actorKindFor, actorBody).
HumanIsAPerson(e) ==
  /\ e.kind = "human" => e.act \in {"opened", "review", "comment"} /\ (e.read => e.truth = Someone)
  /\ e.act = "comment" /\ e.truth = Someone /\ e.read /\ ~spoken.bot => e.kind = "human"
  /\ e.says = e.kind

\* The branch built for an agent is no other's, where something but a dash ends the name in
\* it and the name is not cut (branchName, branchMatchesAgent).
BranchIsTheAgents ==
  \A n \in DOMAIN Hands :
    Contains(template, "-") \/ Len(Slugify(HandName[Hands[n]])) < Len(HandName[Hands[n]])
      \/ AttributeBranch(BranchName(template, Hands[n])).agent \in {NoHand, Hands[n]}

AttributionHolds ==
  [][said' # said =>
       PushNamesItsRun(said') /\ AgentIsNamed(said') /\ HumanIsAPerson(said') /\ BranchIsTheAgents]_attributionVars
=============================================================================
