-------------------------------- MODULE Prompt --------------------------------
(***************************************************************************)
(* The prompt of one run, put together when it is enqueued                 *)
(* (internal/kernel/sched/prompt.go, internal/module/context,              *)
(* internal/module/github/reviewthreads.go).  Each provider reads on its   *)
(* own, so the pull request goes on while they do: people write and settle *)
(* comments, the poller records them as events, pages are edited, and any  *)
(* read of the forge or of the store may fail.                             *)
(***************************************************************************)
EXTENDS SequencesExt

CONSTANTS
  Occurrences,    \* what happens on the pull request, in the order of occurred_at
  ThreadOf,       \* comment -> the comment that opened its thread, on the forge
  ReviewOf,       \* comment -> its review, or NoReview
  InReplyTo,      \* comment -> the comment it answers, or NoComment
  NoReview, NoComment, NoCause,
  MaxHistory,     \* maxHistoryEvents
  MaxHops,        \* how far rootOf follows replies
  Tree,           \* the wiki's pages, in tree order
  ScopeOf,        \* page -> its agent_scope
  LinkedTicket,   \* a run's output names the pull request, so its ticket is known
  MaxMoves        \* bound: what else happens while one prompt is put together

Comments == DOMAIN ThreadOf

\* An occurrence is of a kind, and of a review and a comment where it has them; a comment is
\* one event (its external id is unique).
ASSUME PromptAssumption ==
  /\ Occurrences \in Seq([kind : {"review", "review_comment", "agent_review"},
                          review : {Occurrences[i].review : i \in DOMAIN Occurrences},
                          comment : Comments \cup {NoComment}])
  /\ \A i, j \in DOMAIN Occurrences :
       Occurrences[i].comment = Occurrences[j].comment => i = j \/ Occurrences[i].comment = NoComment
  /\ \A i \in DOMAIN Occurrences :
       Occurrences[i].comment = NoComment \/ Occurrences[i].review = ReviewOf[Occurrences[i].comment]
  /\ NoComment \notin Comments /\ NoCause \notin DOMAIN Occurrences
  /\ ThreadOf \in [Comments -> Comments] /\ InReplyTo \in [Comments -> Comments \cup {NoComment}]
  /\ DOMAIN ReviewOf = Comments
  /\ MaxHistory \in Nat \ {0} /\ MaxHops \in Nat

VARIABLES
  happened,     \* how many occurrences there have been
  recorded,     \* those of them, by their place, that are rows of the events table
  settled,      \* threads a person has marked resolved
  livePages,    \* pages that are live and not archived
  prompt        \* the prompt under way

promptVars == <<happened, recorded, settled, livePages, prompt>>

------------------------------------------------------------------------------
(* What the forge has, and its two readings.                                 *)

\* What there has been after the first n, by its place among Occurrences.
Past == 1 .. happened
WhatOf(i) == Occurrences[i]

\* What an occurrence says: a review its summary, a comment itself.
Word(i) == IF WhatOf(i).comment = NoComment THEN <<"summary", WhatOf(i).review>>
                                            ELSE <<"comment", WhatOf(i).comment>>
Words(rows) == {Word(i) : i \in rows}

\* A review's comments are seen once it is submitted, others once they are written.
Shows(i, c) ==
  \/ WhatOf(i).comment = c /\ ReviewOf[c] = NoReview
  \/ WhatOf(i).comment = NoComment /\ WhatOf(i).review = ReviewOf[c]
Visible == {c \in Comments : \E i \in Past : Shows(i, c)}

\* Nobody answers what cannot be seen, an answer is in the thread of what it answers, and
\* MaxHops answers lead back to the comment that opened it.
ASSUME ReplyAssumption ==
  /\ \A c \in Comments, i \in DOMAIN Occurrences :
       Shows(i, c) /\ InReplyTo[c] # NoComment => \E j \in 1 .. i : Shows(j, InReplyTo[c])
  /\ \E depth \in [Comments -> 0 .. MaxHops] : \A c \in Comments :
       IF InReplyTo[c] = NoComment THEN ThreadOf[c] = c
       ELSE depth[InReplyTo[c]] < depth[c] /\ ThreadOf[InReplyTo[c]] = ThreadOf[c]

Grouped(opener) == {{c \in Visible : opener[c] = o} : o \in {opener[c] : c \in Visible}}

\* GraphQL has the threads as they are.  The comment listing has replies only, each followed
\* to the one that opened the thread, to one that is not listed, or for MaxHops.
RootOf(c) ==
  LET hop[h \in 0 .. MaxHops] ==
        IF h = 0 THEN c
        ELSE IF hop[h - 1] \in Visible /\ InReplyTo[hop[h - 1]] # NoComment
             THEN InReplyTo[hop[h - 1]] ELSE hop[h - 1]
  IN hop[MaxHops]

GraphThreads == Grouped(ThreadOf)
RestThreads == Grouped([c \in Visible |-> RootOf(c)])

\* A thread is the review's if any comment on it is: a second review mostly answers.
ThreadInReview(thread, review) == \E c \in thread : ReviewOf[c] = review

\* Without a review, or with none of its threads, the thread the event named.
ThreadsOfReview(threads, i) ==
  LET mine == {t \in threads : WhatOf(i).review # NoReview /\ ThreadInReview(t, WhatOf(i).review)}
  IN IF mine # {} THEN mine ELSE {t \in threads : WhatOf(i).comment \in t}

------------------------------------------------------------------------------
(* What each provider makes of it.                                           *)

\* Live pages: the always ones, then those a changed path matches, then those a word of the
\* task retrieves; manual and never are not for a prompt.
Groups == <<"always", "paths", "auto">>
WikiItems(found) ==
  {p \in livePages : \/ ScopeOf[p] = Groups[1]
                     \/ p \in found /\ ScopeOf[p] \in {Groups[2], Groups[3]}}

\* Each group is in tree order.
PageBefore(p, q) ==
  \E g, h \in DOMAIN Groups :
    /\ ScopeOf[p] = Groups[g] /\ ScopeOf[q] = Groups[h]
    /\ \/ g < h
       \/ g = h /\ \E i, j \in DOMAIN Tree : i < j /\ Tree[i] = p /\ Tree[j] = q

\* A dry request has no changed path and no task.
PreviewItems == WikiItems({})

\* The pull request's events before the causing one; all of them, if it is not there.
HistoryBefore(rows, cause) == {i \in rows : cause \in rows => i < cause}

\* The section on the causing review has its parts, so the history leaves them out, where
\* there will be such a section.
DropCausingReview(rows, cause) ==
  {i \in rows : \/ WhatOf(cause).kind \notin {"review", "review_comment"}
                \/ WhatOf(cause).review = NoReview
                \/ WhatOf(i).review # WhatOf(cause).review}

\* The newest MaxHistory of them.
NewestOf(rows) == {i \in rows : Cardinality({j \in rows : i < j}) < MaxHistory}

\* A thread of a section: what it says, and the row it was made of, or 0 for the forge's.
ThreadOfRow(i) == [row |-> i, says |-> {WhatOf(i).comment}]

\* What an event alone says of its review, with the summary that was in hand when the forge
\* failed.
FragmentOnly(cause, partial) ==
  [summary |-> WhatOf(cause).kind = "review" \/ partial,
   threads |-> {ThreadOfRow(i) : i \in {j \in {cause} : WhatOf(j).comment # NoComment}},
   resolved |-> {}, fragment |-> TRUE]

\* The rest of the review, as the events table has it: not the causing event, nor the comment
\* that is there already.
RestOfReview(rows, cause) ==
  {i \in rows \ {cause} : WhatOf(cause).review # NoReview /\ WhatOf(i).review = WhatOf(cause).review}
StoredSummary(rows, cause) == \E i \in RestOfReview(rows, cause) : WhatOf(i).comment = NoComment
StoredThreads(rows, cause) ==
  {ThreadOfRow(i) : i \in {j \in RestOfReview(rows, cause) :
                             WhatOf(j).comment \notin {NoComment, WhatOf(cause).comment}}}

\* Mutant: the degraded section has no more than the event, though the history left it out.
CompleteSummaryOnly(section, rows, cause) ==
  [section EXCEPT !.summary = @ \/ StoredSummary(rows, cause)]

CompleteFromStore(section, rows, cause) ==
  [section EXCEPT !.summary = @ \/ StoredSummary(rows, cause),
                  !.threads = IF section.fragment THEN @ \cup StoredThreads(rows, cause) ELSE @]

\* The rows on the pull request.
PRRows == Past \cap recorded

------------------------------------------------------------------------------
(* The actions.                                                              *)

NoSection == [summary |-> FALSE, threads |-> {}, resolved |-> {}, fragment |-> FALSE]

NoPrompt == [step |-> "none", cause |-> NoCause, known |-> FALSE, wiki |-> {}, event |-> {},
             history |-> {}, seen |-> {}, older |-> {}, ticket |-> "none", review |-> NoSection,
             unread |-> FALSE, moves |-> 0]

PromptInit ==
  /\ happened = 0 /\ recorded = {} /\ settled = {}
  /\ livePages = ToSet(Tree)
  /\ prompt = NoPrompt

UnderWay == prompt.step \notin {"none", "done", "failed"}

\* People, the poller and editors: any time, while a prompt is put together too.
Meanwhile ==
  /\ prompt.step \notin {"done", "failed"}
  /\ prompt' = [prompt EXCEPT !.moves = @ + (IF UnderWay THEN 1 ELSE 0)]
  /\ prompt'.moves <= MaxMoves

Happen ==
  /\ Meanwhile /\ happened < Len(Occurrences)
  /\ happened' = happened + 1
  /\ UNCHANGED <<recorded, settled, livePages>>

\* Comments are listed apart from reviews, so rows come in any order; a comment of a review
\* is not seen before the review is submitted.
RecordRow(i) ==
  /\ Meanwhile /\ i \in Past \ recorded
  /\ WhatOf(i).comment = NoComment \/ WhatOf(i).comment \in Visible
  /\ recorded' = recorded \cup {i}
  /\ UNCHANGED <<happened, settled, livePages>>

Settle(t) ==
  /\ Meanwhile /\ t \in Visible \ settled /\ ThreadOf[t] = t
  /\ settled' = settled \cup {t}
  /\ UNCHANGED <<happened, recorded, livePages>>

EditPage(p) ==
  /\ Meanwhile
  /\ livePages' = IF p \in livePages THEN livePages \ {p} ELSE livePages \cup {p}
  /\ UNCHANGED <<happened, recorded, settled>>

At(step) == prompt.step = step /\ UNCHANGED <<happened, recorded, settled, livePages>>

\* A rule starts a run for a row.
Assemble(i) ==
  /\ prompt.step = "none" /\ i \in recorded
  /\ prompt' = [prompt EXCEPT !.step = "cause", !.cause = i]
  /\ UNCHANGED <<happened, recorded, settled, livePages>>

\* The event for the review's provider: not to read it is not fatal.
ReadCause ==
  /\ At("cause")
  /\ \E read \in BOOLEAN :
       /\ prompt' = [prompt EXCEPT !.step = "wiki", !.known = read]

\* The project's guidance, which does not change here, and the wiki's pages.
ReadPages ==
  /\ At("wiki")
  /\ \E found \in SUBSET {p \in ToSet(Tree) : ScopeOf[p] \in {"paths", "auto"}} :
       /\ prompt' = [prompt EXCEPT !.step = "event", !.wiki = WikiItems(found)]

ReadEvent ==
  /\ At("event")
  /\ prompt' = [prompt EXCEPT !.step = "history", !.event = {Word(prompt.cause)}]

ReadHistory ==
  LET before == HistoryBefore(PRRows, prompt.cause)
      prior == DropCausingReview(before, prompt.cause)
  IN /\ At("history")
     /\ prompt' = [prompt EXCEPT !.step = "ticket", !.history = Words(NewestOf(prior)),
                     !.seen = Words(before), !.older = Words(prior \ NewestOf(prior))]

\* The run's own ticket, or the one the pull request was opened for.
ReadTicket ==
  /\ At("ticket")
  /\ prompt' = [prompt EXCEPT !.step = "summary",
                  !.ticket = IF LinkedTicket THEN "inferred" ELSE "none"]

\* A review's section is for a review or a comment of one, that was read.  Without a
\* repository or its token there is no forge; the summary may fail on its own.
ReviewSection == prompt.known /\ WhatOf(prompt.cause).kind \in {"review", "review_comment"}

SkipReview ==
  /\ At("summary")
  /\ ~ReviewSection
  /\ prompt' = [prompt EXCEPT !.step = "files"]

NoForge ==
  /\ At("summary")
  /\ ReviewSection
  /\ prompt' = [prompt EXCEPT !.step = "stored", !.review = FragmentOnly(prompt.cause, FALSE)]

ReadSummary ==
  /\ At("summary")
  /\ ReviewSection
  /\ \E read \in BOOLEAN :
       prompt' = [prompt EXCEPT !.step = "threads",
                    !.review.summary = \/ WhatOf(prompt.cause).kind = "review"
                                       \/ read /\ WhatOf(prompt.cause).review # NoReview]

\* GraphQL tells which threads are resolved, and those are left out; the listing does not.
ReadThreads ==
  /\ At("threads")
  /\ \E reading \in {"graphql", "listing"} :
       LET threads == IF reading = "graphql" THEN GraphThreads ELSE RestThreads
           mine == ThreadsOfReview(threads, prompt.cause)
           closed == {t \in mine : reading = "graphql" /\ t \cap settled # {}}
       IN prompt' = [prompt EXCEPT !.step = "stored", !.review.resolved = UNION closed,
                       !.review.threads = {[row |-> 0, says |-> t] : t \in mine \ closed}]

\* The listing fails too, or there is no budget left to ask for it.
ThreadsFail ==
  /\ At("threads")
  /\ prompt' = [prompt EXCEPT !.step = "stored",
                  !.review = FragmentOnly(prompt.cause, prompt.review.summary)]

\* What the forge did not give is read from the store, unless nothing is missing; if that
\* fails the section is what it is.
ReadStored ==
  /\ At("stored")
  /\ \E read \in BOOLEAN :
       LET needed == prompt.review.fragment \/ ~prompt.review.summary
       IN prompt' = [prompt EXCEPT !.step = "files", !.unread = needed /\ ~read,
                       !.review = IF needed /\ read
                                  THEN CompleteFromStore(@, PRRows, prompt.cause) ELSE @]

\* The repository's files are listed, not injected, and never fail; then the note of a
\* takeover, how work is delivered, and the task.
ListFiles ==
  /\ At("files")
  /\ prompt' = [prompt EXCEPT !.step = "note"]

HandOver ==
  /\ At("note")
  /\ prompt' = [prompt EXCEPT !.step = "done"]

\* Any other read of the store that fails, fails the enqueue: there is no run.
ReadFails ==
  /\ prompt.step \in {"wiki", "event", "history", "ticket", "files", "note"}
  /\ prompt' = [NoPrompt EXCEPT !.step = "failed"]
  /\ UNCHANGED <<happened, recorded, settled, livePages>>

PromptNext ==
  \/ Happen
  \/ \E i \in DOMAIN Occurrences : RecordRow(i) \/ Assemble(i)
  \/ \E t \in Comments : Settle(t)
  \/ \E p \in ToSet(Tree) : EditPage(p)
  \/ ReadCause \/ ReadPages \/ ReadEvent \/ ReadHistory \/ ReadTicket
  \/ SkipReview \/ NoForge \/ ReadSummary \/ ReadThreads \/ ThreadsFail \/ ReadStored
  \/ ListFiles \/ HandOver \/ ReadFails

PromptSpec == PromptInit /\ [][PromptNext]_promptVars

------------------------------------------------------------------------------
(* What must hold.                                                           *)

\* What the section that is there says of the causing review.
Said == UNION {t.says : t \in prompt.review.threads}
InSection ==
  {w \in {<<"summary", WhatOf(prompt.cause).review>>} : prompt.review.summary}
    \cup {<<"comment", c>> : c \in Said}

\* The boundary between two sections moves words and loses none (review.go, completeFromStore;
\* prhistory.go, dropCausingReview): whatever of the forge fails and whatever happens between
\* the reads, each row the history saw is in the prompt, unless it is of a thread that is
\* resolved or older than the history goes; and the causing review's are there once.  The
\* two store reads whose failure the code lets pass are not in this: it loses words then.
BoundaryMovesOnly ==
  prompt.step \in {"files", "note", "done"} /\ prompt.known /\ ~prompt.unread =>
    /\ prompt.seen \subseteq prompt.event \cup prompt.history \cup InSection \cup prompt.older
                             \cup {<<"comment", c>> : c \in prompt.review.resolved}
    /\ WhatOf(prompt.cause).review # NoReview /\ ReviewSection =>
         prompt.history \cap InSection \subseteq
           {<<"comment", c>> : c \in {d \in Comments : ReviewOf[d] # WhatOf(prompt.cause).review}}
    /\ \A s, t \in prompt.review.threads : s # t => s.says \cap t.says = {}

\* What every run of an agent sees is what the preview shows, and comes first among its pages
\* (PreviewContext); and the comment listing makes the threads the forge has.
PreviewIsPromised ==
  prompt.step = "wiki" =>
  /\ \A found \in SUBSET ToSet(Tree) :
       /\ PreviewItems \subseteq WikiItems(found)
       /\ \A p \in PreviewItems, q \in WikiItems(found) \ PreviewItems : PageBefore(p, q)
  /\ RestThreads = GraphThreads

PromptInv ==
  /\ happened \in 0 .. Len(Occurrences) /\ recorded \subseteq Past /\ settled \subseteq Visible
  /\ BoundaryMovesOnly /\ PreviewIsPromised
==============================================================================
