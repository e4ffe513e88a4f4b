------------------------------- MODULE MCBoard -------------------------------
(***************************************************************************)
(* The scheduler with a board of limited columns, the project and agents   *)
(* its runs are of, the secrets and the prompt they get, and the listings  *)
(* of the forge, for TLC.                                                  *)
(* They share no state here: one run explores them in turn, one `focus'    *)
(* per behaviour.                                                          *)
(***************************************************************************)
EXTENDS TLC, Scheduler, Roster, Secrets, Prompt, Listing

CONSTANTS a1, col, backlog, ag1, q1, q2, q3, e1, e2, k1, k2, v1, v2, c1, c2, c3, c4, wa, wp, wr, wm

VARIABLE focus

\* One agent without a cap of its own, a running column for one, and tickets that nothing tells
\* apart and that start in the backlog together.
NoAgentCap == [a \in Agents |-> 0]
NoDailyCap == [a \in Agents |-> 0]
MCDailyCap == [a \in Agents |-> IF a = a1 THEN 1 ELSE 0]
WipOne     == [c \in RunningColumns |-> 1]
AllBacklog == {[t \in Tickets |-> backlog]}
TicketSymmetry == Permutations(Tickets)

\* An agent's review with a comment, a person's with two, one of which answers the agent's,
\* and a reply that is of no review.
Occ(k, r, c) == [kind |-> k, review |-> r, comment |-> c]
MCOccurrences ==
  <<Occ("review_comment", v1, c1), Occ("agent_review", v1, NoComment),
    Occ("review_comment", v2, c2), Occ("review", v2, NoComment), Occ("review_comment", v2, c3),
    Occ("review_comment", NoReview, c4)>>
MCThreadOf == (c1 :> c1) @@ (c2 :> c2) @@ (c3 :> c1) @@ (c4 :> c1)
MCReviewOf == (c1 :> v1) @@ (c2 :> v2) @@ (c3 :> v2) @@ (c4 :> NoReview)
MCInReplyTo == (c1 :> NoComment) @@ (c2 :> NoComment) @@ (c3 :> c1) @@ (c4 :> c3)
MCTree == <<wp, wa, wr, wm>>
MCScopeOf == (wa :> "always") @@ (wp :> "paths") @@ (wr :> "auto") @@ (wm :> "manual")

\* Each starts as it may while it is the one explored, and in one way while it is not.
BoardInit ==
  /\ focus \in {"runs", "roster", "secrets", "prompt", "listing"}
  /\ Init /\ RosterInit /\ SecretsInit /\ PromptInit /\ ListingInit
  /\ focus # "listing" => listed = "pulls"
  /\ focus # "roster" =>
       agentRow[ag1].name = "dev" /\ directives = {[of |-> ag1, version |-> 1, body |-> "b1"]}

\* The wiki comes into it while there is little else; and what goes on while a prompt is put
\* together, between the reading of the history and the last reading of the store: before that
\* it is as if it had been there, and after it as if it came later.
PromptBounded ==
  /\ PromptNext
  /\ livePages' # ToSet(MCTree) => happened' <= 1
  /\ prompt'.step = "event" /\ happened > 1 => prompt'.wiki = PreviewItems
  /\ settled' # settled => UnderWay
  /\ prompt'.moves > prompt.moves => prompt.step \in {"ticket", "summary", "threads", "stored"}

\* A ticket is dragged, there is a crash, or money is spent; and requests and keys that nothing tells apart
\* come in one order.
BoardNext ==
  \/ /\ focus = "runs" /\ Next
        /\ drags' + crashes' <= 1 /\ (ProjectSpent' > 0 => drags' + crashes' = 0)
     /\ UNCHANGED <<focus, rosterVars, secretVars, promptVars, listingVars>>
  \/ /\ focus = "roster" /\ RosterNext
     /\ asked'[q2].does # "nothing" => asked[q1].does # "nothing"
     /\ asked'[q3].does # "nothing" => asked[q2].does # "nothing"
     /\ UNCHANGED <<focus, vars, secretVars, promptVars, listingVars>>
  \/ /\ focus = "secrets" /\ SecretsNext
     /\ k2 \in usedKeys' => k1 \in usedKeys'
     /\ editor'[e2].does # "nothing" => editor[e1].does # "nothing"
     /\ UNCHANGED <<focus, vars, rosterVars, promptVars, listingVars>>
  \/ focus = "prompt" /\ PromptBounded /\ UNCHANGED <<focus, vars, rosterVars, secretVars, listingVars>>
  \/ focus = "listing" /\ ListingNext /\ UNCHANGED <<focus, vars, rosterVars, secretVars, promptVars>>

\* The scheduler alone.
RunsSpec ==
  /\ focus = "runs" /\ BoardInit
  /\ [][BoardNext]_<<focus, vars, rosterVars, secretVars, promptVars, listingVars>>

BoardSpec == BoardInit /\ [][BoardNext]_<<focus, vars, rosterVars, secretVars, promptVars, listingVars>>

MCStarters == <<"dev", "reviewer">>
==============================================================================
