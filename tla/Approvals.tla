-------------------------------- MODULE Approvals --------------------------------
(***************************************************************************)
(* What the tool server decides for the tool calls of one agent's run: by  *)
(* rule, by autonomy, or by a human.                                       *)
(* How a parked call waits is modelled in Elicitation.                     *)
(*                                                                         *)
(* A tool stands for the tool with its input; a rule covers a set of them. *)
(* A card is known by its tool and the reason it is shown for.             *)
(***************************************************************************)
EXTENDS Naturals, Sequences

CONSTANTS
  Calls,          \* tool calls of the run
  Humans,         \* responses that may be under way at once
  Tools, Mutating, Destructive, Granted,
  Covers,         \* the sets of tools a rule's pattern may cover
  OldRules,       \* rule lists the agent may begin with
  MaxCards,       \* bound: approvals opened
  MaxRules        \* bound: rules of the agent

Rules == [covers : SUBSET Tools, decision : {"allow", "deny", "ask"}]

ASSUME ApprovalConstants == Covers \subseteq SUBSET Tools /\ OldRules \subseteq Seq(Rules)

Autonomies == {"suggest", "approve_each", "auto_gates", "auto", "other"}

VARIABLES
  autonomy, rules,     \* the run's autonomy; the agent's rules in order of creation
  calls, cards,        \* tool calls; approval elicitations in order of creation
  humans               \* responses under way

approvalVars == <<autonomy, rules, calls, cards, humans>>

NoCall  == [pc |-> "idle", tool |-> "none", seen |-> <<>>, outcome |-> "none", by |-> "none", card |-> 0]
NoHuman == [pc |-> "idle", card |-> 0, action |-> "none"]
Replies == {"approve", "deny", "remember"}

RulesTyped == autonomy \in Autonomies /\ rules \in Seq(Rules)
ToolCallsTyped ==
  calls \in [Calls -> [pc : {"idle", "parked", "done"}, tool : Tools \cup {"none"}, seen : Seq(Rules),
                      outcome : {"none", "allow", "deny"}, by : {"none", "rule", "autonomy", "human"},
                      card : Nat]]
CardRows == [tool : Tools, why : {"rule", "autonomy"}, state : {"pending", "answered"},
             answer : {"none", "allow", "deny"}, given : {"none"} \cup Replies]
CardsTyped ==
  /\ cards \in Seq(CardRows)
  /\ humans \in [Humans -> {NoHuman} \cup [pc : {"remember", "resolve"}, card : DOMAIN cards, action : Replies]]
ApprovalsTypeOK == RulesTyped /\ ToolCallsTyped /\ CardsTyped

------------------------------------------------------------------------------
(* request_approval. *)

RuleMatches(rule, t) == t \in rule.covers

\* The position of the first matching rule, 0 for none.
FirstRule(rs, t) ==
  LET matching == {i \in DOMAIN rs : RuleMatches(rs[i], t)}
  IN IF matching = {} THEN 0 ELSE CHOOSE i \in matching : \A j \in matching : i <= j

Decide(outcome, why) == [outcome |-> outcome, why |-> why]

\* The autonomy table, for a tool no rule decides.
ByAutonomy(t) ==
  CASE autonomy = "suggest" /\ t \in Mutating           -> Decide("deny", "autonomy")
    [] autonomy = "auto_gates" /\ t \notin Destructive  -> Decide("allow", "autonomy")
    [] autonomy = "auto" -> Decide(IF t \in Granted THEN "allow" ELSE "deny", "autonomy")
    [] OTHER -> Decide("park", "autonomy")

\* toolRequestApproval: rules first; "ask" parks whatever the autonomy says.
Approval(rs, t) ==
  LET i == FirstRule(rs, t)
  IN IF i = 0 THEN ByAutonomy(t)
     ELSE IF rs[i].decision = "ask" THEN Decide("park", "rule") ELSE Decide(rs[i].decision, "rule")

Unanswered(t, why) == {k \in DOMAIN cards : cards[k].tool = t /\ cards[k].why = why /\ cards[k].state = "pending"}

\* decide, or parkApproval: an equal card that is pending is joined, else one is opened.
RequestApproval(c, t) ==
  /\ calls[c].pc = "idle" /\ Len(cards) < MaxCards
  /\ LET d == Approval(rules, t)
         k == IF Unanswered(t, d.why) # {} THEN CHOOSE j \in Unanswered(t, d.why) : TRUE ELSE Len(cards) + 1
     IN IF d.outcome # "park"
        THEN /\ calls' = [calls EXCEPT ![c] = [pc |-> "done", tool |-> t, seen |-> rules, outcome |-> d.outcome,
                                               by |-> d.why, card |-> 0]]
             /\ cards' = cards
        ELSE /\ calls' = [calls EXCEPT ![c] = [pc |-> "parked", tool |-> t, seen |-> rules, outcome |-> "none", by |-> "none",
                                               card |-> k]]
             /\ cards' = IF k <= Len(cards) THEN cards
                         ELSE Append(cards, [tool |-> t, why |-> d.why, state |-> "pending", answer |-> "none", given |-> "none"])
  /\ UNCHANGED <<autonomy, rules, humans>>

\* The answer of whichever card is newest.
AnswerOfNewest(k) == cards[Len(cards)].answer

AnswerOf(k) == cards[k].answer

\* The call wakes and returns what its card says.
Return(c) ==
  /\ calls[c].pc = "parked" /\ cards[calls[c].card].state # "pending"
  /\ calls' = [calls EXCEPT ![c] = [@ EXCEPT !.pc = "done", !.outcome = AnswerOf(calls[c].card), !.by = "human"]]
  /\ UNCHANGED <<autonomy, rules, cards, humans>>

\* The client hangs up: the call unwinds, its card stays.
HangUp(c) ==
  /\ calls[c].pc = "parked" /\ calls' = [calls EXCEPT ![c] = NoCall]
  /\ UNCHANGED <<autonomy, rules, cards, humans>>

------------------------------------------------------------------------------
(* A human's response. *)

Respond(h, k, a) ==
  /\ humans[h].pc = "idle" /\ k \in DOMAIN cards /\ cards[k].state = "pending"
  /\ humans' = [humans EXCEPT ![h] = [pc |-> IF a = "remember" THEN "remember" ELSE "resolve", card |-> k, action |-> a]]
  /\ UNCHANGED <<autonomy, rules, calls, cards>>

\* rememberRule: the rule is written before the response is known to count.
RememberRule(h, cov) ==
  /\ humans[h].pc = "remember" /\ Len(rules) < MaxRules /\ cards[humans[h].card].tool \in cov
  /\ rules' = Append(rules, [covers |-> cov, decision |-> "allow"])
  /\ humans' = [humans EXCEPT ![h].pc = "resolve"]
  /\ UNCHANGED <<autonomy, calls, cards>>

\* Resolve: the first response counts.
Resolve(h) ==
  /\ humans[h].pc = "resolve" /\ humans' = [humans EXCEPT ![h] = NoHuman]
  /\ LET k == humans[h].card
         a == humans[h].action
     IN cards' = IF cards[k].state = "pending"
                 THEN [cards EXCEPT ![k].state = "answered", ![k].answer = IF a = "deny" THEN "deny" ELSE "allow",
                                    ![k].given = a]
                 ELSE cards
  /\ UNCHANGED <<autonomy, rules, calls>>

\* An owner deletes a rule in the agent's settings.
DeleteRule(i) ==
  /\ i \in DOMAIN rules /\ rules' = SubSeq(rules, 1, i - 1) \o SubSeq(rules, i + 1, Len(rules))
  /\ UNCHANGED <<autonomy, calls, cards, humans>>

------------------------------------------------------------------------------
ApprovalsInit ==
  /\ autonomy \in Autonomies /\ rules \in OldRules
  /\ calls = [c \in Calls |-> NoCall] /\ cards = <<>> /\ humans = [h \in Humans |-> NoHuman]

ApprovalsNext ==
  \/ \E c \in Calls : (\E t \in Tools : RequestApproval(c, t)) \/ Return(c) \/ HangUp(c)
  \/ \E h \in Humans : \/ \E k \in DOMAIN cards, a \in Replies : Respond(h, k, a)
                       \/ \E cov \in Covers : RememberRule(h, cov)
                       \/ Resolve(h)
  \/ \E i \in DOMAIN rules : DeleteRule(i)

ApprovalsSpec == ApprovalsInit /\ [][ApprovalsNext]_approvalVars

------------------------------------------------------------------------------
(* Properties. *)

\* The earliest matching rule decides, whatever later rules, remembered ones among them, say;
\* an asking rule leaves it to a human (toolRequestApproval, "first matching rule wins").
EarliestRuleDecides ==
  \A c \in Calls : calls[c].pc # "idle" =>
    LET s == calls[c].seen
    IN \A i \in DOMAIN s :
         calls[c].tool \in s[i].covers /\ (\A j \in 1..(i - 1) : calls[c].tool \notin s[j].covers) =>
           IF s[i].decision = "ask" THEN calls[c].by \in {"none", "human"} ELSE calls[c].outcome = s[i].decision

\* Without a rule or a human no gate opens: in suggest mode nothing runs, behind gates
\* nothing destructive does, and in auto nothing that was not granted (the autonomy table).
GatesHold ==
  \A c \in Calls : calls[c].outcome = "allow" /\ calls[c].by = "autonomy" =>
    \/ autonomy = "auto_gates" /\ calls[c].tool \notin Destructive
    \/ autonomy = "auto" /\ calls[c].tool \in Granted

\* What a human answered is what the call for that very tool returns, though calls come back
\* and other cards are answered in between (parkApproval, await, Resolve).
AnswerIsForThisTool ==
  \A c \in Calls : calls[c].by = "human" =>
    /\ cards[calls[c].card].tool = calls[c].tool
    /\ (calls[c].outcome = "allow") = (cards[calls[c].card].given \in {"approve", "remember"})

\* An "always allow" writes one rule (contracts 3.3: "exactly one such row").  Not so: every
\* response writes one before it is known which of them counts.
OneRulePerRemember ==
  [][\A h \in Humans : Resolve(h) /\ humans[h].action = "remember" => cards[humans[h].card].state = "pending"]_approvalVars

\* A parked call waits for a card of its tool and is undecided; one a human decided has a card
\* that was answered, and an answer that says what the human gave.
CardsBelong ==
  /\ \A c \in Calls :
       /\ calls[c].pc = "parked" => calls[c].outcome = "none" /\ calls[c].by = "none"
       /\ calls[c].pc = "parked" \/ calls[c].by = "human" =>
            calls[c].card \in DOMAIN cards /\ cards[calls[c].card].tool = calls[c].tool
       /\ calls[c].by = "human" => cards[calls[c].card].state = "answered"
  /\ \A k \in DOMAIN cards : cards[k].state = "answered" =>
       \/ cards[k].answer = "allow" /\ cards[k].given \in {"approve", "remember"}
       \/ cards[k].answer = "deny" /\ cards[k].given = "deny"

\* What decides a call: the earliest rule that covers it, then its own human's answer, and
\* without either only what the autonomy level leaves open.
PolicyHolds == ApprovalsTypeOK /\ EarliestRuleDecides /\ GatesHold /\ AnswerIsForThisTool /\ CardsBelong
=============================================================================
