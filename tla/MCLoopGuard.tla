---------------------------- MODULE MCLoopGuard ----------------------------
(***************************************************************************)
(* LoopGuard for TLC, the rules it guards as people edit them, their       *)
(* schedules, what people ask of the runs they start, and to whom is put   *)
(* down what those do: one run explores them in turn, one `focus' per      *)
(* behaviour.  In the guard, one rule answers what outsiders say,          *)
(* debounced; one answers failing checks, and whatever the first one's     *)
(* agent does itself, at once.                                             *)
(***************************************************************************)
EXTENDS LoopGuard, Rules, Schedule, Desk, Attribution, TLC

CONSTANTS dev, critic, p1, p2, p3, k1, k2

VARIABLE focus

\* Schedules: every other minute, and the first minutes of a month's first day and of Sundays;
\* the minutes are those around the end of a Saturday, the last of February.
MCStar == {[is |-> "star", lo |-> 0, hi |-> 0, step |-> 0]}
MCPart(is, lo, hi, by) == {[is |-> is, lo |-> lo, hi |-> hi, step |-> by]}
EveryOther ==
  [minute |-> MCPart("star", 0, 0, 2), hour |-> MCStar, dom |-> MCStar, month |-> MCStar, dow |-> MCStar]
FirstsAndSundays ==
  [minute |-> MCPart("range", 0, 1, 0), hour |-> MCPart("value", 0, 0, 0),
   dom |-> MCPart("value", 1, 1, 0), month |-> MCStar, dow |-> MCPart("value", 7, 7, 0)]
MCExpressions == {EveryOther, FirstsAndSundays}
MCWhen == [m \in 0 .. 4 |->
  IF m < 2 THEN [minute |-> 58 + m, hour |-> 23, dom |-> 28, month |-> 2, dow |-> 6]
  ELSE [minute |-> m - 2, hour |-> 0, dom |-> 1, month |-> 3, dow |-> 0]]
MinusOne == -1

(***************************************************************************)
(* The desk: either the inbox is read, while one person dismisses what is  *)
(* in it, or requests are made beside each other, the second begun within  *)
(* the first.  One run's items in the inbox tell nothing of another's; to  *)
(* a request a parked run is what a running one is, and a failed one what  *)
(* a completed one is.  A second run is not admitted, and a third one only *)
(* ever queued.                                                            *)
(***************************************************************************)
InboxSide ==
  \/ reader.at # "none" \/ pages # {}
  \/ \E r \in Jobs : pulls[r] # "none" \/ job[r].state \in Parked \cup {"failed"}

Dismissed == \E r \in Jobs : job[r].acked

OneSide ==
  IF InboxSide
  THEN /\ \A c \in Clerks : desk[c].doing \in {"none", "acknowledge"} \/ (Dismissed /\ desk[c].doing = "done")
       /\ desk[k2] = NoDesk /\ hitches = 0 /\ hired
       /\ \A r \in Jobs : stops[r].kind = "none" /\ job[r].reason = NoReason
       /\ \A r \in Jobs \ {1} : job[r].state \in {"none", "loop_stopped"}
       /\ \A r \in Jobs : job[r].state \in Parked \/ pages # {} => stops[r].outcome = "none"
  ELSE /\ ~Dismissed /\ member /\ job[2].state \notin {"running", "completed", "timed_out"}
       /\ \A c \in Clerks : desk[c].doing # "acknowledge"
       /\ hired \/ desk[k1].doing \in {"create", "done"}
       /\ desk[k2].doing # "create"
       /\ hitches > 0 \/ desk[k1].doing = "create" => desk[k2] = NoDesk

DeskBounds ==
  /\ OneSide
  /\ member \/ reader.at \in {"rows", "answered", "done"}
  /\ \A c \in Clerks : desk[c].doing = "acknowledge" => reader.at # "none"
  /\ job[3] # NoJob =>
       /\ ~InboxSide /\ desk[k2] = NoDesk /\ hitches = 0 /\ desk[k1].run < 2
       /\ job[3].state = "queued" /\ job[2].state = "queued"

DeskStep ==
  /\ reader.at # "done" /\ DeskNext /\ DeskBounds'
  /\ desk[k2] = NoDesk /\ desk'[k2] # NoDesk => desk[k1].at # "none"

\* Attribution: agents whose names begin alike, one with an accent; a template that tells
\* agents apart, one that does not quite, one that does not at all.
MCHands    == <<"dev", "dev2", "eve">>
MCHandOf   == <<"dev", "dev2", "dev">>
MCHandName == [dev |-> <<"d", "e", "v">>, dev2 |-> <<"d", "e", "v", " ", "2">>, eve |-> <<"E'", "v", "e", " ", "d", "e">>]
MCDefault  == <<"{agent}", "/", "{key}">>
MCTemplates == {MCDefault, <<"{agent}", "-", "{key}">>, <<"{key}", "/", "{agent}">>}

\* One event, behind that of the pull request's opening, is enough: none tells of another.
\* While a push or a text waits to be told, no run ends; texts and their templates are alike.
AttributionStep ==
  /\ said.act \in {"none", "opened"} /\ AttributionNext
  /\ spoken # NoText => offer' = offer /\ tip' = tip
  /\ spoken' # NoText => seenTip = tip.no
  /\ tip.no > 1 \/ spoken # NoText => \A r \in Shifts : shift'[r] \in {shift[r], "lost"}
  /\ offer.state = "closed" => shift' = shift /\ tip' = tip
  /\ tip'.no > 1 => ~Contains(template, "-")
  /\ spoken' # NoText => template = MCDefault

GuardInit ==
  /\ focus \in {"guard", "rules", "schedule", "desk", "attribution"} /\ Init /\ RulesInit /\ ScheduleInit /\ DeskInit /\ AttributionInit
  /\ focus # "attribution" => template = MCDefault
  /\ focus # "schedule" => schedule.expr = EveryOther
  /\ focus # "guard" => nRuns = 0

\* Where the process crashes humans say nothing but in reviews: crashes do not change what
\* a human's word does to a chain.
CrashesApart ==
  crashes' > 0 /\ byHuman = {} =>
    \A e \in 1 .. nEvents' : actor'[e] = Human => review'[e] # NoReview

\* It does not matter how late it is when something happens first.
ClockStartsLater == nRuns = 0 /\ nEvents = 0 => clock' = clock

\* The requests are alike: they begin in one order.
GuardNext ==
  \/ focus = "guard" /\ Next /\ CrashesApart /\ ClockStartsLater /\ UNCHANGED <<focus, rulesVars, scheduleVars, deskVars, attributionVars>>
  \/ /\ focus = "rules" /\ RulesNext /\ UNCHANGED <<focus, vars, scheduleVars, deskVars, attributionVars>>
     /\ patches'[p2].does # "nothing" => patches[p1].does # "nothing"
     /\ patches'[p3].does # "nothing" => patches[p2].does # "nothing"
  \/ focus = "schedule" /\ ScheduleNext /\ UNCHANGED <<focus, vars, rulesVars, deskVars, attributionVars>>
  \/ focus = "desk" /\ DeskStep /\ UNCHANGED <<focus, vars, rulesVars, scheduleVars, attributionVars>>
  \/ focus = "attribution" /\ AttributionStep /\ UNCHANGED <<focus, vars, rulesVars, scheduleVars, deskVars>>

GuardSpec == GuardInit /\ [][GuardNext]_<<focus, vars, rulesVars, scheduleVars, deskVars, attributionVars>>

TwoAgents  == <<dev, critic>>
MCListens  == <<{"outside"}, {"agent", "check"}>>
MCWindow   == <<1, 0>>
Always     == [t \in Triggers |-> TRUE]
MCDepth    == [t \in Triggers |-> 2]

\* Rules: a kind with activities and branches, and a schedule; conditions that are always
\* true, of what is empty, of what differs, of who acts, and one of an unknown operator.
MCCatalog == ("pull_request" :> [source |-> "github.poll", acts |-> {"opened", "closed"}, branches |-> TRUE])
          @@ ("schedule" :> [source |-> "cron", acts |-> {"tick"}, branches |-> FALSE])
MCLeaf(op, field, want) == [node |-> "leaf", op |-> op, field |-> field, want |-> want]
MCNode(q, kids) == [node |-> q, kids |-> kids]
MCTrees == {MCNode("all", <<>>), MCNode("all", <<MCLeaf("text.is_empty", "title", "")>>),
            MCNode("any", <<MCLeaf("text.is_not", "title", "a"), MCLeaf("set.excludes", "labels", "bug")>>),
            MCNode("any", <<MCLeaf("actor.is_agent", "", ""), MCNode("all", <<MCLeaf("set.includes", "labels", "bug")>>)>>),
            MCNode("all", <<MCLeaf("text.like", "title", "a")>>)}
MCText(v) == [type |-> "text", is |-> v]
MCHappenings ==
  {[kind |-> "pull_request", act |-> "opened", branch |-> "main", fields |-> fs] :
     fs \in {<<>>, [title |-> MCText("b"), labels |-> [type |-> "set", has |-> {"bug"}]]}}
  \cup {[kind |-> "schedule", act |-> "tick", branch |-> "", fields |-> <<>>]}
MCPatched == {{"enabled"}, {"cond"}, {"acts"}, {"branches"}, {"source", "kind", "acts", "cron"}}
==============================================================================
