-------------------------------- MODULE Rules --------------------------------
(***************************************************************************)
(* A trigger rule as people edit it and the engine reads it                *)
(* (internal/service/triggers: service.go, validate.go, match.go,          *)
(* conditions.go).  A patch reads the row, merges, validates all of it and *)
(* writes all of it; an event is matched against the row the engine read.  *)
(***************************************************************************)
EXTENDS FiniteSets, Naturals, Sequences

CONSTANTS
  Catalog,         \* event kind -> its source, activity types, and whether it has branches
  Schedule,        \* the kind that has a cron expression
  Happenings,      \* events: kind, activity, branch ("" for none), and fields
  RuleBranches,        \* branches there are
  Trees,           \* condition trees people write
  MaxDepth,        \* maxConditionDepth
  PatchedAtOnce,   \* sets of columns a patch has
  Patchers,        \* requests, each made once
  NoRule, GoneRule \* there is no such rule yet, and no more

Columns == {"enabled", "source", "kind", "acts", "branches", "cond", "cron"}

ASSUME RulesAssumption ==
  /\ Schedule \in DOMAIN Catalog /\ PatchedAtOnce \subseteq SUBSET Columns
  /\ \A e \in Happenings : e.kind \in DOMAIN Catalog /\ e.branch \in RuleBranches \cup {""}

VARIABLES
  rule,         \* the row, while it is there
  started,      \* a run or a ticket names it
  patches,      \* requests: what they are to do, and what they have read and merged
  reading,      \* the engine: an event, and the row it has read for it
  fired         \* history: the events that matched, with the rule's conditions then

rulesVars == <<rule, started, patches, reading, fired>>

------------------------------------------------------------------------------
(* What may be stored.                                                       *)

Operators == {"text.is", "text.is_not", "text.is_empty", "set.includes", "set.excludes", "actor.is_agent"}

\* A leaf has an operator that is known, and a field unless that is about the actor.
ValidLeaf(n) == n.op \in Operators /\ (n.field # "" \/ n.op = "actor.is_agent")

\* A node is an all or an any of nodes, or a leaf, no deeper than the limit.
RECURSIVE ValidNode(_, _)
ValidNode(n, depth) ==
  /\ depth <= MaxDepth
  /\ IF n.node = "leaf" THEN ValidLeaf(n)
     ELSE \A i \in DOMAIN n.kids : ValidNode(n.kids[i], depth + 1)

\* The source has the kind, and the kind the activities; the cron source vets its expression.
ValidWhen(row) ==
  /\ row.kind \in DOMAIN Catalog /\ Catalog[row.kind].source = row.source
  /\ row.acts \subseteq Catalog[row.kind].acts
  /\ row.kind = Schedule => row.cron

\* A filter the kind has no data for is refused.
ValidFilters(row) == row.branches # {} => Catalog[row.kind].branches

ValidRule(row) ==
  /\ ValidWhen(row) /\ ValidFilters(row) /\ ValidNode(row.cond, 1)
  /\ row.cron => row.kind = Schedule

Values(column) ==
  CASE column \in {"enabled", "cron"} -> BOOLEAN
    [] column = "source" -> {Catalog[k].source : k \in DOMAIN Catalog}
    [] column = "kind" -> DOMAIN Catalog
    [] column = "acts" -> {{}} \cup {Catalog[k].acts : k \in DOMAIN Catalog}
    [] column = "branches" -> {{}, RuleBranches}
    [] column = "cond" -> Trees

------------------------------------------------------------------------------
(* The match of an event.                                                    *)

\* A field the event does not carry is unknown.
LookupPath(e, field) == IF field \in DOMAIN e.fields THEN e.fields[field] ELSE [type |-> "unknown"]

\* Every operator is false of an unknown value, but for text.is_empty, and of one of the
\* wrong type.
Holds(n, e) ==
  LET got == LookupPath(e, IF n.op = "actor.is_agent" /\ n.field = "" THEN "actor" ELSE n.field) IN
  CASE n.op = "text.is"        -> got.type = "text" /\ got.is = n.want
    [] n.op = "text.is_not"    -> got.type = "text" /\ got.is # n.want
    [] n.op = "text.is_empty"  -> got.type = "unknown" \/ (got.type = "text" /\ got.is = "")
    [] n.op = "set.includes"   -> got.type = "set" /\ n.want \in got.has
    [] n.op = "set.excludes"   -> got.type = "set" /\ n.want \notin got.has
    [] n.op = "actor.is_agent" -> got.type = "actor" /\ got.is = "agent"
    [] OTHER -> FALSE

RECURSIVE EvalNode(_, _)
EvalNode(n, e) ==
  CASE n.node = "all" -> \A i \in DOMAIN n.kids : EvalNode(n.kids[i], e)
    [] n.node = "any" -> \E i \in DOMAIN n.kids : EvalNode(n.kids[i], e)
    [] n.node = "leaf" -> Holds(n, e)

\* No activity types are all of them; a filter an event has no data for does not pass it.
MatchStage(row, e) ==
  /\ e.kind = row.kind
  /\ row.acts = {} \/ e.act \in row.acts
  /\ row.branches = {} \/ e.branch \in row.branches

------------------------------------------------------------------------------
(* The requests.                                                             *)

IsRule == rule \notin {NoRule, GoneRule}

RulesInit ==
  /\ rule = NoRule /\ started = FALSE /\ fired = {} /\ reading = <<>>
  /\ patches = [p \in Patchers |-> [does |-> "nothing"]]

\* The row with some columns from another; and the rows a patch of some columns makes of it.
Patched(row, columns, new) == [c \in Columns |-> IF c \in columns THEN new[c] ELSE row[c]]

Merged(columns) ==
  LET May(c) == IF c \in columns THEN Values(c) ELSE {rule[c]} IN
    [enabled : May("enabled"), source : May("source"), kind : May("kind"), acts : May("acts"),
     branches : May("branches"), cond : May("cond"), cron : May("cron")]

\* Create: the defaults, and what the request has.
Defaults == [enabled |-> TRUE, source |-> "github.poll", kind |-> "", acts |-> {}, branches |-> {},
             cond |-> [node |-> "all", kids |-> <<>>], cron |-> FALSE]

Create(p, k, tree) ==
  /\ patches[p].does = "nothing" /\ rule = NoRule
  /\ LET row == [Defaults EXCEPT !.source = Catalog[k].source, !.kind = k, !.cond = tree,
                                 !.cron = k = Schedule]
     IN ValidRule(row) /\ rule' = row
  /\ patches' = [patches EXCEPT ![p] = [does |-> "done"]]
  /\ UNCHANGED <<started, reading, fired>>

\* Update reads the row, merges what the request has, and validates the whole.
AskPatch(p) ==
  /\ patches[p].does = "nothing" /\ IsRule
  /\ \E columns \in PatchedAtOnce : \E row \in Merged(columns) :
       /\ ValidRule(row)
       /\ patches' = [patches EXCEPT ![p] = [does |-> "patch", columns |-> columns, row |-> row]]
  /\ UNCHANGED <<rule, started, reading, fired>>

\* The statement: every column, as merged with the row it has read.
WritesSome(p) == Patched(rule, patches[p].columns, patches[p].row)
WritesAll(p)  == patches[p].row

WritePatch(p) ==
  /\ patches[p].does = "patch"
  /\ rule' = IF IsRule THEN WritesAll(p) ELSE rule
  /\ patches' = [patches EXCEPT ![p] = [does |-> "done"]]
  /\ UNCHANGED <<started, reading, fired>>

\* Delete: with its firings, unless something it has started names it.
Delete(p) ==
  /\ patches[p].does = "nothing" /\ IsRule
  /\ rule' = IF started THEN rule ELSE GoneRule
  /\ patches' = [patches EXCEPT ![p] = [does |-> "done"]]
  /\ UNCHANGED <<started, reading, fired>>

------------------------------------------------------------------------------
(* The engine.                                                               *)

\* It reads the rules that are enabled, for an event.
ReadRules(e) ==
  /\ reading = <<>> /\ IsRule /\ rule.enabled
  /\ reading' = <<e, rule>>
  /\ UNCHANGED <<rule, started, patches, fired>>

\* And matches the event. What it starts names the rule, if that is still there.
MatchEvent ==
  /\ reading # <<>> /\ reading' = <<>>
  /\ IF MatchStage(reading[2], reading[1]) /\ EvalNode(reading[2].cond, reading[1])
     THEN /\ fired' = fired \cup {<<reading[1], reading[2].cond>>}
          /\ started' = IsRule
     ELSE UNCHANGED <<fired, started>>
  /\ UNCHANGED <<rule, patches>>

RulesNext ==
  \/ \E p \in Patchers :
       \/ \E k \in DOMAIN Catalog, tree \in Trees : Create(p, k, tree)
       \/ AskPatch(p) \/ WritePatch(p) \/ Delete(p)
  \/ \E e \in Happenings : ReadRules(e)
  \/ MatchEvent

RulesSpec == RulesInit /\ [][RulesNext]_rulesVars

------------------------------------------------------------------------------
RulesTypeOK ==
  /\ IsRule => DOMAIN rule = Columns
  /\ started \in BOOLEAN /\ fired \subseteq Happenings \X Trees
  /\ \A p \in Patchers : patches[p].does \in {"nothing", "patch", "done"}

\* Whatever patches come together, the row has been validated as it is stored: a schedule has
\* its expression, a filter the data it tests, a condition an operator that is known.
StoredIsValid == IsRule => ValidRule(rule)

\* What a tree says of an event that has none of the fields it asks about.
RECURSIVE OfUnknown(_)
OfUnknown(n) ==
  CASE n.node = "all" -> \A i \in DOMAIN n.kids : OfUnknown(n.kids[i])
    [] n.node = "any" -> \E i \in DOMAIN n.kids : OfUnknown(n.kids[i])
    [] n.node = "leaf" -> n.op = "text.is_empty"

\* "an unknown value is not known to differ": an event that carries none of the fields fires
\* a rule by what is empty only.
UnknownNeverFires == \A f \in fired : f[1].fields = <<>> => OfUnknown(f[2])

RulesInv == RulesTypeOK /\ StoredIsValid /\ UnknownNeverFires
=============================================================================
