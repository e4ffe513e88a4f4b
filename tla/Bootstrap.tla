----------------------------- MODULE Bootstrap -----------------------------
(***************************************************************************)
(* The import of a repository into a project (internal/service/bootstrap:  *)
(* preview.go, apply.go, wikiimport.go): a checklist of issues, documents, *)
(* suggested triggers and agents, and the apply of the checked part of it, *)
(* which may fail anywhere and be sent again.                              *)
(***************************************************************************)
EXTENDS FiniteSets, Naturals

CONSTANTS
  Issues, Documents,          \* what the forge may list
  Proposals, Suggested,       \* what is suggested: triggers, and agents
  Applies,                    \* requests to apply, each made once
  MaxChecked,                 \* bound: items of one request
  MaxTurns                    \* bound: what people and the forge do besides

\* An item is of one kind.
ASSUME BootstrapAssumption ==
  /\ MaxTurns \in Nat
  /\ Issues \cap Documents = {} /\ Proposals \cap (Issues \cup Documents) = {}
  /\ Suggested \cap (Issues \cup Documents \cup Proposals) = {}

Importable  == Issues \cup Documents \cup Proposals \cup Suggested
Sections    == <<Issues, Documents, Proposals, Suggested>>
ApplySteps  == {"idle", "item", "overview", "stamp", "done", "failed"}

VARIABLES
  onForge,       \* open issues and documents the forge has
  rows,         \* how many rows are marked as made from an item
  description,  \* of the project: none, a person's, or the draft
  apply,        \* the requests
  crossed,      \* history: items two requests were at at once
  turns         \* history: how often people and the forge did something besides

bootstrapVars == <<onForge, rows, description, apply, crossed, turns>>

Imported == {i \in Importable : rows[i] > 0}

BootstrapTypeOK ==
  /\ onForge \subseteq Issues \cup Documents /\ rows \in [Importable -> 0..3]
  /\ crossed \subseteq Importable /\ turns \in 0..MaxTurns
  /\ description \in {"none", "human", "draft"}
  /\ apply \in [Applies ->
       [at : ApplySteps, section : 0..4, left : SUBSET Importable, had : SUBSET Importable,
        open : SUBSET Importable, checked : SUBSET Importable, draft : BOOLEAN]]

NoApply == [at |-> "idle", section |-> 0, left |-> {}, had |-> {}, open |-> {}, checked |-> {}, draft |-> FALSE]

BootstrapInit ==
  /\ onForge = Issues \cup Documents /\ rows = [i \in Importable |-> 0] /\ crossed = {} /\ turns = 0
  /\ description = "none"
  /\ apply = [r \in Applies |-> NoApply]

------------------------------------------------------------------------------
(* The people and the forge.                                                 *)

HumanTurn == turns < MaxTurns /\ turns' = turns + 1

\* Issues are closed and reopened, documents deleted and restored.
ForgeChanges(i) ==
  /\ HumanTurn
  /\ onForge' = IF i \in onForge THEN onForge \ {i} ELSE onForge \cup {i}
  /\ UNCHANGED <<rows, description, apply, crossed>>

\* A person edits the marker out of a description, archives a page, renames an agent.
LosesMark(i) ==
  /\ HumanTurn
  /\ rows[i] > 0
  /\ rows' = [rows EXCEPT ![i] = @ - 1]
  /\ UNCHANGED <<onForge, description, apply, crossed>>

Describe ==
  /\ HumanTurn
  /\ description' = "human"
  /\ UNCHANGED <<onForge, rows, apply, crossed>>

\* The part of a preview, however old, that a person left checked, its draft of a
\* description with it or not. BuildPreview and WikiImportPreview write nothing.
SendApply(r, some, draft) ==
  /\ apply[r].at = "idle" /\ Cardinality(some) \in 1..MaxChecked
  /\ apply' = [apply EXCEPT ![r] = [@ EXCEPT !.at = "item", !.checked = some, !.draft = draft]]
  /\ UNCHANGED <<onForge, rows, description, crossed, turns>>

------------------------------------------------------------------------------
(* Apply.                                                                    *)

\* It forgets what it read.
CloseApply(r, how) == apply' = [apply EXCEPT ![r] = [NoApply EXCEPT !.at = how, !.checked = apply[r].checked]]

\* What a request has read as not yet imported, and is about to import.
AtHand(r) == IF apply[r].at = "item" THEN apply[r].left \ apply[r].had ELSE {}

\* The next section the list has something of: what the forge lists of it, for issues, and
\* what is imported by now. After the last, the draft and the time of the sync.
Part(r, k) == apply[r].checked \cap Sections[k]
After(r)   == {k \in 1..4 : k > apply[r].section /\ Part(r, k) # {}}

BeginSection(r) ==
  /\ apply[r].at = "item" /\ apply[r].left = {} /\ After(r) # {}
  /\ \E k \in After(r) :
       /\ \A j \in After(r) : k <= j
       /\ apply' = [apply EXCEPT ![r] = [@ EXCEPT
            !.section = k, !.left = Part(r, k), !.had = Imported \cap Part(r, k), !.open = onForge \cap Part(r, k)]]
  /\ crossed' = crossed \cup UNION {AtHand(q) \cap apply'[r].left : q \in Applies \ {r}}
  /\ UNCHANGED <<onForge, rows, description, turns>>

EndSections(r) ==
  /\ apply[r].at = "item" /\ apply[r].left = {} /\ After(r) = {}
  /\ apply' = [apply EXCEPT ![r] = [@ EXCEPT
       !.at = IF apply[r].draft THEN "overview" ELSE "stamp", !.had = {}, !.open = {}]]
  /\ UNCHANGED <<onForge, rows, description, crossed, turns>>

\* Skipped, as imported, or as gone: issues against the list of this request, documents
\* when they are read.
HadAgents(r) == apply[r].had \cap Suggested
Had(r)       == apply[r].had
Gone(r, i) == \/ i \in Issues /\ i \notin apply[r].open
              \/ i \in Documents /\ i \notin onForge

SkipItem(r, i) ==
  /\ apply[r].at = "item" /\ i \in apply[r].left
  /\ i \in Had(r) \/ Gone(r, i)
  /\ apply' = [apply EXCEPT ![r] = [@ EXCEPT !.left = apply[r].left \ {i}]]
  /\ UNCHANGED <<onForge, rows, description, crossed, turns>>

Inserted(i) == rows[i] < 3 /\ rows' = [rows EXCEPT ![i] = @ + 1]

\* A ticket with the number in its description; a page, under another slug if its own is
\* taken; a trigger, disabled: nothing in the table keeps a second one out.
ImportIssue(i)   == i \in Issues /\ Inserted(i)
ImportDoc(i)     == i \in Documents /\ Inserted(i)
ImportTrigger(i) == i \in Proposals /\ Inserted(i)

\* An agent, unless its name has come to be taken.
ImportAgent(i)   == i \in Suggested /\ rows[i] = 0 /\ Inserted(i)

\* Each is an insert of its own; one that fails fails the request.
CreateItem(r, i) ==
  /\ apply[r].at = "item" /\ i \in apply[r].left /\ i \notin Had(r) /\ ~Gone(r, i)
  /\ \/ /\ ImportIssue(i) \/ ImportDoc(i) \/ ImportTrigger(i) \/ ImportAgent(i)
        /\ apply' = [apply EXCEPT ![r] = [@ EXCEPT
             !.left = apply[r].left \ {i}, !.had = apply[r].had \cup {i}]]
     \/ /\ i \in Suggested /\ rows[i] > 0
        /\ CloseApply(r, "failed") /\ UNCHANGED rows
  /\ UNCHANGED <<onForge, description, crossed, turns>>

\* The draft, over the description that is there by now.
SetOverview(r) ==
  /\ apply[r].at = "overview"
  /\ apply' = [apply EXCEPT ![r] = [@ EXCEPT !.at = "stamp"]]
  /\ description' = "draft"
  /\ UNCHANGED <<onForge, rows, crossed, turns>>

\* A read of the forge or a write fails: what has been created stays.
ApplyFails(r) ==
  /\ apply[r].at \in {"item", "overview", "stamp"}
  /\ CloseApply(r, "failed")
  /\ UNCHANGED <<onForge, rows, description, crossed, turns>>

\* The time of the sync, and one audit entry for all of it.
StampSync(r) ==
  /\ apply[r].at = "stamp"
  /\ CloseApply(r, "done")
  /\ UNCHANGED <<onForge, rows, description, crossed, turns>>

BootstrapNext ==
  \/ \E i \in Issues \cup Documents : ForgeChanges(i)
  \/ \E i \in Importable : LosesMark(i)
  \/ Describe
  \/ \E r \in Applies :
       \/ \E some \in SUBSET Importable, draft \in BOOLEAN : SendApply(r, some, draft)
       \/ BeginSection(r) \/ EndSections(r) \/ SetOverview(r) \/ ApplyFails(r) \/ StampSync(r)
       \/ \E i \in Importable : SkipItem(r, i) \/ CreateItem(r, i)

BootstrapSpec == BootstrapInit /\ [][BootstrapNext]_bootstrapVars

------------------------------------------------------------------------------
\* "Items already imported are skipped even when a stale client re-sends them": whatever
\* failed before and was sent again, an item has one row, unless two requests were at it at
\* once; agents even then.
ImportedOnce == \A i \in Importable : rows[i] <= 1 \/ i \in crossed \ Suggested

\* "nothing is created silently": only what was checked.
NothingSilent == Imported \subseteq UNION {apply[r].checked : r \in Applies}

BootstrapInv == BootstrapTypeOK /\ ImportedOnce /\ NothingSilent
=============================================================================
