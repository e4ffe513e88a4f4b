---------------------------------- MODULE Wiki ----------------------------------
(***************************************************************************)
(* The wiki: pages that humans edit, proposals that agents make and humans *)
(* accept or dismiss, versions, and the job that demotes pages whose       *)
(* verification has expired.                                               *)
(*                                                                         *)
(* Every request reads a page, works on its copy, and writes the WHOLE row *)
(* back in a transaction; others come in between.  The reads of a request  *)
(* before its transaction are one step, except LatestVersion.  A body is   *)
(* the number of the text it holds; titles, slugs and the rewriting of     *)
(* labels in mentions are left out.                                        *)
(***************************************************************************)
EXTENDS Naturals, FiniteSets

CONSTANTS
  Pages,      \* the rows there may be
  NoPage,
  Editors,    \* concurrent requests of humans
  MaxEdits,   \* bound: requests of humans and calls of agents
  MaxDay      \* bound: days

ASSUME WikiAssumption == NoPage \notin Pages /\ MaxDay \in Nat

VARIABLES
  row,        \* wiki_pages; NoRow until created
  latest,     \* the highest version of each page; UNIQUE (page_id, version)
  copy,       \* what a request holds between its reads and its transaction
  demoting,   \* rows ExpiredAlways returned, not written back yet
  day, edits, \* edits also numbers the texts
  agentsText,    \* history: texts agents wrote
  approved    \* history: texts of proposals that humans accepted

wikiVars == <<row, latest, copy, demoting, day, edits, agentsText, approved>>

NoRow == [state |-> "none", archived |-> FALSE, parent |-> NoPage, body |-> 0, scope |-> "auto",
          until |-> 0, target |-> NoPage, base |-> 0]
NoCopy  == [op |-> "idle", page |-> NoPage, row |-> NoRow, target |-> NoPage, over |-> NoRow, next |-> 0]

PageExists(p) == row[p].state # "none"
LivePage(p) == row[p].state = "live" /\ ~row[p].archived
Root(p)     == row[p].parent = NoPage

HasChildren(p) == \E q \in Pages : PageExists(q) /\ ~row[q].archived /\ row[q].parent = p

LatestVersion(p) == latest[p]

Start == edits < MaxEdits /\ edits' = edits + 1
Text == edits + 1

------------------------------------------------------------------------------
(* Requests: what they read, and the copy they keep. *)

\* Create's checks of the parent; the row is inserted later.
ReadCreate(w, p, par) ==
  /\ Start /\ ~PageExists(p) /\ copy[w] = NoCopy
  /\ par # NoPage => PageExists(par) /\ LivePage(par) /\ Root(par)
  /\ copy' = [copy EXCEPT ![w] = [NoCopy EXCEPT !.op = "create", !.page = p, !.next = 1,
       !.row = [NoRow EXCEPT !.state = "live", !.parent = par, !.body = Text]]]
  /\ UNCHANGED <<row, latest, demoting, day, agentsText, approved>>

\* checkParent: a live root, not the page itself, for a page without children.
MayMoveUnder(p, par) == par # p /\ LivePage(par) /\ Root(par) /\ ~HasChildren(p)

Patched(r) ==
       {[r EXCEPT !.body = Text]}                             \* a body
  \cup {[r EXCEPT !.scope = "always", !.until = d] : d \in 1..MaxDay} \cup {[r EXCEPT !.scope = "auto"]}

\* Update up to LatestVersion: a body, front matter, or another parent.
ReadUpdate(w, p) ==
  /\ Start /\ copy[w] = NoCopy
  /\ PageExists(p) /\ ~row[p].archived
  /\ \E r \in Patched(row[p])
          \cup {[row[p] EXCEPT !.parent = par] :
                  par \in {NoPage} \cup {q \in Pages : MayMoveUnder(p, q)}} :
       copy' = [copy EXCEPT ![w] =
         [NoCopy EXCEPT !.op = IF r.body # row[p].body THEN "edit" ELSE "save", !.page = p, !.row = r]]
  /\ UNCHANGED <<row, latest, demoting, day, agentsText, approved>>

\* The second read of Update, only when the content changed.
ReadLatest(w) ==
  /\ copy[w].op = "edit" /\ copy[w].next = 0
  /\ copy' = [copy EXCEPT ![w].next = LatestVersion(copy[w].page) + 1]
  /\ UNCHANGED <<row, latest, demoting, day, edits, agentsText, approved>>

ReadArchive(w, p) ==
  /\ Start /\ copy[w] = NoCopy
  /\ PageExists(p) /\ ~row[p].archived
  /\ copy' = [copy EXCEPT ![w] = [NoCopy EXCEPT !.op = "archive", !.page = p,
                                    !.row = [row[p] EXCEPT !.archived = TRUE]]]
  /\ UNCHANGED <<row, latest, demoting, day, agentsText, approved>>

Pending(p) == row[p].state = "proposed" /\ ~row[p].archived

\* acceptCreateProposal: the proposal itself goes live.
ReadAcceptCreate(w, p) ==
  /\ Start /\ copy[w] = NoCopy
  /\ Pending(p) /\ row[p].target = NoPage
  /\ copy' = [copy EXCEPT ![w] = [NoCopy EXCEPT !.op = "publish", !.page = p,
                                    !.row = [row[p] EXCEPT !.state = "live"]]]
  /\ UNCHANGED <<row, latest, demoting, day, agentsText, approved>>

\* acceptEditProposal up to its transaction: the three-way check.
ReadAcceptEdit(w, p) ==
  LET t == row[p].target
  IN /\ Start /\ copy[w] = NoCopy
     /\ Pending(p) /\ t # NoPage /\ ~row[t].archived
     /\ LatestVersion(t) = row[p].base
     /\ copy' = [copy EXCEPT ![w] =
          [NoCopy EXCEPT !.op = "accept", !.page = p, !.row = [row[p] EXCEPT !.archived = TRUE],
             !.target = t, !.over = [row[t] EXCEPT !.body = row[p].body], !.next = LatestVersion(t) + 1]]
     /\ UNCHANGED <<row, latest, demoting, day, agentsText, approved>>

ReadDismiss(w, p) ==
  /\ Start /\ copy[w] = NoCopy
  /\ Pending(p)
  /\ copy' = [copy EXCEPT ![w] = [NoCopy EXCEPT !.op = "dismiss", !.page = p,
                                    !.row = [row[p] EXCEPT !.archived = TRUE]]]
  /\ UNCHANGED <<row, latest, demoting, day, agentsText, approved>>

------------------------------------------------------------------------------
(* The transactions. *)

Done(w) == copy' = [copy EXCEPT ![w] = NoCopy]

\* CreatePage and version 1.
CommitCreate(w) ==
  LET c == copy[w]
  IN /\ c.op = "create" /\ ~PageExists(c.page) /\ Done(w)
     /\ row' = [row EXCEPT ![c.page] = c.row] /\ latest' = [latest EXCEPT ![c.page] = 1]
     /\ UNCHANGED <<demoting, day, edits, agentsText, approved>>

SaveCopyLive(w) == [row EXCEPT ![copy[w].page] = [copy[w].row EXCEPT !.state = "live"]]

\* UpdatePage: every mutable column, as the request read it.
SaveCopy(w) == [row EXCEPT ![copy[w].page] = copy[w].row]

\* Update: a version only when the content changed; a version taken meanwhile fails it.
CommitUpdate(w) ==
  LET c == copy[w]
  IN /\ c.op = "save" \/ (c.op = "edit" /\ c.next # 0)
     /\ Done(w)
     /\ IF c.op = "edit" /\ latest[c.page] >= c.next
        THEN UNCHANGED <<row, latest>>
        ELSE /\ row' = SaveCopy(w)
             /\ latest' = IF c.op = "edit" THEN [latest EXCEPT ![c.page] = c.next] ELSE latest
     /\ UNCHANGED <<demoting, day, edits, agentsText, approved>>

\* Archive lifts the page's children, proposals among them, to the root.
CommitArchive(w) ==
  LET saved == SaveCopy(w)
  IN /\ copy[w].op = "archive" /\ Done(w)
     /\ row' = [q \in Pages |-> IF saved[q].parent = copy[w].page /\ ~saved[q].archived
                                THEN [saved[q] EXCEPT !.parent = NoPage] ELSE saved[q]]
     /\ UNCHANGED <<latest, demoting, day, edits, agentsText, approved>>

\* The last step of acceptCreateProposal and of DismissProposal: one row.
CommitProposal(w) ==
  /\ copy[w].op \in {"publish", "dismiss"} /\ Done(w)
  /\ row' = SaveCopy(w)
  /\ approved' = IF copy[w].op = "publish" THEN approved \cup {copy[w].row.body} ELSE approved
  /\ UNCHANGED <<latest, demoting, day, edits, agentsText>>

\* The target's text and version, and the proposal archived.
CommitAcceptEdit(w) ==
  LET c == copy[w]
  IN /\ c.op = "accept" /\ Done(w)
     /\ IF latest[c.target] >= c.next
        THEN UNCHANGED <<row, latest, approved>>
        ELSE /\ row' = [row EXCEPT ![c.target] = c.over, ![c.page] = c.row]
             /\ latest' = [latest EXCEPT ![c.target] = c.next]
             /\ approved' = approved \cup {c.over.body}
     /\ UNCHANGED <<demoting, day, edits, agentsText>>

------------------------------------------------------------------------------
(* Agents and the demotion job. *)

\* propose_wiki_page: an edit of any page, archived or proposed ones too, or a page under
\* any parent; nothing checks its depth.  The rows are written one by one, the new page's
\* number is nobody else's.
ProposeWikiPage(p, target, par) ==
  /\ Start /\ ~PageExists(p) /\ \A w \in Editors : copy[w].page # p
  /\ target # NoPage => PageExists(target)
  /\ par # NoPage => PageExists(par)
  /\ row' = [row EXCEPT ![p] = [NoRow EXCEPT !.state = "proposed", !.parent = par, !.body = Text,
       !.target = target, !.base = IF target = NoPage THEN 0 ELSE LatestVersion(target)]]
  /\ latest' = [latest EXCEPT ![p] = 1]
  /\ agentsText' = agentsText \cup {Text}
  /\ UNCHANGED <<copy, demoting, day, approved>>

\* Live pages of scope "always" whose date is strictly before today.
ExpiredAlways == {p \in Pages : LivePage(p) /\ row[p].scope = "always" /\ row[p].until \in 1..(day - 1)}

\* DemoteExpired starts: one query.
ListExpired ==
  /\ demoting = {} /\ ExpiredAlways # {}
  /\ demoting' = {[page |-> p, row |-> row[p]] : p \in ExpiredAlways}
  /\ UNCHANGED <<row, latest, copy, day, edits, agentsText, approved>>

\* demoteOne, from the row the query returned.
DemoteOne(d) ==
  /\ row' = [row EXCEPT ![d.page] = [d.row EXCEPT !.scope = "auto"]]
  /\ demoting' = demoting \ {d}
  /\ UNCHANGED <<latest, copy, day, edits, agentsText, approved>>

NextDay ==
  /\ day < MaxDay /\ day' = day + 1
  /\ UNCHANGED <<row, latest, copy, demoting, edits, agentsText, approved>>

------------------------------------------------------------------------------
Reads ==
  \E w \in Editors, p \in Pages :
    \/ ReadUpdate(w, p) \/ ReadArchive(w, p) \/ ReadDismiss(w, p)
    \/ ReadAcceptCreate(w, p) \/ ReadAcceptEdit(w, p)
    \/ \E par \in Pages \cup {NoPage} : ReadCreate(w, p, par)

Commits ==
  \E w \in Editors : \/ ReadLatest(w) \/ CommitCreate(w) \/ CommitUpdate(w) \/ CommitArchive(w)
                     \/ CommitProposal(w) \/ CommitAcceptEdit(w)

AgentsAndJob ==
  \/ \E p \in Pages, t, par \in Pages \cup {NoPage} : ProposeWikiPage(p, t, par)
  \/ ListExpired
  \/ \E d \in demoting : DemoteOne(d)
  \/ NextDay

\* One page that its author wrote; the others are created.
WikiInit ==
  /\ row = [q \in Pages |-> IF q = CHOOSE p \in Pages : TRUE THEN [NoRow EXCEPT !.state = "live"] ELSE NoRow]
  /\ latest = [q \in Pages |-> IF row[q] = NoRow THEN 0 ELSE 1]
  /\ copy = [w \in Editors |-> NoCopy] /\ demoting = {}
  /\ day = 1 /\ edits = 0 /\ agentsText = {} /\ approved = {}

WikiNext == Reads \/ Commits \/ AgentsAndJob

\* The job runs every day and finishes its list.
WikiFairness == WF_wikiVars(ListExpired) /\ WF_wikiVars(\E d \in demoting : DemoteOne(d))

WikiSpec == WikiInit /\ [][WikiNext]_wikiVars /\ WikiFairness

------------------------------------------------------------------------------
(* Properties. *)

\* An accepted edit replaces the version it was written against, "never by silent
\* clobbering": the check before the transaction and the uniqueness of versions inside it
\* leave no moment at which another version could slip in (acceptEditProposal).
NoStaleAccept ==
  latest' # latest => \A w \in Editors :
    CommitAcceptEdit(w) => latest[copy[w].target] = row[copy[w].page].base

\* What an agent wrote is on no live page before a human accepted it, whatever stale rows
\* are written back ("proposed state - never live", toolProposeWikiPage).
HumanApproved == \A p \in Pages : LivePage(p) /\ row[p].body \in agentsText => row[p].body \in approved

\* No live page steers every run on an expired verification for good, also when a request
\* writes the old scope back over the demotion (DemoteExpired).
ExpiredIsDemoted ==
  []<>(\A p \in Pages : LivePage(p) /\ row[p].scope = "always" => row[p].until \notin 1..(day - 1))

\* "The wiki is two levels deep at most": the parent of a live page has no parent.  Not so:
\* a proposal under a nested page is accepted without the check.
TwoLevels == \A p \in Pages : LivePage(p) /\ ~Root(p) => Root(row[p].parent)

\* No text gets onto a live page past a human, none is lost to a stale acceptance, and none
\* steers every run past its time (Accept, DemoteExpired).
WikiHolds == [][HumanApproved' /\ NoStaleAccept]_wikiVars /\ ExpiredIsDemoted
=============================================================================
