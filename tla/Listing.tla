--------------------------------- MODULE Listing ---------------------------------
(***************************************************************************)
(* A listing of the forge is read page by page while the forge goes on.    *)
(* Pages are cut by position from the list as it is at that request, so    *)
(* what moves between two of them moves others over the border.            *)
(*                                                                         *)
(* One listing of one kind at a time; pull requests and comments are read  *)
(* from a cursor on, which then goes to the last update read, as a tick of *)
(* the poller leaves it.  Times are the forge's, in seconds: several       *)
(* updates may have one.                                                   *)
(***************************************************************************)
EXTENDS Naturals, FiniteSets

CONSTANTS
  Entries,        \* ids, in the order they come to be
  PullEntries,   \* the issues that are pull requests
  PageSize, MaxPages,
  MaxTurned      \* bound: changes on the forge

ASSUME ListingAssumption ==
  /\ Entries \subseteq Nat \ {0} /\ IsFiniteSet(Entries)
  /\ PageSize \in Nat \ {0} /\ MaxPages \in Nat \ {0}

CursorLists == {"pulls", "review_comments", "issue_comments"}
CommentLists == {"review_comments", "issue_comments"}
ListKinds    == CursorLists \cup {"reviews", "suites", "issues"}

VARIABLES
  listed,       \* what is listed
  touched,    \* item -> when it was updated last, 0 before it is there
  shut,     \* closed issues
  second, turns,
  cursorAt,      \* the cursor
  pageNo,      \* the page to read, 0 between listings
  rowsRead,    \* what was read: the item, its time and the page it was on
  dueRows,        \* history: what the listing is to have
  slid,       \*   an item left its place while the listing was read
  cutShort    \*   the listing was left at MaxPages

listingVars == <<listed, touched, shut, second, turns, cursorAt, pageNo, rowsRead, dueRows, slid, cutShort>>

OnForge  == {i \in Entries : touched[i] # 0}
RowsRead == {x[1] : x \in rowsRead}

------------------------------------------------------------------------------
(* The forge. *)

Happens(i) ==
  /\ turns < MaxTurned /\ turns' = turns + 1
  /\ second' \in {second, second + 1} /\ touched' = [touched EXCEPT ![i] = second']
  /\ UNCHANGED <<listed, cursorAt, pageNo, rowsRead, dueRows, cutShort>>

Appears(i) ==
  /\ i \notin OnForge /\ (\A j \in Entries : j < i => j \in OnForge)
  /\ Happens(i) /\ UNCHANGED <<shut, slid>>

\* Pushed to, edited, or a suite run again; reviews stay where they are.
Updates(i) == i \in OnForge /\ Happens(i) /\ slid' = (slid \/ pageNo # 0) /\ UNCHANGED shut

Closes(i) ==
  /\ listed = "issues" /\ i \in OnForge \ shut
  /\ Happens(i) /\ shut' = shut \cup {i} /\ slid' = (slid \/ pageNo # 0)

------------------------------------------------------------------------------
(* Reading. *)

Newest(i, j) == touched[i] > touched[j] \/ (touched[i] = touched[j] /\ i > j)

\* The orders the forge lists in: what comes before each item.
LastUpdateFirst(items)  == [i \in items |-> {j \in items : Newest(j, i)}]
FirstUpdateFirst(items) == [i \in items |-> {j \in items : Newest(i, j)}]
OldestFirst(items)      == [i \in items |-> {j \in items : j < i}]
NewestFirst(items)      == [i \in items |-> {j \in items : j > i}]

ThisPage(ahead) ==
  {i \in DOMAIN ahead : /\ (pageNo - 1) * PageSize <= Cardinality(ahead[i])
                        /\ Cardinality(ahead[i]) < pageNo * PageSize}

ForgeStill == UNCHANGED <<listed, touched, shut, second, turns, dueRows, slid>>

\* What was read is handed over, and the cursor goes with the updates.
Latest(rows) ==
  LET times == {cursorAt} \cup {x[2] : x \in rows} IN CHOOSE t \in times : \A u \in times : u <= t

\* A page's rows, and with the last page, or at MaxPages, the end of it.
TakePage(ahead, rows, enough) ==
  /\ rowsRead' = rowsRead \cup {<<i, touched[i], pageNo>> : i \in rows}
  /\ LET more == Cardinality(DOMAIN ahead) > pageNo * PageSize /\ ~enough
         left == more /\ pageNo = MaxPages
     IN /\ pageNo' = IF more /\ ~left THEN pageNo + 1 ELSE 0
        /\ cutShort' = left
        /\ cursorAt' = IF pageNo' = 0 /\ listed \in CursorLists THEN Latest(rowsRead') ELSE cursorAt
  /\ ForgeStill

ListingStarts ==
  /\ pageNo = 0 /\ pageNo' = 1 /\ rowsRead' = {} /\ slid' = FALSE /\ cutShort' = FALSE
  /\ dueRows' = {i \in OnForge : touched[i] >= cursorAt /\ i \notin shut /\ (listed # "issues" \/ i \notin PullEntries)}
  /\ UNCHANGED <<listed, touched, shut, second, turns, cursorAt>>

\* The last update first: what is older than the cursor ends it.
ListPullRequests ==
  /\ listed = "pulls" /\ pageNo # 0
  /\ LET ahead == LastUpdateFirst(OnForge)
         fresh == {i \in ThisPage(ahead) : touched[i] >= cursorAt}
     IN TakePage(ahead, fresh, fresh # ThisPage(ahead))

\* In the order they were written.
ListReviews ==
  /\ listed = "reviews" /\ pageNo # 0
  /\ LET ahead == OldestFirst(OnForge) IN TakePage(ahead, ThisPage(ahead), FALSE)

\* Mutant: only what came after the last one read.
CommentedAfter == FirstUpdateFirst({i \in OnForge : touched[i] > cursorAt})

\* The first update first, and the forge leaves out what is older than the cursor.
Commented == FirstUpdateFirst({i \in OnForge : touched[i] >= cursorAt})
ListReviewComments ==
  listed = "review_comments" /\ pageNo # 0 /\ TakePage(Commented, ThisPage(Commented), FALSE)
ListIssueComments ==
  listed = "issue_comments" /\ pageNo # 0 /\ TakePage(Commented, ThisPage(Commented), FALSE)

\* The suites of one commit, the newest first.
ListCheckSuites ==
  /\ listed = "suites" /\ pageNo # 0
  /\ LET ahead == NewestFirst(OnForge) IN TakePage(ahead, ThisPage(ahead), FALSE)

\* Open ones, the newest first; pull requests take their places and are left out.
ListOpenIssues ==
  /\ listed = "issues" /\ pageNo # 0
  /\ LET ahead == NewestFirst(OnForge \ shut)
     IN TakePage(ahead, ThisPage(ahead) \ PullEntries, FALSE)

\* A page that cannot be read takes the others with it.
PageFails ==
  /\ pageNo # 0 /\ pageNo' = 0 /\ rowsRead' = {} /\ dueRows' = {}
  /\ UNCHANGED <<listed, touched, shut, second, turns, cursorAt, slid, cutShort>>

------------------------------------------------------------------------------
ListingInit ==
  /\ listed \in ListKinds /\ touched = [i \in Entries |-> IF i = 1 THEN 1 ELSE 0] /\ shut = {}
  /\ second = 1 /\ turns = 0 /\ cursorAt = 0 /\ pageNo = 0 /\ rowsRead = {}
  /\ dueRows = {} /\ slid = FALSE /\ cutShort = FALSE

ListingNext ==
  \/ \E i \in Entries : Appears(i) \/ Closes(i) \/ (Updates(i) /\ listed # "reviews")
  \/ ListingStarts \/ PageFails
  \/ ListPullRequests \/ ListReviews \/ ListReviewComments \/ ListIssueComments
  \/ ListCheckSuites \/ ListOpenIssues

ListingSpec == ListingInit /\ [][ListingNext]_listingVars

------------------------------------------------------------------------------
(* Properties. *)

\* Where a listing may miss what it is for: a comment edited, or an issue closed, draws those
\* behind it to a page already read; and past MaxPages there is only what a cursor comes to.
MayMiss ==
  \/ slid /\ listed \in CommentLists \cup {"issues"}
  \/ cutShort /\ listed \notin CommentLists

\* Nothing is passed over: what was due when the listing began was read, or its time is not
\* past and the next listing has it (the List functions, and pollPulls and pollComments
\* that move the cursor behind them).
NothingPassedOver ==
  pageNo = 0 /\ ~MayMiss => \A i \in dueRows : i \in RowsRead \/ (listed \in CursorLists /\ touched[i] >= cursorAt)

\* The updates of pull requests while they are listed only ever bring one twice; what is in
\* its order of birth or left alone comes once.
ReadOnce ==
  listed = "reviews" \/ (listed \in CommentLists /\ ~slid) =>
    \A x, y \in rowsRead : x[1] = y[1] => x = y

ListingInv == NothingPassedOver /\ ReadOnce
=============================================================================
