------------------------------ MODULE Delivery ------------------------------
(***************************************************************************)
(* What becomes of a run's work: the branch its workspace is prepared on   *)
(* (internal/service/runs/prep.go, branch.go), the commit and push of what *)
(* is in the workspace when it ends (internal/kernel/sched/preserve.go,    *)
(* service/runs/push.go), the outcome that is written down, and the pull   *)
(* request that is opened for a completed run (service/runs/propen.go).    *)
(*                                                                         *)
(* Commits are their runs: a branch of the repository is the set of runs   *)
(* whose commits are on it.  Every run may push and open pull requests;    *)
(* one without a grant has nothing to say here.                            *)
(***************************************************************************)
EXTENDS Naturals, Sequences

CONSTANTS
  Jobs,         \* runs
  Names,        \* <<n1, n2, ...>>: what the template renders, then with -2, -3, ...
  HeadBranch,   \* the head of a pull request that is open at the start
  BaseBranch,   \* the repository's default branch
  OtherBranch,  \* a branch the agent may make for itself
  NoBranch,
  Somebody,     \* the author of the pull request of HeadBranch
  MaxFaults     \* a crash, an unreachable container, an unreadable token

Branches == {Names[i] : i \in 1..Len(Names)} \cup {HeadBranch, BaseBranch, OtherBranch}
Refs     == Branches \cup {NoBranch}
Endings  == {"completed", "failed"}

ASSUME DeliveryAssumption ==
  /\ Len(Names) \in Nat /\ NoBranch \notin Branches /\ Somebody \notin Jobs /\ MaxFaults \in Nat
  /\ HeadBranch # BaseBranch /\ OtherBranch \notin {HeadBranch, BaseBranch}
  /\ \A i \in 1..Len(Names) : Names[i] \notin {HeadBranch, BaseBranch, OtherBranch}
  /\ \A i, k \in 1..Len(Names) : Names[i] = Names[k] => i = k

VARIABLES
  onPull,       \* the run's subject is the pull request of HeadBranch
  step,         \* where its supervisor is
  branch,       \* the branch Build chose
  rowBranch,    \* runs.branch
  checkout,     \* the branch checked out in the workspace
  cloned,       \* whose commits were on the branch when the workspace was cloned
  worked,       \* there is something in the workspace, committed or to be committed
  outcome,      \* the state the run ends in
  preserved,    \* preserveOutcome: what it says, and of which branch
  partial,      \* the partial_work rows: the branches they name
  pullRow,      \* it has a pull_request output
  remote,       \* the branches of the repository
  pulls,        \* heads of the open pull requests
  hurts

deliveryVars == <<onPull, step, branch, rowBranch, checkout, cloned, worked, outcome, preserved,
                  partial, pullRow, remote, pulls, hurts>>
jobVars   == <<onPull, branch, rowBranch, checkout, cloned, worked, outcome>>
paperVars == <<preserved, partial, pullRow>>
forgeVars == <<remote, pulls, hurts>>

Unattempted == [says |-> "unattempted", of |-> NoBranch]

DeliveryTypeOK ==
  /\ onPull \in [Jobs -> BOOLEAN]
  /\ step \in [Jobs -> {"queued", "prepare", "work", "preserve", "record", "open", "append", "over"}]
  /\ branch \in [Jobs -> Refs] /\ rowBranch \in [Jobs -> Refs] /\ checkout \in [Jobs -> Refs]
  /\ cloned \in [Jobs -> SUBSET (Jobs \cup {Somebody})]
  /\ worked \in [Jobs -> BOOLEAN]
  /\ outcome \in [Jobs -> Endings \cup {"none"}]
  /\ preserved \in [Jobs -> [says : {"unattempted", "pushed", "nothing", "failure"}, of : Refs]]
  /\ partial \in [Jobs -> SUBSET Branches] /\ pullRow \in [Jobs -> BOOLEAN]
  /\ remote \in [Branches -> SUBSET (Jobs \cup {Somebody})] /\ pulls \subseteq Branches
  /\ hurts \in 0..MaxFaults

DeliveryInit ==
  /\ onPull \in [Jobs -> BOOLEAN]
  /\ step = [r \in Jobs |-> "queued"]
  /\ branch = [r \in Jobs |-> NoBranch] /\ rowBranch = branch /\ checkout = branch
  /\ cloned = [r \in Jobs |-> {}]
  /\ worked = [r \in Jobs |-> FALSE]
  /\ outcome = [r \in Jobs |-> "none"]
  /\ preserved = [r \in Jobs |-> Unattempted]
  /\ partial = [r \in Jobs |-> {}] /\ pullRow = [r \in Jobs |-> FALSE]
  /\ remote = [b \in Branches |-> IF b = HeadBranch THEN {Somebody} ELSE {}]
  /\ pulls = {HeadBranch}
  /\ hurts = 0

GoOn(r, s) == step' = [step EXCEPT ![r] = s]
Hurts      == hurts < MaxFaults /\ hurts' = hurts + 1

------------------------------------------------------------------------------
(* Where the run works.                                                      *)

\* BranchTaken: some run of the project, whatever became of it, has the name on its row.
Taken(b) == \E r \in Jobs : rowBranch[r] = b

\* uniqueBranch: the first of the names that is free.  The models never run out of them.
UniqueBranch(b) ==
  \E i \in 1..Len(Names) : Names[i] = b /\ ~Taken(b) /\ \A k \in 1..(i - 1) : Taken(Names[k])

\* workspaceRefs: on the pull request's own branch, or on a fresh one.  Nothing is written yet.
WorkspaceRefs(r) ==
  /\ step[r] = "queued"
  /\ \E b \in Branches :
       /\ IF onPull[r] THEN b = HeadBranch ELSE UniqueBranch(b)
       /\ branch' = [branch EXCEPT ![r] = b]
  /\ GoOn(r, "prepare")
  /\ UNCHANGED <<onPull, rowBranch, checkout, cloned, worked, outcome, paperVars, forgeVars>>

\* Prepare has cloned; SetProvisioned writes the branch on the row.
SetProvisioned(r) ==
  /\ step[r] = "prepare"
  /\ rowBranch' = [rowBranch EXCEPT ![r] = branch[r]]
  /\ checkout' = [checkout EXCEPT ![r] = branch[r]]
  /\ cloned' = [cloned EXCEPT ![r] = IF onPull[r] THEN remote[branch[r]] ELSE {}]
  /\ GoOn(r, "work")
  /\ UNCHANGED <<onPull, branch, worked, outcome, paperVars, forgeVars>>

\* Prepare fails: the run has no branch to preserve.
PrepareFails(r) ==
  /\ step[r] = "prepare"
  /\ outcome' = [outcome EXCEPT ![r] = "failed"]
  /\ GoOn(r, "over")
  /\ UNCHANGED <<onPull, branch, rowBranch, checkout, cloned, worked, paperVars, forgeVars>>

\* The agent edits, commits, makes a branch of its own, goes to the default branch.
AgentWorks(r) ==
  /\ step[r] = "work"
  /\ \/ /\ worked' = [worked EXCEPT ![r] = TRUE]
        /\ UNCHANGED checkout
     \/ /\ checkout[r] = branch[r]
        /\ \E b \in {OtherBranch, BaseBranch, NoBranch} : checkout' = [checkout EXCEPT ![r] = b]
        /\ UNCHANGED worked
  /\ UNCHANGED <<onPull, step, branch, rowBranch, cloned, outcome, paperVars, forgeVars>>

SessionEnds(r, kind) ==
  /\ step[r] = "work"
  /\ outcome' = [outcome EXCEPT ![r] = kind]
  /\ GoOn(r, "preserve")
  /\ UNCHANGED <<onPull, branch, rowBranch, checkout, cloned, worked, paperVars, forgeVars>>

------------------------------------------------------------------------------
(* preserveAndPush.                                                          *)

\* The branch that is pushed: HEAD's, or the run's when HEAD is detached.
PushedBranch(r) == IF checkout[r] = NoBranch THEN branch[r] ELSE checkout[r]

\* The remote takes a push that is a fast-forward: the workspace was cloned before another
\* run's commits got there, unless there are none.
FastForward(r, b) == remote[b] \subseteq {r} \cup IF b = branch[r] THEN cloned[r] ELSE {}

SaysOfOwn(r, what) == preserved' = [preserved EXCEPT ![r] = [says |-> what, of |-> branch[r]]]
Says(r, what) == preserved' = [preserved EXCEPT ![r] = [says |-> what, of |-> PushedBranch(r)]]

\* ForRun without an error: the default branch is known, so it is refused.
RefusesBase(r) ==
  /\ PushedBranch(r) = BaseBranch
  /\ Says(r, "failure")
  /\ UNCHANGED <<remote, hurts>>

\* The script commits what is there, then pushes it if HEAD has moved.
Push(r) ==
  /\ PushedBranch(r) # BaseBranch
  /\ LET b == PushedBranch(r) IN
       IF ~worked[r] THEN Says(r, "nothing") /\ UNCHANGED remote
       ELSE IF FastForward(r, b) THEN Says(r, "pushed") /\ remote' = [remote EXCEPT ![b] = @ \cup {r}]
       ELSE Says(r, "failure") /\ UNCHANGED remote
  /\ UNCHANGED hurts

\* The container is gone, the commit fails, or the credential cannot be read: then neither
\* the default branch is known nor the remote pushed to, and the work may be committed.
CannotPush(r) ==
  /\ Hurts
  /\ \/ Says(r, "failure")
     \/ ~worked[r] /\ Says(r, "nothing")
  /\ UNCHANGED remote

PreserveAndPush(r) ==
  /\ step[r] = "preserve"
  /\ RefusesBase(r) \/ Push(r) \/ CannotPush(r)
  /\ GoOn(r, "record")
  /\ UNCHANGED <<jobVars, partial, pullRow, pulls>>

\* recordPartialWork when a push landed and the run did not complete, the teardown, the
\* terminal transition with a message made of preserveOutcome; a run that completed goes on
\* to its pull request.  A crash inside leaves what one before it leaves.
RecordAndEnd(r) ==
  /\ step[r] = "record"
  /\ partial' = [partial EXCEPT ![r] = @ \cup
       IF preserved[r].says = "pushed" /\ outcome[r] # "completed" THEN {preserved[r].of} ELSE {}]
  /\ GoOn(r, IF outcome[r] = "completed" THEN "open" ELSE "over")
  /\ UNCHANGED <<jobVars, preserved, pullRow, forgeVars>>

------------------------------------------------------------------------------
(* OpenForRun.                                                               *)

\* The forge opens one if the head branch has commits of its own and no pull request.
ForgeOpens(b) == b \notin pulls /\ remote[b] # {}

\* The pull request's head is the row's branch, wherever the work was pushed to.
OpenForRun(r) ==
  /\ step[r] = "open"
  /\ IF rowBranch[r] # NoBranch /\ ForgeOpens(rowBranch[r])
     THEN pulls' = pulls \cup {rowBranch[r]} /\ GoOn(r, "append")
     ELSE UNCHANGED pulls /\ GoOn(r, "over")
  /\ UNCHANGED <<jobVars, paperVars, remote, hurts>>

\* OpenPullRequest writes the output row once the forge has answered; the ticket moves to
\* review because of it.
AppendPullRequest(r) ==
  /\ step[r] = "append"
  /\ pullRow' = [pullRow EXCEPT ![r] = TRUE]
  /\ GoOn(r, "over")
  /\ UNCHANGED <<jobVars, preserved, partial, forgeVars>>

\* Somebody merges (by squashing) or closes the pull request that runs are about.
PullCloses ==
  /\ HeadBranch \in pulls
  /\ pulls' = pulls \ {HeadBranch}
  /\ UNCHANGED <<step, jobVars, paperVars, remote, hurts>>

\* The process dies.  reconcileRun: a run that has ended stays as it is; one that has not
\* goes on in its container, or is failed by the restart, with its branch as partial work.
DeliveryCrash ==
  /\ Hurts
  /\ \E lost \in SUBSET {r \in Jobs : step[r] \in {"prepare", "work", "preserve", "record"}} :
       LET going == {r \in Jobs : step[r] \in {"preserve", "record"}} \ lost
       IN /\ \A r \in Jobs : step[r] = "prepare" => r \in lost
          /\ step' = [r \in Jobs |-> CASE r \in lost \/ step[r] \in {"open", "append"} -> "over"
                                       [] r \in going                                 -> "work"
                                       [] OTHER                                       -> step[r]]
          /\ outcome' = [r \in Jobs |-> IF r \in lost THEN "failed" ELSE outcome[r]]
          /\ preserved' = [r \in Jobs |-> IF r \in lost \cup going THEN Unattempted ELSE preserved[r]]
          /\ partial' = [r \in Jobs |-> IF r \in lost /\ rowBranch[r] # NoBranch
                                        THEN partial[r] \cup {rowBranch[r]} ELSE partial[r]]
  /\ UNCHANGED <<onPull, branch, rowBranch, checkout, cloned, worked, pullRow, remote, pulls>>

------------------------------------------------------------------------------
DeliveryNext ==
  \/ \E r \in Jobs :
       \/ WorkspaceRefs(r) \/ SetProvisioned(r) \/ PrepareFails(r) \/ AgentWorks(r)
       \/ \E kind \in Endings : SessionEnds(r, kind)
       \/ PreserveAndPush(r) \/ RecordAndEnd(r)
       \/ OpenForRun(r) \/ AppendPullRequest(r)
  \/ PullCloses
  \/ DeliveryCrash

DeliverySpec == DeliveryInit /\ [][DeliveryNext]_deliveryVars

------------------------------------------------------------------------------
Alone(r) == \A q \in Jobs \ {r} : branch[q] = branch[r] => onPull[r]

\* A run is on the branch it was given, on the row from the moment its workspace is there;
\* its commits are on that branch or on the one the agent made, and on no other.
OnItsBranch ==
  /\ \A r \in Jobs :
       /\ IF step[r] = "queued" THEN branch[r] = NoBranch
          ELSE IF onPull[r] THEN branch[r] = HeadBranch
          ELSE \E i \in 1..Len(Names) : branch[r] = Names[i]
       /\ rowBranch[r] = branch[r] \/ (rowBranch[r] = NoBranch /\ step[r] \in {"prepare", "over"})
       /\ checkout[r] \in {NoBranch, OtherBranch, BaseBranch, branch[r]}
  /\ \A b \in Branches : \A r \in remote[b] :
       IF r = Somebody THEN b = HeadBranch ELSE b \in {branch[r], OtherBranch}

\* What a run says is of the end of its work: nothing while it may still work, and that
\* there was nothing to push only when there was nothing.
SaysAtTheEnd ==
  \A r \in Jobs :
    /\ step[r] \in {"queued", "prepare", "work", "preserve"} => preserved[r] = Unattempted
    /\ IF preserved[r].says = "unattempted" THEN preserved[r] = Unattempted
       ELSE preserved[r].of \in Branches
    /\ preserved[r].says = "nothing" => ~worked[r]

\* "Every clause is a fact from preserveOutcome" (terminalMessage): what a run says it pushed
\* is on the remote, whoever else works on that branch and whatever crashed in between; the
\* default branch is never pushed to.
ClaimsAreTrue ==
  /\ \A r \in Jobs : preserved[r].says = "pushed" => r \in remote[preserved[r].of]
  /\ remote[BaseBranch] = {}

\* Work is never lost without a word: when a run's container is gone, what HEAD held is on
\* the remote, or the message says that it could not be pushed.  A restart that did not find
\* the container says so in its own words.
NoSilentLoss ==
  \A r \in Jobs :
    step[r] \in {"open", "append", "over"} /\ worked[r] /\ preserved[r] # Unattempted
      => \/ preserved[r].says = "failure"
         \/ preserved[r].says = "pushed" /\ r \in remote[preserved[r].of]

\* A pull request that is recorded for a run shows its work, if nothing else was rendered the
\* same name while it was being prepared and it was not about another pull request.
PullShowsWork ==
  \A r \in Jobs :
    /\ pullRow[r] => step[r] = "over" /\ rowBranch[r] = branch[r]
    /\ pullRow[r] \/ step[r] = "append" =>
         onPull[r] \/ (Alone(r) => r \in remote[rowBranch[r]])

\* A partial_work row "is written only when a push actually landed" (recordPartialWork): so
\* it is without restarts; reconcile writes one for every branch on a row.
PartialIsPushed ==
  hurts = 0 => \A r \in Jobs : \A b \in partial[r] : r \in remote[b]

DeliveryInv ==
  /\ DeliveryTypeOK /\ OnItsBranch /\ SaysAtTheEnd
  /\ ClaimsAreTrue /\ NoSilentLoss /\ PullShowsWork /\ PartialIsPushed

\* Not so in the code: "that row is what makes the collision check see it".  Two runs that
\* are prepared at once are given one name.
OwnBranches ==
  \A r, q \in Jobs : r # q /\ ~onPull[r] /\ ~onPull[q] /\ branch[r] # NoBranch => branch[r] # branch[q]
==============================================================================
