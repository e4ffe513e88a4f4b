------------------------------- MODULE Roster -------------------------------
(***************************************************************************)
(* A project and its agents (internal/service/projects/service.go,         *)
(* internal/service/agents, internal/kernel/store/projectdelete.go): each  *)
(* request reads rows, decides, and writes in a transaction of its own,    *)
(* an update the whole row it read.  Enqueue is here for the rows it adds. *)
(***************************************************************************)
EXTENDS FiniteSets, Naturals, Sequences

CONSTANTS
  AgentIds,      \* agents there may be
  FirstAgent,    \* the one the project has
  RosterNames,   \* names, the starter roster's among them
  Starters,      \* the starter roster's names, in order
  Bodies,        \* directive texts
  RunIds,        \* runs there may be
  Clerks,      \* requests, each made once
  Absent

ProjectRows == [archived : BOOLEAN, budget : {"own", "inherit"}]
AgentRows   == [name : RosterNames, enabled : BOOLEAN, archived : BOOLEAN, current : Nat]
RunRows     == [of : AgentIds, version : Nat, active : BOOLEAN]

ASSUME RosterAssumption ==
  /\ FirstAgent \in AgentIds /\ Starters \in Seq(RosterNames)
  /\ Absent \notin ProjectRows /\ Absent \notin AgentRows /\ Absent \notin RunRows

VARIABLES
  project,       \* its row: archived and a budget of its own or not, or gone
  agentRow,      \* agents: name, enabled, archived, and the version of its directive
  directives,    \* agent_directives
  runsOf,        \* runs: the agent, the directive's version, and whether it is active
  asked          \* requests: what they are to do, and what they have read

rosterVars == <<project, agentRow, directives, runsOf, asked>>

Versions(a) == {d \in directives : d.of = a}
Named(n)    == {a \in AgentIds : agentRow[a] # Absent /\ agentRow[a].name = n}
ActiveOfProject  == {k \in RunIds : runsOf[k] # Absent /\ runsOf[k].active}

\* What a request has read of the agent it is about.
AgentErrands == {"patch", "archive", "save", "enqueue"}

RosterTyped ==
  /\ project \in ProjectRows \cup {Absent}
  /\ agentRow \in [AgentIds -> AgentRows \cup {Absent}]
  /\ directives \subseteq [of : AgentIds, version : Nat, body : Bodies]
  /\ IsFiniteSet(directives)
  /\ runsOf \in [RunIds -> RunRows \cup {Absent}]
AskedTyped ==
  asked \in [Clerks -> [does : {"nothing", "delete", "done"}]
                  \cup [does : {"starter"}, next : Nat \ {0}, had : SUBSET RosterNames]
                  \cup [does : {"update"}, row : ProjectRows]
                  \cup [does : AgentErrands, of : AgentIds, row : AgentRows]]
RosterTypeOK == RosterTyped /\ AskedTyped

RosterInit ==
  /\ project = [archived |-> FALSE, budget |-> "inherit"]
  /\ \E n \in RosterNames, b \in Bodies :
       /\ agentRow = [a \in AgentIds |-> IF a = FirstAgent
            THEN [name |-> n, enabled |-> TRUE, archived |-> FALSE, current |-> 1] ELSE Absent]
       /\ directives = {[of |-> FirstAgent, version |-> 1, body |-> b]}
  /\ runsOf = [k \in RunIds |-> Absent]
  /\ asked = [r \in Clerks |-> [does |-> "nothing"]]

Errand(r, what) == asked[r].does = "nothing" /\ asked' = [asked EXCEPT ![r] = what]
Ends(r)       == asked' = [asked EXCEPT ![r] = [does |-> "done"]]

------------------------------------------------------------------------------
(* Agents.                                                                   *)

\* CreateWithDirective: the agent and version 1, in a project that is there, if no other
\* agent of it, archived or not, has the name.
Inserts(a, n, b) ==
  /\ project # Absent /\ agentRow[a] = Absent /\ Named(n) = {}
  /\ agentRow' = [agentRow EXCEPT ![a] =
       [name |-> n, enabled |-> TRUE, archived |-> FALSE, current |-> 1]]
  /\ directives' = directives \cup {[of |-> a, version |-> 1, body |-> b]}

CreateAgent(r, a, n, b) ==
  /\ asked[r].does = "nothing" /\ Ends(r)
  /\ Inserts(a, n, b)
  /\ UNCHANGED <<project, runsOf>>

\* The starter roster leaves out the names it has read.
AskStarter(r) ==
  /\ project # Absent
  /\ Errand(r, [does |-> "starter", next |-> 1, had |-> {n \in RosterNames : Named(n) # {}}])
  /\ UNCHANGED <<project, agentRow, directives, runsOf>>

Starter(r, a, b) ==
  /\ asked[r].does = "starter" /\ asked[r].next <= Len(Starters)
  /\ LET n == Starters[asked[r].next]
         goesOn == asked' = [asked EXCEPT ![r].next = @ + 1]
     IN
       \/ n \in asked[r].had /\ goesOn /\ UNCHANGED <<agentRow, directives>>
       \/ n \notin asked[r].had /\ Inserts(a, n, b) /\ goesOn
       \/ /\ n \notin asked[r].had /\ (project = Absent \/ Named(n) # {})
          /\ Ends(r) /\ UNCHANGED <<agentRow, directives>>
  /\ UNCHANGED <<project, runsOf>>

\* Update, Archive and SaveDirective read the row; an archived agent takes no changes.
ReadAgent(r, a, does) ==
  /\ agentRow[a] # Absent /\ ~agentRow[a].archived
  /\ Errand(r, [does |-> does, of |-> a, row |-> agentRow[a]])
  /\ UNCHANGED <<project, agentRow, directives, runsOf>>

\* The update statement: it writes all of the row, unless the row is gone or its name taken.
Writes(r, row) ==
  /\ Ends(r)
  /\ agentRow' = IF agentRow[asked[r].of] # Absent /\ Named(row.name) \subseteq {asked[r].of}
                 THEN [agentRow EXCEPT ![asked[r].of] = row] ELSE agentRow

Update(r, n, on) ==
  /\ asked[r].does = "patch"
  /\ Writes(r, [asked[r].row EXCEPT !.name = n, !.enabled = on])
  /\ n = asked[r].row.name \/ on = asked[r].row.enabled
  /\ UNCHANGED <<project, directives, runsOf>>

Archive(r) ==
  /\ asked[r].does = "archive"
  /\ Writes(r, [asked[r].row EXCEPT !.archived = TRUE, !.enabled = FALSE])
  /\ UNCHANGED <<project, directives, runsOf>>

\* The version after the one the row names; the pair of agent and version is unique.
NextVersionFree(a, row) == Cardinality(Versions(a)) + 1
NextVersion(a, row)     == row.current + 1

SaveDirective(r, b) ==
  /\ asked[r].does = "save"
  /\ LET a == asked[r].of
         row == asked[r].row
         n == NextVersion(a, row)
         unchanged == [of |-> a, version |-> row.current, body |-> b] \in directives
         refused == agentRow[a] = Absent \/ \E d \in Versions(a) : d.version = n
     IN
       \/ (unchanged \/ refused) /\ Ends(r) /\ UNCHANGED <<agentRow, directives>>
       \/ /\ ~unchanged /\ ~refused
          /\ directives' = directives \cup {[of |-> a, version |-> n, body |-> b]}
          /\ Writes(r, [row EXCEPT !.current = n])
  /\ UNCHANGED <<project, runsOf>>

------------------------------------------------------------------------------
(* The project.                                                              *)

ReadProject(r) ==
  /\ project # Absent
  /\ Errand(r, [does |-> "update", row |-> project])
  /\ UNCHANGED <<project, agentRow, directives, runsOf>>

\* UpdateProject: one field of the row it read, and the row as it was otherwise.
UpdateProject(r) ==
  /\ asked[r].does = "update"
  /\ \/ /\ project # Absent
        /\ \/ project' = [asked[r].row EXCEPT !.archived = ~@]
           \/ \E b \in {"own", "inherit"} : project' = [asked[r].row EXCEPT !.budget = b]
     \/ project = Absent /\ UNCHANGED project
  /\ Ends(r)
  /\ UNCHANGED <<agentRow, directives, runsOf>>

\* DeleteProject: no active run, and the key typed, then everything in one transaction.
AskDeleteProject(r) ==
  /\ project # Absent /\ ActiveOfProject = {}
  /\ Errand(r, [does |-> "delete"])
  /\ UNCHANGED <<project, agentRow, directives, runsOf>>

Cascade ==
  /\ project' = Absent /\ agentRow' = [a \in AgentIds |-> Absent]
  /\ runsOf' = [k \in RunIds |-> Absent] /\ directives' = {}

DeleteProject(r) ==
  /\ asked[r].does = "delete" /\ Ends(r)
  /\ \/ project # Absent /\ Cascade
     \/ project = Absent /\ UNCHANGED <<project, agentRow, directives, runsOf>>

------------------------------------------------------------------------------
(* Runs, as far as these rows are concerned.                                 *)

ReadForRun(r, a) ==
  /\ agentRow[a] # Absent /\ agentRow[a].enabled /\ ~agentRow[a].archived
  /\ Errand(r, [does |-> "enqueue", of |-> a, row |-> agentRow[a]])
  /\ UNCHANGED <<project, agentRow, directives, runsOf>>

\* The insert fails on a row it refers to that is gone.
EnqueueRow(r, k) ==
  /\ asked[r].does = "enqueue" /\ runsOf[k] = Absent /\ Ends(r)
  /\ runsOf' = IF agentRow[asked[r].of] = Absent THEN runsOf
               ELSE [runsOf EXCEPT ![k] = [of |-> asked[r].of, version |-> asked[r].row.current, active |-> TRUE]]
  /\ UNCHANGED <<project, agentRow, directives>>

RunEnded(k) ==
  /\ k \in ActiveOfProject
  /\ runsOf' = [runsOf EXCEPT ![k].active = FALSE]
  /\ UNCHANGED <<project, agentRow, directives, asked>>

RosterNext ==
  \/ \E r \in Clerks :
       \/ \E a \in AgentIds, b \in Bodies :
            Starter(r, a, b) \/ \E n \in RosterNames : CreateAgent(r, a, n, b)
       \/ AskStarter(r) \/ ReadProject(r) \/ UpdateProject(r) \/ AskDeleteProject(r) \/ DeleteProject(r)
       \/ \E a \in AgentIds :
            ReadForRun(r, a) \/ \E does \in {"patch", "archive", "save"} : ReadAgent(r, a, does)
       \/ \E n \in RosterNames, on \in BOOLEAN : Update(r, n, on)
       \/ Archive(r) \/ \E b \in Bodies : SaveDirective(r, b)
       \/ \E k \in RunIds : EnqueueRow(r, k)
  \/ \E k \in RunIds : RunEnded(k)

RosterSpec == RosterInit /\ [][RosterNext]_rosterVars

------------------------------------------------------------------------------
\* The history of a directive has no gaps and no empty diffs, whoever saves at once, and an
\* agent names one of its own versions: "the diff view reads two immutable rows".
HistoryIsSound ==
  \A a \in AgentIds :
    /\ {d.version : d \in Versions(a)} = 1..Cardinality(Versions(a))
    /\ \A d, e \in Versions(a) : d.version = e.version + 1 => d.body # e.body
    /\ agentRow[a] # Absent => \E d \in Versions(a) : d.version = agentRow[a].current

\* A run finds its agent and the directive it was started with, for as long as it has a row,
\* and nothing outlives the agent or the project it belongs to.
NothingIsOrphaned ==
  /\ \A k \in RunIds : runsOf[k] # Absent =>
       /\ agentRow[runsOf[k].of] # Absent
       /\ \E d \in Versions(runsOf[k].of) : d.version = runsOf[k].version
  /\ \A d \in directives : agentRow[d.of] # Absent
  /\ project = Absent => \A a \in AgentIds : agentRow[a] = Absent

\* No two agents share a name, however requests that have read it free overlap.
NamesDiffer ==
  \A a, b \in AgentIds :
    agentRow[a] # Absent /\ agentRow[b] # Absent /\ agentRow[a].name = agentRow[b].name => a = b

\* A row that a request read a while ago still names a version that is there.
StaleRowsAreSound ==
  \A r \in Clerks : project # Absent /\ asked[r].does \in AgentErrands =>
    \E d \in Versions(asked[r].of) : d.version = asked[r].row.current

RosterInv == RosterTypeOK /\ HistoryIsSound /\ NothingIsOrphaned /\ NamesDiffer /\ StaleRowsAreSound
=============================================================================
