-------------------------------- MODULE RepoLink --------------------------------
(***************************************************************************)
(* The link between one project and its repository: connecting, rotating   *)
(* the token and disconnecting (the bootstrap service), and the poller's   *)
(* worker registry, which learns of them through two bus subscriptions,    *)
(* each with a goroutine of its own.                                       *)
(*                                                                         *)
(* A request is a sequence of statements; other requests run in between.   *)
(* A verification that fails changes nothing and is left out.  Foreign     *)
(* keys hold: a row's token exists, and a token in use is not deleted.     *)
(***************************************************************************)
EXTENDS Naturals, FiniteSets

CONSTANTS
  Repos,       \* repositories the project may be connected to
  NoRepo,
  Users,       \* requests that may run at once
  Workers,     \* poll goroutines that may be alive at once
  MaxOps,      \* bound: requests
  MaxRestarts  \* bound: restarts of the process

ASSUME RepoLinkConstants == NoRepo \notin Repos /\ Workers \subseteq Nat \ {0}

VARIABLES
  repoRow,                        \* the repos row: the repository, and the token's id
  token,                      \* the GITHUB_TOKEN secret: its id, and what it opens
  ops, made,                  \* requests under way; requests and secrets so far
  connected, disconnected,    \* events not handled yet
  removing,                   \* RemoveWorker has unregistered and not yet cleared
  workers, registered,        \* goroutines; the registry's entry, 0 for none
  base,                       \* the repository the poll cursors and states are of
  restarts

svcVars  == <<repoRow, token, ops, made, connected, disconnected>>
pollSide == <<removing, workers, registered, base, restarts>>
repoLinkVars == <<svcVars, pollSide>>

NoRepoRow   == [of |-> NoRepo, sid |-> 0]
NoToken == [sid |-> 0, opens |-> NoRepo]
NoOp    == [pc |-> "idle", of |-> NoRepo, before |-> NoRepoRow, sid |-> 0]
NoWorker == [pc |-> "none", cancelled |-> FALSE, of |-> NoRepo]

Polling(w) == workers[w].pc # "none"
ServiceOnly == UNCHANGED pollSide

------------------------------------------------------------------------------
(* The bootstrap service. *)

At(u, pc) == ops[u].pc = pc
Goto(u, op) == ops' = [ops EXCEPT ![u] = op]

\* secrets.Set upserts by project and name.
SetToken(r) ==
  IF token = NoToken THEN token' = [sid |-> made + 1, opens |-> r] ELSE token' = [token EXCEPT !.opens = r]

\* Connect: the credentials are verified, then stored.
Connect(u, r) ==
  /\ At(u, "idle") /\ made < MaxOps /\ made' = made + 1
  /\ SetToken(r)
  /\ Goto(u, [NoOp EXCEPT !.pc = "connect.read", !.of = r, !.sid = token'.sid])
  /\ UNCHANGED <<repoRow, connected, disconnected>> /\ ServiceOnly

ReadBefore(u) ==
  /\ At(u, "connect.read")
  /\ Goto(u, [ops[u] EXCEPT !.pc = "connect.write", !.before = repoRow])
  /\ UNCHANGED <<repoRow, token, made, connected, disconnected>> /\ ServiceOnly

\* Create or Update, by what was read; a row in the way, a row gone or a token gone fails it.
WriteRow(u) ==
  /\ At(u, "connect.write")
  /\ IF (ops[u].before = NoRepoRow) = (repoRow = NoRepoRow) /\ ops[u].sid = token.sid
     THEN repoRow' = [of |-> ops[u].of, sid |-> ops[u].sid] /\ Goto(u, [ops[u] EXCEPT !.pc = "connect.emit"])
     ELSE repoRow' = repoRow /\ Goto(u, NoOp)
  /\ UNCHANGED <<token, made, connected, disconnected>> /\ ServiceOnly

EmitConnected(u) ==
  /\ At(u, "connect.emit") /\ connected' = connected + 1 /\ Goto(u, NoOp)
  /\ UNCHANGED <<repoRow, token, made, disconnected>> /\ ServiceOnly

\* RotateToken: the row is read, and the new token verified against its repository.
Rotate(u) ==
  /\ At(u, "idle") /\ made < MaxOps /\ made' = made + 1 /\ repoRow # NoRepoRow
  /\ Goto(u, [NoOp EXCEPT !.pc = "rotate.set", !.before = repoRow])
  /\ UNCHANGED <<repoRow, token, connected, disconnected>> /\ ServiceOnly

RotateSet(u) ==
  /\ At(u, "rotate.set") /\ SetToken(ops[u].before.of)
  /\ Goto(u, [ops[u] EXCEPT !.pc = "rotate.write", !.sid = token'.sid])
  /\ UNCHANGED <<repoRow, made, connected, disconnected>> /\ ServiceOnly

\* The whole row that was read is written back.
RotateWrite(u) ==
  /\ At(u, "rotate.write") /\ Goto(u, NoOp)
  /\ repoRow' = IF repoRow # NoRepoRow /\ ops[u].sid = token.sid THEN [ops[u].before EXCEPT !.sid = ops[u].sid] ELSE repoRow
  /\ UNCHANGED <<token, made, connected, disconnected>> /\ ServiceOnly

Disconnect(u) ==
  /\ At(u, "idle") /\ made < MaxOps /\ made' = made + 1 /\ repoRow # NoRepoRow
  /\ Goto(u, [NoOp EXCEPT !.pc = "disconnect.row", !.sid = repoRow.sid])
  /\ UNCHANGED <<repoRow, token, connected, disconnected>> /\ ServiceOnly

DeleteRow(u) ==
  /\ At(u, "disconnect.row") /\ repoRow' = NoRepoRow
  /\ Goto(u, IF repoRow = NoRepoRow THEN NoOp ELSE [ops[u] EXCEPT !.pc = "disconnect.token"])
  /\ UNCHANGED <<token, made, connected, disconnected>> /\ ServiceOnly

\* A token that is already gone is fine; one a new row refers to fails the request.
DeleteToken(u) ==
  /\ At(u, "disconnect.token")
  /\ LET used == repoRow.sid = ops[u].sid
     IN /\ token' = IF ~used /\ token.sid = ops[u].sid THEN NoToken ELSE token
        /\ Goto(u, IF used THEN NoOp ELSE [ops[u] EXCEPT !.pc = "disconnect.emit"])
  /\ UNCHANGED <<repoRow, made, connected, disconnected>> /\ ServiceOnly

EmitDisconnected(u) ==
  /\ At(u, "disconnect.emit") /\ disconnected' = disconnected + 1 /\ Goto(u, NoOp)
  /\ UNCHANGED <<repoRow, token, made, connected>> /\ ServiceOnly

------------------------------------------------------------------------------
(* The worker registry. *)

\* A new goroutine, registered; the least free slot stands for it.
Spawned(ws, w) == [ws EXCEPT ![w] = [pc |-> "tick", cancelled |-> FALSE, of |-> NoRepo]]
FreeSlot == CHOOSE w \in Workers : ~Polling(w) /\ \A v \in Workers : ~Polling(v) => w <= v

EnsureWorker ==
  IF registered # 0 THEN UNCHANGED <<workers, registered>>
  ELSE workers' = Spawned(workers, FreeSlot) /\ registered' = FreeSlot

HandleConnected ==
  /\ connected > 0 /\ connected' = connected - 1
  /\ (registered = 0 => \E w \in Workers : ~Polling(w)) /\ EnsureWorker
  /\ UNCHANGED <<repoRow, token, ops, made, disconnected, removing, base, restarts>>

Cancelled(ws, w) == IF w = 0 THEN ws ELSE [ws EXCEPT ![w].cancelled = TRUE]

\* RemoveWorker: unregister and cancel, then clear the poll state.
RemoveWorker ==
  /\ disconnected > 0 /\ ~removing /\ removing' = TRUE
  /\ workers' = Cancelled(workers, registered) /\ registered' = 0
  /\ UNCHANGED <<svcVars, base, restarts>>

ClearPollState ==
  /\ removing /\ removing' = FALSE /\ base' = NoRepo /\ disconnected' = disconnected - 1
  /\ UNCHANGED <<repoRow, token, ops, made, connected, workers, registered, restarts>>

\* dropWorker forgets and cancels whichever worker is registered.
DropWorker(ws) == Cancelled(ws, registered)

\* A worker that finds no row takes it for a failed tick.
NoRepoRowRetries(w) == "tick"

\* errNoRepo ends the worker.
NoRepoRowLeaves(w) == "leave"

\* A tick begins: the row is read.
PollTick(w) ==
  /\ workers[w].pc = "tick" /\ ~workers[w].cancelled
  /\ workers' = [workers EXCEPT ![w] =
       IF repoRow = NoRepoRow THEN [@ EXCEPT !.pc = NoRepoRowLeaves(w)] ELSE [@ EXCEPT !.pc = "poll", !.of = repoRow.of]]
  /\ UNCHANGED <<svcVars, removing, registered, base, restarts>>

\* The baseline, or a poll behind the cursors that are there.
Poll(w) ==
  /\ workers[w].pc = "poll" /\ ~workers[w].cancelled
  /\ base' = IF base = NoRepo THEN workers[w].of ELSE base
  /\ workers' = [workers EXCEPT ![w].pc = "tick"]
  /\ UNCHANGED <<svcVars, removing, registered, restarts>>

\* A cancelled worker returns from its tick or its sleep.
Return(w) ==
  /\ workers[w].pc \in {"tick", "poll"} /\ workers[w].cancelled
  /\ workers' = [workers EXCEPT ![w] = NoWorker]
  /\ UNCHANGED <<svcVars, removing, registered, base, restarts>>

Leave(w) ==
  /\ workers[w].pc = "leave"
  /\ workers' = [DropWorker(workers) EXCEPT ![w] = NoWorker] /\ registered' = 0
  /\ UNCHANGED <<svcVars, removing, base, restarts>>

\* The process restarts: requests and goroutines are gone, an event not handled to its end
\* is handed out again, and Start lists the connected projects.
Restart ==
  /\ restarts < MaxRestarts /\ restarts' = restarts + 1
  /\ ops' = [u \in Users |-> NoOp] /\ removing' = FALSE
  /\ LET none == [w \in Workers |-> NoWorker]
         first == CHOOSE w \in Workers : \A v \in Workers : w <= v
     IN IF repoRow = NoRepoRow THEN workers' = none /\ registered' = 0
        ELSE workers' = Spawned(none, first) /\ registered' = first
  /\ UNCHANGED <<repoRow, token, made, connected, disconnected, base>>

------------------------------------------------------------------------------
RepoLinkInit ==
  /\ repoRow = NoRepoRow /\ token = NoToken /\ ops = [u \in Users |-> NoOp] /\ made = 0
  /\ connected = 0 /\ disconnected = 0 /\ removing = FALSE
  /\ workers = [w \in Workers |-> NoWorker] /\ registered = 0 /\ base = NoRepo /\ restarts = 0

InRequest(u) ==
  \/ ReadBefore(u) \/ WriteRow(u) \/ EmitConnected(u)
  \/ RotateSet(u) \/ RotateWrite(u)
  \/ DeleteRow(u) \/ DeleteToken(u) \/ EmitDisconnected(u)

InPoller(w) == PollTick(w) \/ Poll(w) \/ Return(w) \/ Leave(w)

RepoLinkNext ==
  \/ \E u \in Users : Rotate(u) \/ Disconnect(u) \/ (\E r \in Repos : Connect(u, r)) \/ InRequest(u)
  \/ HandleConnected \/ RemoveWorker \/ ClearPollState
  \/ \E w \in Workers : InPoller(w)
  \/ Restart

\* Every goroutine goes on, and each subscriber handles its events.
RepoLinkFairness ==
  /\ \A w \in Workers : WF_repoLinkVars(InPoller(w))
  /\ WF_repoLinkVars(HandleConnected) /\ WF_repoLinkVars(RemoveWorker \/ ClearPollState)

RepoLinkSpec == RepoLinkInit /\ [][RepoLinkNext]_repoLinkVars /\ RepoLinkFairness

------------------------------------------------------------------------------
(* Properties. *)

\* One poll goroutine per project: whatever the order in which connects, disconnects and a
\* worker's own exit reach the registry, a worker nobody cancelled is the registered one
\* (EnsureWorker, RemoveWorker, dropWorker).
OnePoller == \A w \in Workers : Polling(w) /\ ~workers[w].cancelled /\ workers[w].pc # "leave" => registered = w

\* A disconnected project is left alone: once the row is gone for good no worker polls it,
\* though the events may arrive in either order or never (errNoRepo, RemoveWorker).
DisconnectedStops == []<>(repoRow # NoRepoRow \/ \A w \in Workers : ~Polling(w))

Quiet ==
  /\ \A u \in Users : At(u, "idle")
  /\ connected = 0 /\ disconnected = 0 /\ ~removing
  /\ \A w \in Workers : workers[w].pc # "leave"

\* A connected project is polled when everything has been handled (poller.go: one worker per
\* project with a connected repo).  Not so: the two events may be handled in either order.
ConnectedIsPolled == Quiet /\ repoRow # NoRepoRow => registered # 0

\* The cursors are those of the repository that is polled.  Not so: reconnecting to another
\* repository keeps them, and no baseline runs.
PollsFromItsBaseline == \A w \in Workers : workers[w].pc = "poll" => base \in {NoRepo, workers[w].of}

\* When nothing is under way the stored token opens the connected repository (RotateToken:
\* "the repo is never left with a broken credential").  Not so: a rotation that verified
\* against the old repository may store its token behind a reconnect.
TokenOpensRepo == Quiet /\ repoRow # NoRepoRow => token.opens = repoRow.of

\* One worker polls a connected project, and none a disconnected one.
OneWorkerOrNone == []OnePoller /\ DisconnectedStops
=============================================================================
