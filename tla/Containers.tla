------------------------------ MODULE Containers ------------------------------
(***************************************************************************)
(* The Docker module: what Prepare does step by step to turn a run into a   *)
(* container, what the terminal path and the sweeper take away again, what  *)
(* a restarted process finds, and the egress relay and the image several    *)
(* Prepares share.  Several Lexicodes ("owners") use one Docker daemon.     *)
(*                                                                         *)
(* Every call to the daemon may fail or be cancelled.  What the agent does  *)
(* inside, log streams and network traffic are left out.                    *)
(***************************************************************************)
EXTENDS Naturals, FiniteSets

CONSTANTS
  CRuns, Owners,
  NoOne,
  MaxTroubles   \* bound: crashes, removals that fail, creations whose answer is lost

ASSUME ContainersAssumption == NoOne \notin CRuns /\ MaxTroubles \in Nat

VARIABLES
  ownerOf,        \* the Lexicode a run belongs to: its database, its label, its proxy port
  runRow,         \* "queued", "provisioning", "running", "terminal"
  instanceID,     \* the row names its container
  at,             \* where the run's supervisor is, "none" without one
  inst,           \* it holds an Instance
  box,      \* "none", "created", "running", "stopped", "gone"
  origin,         \* the remote of the clone: "none", "token", "tokenless"
  registered,     \* the proxy knows the run's token
  image,          \* the built-in image exists
  building,       \* per Lexicode: the Prepare whose build its others share
  relay, legs, relayUp,  \* the relay's maker, whether it is on both networks, and runs
  relaySeen,      \* what ensureRelay listed: a relay to remove, or NoOne
  todo, doomed,   \* a sweep: containers left to look at, the one being removed
  deaths, faults

processVars   == <<at, inst, registered, building, relaySeen>>
runRowVars       == <<ownerOf, runRow, instanceID>>
daemonVars    == <<box, origin, image>>
relayVars     == <<relay, legs, relayUp>>
sweepVars     == <<todo, doomed>>
faultVars     == <<deaths, faults>>
containersAll == <<processVars, runRowVars, daemonVars, relayVars, sweepVars, faultVars>>

ContainersInit ==
  /\ ownerOf \in {f \in [CRuns -> Owners] : f[CHOOSE r \in CRuns : TRUE] = CHOOSE o \in Owners : TRUE}
  /\ runRow = [r \in CRuns |-> "queued"] /\ instanceID = [r \in CRuns |-> FALSE]
  /\ at = [r \in CRuns |-> "none"] /\ inst = [r \in CRuns |-> FALSE]
  /\ box = [r \in CRuns |-> "none"] /\ origin = [r \in CRuns |-> "none"]
  /\ registered = [r \in CRuns |-> FALSE]
  /\ image = FALSE /\ building = [o \in Owners |-> NoOne]
  /\ relay = NoOne /\ legs = FALSE /\ relayUp = FALSE /\ relaySeen = [r \in CRuns |-> NoOne]
  /\ todo = [o \in Owners |-> {}] /\ doomed = [o \in Owners |-> NoOne]
  /\ deaths = 0 /\ faults = 0

Goes(r, place) == at' = [at EXCEPT ![r] = place]
Present(r)     == box[r] \notin {"none", "gone"}
Becomes(r, s)  == box' = [box EXCEPT ![r] = s]
Fault          == faults + deaths < MaxTroubles /\ faults' = faults + 1

------------------------------------------------------------------------------
(* provision: register the token, then Prepare.                             *)

BeginProvision(r) ==
  /\ runRow[r] = "queued" /\ at[r] = "none"
  /\ runRow' = [runRow EXCEPT ![r] = "provisioning"]
  /\ registered' = [registered EXCEPT ![r] = TRUE]
  /\ Goes(r, "image")
  /\ UNCHANGED <<ownerOf, instanceID, inst, building, relaySeen, daemonVars, relayVars, sweepVars, faultVars>>

\* A step fails before there is a container, or in createAndStart, or after it: the container
\* is destroyed by Prepare itself.
StepFails(r) ==
  /\ at[r] \in {"image", "waiting", "network", "reremove", "recreate", "create",
                "start", "clone", "seturl", "script"}
  /\ Goes(r, IF Present(r) THEN "cleanup" ELSE "unregister")
  /\ UNCHANGED <<inst, registered, building, relaySeen, runRowVars, daemonVars, relayVars, sweepVars, faultVars>>

\* ensureImage: the image is there, or one build of this process serves all who want it.
EnsureImage(r) ==
  /\ at[r] = "image"
  /\ LET o == ownerOf[r] IN
     \/ image /\ Goes(r, "network") /\ UNCHANGED building
     \/ ~image /\ building[o] # NoOne /\ Goes(r, "waiting") /\ UNCHANGED building
     \/ ~image /\ building[o] = NoOne /\ Goes(r, "building") /\ building' = [building EXCEPT ![o] = r]
  /\ UNCHANGED <<inst, registered, relaySeen, runRowVars, daemonVars, relayVars, sweepVars, faultVars>>

BuildEndsAlone(r) ==
  /\ at[r] = "building"
  /\ \E ok \in BOOLEAN :
       /\ image' = (image \/ ok)
       /\ Goes(r, IF ok THEN "network" ELSE "unregister")
  /\ building' = [building EXCEPT ![ownerOf[r]] = NoOne]
  /\ UNCHANGED <<inst, registered, relaySeen, runRowVars, box, origin, relayVars, sweepVars, faultVars>>

\* The build's result, good or bad, is every waiter's result.
BuildEnds(r) ==
  /\ at[r] = "building"
  /\ \E ok \in BOOLEAN :
       /\ image' = (image \/ ok)
       /\ at' = [w \in CRuns |->
                  IF w = r \/ (at[w] = "waiting" /\ ownerOf[w] = ownerOf[r])
                  THEN IF ok THEN "network" ELSE "unregister" ELSE at[w]]
  /\ building' = [building EXCEPT ![ownerOf[r]] = NoOne]
  /\ UNCHANGED <<inst, registered, relaySeen, runRowVars, box, origin, relayVars, sweepVars, faultVars>>

RelayFits(r) == relay # NoOne /\ relayUp /\ ownerOf[relay] = ownerOf[r]

\* prepareNetwork: an open policy needs nothing; ensureRelay begins with a list.
PrepareNetwork(r) ==
  /\ at[r] = "network"
  /\ \/ Goes(r, "create") /\ UNCHANGED relaySeen
     \/ ~RelayFits(r) /\ Goes(r, IF relay = NoOne THEN "recreate" ELSE "reremove")
        /\ relaySeen' = [relaySeen EXCEPT ![r] = relay]
  /\ UNCHANGED <<inst, registered, building, runRowVars, daemonVars, relayVars, sweepVars, faultVars>>

\* By its id: it may have been started since it was listed, or be gone.
RemoveRelay(r) ==
  /\ at[r] = "reremove" /\ Goes(r, "recreate")
  /\ IF relay = relaySeen[r]
     THEN relay' = NoOne /\ legs' = FALSE /\ relayUp' = FALSE
     ELSE UNCHANGED relayVars
  /\ relaySeen' = [relaySeen EXCEPT ![r] = NoOne]
  /\ UNCHANGED <<inst, registered, building, runRowVars, daemonVars, sweepVars, faultVars>>

\* Somebody else's came first: his serves everyone.
CreateRelay(r) ==
  /\ at[r] = "recreate"
  /\ IF relay # NoOne
     THEN Goes(r, "create") /\ UNCHANGED relay
     ELSE Goes(r, "connect") /\ relay' = r
  /\ UNCHANGED <<inst, registered, building, relaySeen, runRowVars, daemonVars, legs, relayUp, sweepVars, faultVars>>

\* Both legs, then the start; a failure, or a relay removed meanwhile, ends the Prepare.
ConnectRelay(r) ==
  /\ at[r] = "connect"
  /\ \/ relay = r /\ legs' = TRUE /\ Goes(r, "restart") /\ UNCHANGED <<relay, relayUp>>
     \/ /\ relay' = IF relay = r THEN NoOne ELSE relay
        /\ Goes(r, "unregister") /\ UNCHANGED <<legs, relayUp>>
  /\ UNCHANGED <<inst, registered, building, relaySeen, runRowVars, daemonVars, sweepVars, faultVars>>

StartRelay(r) ==
  /\ at[r] = "restart"
  /\ \/ relay = r /\ relayUp' = TRUE /\ Goes(r, "create") /\ UNCHANGED <<relay, legs>>
     \/ /\ IF relay = r THEN relay' = NoOne /\ legs' = FALSE ELSE UNCHANGED <<relay, legs>>
        /\ Goes(r, "unregister") /\ UNCHANGED relayUp
  /\ UNCHANGED <<inst, registered, building, relaySeen, runRowVars, daemonVars, sweepVars, faultVars>>

\* Labels, limits, network.  The answer may be lost after the daemon made the container.
CreateContainer(r) ==
  /\ at[r] = "create" /\ Becomes(r, "created")
  /\ \/ Goes(r, "start") /\ UNCHANGED faults
     \/ Goes(r, "unregister") /\ Fault
  /\ UNCHANGED <<inst, registered, building, relaySeen, runRowVars, origin, image, relayVars, sweepVars, deaths>>

\* The files are copied in before the start.
StartContainer(r) ==
  /\ at[r] = "start" /\ box[r] = "created"
  /\ Becomes(r, "running") /\ Goes(r, "clone")
  /\ UNCHANGED <<inst, registered, building, relaySeen, runRowVars, origin, image, relayVars, sweepVars, faultVars>>

\* validateTools, then the fetch, which needs the credential; the last line of the script takes it out of origin.
CloneFetch(r) ==
  /\ at[r] = "clone" /\ Goes(r, "seturl")
  /\ origin' = [origin EXCEPT ![r] = "token"]
  /\ UNCHANGED <<inst, registered, building, relaySeen, runRowVars, box, image, relayVars, sweepVars, faultVars>>

CloneSetURL(r) ==
  /\ at[r] = "seturl" /\ Goes(r, "script")
  /\ origin' = [origin EXCEPT ![r] = "tokenless"]
  /\ UNCHANGED <<inst, registered, building, relaySeen, runRowVars, box, image, relayVars, sweepVars, faultVars>>

\* The branch, the setup script; Prepare returns the instance.
RunSetupScript(r) ==
  /\ at[r] = "script" /\ Goes(r, "record")
  /\ inst' = [inst EXCEPT ![r] = TRUE]
  /\ UNCHANGED <<registered, building, relaySeen, runRowVars, daemonVars, relayVars, sweepVars, faultVars>>

\* Prepare's own cleanup, under a deadline of its own.
DestroyAfterFailure(r) ==
  /\ at[r] = "cleanup" /\ Goes(r, "unregister")
  /\ \/ Becomes(r, "gone") /\ UNCHANGED faults
     \/ Fault /\ UNCHANGED box
  /\ UNCHANGED <<inst, registered, building, relaySeen, runRowVars, origin, image, relayVars, sweepVars, deaths>>

\* RecordInstance: SetProvisioned, whose failure is only logged, and the row runs.
RecordInstance(r) ==
  /\ at[r] = "record" /\ Goes(r, "supervise")
  /\ \/ instanceID' = [instanceID EXCEPT ![r] = TRUE] /\ UNCHANGED faults
     \/ Fault /\ UNCHANGED instanceID
  /\ runRow' = [runRow EXCEPT ![r] = "running"]
  /\ UNCHANGED <<ownerOf, inst, registered, building, relaySeen, daemonVars, relayVars, sweepVars, deaths>>

------------------------------------------------------------------------------
(* The run, and its terminal path.                                          *)

\* The agent is root in there: it may end the container's main process.
ContainerStops(r) ==
  /\ box[r] = "running" /\ runRow[r] = "running"
  /\ Becomes(r, "stopped")
  /\ UNCHANGED <<processVars, runRowVars, origin, image, relayVars, sweepVars, faultVars>>

\* The run is over.  The push is one exec; a container that stopped is started again for it.
PreserveWork(r) ==
  /\ at[r] = "supervise" /\ Goes(r, "unregister")
  /\ box' = [box EXCEPT ![r] = IF @ = "stopped" THEN "running" ELSE @]
  /\ UNCHANGED <<inst, registered, building, relaySeen, runRowVars, origin, image, relayVars, sweepVars, faultVars>>

UnregisterRun(r) ==
  /\ at[r] = "unregister" /\ Goes(r, IF inst[r] THEN "destroy" ELSE "endrow")
  /\ registered' = [registered EXCEPT ![r] = FALSE]
  /\ UNCHANGED <<inst, building, relaySeen, runRowVars, daemonVars, relayVars, sweepVars, faultVars>>

DestroyContainer(r) ==
  /\ at[r] = "destroy" /\ Goes(r, "endrow")
  /\ \/ Becomes(r, "gone") /\ UNCHANGED faults
     \/ Fault /\ UNCHANGED box
  /\ UNCHANGED <<inst, registered, building, relaySeen, runRowVars, origin, image, relayVars, sweepVars, deaths>>

EndRun(r) ==
  /\ at[r] = "endrow" /\ Goes(r, "none")
  /\ runRow' = [runRow EXCEPT ![r] = "terminal"]
  /\ inst' = [inst EXCEPT ![r] = FALSE]
  /\ UNCHANGED <<ownerOf, instanceID, registered, building, relaySeen, daemonVars, relayVars, sweepVars, faultVars>>

------------------------------------------------------------------------------
(* The sweeper: at boot, then hourly.                                       *)

\* Containers with this Lexicode's owner label.
SweepList(o) ==
  /\ todo[o] = {} /\ doomed[o] = NoOne /\ \E r \in CRuns : Present(r)
  /\ todo' = [todo EXCEPT ![o] = {r \in CRuns : Present(r) /\ ownerOf[r] = o}]
  /\ UNCHANGED <<doomed, processVars, runRowVars, daemonVars, relayVars, faultVars>>

\* Its run is in no row of this database, or over.  A failed lookup skips the container.
SweepLook(o) ==
  /\ doomed[o] = NoOne
  /\ \E r \in todo[o] :
       /\ todo' = [todo EXCEPT ![o] = @ \ {r}]
       /\ doomed' = [doomed EXCEPT ![o] = IF ownerOf[r] # o \/ runRow[r] = "terminal" THEN r ELSE NoOne]
  /\ UNCHANGED <<processVars, runRowVars, daemonVars, relayVars, faultVars>>

SweepRemove(o) ==
  /\ doomed[o] # NoOne /\ doomed' = [doomed EXCEPT ![o] = NoOne]
  /\ \/ Becomes(doomed[o], "gone") /\ UNCHANGED faults
     \/ Fault /\ UNCHANGED box
  /\ UNCHANGED <<todo, processVars, runRowVars, origin, image, relayVars, deaths>>

------------------------------------------------------------------------------
(* A Lexicode dies and is started again.                                    *)

Lose(f, lost, v) == [r \in CRuns |-> IF ownerOf[r] = lost THEN v ELSE f[r]]

LexicodeDies(o) ==
  /\ deaths + faults < MaxTroubles /\ deaths' = deaths + 1
  /\ at' = Lose(at, o, "none") /\ inst' = Lose(inst, o, FALSE)
  /\ registered' = Lose(registered, o, FALSE) /\ relaySeen' = Lose(relaySeen, o, NoOne)
  /\ building' = [building EXCEPT ![o] = NoOne]
  /\ todo' = [todo EXCEPT ![o] = {}] /\ doomed' = [doomed EXCEPT ![o] = NoOne]
  /\ UNCHANGED <<runRowVars, daemonVars, relayVars, faults>>

Reattachable(r) == instanceID[r] /\ box[r] = "running"

\* reconcile: the container is found by its instance id and runs, or the run has failed.
ReconcileRun(r) ==
  /\ at[r] = "none" /\ runRow[r] \in {"provisioning", "running"}
  /\ IF Reattachable(r)
     THEN /\ inst' = [inst EXCEPT ![r] = TRUE] /\ registered' = [registered EXCEPT ![r] = TRUE]
          /\ Goes(r, "supervise") /\ runRow' = [runRow EXCEPT ![r] = "running"]
     ELSE /\ runRow' = [runRow EXCEPT ![r] = "terminal"]
          /\ UNCHANGED <<inst, registered, at>>
  /\ UNCHANGED <<ownerOf, instanceID, building, relaySeen, daemonVars, relayVars, sweepVars, faultVars>>

------------------------------------------------------------------------------
RelaySteps(r) == PrepareNetwork(r) \/ RemoveRelay(r) \/ CreateRelay(r)
                   \/ ConnectRelay(r) \/ StartRelay(r)

PrepareSteps(r) ==
  \/ EnsureImage(r) \/ BuildEnds(r) \/ RelaySteps(r)
  \/ CreateContainer(r) \/ StartContainer(r) \/ CloneFetch(r)
  \/ CloneSetURL(r) \/ RunSetupScript(r) \/ DestroyAfterFailure(r) \/ RecordInstance(r)

TerminalSteps(r) ==
  UnregisterRun(r) \/ DestroyContainer(r) \/ EndRun(r)

SweepSteps(o) == SweepList(o) \/ SweepLook(o) \/ SweepRemove(o)

ContainersNext ==
  \/ \E r \in CRuns :
       \/ BeginProvision(r) \/ StepFails(r) \/ PrepareSteps(r)
       \/ ContainerStops(r) \/ PreserveWork(r) \/ TerminalSteps(r) \/ ReconcileRun(r)
  \/ \E o \in Owners : SweepSteps(o) \/ LexicodeDies(o)

\* Every Prepare, terminal path and sweep goes on; boot reconciles.  How long an agent works
\* and whether a run is begun is open.
ContainersFairness ==
  /\ \A r \in CRuns : WF_containersAll(PrepareSteps(r) \/ TerminalSteps(r) \/ ReconcileRun(r))
  /\ \A o \in Owners : WF_containersAll(SweepSteps(o))

ContainersSpec == ContainersInit /\ [][ContainersNext]_containersAll /\ ContainersFairness

------------------------------------------------------------------------------
(* Properties. *)

\* Nobody takes a run's container away while it is supervised: not its own Lexicode's sweep,
\* and not another one's that finds its run in no row ("the sweep kills live containers other
\* instances are working in"); a sweep's decision outlives the look it is made from.
SupervisedKeepsContainer ==
  \A r \in CRuns : at[r] = "supervise" => Present(r)

\* No agent works where the repository's credential still is, across failed clones, crashes in
\* the middle of Prepare and reattachment ("THE credential boundary").
AgentHoldsNoToken == \A r \in CRuns : runRow[r] = "running" => origin[r] = "tokenless"

\* The proxy lets nothing of a run that is over out.
ProxyForgetsTheDead == \A r \in CRuns : registered[r] => runRow[r] # "terminal"

\* "a failed Prepare leaks nothing", as long as the daemon answers and the process lives; and
\* a relay that runs is on both networks.
NothingLeaks ==
  /\ deaths = 0 /\ faults = 0 => \A r \in CRuns : runRow[r] = "terminal" => ~Present(r)
  /\ relayUp => relay # NoOne /\ legs

ContainersInv ==
  SupervisedKeepsContainer /\ AgentHoldsNoToken /\ ProxyForgetsTheDead /\ NothingLeaks

\* Nothing lingers: whatever crashed, failed or was lost on the way, a container whose run is
\* over is swept, every Prepare ends, and no Prepare waits for a build nobody runs.
SweptInTheEnd ==
  []<>(\A r \in CRuns : /\ runRow[r] = "terminal" => ~Present(r)
                        /\ at[r] \in {"none", "supervise"})

\* No container is swept under a run that needs it, and each one that nothing needs goes.
ContainersGo == []ContainersInv /\ SweptInTheEnd
==============================================================================
