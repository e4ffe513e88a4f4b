----------------------------- MODULE Lifecycle -----------------------------
(***************************************************************************)
(* One process from its start to its exit (cmd/lexicode/serve.go,          *)
(* internal/kernel/module.go, registry.go): what is started in which       *)
(* order, what each deferred call waits for, and how the modules share the *)
(* time there is to stop.                                                  *)
(***************************************************************************)
EXTENDS FiniteSets, Naturals, Sequences

CONSTANTS
  NumModules,   \* modules in registration order: 1, 2, ...
  PortIds,      \* ids an adapter may be registered under
  StopTime      \* StopTimeout, in ticks

ASSUME LifecycleAssumption == NumModules \in Nat \ {0} /\ StopTime \in Nat /\ StopTime >= NumModules

Modules     == 1..NumModules
TickerNames == {"notify", "demote", "triage"}

VARIABLES
  serving,      \* where serve is
  deferred,     \* its deferred calls
  signaled,     \* the context is cancelled
  claims,       \* the port id each module registers
  swallows,     \* modules that ignore the error of a Register call
  port,         \* the registry: ids and the first module that claimed them
  nextModule,   \* the module Init or Start comes to next, or Stop came to last
  modState,       \* a module's state: ready, or degraded
  startedMods,  \* modules whose Start has been called
  stopOf,       \* "no", "called", "returned" or "left": given up on after its share
  share,        \* history: the time its Stop was given
  timeLeft,     \* until the deadline of Kernel.Stop
  tickers,      \* ticker goroutines
  running       \* of "store", "bus", "engine", "scheduler", "http": what is up

serveVars == <<serving, deferred, signaled, claims, swallows, port, nextModule, modState,
               startedMods, stopOf, share, timeLeft, tickers, running>>
bootVars   == <<claims, swallows, port>>
moduleVars == <<modState, startedMods>>
stopVars   == <<stopOf, share, timeLeft>>

LifecycleTypeOK ==
  /\ serving \in {"migrate", "init", "tickers", "listen", "start", "serve", "unwind", "stopping",
                 "exited"}
  /\ signaled \in BOOLEAN /\ claims \in [Modules -> PortIds] /\ swallows \subseteq Modules
  /\ port \in [PortIds -> Modules \cup {0}] /\ nextModule \in 0..(NumModules + 1)
  /\ modState \in [Modules -> {"ready", "degraded"}] /\ startedMods \subseteq Modules
  /\ stopOf \in [Modules -> {"no", "called", "returned", "left"}]
  /\ share \in [Modules -> 0..StopTime] /\ timeLeft \in 0..StopTime
  /\ tickers \subseteq TickerNames /\ running \subseteq {"store", "bus", "engine", "scheduler", "http"}

LifecycleInit ==
  /\ serving = "migrate" /\ deferred = <<"store">> /\ signaled = FALSE
  /\ claims \in [Modules -> PortIds] /\ swallows \in SUBSET Modules
  /\ port = [p \in PortIds |-> 0] /\ nextModule = 1
  /\ modState = [m \in Modules |-> "ready"] /\ startedMods = {}
  /\ stopOf = [m \in Modules |-> "no"] /\ share = [m \in Modules |-> 0] /\ timeLeft = StopTime
  /\ tickers = {} /\ running = {"store"}

------------------------------------------------------------------------------
(* Boot.                                                                     *)

Signal ==
  /\ ~signaled /\ serving # "exited"
  /\ signaled' = TRUE
  /\ UNCHANGED <<serving, deferred, bootVars, nextModule, moduleVars, stopVars, tickers, running>>

\* Every `return err' of serve runs what has been deferred by then.
Returns == serving' = "unwind"

Migrate ==
  /\ serving = "migrate"
  /\ serving' = "init" \/ Returns
  /\ UNCHANGED <<deferred, signaled, bootVars, nextModule, moduleVars, stopVars, tickers, running>>

Fails(m)      == port[claims[m]] # 0

\* Kernel.Init: the module registers its port; a failure of its own or of a registration
\* ends the boot, with nothing to unwind but the store.
InitModule ==
  /\ serving = "init" /\ nextModule <= NumModules
  /\ \E ok \in BOOLEAN :
       IF ok /\ ~Fails(nextModule)
       THEN /\ nextModule' = nextModule + 1
            /\ UNCHANGED serving
       ELSE Returns /\ UNCHANGED nextModule
  /\ port' = [port EXCEPT ![claims[nextModule]] = IF @ = 0 THEN nextModule ELSE @]
  /\ UNCHANGED <<deferred, signaled, claims, swallows, moduleVars, stopVars, tickers, running>>

\* The engine and the subscriptions are there; Kernel.Stop, Bus.Stop and Engine.Stop are
\* deferred before Bus.Start, which may fail.
BusStart ==
  /\ serving = "init" /\ nextModule > NumModules
  /\ deferred' = Append(deferred, "kernel")
  /\ running' = running \cup {"bus", "engine"}
  /\ nextModule' = 1
  /\ serving' = "tickers" \/ Returns
  /\ UNCHANGED <<signaled, bootVars, moduleVars, stopVars, tickers>>

\* Three goroutines that live as long as the signal's context, and three deferred waits.
StartTickers ==
  /\ tickers' = TickerNames
  /\ deferred' = deferred \o <<"notify", "demote", "triage">>

TickersStart ==
  /\ serving = "tickers"
  /\ StartTickers
  /\ serving' = "listen"
  /\ UNCHANGED <<signaled, bootVars, nextModule, moduleVars, stopVars, running>>

\* The address may be in use.
Listen ==
  /\ serving = "listen"
  /\ serving' = "start" \/ Returns
  /\ UNCHANGED <<deferred, signaled, bootVars, nextModule, moduleVars, stopVars, tickers, running>>

\* Kernel.Start: a failure degrades the module, and boot goes on.
StartModule ==
  /\ serving = "start" /\ nextModule <= NumModules
  /\ startedMods' = startedMods \cup {nextModule}
  /\ modState' \in {modState, [modState EXCEPT ![nextModule] = "degraded"]}
  /\ nextModule' = nextModule + 1
  /\ UNCHANGED <<serving, deferred, signaled, bootVars, stopVars, tickers, running>>

\* SetModuleState, from the module's own goroutines.
SetModuleState(m, h) ==
  /\ m \in startedMods /\ stopOf[m] \in {"no", "called"} /\ modState[m] # h
  /\ modState' = [modState EXCEPT ![m] = h]
  /\ UNCHANGED <<serving, deferred, signaled, bootVars, nextModule, startedMods, stopVars, tickers, running>>

SchedulerStart ==
  /\ serving = "start" /\ nextModule > NumModules
  /\ \/ /\ deferred' = Append(deferred, "scheduler")
        /\ running' = running \cup {"scheduler", "http"}
        /\ serving' = "serve"
     \/ Returns /\ UNCHANGED <<deferred, running>>
  /\ UNCHANGED <<signaled, bootVars, nextModule, moduleVars, stopVars, tickers>>

------------------------------------------------------------------------------
(* Shutdown.                                                                 *)

\* The select: the server fails by itself, or the signal comes and it is shut down within its
\* grace; streams are closed first.
ServeFails ==
  /\ serving = "serve"
  /\ running' = running \ {"http"} /\ Returns
  /\ UNCHANGED <<deferred, signaled, bootVars, nextModule, moduleVars, stopVars, tickers>>

ShutsDown ==
  /\ serving = "serve" /\ signaled
  /\ running' = running \ {"http"} /\ Returns
  /\ UNCHANGED <<deferred, signaled, bootVars, nextModule, moduleVars, stopVars, tickers>>

\* The context they run under is the signal's.
TickersEndAtClose == "store" \notin running
TickersEnd        == signaled

TickerExits(t) ==
  /\ TickersEnd /\ t \in tickers
  /\ tickers' = tickers \ {t}
  /\ UNCHANGED <<serving, deferred, signaled, bootVars, nextModule, moduleVars, stopVars, running>>

Deferred(what) == serving = "unwind" /\ deferred # <<>> /\ deferred[Len(deferred)] = what
Popped         == deferred' = SubSeq(deferred, 1, Len(deferred) - 1)

\* notifySvc.Wait, contextresSvc.Wait, WaitTriageTicker.
Waited(t) ==
  /\ Deferred(t) /\ t \notin tickers
  /\ Popped
  /\ UNCHANGED <<serving, signaled, bootVars, nextModule, moduleVars, stopVars, tickers, running>>

SchedulerStop ==
  /\ Deferred("scheduler")
  /\ Popped /\ running' = running \ {"scheduler"}
  /\ UNCHANGED <<serving, signaled, bootVars, nextModule, moduleVars, stopVars, tickers>>

KernelStop ==
  /\ Deferred("kernel")
  /\ serving' = "stopping" /\ nextModule' = NumModules + 1
  /\ UNCHANGED <<deferred, signaled, bootVars, moduleVars, stopVars, tickers, running>>

Settled(m) == m \in Modules => stopOf[m] \in {"returned", "left"}

\* One share each of what is left, for the modules that are still to be stopped.
ShareOf(m) == timeLeft \div m

\* Stop of the next module, in reverse; without time it is passed over.
StopModule ==
  /\ serving = "stopping" /\ nextModule > 1 /\ Settled(nextModule)
  /\ LET m == nextModule - 1 IN
       /\ nextModule' = m
       /\ stopOf' = [stopOf EXCEPT ![m] = IF timeLeft > 0 THEN "called" ELSE "left"]
       /\ share' = [share EXCEPT ![m] = ShareOf(m)]
  /\ UNCHANGED <<serving, deferred, signaled, bootVars, moduleVars, timeLeft, tickers, running>>

\* stopOne: it returns, after a part of its share, or is left behind at the end of it.
StopReturns ==
  /\ serving = "stopping" /\ nextModule \in Modules /\ stopOf[nextModule] = "called"
  /\ \E took \in 0..share[nextModule] :
       /\ timeLeft' = timeLeft - took
       /\ stopOf' \in {[stopOf EXCEPT ![nextModule] = s] :
                         s \in {"returned"} \cup IF took = share[nextModule] THEN {"left"} ELSE {}}
  /\ UNCHANGED <<serving, deferred, signaled, bootVars, nextModule, moduleVars, share, tickers, running>>

\* Bus.Stop and Engine.Stop, each within five seconds of its own.
BusAndEngineStop ==
  /\ serving = "stopping" /\ nextModule = 1 /\ Settled(1)
  /\ running' = running \ {"bus", "engine"}
  /\ Popped /\ serving' = "unwind"
  /\ UNCHANGED <<signaled, bootVars, nextModule, moduleVars, stopVars, tickers>>

StoreClose ==
  /\ Deferred("store")
  /\ Popped /\ running' = running \ {"store"} /\ serving' = "exited"
  /\ UNCHANGED <<signaled, bootVars, nextModule, moduleVars, stopVars, tickers>>

------------------------------------------------------------------------------
ServeSteps ==
  \/ Migrate \/ InitModule \/ BusStart \/ TickersStart \/ Listen \/ StartModule \/ SchedulerStart
  \/ ShutsDown \/ SchedulerStop \/ KernelStop \/ StopModule \/ StopReturns
  \/ BusAndEngineStop \/ StoreClose
  \/ \E t \in TickerNames : Waited(t) \/ TickerExits(t)

LifecycleNext ==
  \/ Signal \/ ServeSteps \/ ServeFails
  \/ \E m \in Modules, h \in {"ready", "degraded"} : SetModuleState(m, h)

\* serve runs on; a Stop that does not return is left at the end of its share.
LifecycleSpec == LifecycleInit /\ [][LifecycleNext]_serveVars /\ WF_serveVars(ServeSteps)

------------------------------------------------------------------------------
\* What is running needs what is below it: nothing is left on the store when it is closed, the
\* modules are stopped after everything that calls them, and the bus outlives all publishers.
\* That is a matter of where each `defer' stands, on every path out of serve.
LayersHold ==
  /\ "store" \notin running => tickers = {} /\ running = {}
  /\ "http" \in running => "bus" \in running /\ startedMods = Modules
  /\ \A m \in Modules : stopOf[m] # "no" => tickers = {} /\ running \cap {"scheduler", "http"} = {}
  /\ "bus" \notin running /\ startedMods # {} => \A m \in Modules : Settled(m)

\* "one module that will not drain cannot consume the deadline the others need": every module
\* is called in time, whatever those before it took.
EveryShareIsLeft ==
  /\ \A m \in Modules : stopOf[m] # "no" => share[m] > 0
  /\ \A m \in Modules : stopOf[m] = "left" => share[m] >= StopTime \div NumModules

\* Boot ends on a duplicate id, also when the module swallows the error: what is served has
\* one adapter under each id.
OneAdapterPerId ==
  startedMods # {} => \A m, n \in Modules : m # n => claims[m] # claims[n]

LifecycleInv == LifecycleTypeOK /\ LayersHold /\ EveryShareIsLeft /\ OneAdapterPerId

\* A signal ends the process, whatever it finds running. (An error need not: the deferred waits
\* are for tickers that live until a signal comes, so that a port in use is reported only then.)
SignalEnds == signaled ~> serving = "exited"

\* What serve starts it also ends, in order.
SignalEndsIt == []LifecycleInv /\ SignalEnds
=============================================================================
