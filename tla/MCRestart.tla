------------------------------ MODULE MCRestart ------------------------------
(***************************************************************************)
(* The scheduler across a restart, the life of the process it runs in, and *)
(* services that owe something in the end, for TLC: the demoter of the     *)
(* wiki, the poll worker and the link to a repository.  They share no      *)
(* state here: one run explores them in turn, one `focus' per behaviour.   *)
(***************************************************************************)
EXTENDS Scheduler, Wiki, Poller, RepoLink, Lifecycle

CONSTANTS a1, u1, u2, r1

VARIABLE focus

\* a1 may run one at a time, a2 is uncapped; columns and budgets have no limit.
MCAgentCap == [a \in Agents |-> IF a = a1 THEN 1 ELSE 0]
NoDailyCap == [a \in Agents |-> 0]
NoWip      == [c \in RunningColumns |-> 0]
AnyBoard   == [Tickets -> Columns]

RestartInit ==
  /\ focus \in {"runs", "wiki", "poller", "link", "serve"}
  /\ Init /\ WikiInit /\ PollerInit /\ RepoLinkInit /\ LifecycleInit
  /\ focus # "serve" => swallows = {} /\ \A m \in Modules : claims[m] = CHOOSE p \in PortIds : TRUE

\* Users are alike, and so are repositories: u2's requests begin within one of u1's, and the
\* first is for r1.
RestartNext ==
  \/ focus = "runs" /\ Next /\ UNCHANGED <<focus, wikiVars, pollerVars, repoLinkVars, serveVars>>
  \/ focus = "wiki" /\ WikiNext /\ UNCHANGED <<focus, vars, pollerVars, repoLinkVars, serveVars>>
  \/ focus = "poller" /\ PollerNext /\ UNCHANGED <<focus, vars, wikiVars, repoLinkVars, serveVars>>
  \/ /\ focus = "link" /\ RepoLinkNext /\ UNCHANGED <<focus, vars, wikiVars, pollerVars, serveVars>>
     /\ ops'[u2] # NoOp => ops[u1] # NoOp \/ ops[u2] # NoOp
     /\ made = 0 /\ made' = 1 => token'.opens = r1
  \/ focus = "serve" /\ LifecycleNext /\ UNCHANGED <<focus, vars, wikiVars, pollerVars, repoLinkVars>>

\* Each component's own fairness; its actions are enabled while it is the one explored.
RestartFairness ==
  /\ WF_vars(focus = "runs" /\ Admission)
  /\ WF_vars(focus = "runs" /\ (Boot \/ AdmissionStarts))
  /\ \A r \in Runs : WF_vars(focus = "runs" /\ ReconcileOne(r))
  /\ \A r \in Runs : WF_vars(focus = "runs" /\ CancelDirect(r))
  /\ \A r \in Runs : WF_vars(focus = "runs" /\ state[r] \notin Parked /\ Supervision(r))
  /\ WF_wikiVars(focus = "wiki" /\ ListExpired)
  /\ WF_wikiVars(focus = "wiki" /\ \E d \in demoting : DemoteOne(d))
  /\ WF_pollerVars(focus = "poller" /\ (InTick \/ \E r \in denied : FailPass(r)))
  /\ \A w \in Workers : WF_repoLinkVars(focus = "link" /\ InPoller(w))
  /\ WF_repoLinkVars(focus = "link" /\ HandleConnected)
  /\ WF_repoLinkVars(focus = "link" /\ (RemoveWorker \/ ClearPollState))
  /\ WF_serveVars(focus = "serve" /\ ServeSteps)

\* The scheduler alone, a crash at any time.
CrashSpec ==
  focus = "runs" /\ RestartInit /\ [][RestartNext]_<<focus, vars, wikiVars, pollerVars, repoLinkVars, serveVars>>

RestartSpec ==
  /\ RestartInit
  /\ [][RestartNext]_<<focus, vars, wikiVars, pollerVars, repoLinkVars, serveVars>>
  /\ RestartFairness
==============================================================================
