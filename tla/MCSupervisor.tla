----------------------------- MODULE MCSupervisor -----------------------------
(***************************************************************************)
(* What surrounds a running agent, for TLC: its supervisor, the containers *)
(* and the egress proxy.  They share no state here: one run explores them  *)
(* in turn, one `focus' per behaviour.                                     *)
(***************************************************************************)
EXTENDS Supervisor, Containers, Egress

CONSTANTS pass1, pass2, call1, call2, call3

VARIABLE focus

AgentsInit ==
  /\ focus \in {"supervisor", "containers", "egress"}
  /\ Init /\ ContainersInit /\ EgressInit
  /\ focus = "containers" \/ \A r, s \in CRuns : ownerOf[r] = ownerOf[s]

\* Requests are alike and come in one order, all for one host, at most one with a token that
\* is not known; the run has the first token under the stricter policy, and the second later.
Known(c) == calls'[c] # NoCall /\ calls'[c].step # "refused"
EgressBounded ==
  /\ EgressNext
  /\ calls'[call2] # NoCall => calls[call1] # NoCall
  /\ calls'[call3] # NoCall => calls[call2] # NoCall
  /\ \A c, d \in Calls : Known(c) /\ Known(d) => calls'[c].host = calls'[d].host
  /\ byToken'[pass2] # NoRegistration => calls' # [c \in Calls |-> NoCall]
  /\ byToken'[pass1] # NoRegistration => byToken'[pass1].mode = "none"
  /\ Cardinality({c \in Calls : ~Known(c) /\ calls'[c] # NoCall}) <= 1

MCPolicies == {[mode |-> "none", allow |-> {}], [mode |-> "allowlist", allow |-> {<<"*", "org">>}]}
MCAlwaysOpen == {<<"api">>}
MCHosts == {<<"api">>, <<"npm", "org">>}

AgentsNext ==
  \/ focus = "supervisor" /\ Next /\ UNCHANGED <<focus, containersAll, egressVars>>
  \/ focus = "containers" /\ ContainersNext /\ UNCHANGED <<focus, vars, egressVars>>
  \/ focus = "egress" /\ EgressBounded /\ UNCHANGED <<focus, vars, containersAll>>

\* Each component's own fairness; its actions are enabled while it is the one explored.
AgentsFairness ==
  /\ WF_vars(focus = "supervisor" /\ Supervise)
  /\ WF_vars(focus = "supervisor" /\ (Admit \/ StartSupervisor))
  /\ WF_vars(focus = "supervisor" /\ session = "told" /\ \E how \in {"ok", "error"} : SessionEnds(how))
  /\ \A c \in Callers :
       WF_vars(focus = "supervisor" /\ (StopCheck(c) \/ StopDirect(c) \/ StopRevoke(c)))
  /\ \A n \in {"park", "resume"} : WF_vars(focus = "supervisor" /\ NotePark(n))
  /\ WF_vars(focus = "supervisor" /\ Sweep) /\ WF_vars(focus = "supervisor" /\ Reconcile)
  /\ WF_vars(focus = "supervisor" /\ stopping /\ \E survives \in BOOLEAN : ProcessEnds(survives))
  /\ \A r \in CRuns :
       WF_containersAll(focus = "containers" /\ (PrepareSteps(r) \/ TerminalSteps(r) \/ ReconcileRun(r)))
  /\ \A o \in Owners : WF_containersAll(focus = "containers" /\ SweepSteps(o))

AgentsSpec ==
  /\ AgentsInit
  /\ [][AgentsNext]_<<focus, vars, containersAll, egressVars>>
  /\ AgentsFairness
==============================================================================
