-------------------------- MODULE MCTriggerTriage --------------------------
(***************************************************************************)
(* The trigger engine and the triage queue its create_ticket action files  *)
(* into, for TLC.  They share no state here: one run explores them in turn, *)
(* one `focus' per behaviour.                                               *)
(***************************************************************************)
EXTENDS TriggerEngine, Triage

\* One project; two triggers listen for the first event, none for the second, one for the third.
OneProject  == [e \in Events |-> CHOOSE p \in Projects : TRUE]
MCListening == [e \in Events |-> CASE e = 1 -> Triggers [] e = 3 -> {1} [] OTHER -> {}]

MCPROf      == [t \in InTriage |-> IF t \in Filed THEN 7 ELSE 0]

VARIABLE focus

SumInit == focus \in {"engine", "triage"} /\ Init /\ TriageInit

SumNext ==
  \/ focus = "engine" /\ Next /\ UNCHANGED <<focus, triageVars>>
  \/ focus = "triage" /\ TriageNext /\ UNCHANGED <<focus, vars>>

\* Each component's own fairness.
SumSpec ==
  /\ SumInit /\ [][SumNext]_<<focus, vars, triageVars>>
  /\ (focus = "engine" /\ Fairness) \/ (focus = "triage" /\ TriageFairness)

\* The engine alone.
EngineSpec ==
  /\ focus = "engine" /\ Init /\ TriageInit /\ [][SumNext]_<<focus, vars, triageVars>> /\ Fairness
=============================================================================
