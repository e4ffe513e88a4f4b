---------------------------- MODULE MCElicitation ----------------------------
(***************************************************************************)
(* What an agent and humans say to each other, for TLC: its questions and  *)
(* approvals, and the messages it is steered with.  They share no state    *)
(* here: one run explores them in turn, one `focus' per behaviour.         *)
(***************************************************************************)
EXTENDS Elicitation, Session

CONSTANTS c1, c2, h1, h2

VARIABLE focus

TalkInit == focus \in {"elicitation", "session"} /\ Init /\ SessionInit

\* Calls are alike, and so are humans: each second one begins after the first has.
TalkNext ==
  \/ /\ focus = "elicitation" /\ Next /\ UNCHANGED <<focus, sessionAll>>
     /\ pc[c1] = "idle" => pc'[c2] = pc[c2]
     /\ rpc[h1] = "idle" => rpc'[h2] = rpc[h2]
  \/ focus = "session" /\ SessionNext /\ UNCHANGED <<focus, vars>>

\* Each component's own fairness; its actions are enabled while it is the one explored.
TalkFairness ==
  /\ \A c \in Calls : WF_vars(focus = "elicitation" /\ CallSteps(c))
  /\ \A h \in Responders : WF_vars(focus = "elicitation" /\ ResponderSteps(h))
  /\ \A m \in Messages : WF_sessionAll(focus = "session" /\ (CreateMessage(m) \/ NotifySteering(m)))
  /\ WF_sessionAll(focus = "session" /\ SuperviseMessages)
  /\ WF_sessionAll(focus = "session" /\ PumpStdout)
  /\ WF_sessionAll(focus = "session" /\ (CliHears \/ (cli = "waiting" /\ CliExits)))
  /\ WF_sessionAll(focus = "session" /\ stopped /\ CliExits)

TalkSpec == TalkInit /\ [][TalkNext]_<<focus, vars, sessionAll>> /\ TalkFairness
==============================================================================
