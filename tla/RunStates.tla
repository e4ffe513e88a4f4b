------------------------------ MODULE RunStates ------------------------------
(***************************************************************************)
(* The run state machine every other module shares: the states of a run    *)
(* row, the classes the scheduler and the store sort them into, and the    *)
(* table of legal transitions.                                             *)
(***************************************************************************)

Terminal == {"completed", "failed", "timed_out", "canceled", "loop_stopped"}

\* Waiting on a human: the wall clock does not advance.
Parked == {"needs_input", "awaiting_approval"}

\* Holds, or is about to hold, a container slot.
Active == {"provisioning", "running"} \cup Parked

RunState == {"queued"} \cup Active \cup Terminal

\* No row of the table leaves a terminal state, and none enters loop_stopped: a
\* loop-stopped run is created terminal.
legalTransitions ==
  [s \in RunState |->
     CASE s = "queued"       -> {"provisioning", "canceled", "failed"}
       [] s = "provisioning" -> {"running", "failed", "canceled"}
       [] s = "running"      -> Parked \cup (Terminal \ {"loop_stopped"})
       [] s \in Parked       -> {"running"} \cup (Terminal \ {"loop_stopped"})
       [] OTHER              -> {}]

transitionLegal(from, to) == to \in legalTransitions[from]

\* What one transition call leaves in a row it finds in state s: the target when the
\* edge is legal, the state itself when it is already there or the edge is refused.
AfterTransition(s, to) == IF transitionLegal(s, to) THEN to ELSE s

\* The caller of transition sees an error exactly when the edge is refused.
TransitionRefused(s, to) == s # to /\ ~transitionLegal(s, to)

==============================================================================
