---------------------------- MODULE EventDelivery ----------------------------
(***************************************************************************)
(* What the event bus promises its publishers and subscribers: an event    *)
(* accepted is handled at least once, by matching subscribers only and     *)
(* only until it is settled; it settles once; and it settles as done only  *)
(* when every matching subscriber has handled it.                          *)
(***************************************************************************)
CONSTANTS Events, Matches

VARIABLES
  row,      \* "absent", "pending", "done" or "failed"
  handled   \* subscribers that handled each event

Init ==
  /\ row = [e \in Events |-> "absent"]
  /\ handled = [e \in Events |-> {}]

Accept(e) ==
  /\ row[e] = "absent"
  /\ row' = [row EXCEPT ![e] = "pending"]
  /\ UNCHANGED handled

\* At least once: a subscriber may handle an event again after a restart.
Handle(e, s) ==
  /\ row[e] = "pending" /\ s \in Matches[e]
  /\ handled' = [handled EXCEPT ![e] = @ \cup {s}]
  /\ UNCHANGED row

Complete(e) ==
  /\ row[e] = "pending" /\ Matches[e] \subseteq handled[e]
  /\ row' = [row EXCEPT ![e] = "done"]
  /\ UNCHANGED handled

Fail(e) ==
  /\ row[e] = "pending" /\ Matches[e] # {}
  /\ row' = [row EXCEPT ![e] = "failed"]
  /\ UNCHANGED handled

Next == \E e \in Events :
  Accept(e) \/ Complete(e) \/ Fail(e) \/ \E s \in Matches[e] : Handle(e, s)

Spec == Init /\ [][Next]_<<row, handled>>
==============================================================================
