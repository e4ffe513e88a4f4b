----------------------------- MODULE MCWorkspace -----------------------------
(***************************************************************************)
(* The services around the scheduler whose promises are safety properties, *)
(* for TLC.  They share no state here: one run explores them in turn, one  *)
(* `focus' per behaviour, and checks what each promises.                   *)
(***************************************************************************)
EXTENDS TLC, Ordering, Tickets, Approvals, ForgeClient, Accounts, Delivery, Notify, Hub,
        Bootstrap

CONSTANTS a1, m2, web1, web2, d1, d2, p1, p2

VARIABLE focus

everything ==
  <<orderVars, ticketVars, approvalVars, clientVars, accountVars, deliveryVars, notifyVars, hubVars,
    bootstrapVars>>

\* Each starts as it may while it is the one explored, and in one way while it is not.
WorkspaceInit ==
  /\ focus \in {"order", "tickets", "approvals", "transport", "scopes", "accounts",
               "delivery", "notify", "hub", "bootstrap"}
  /\ OrderInit /\ TicketsInit /\ ApprovalsInit /\ ClientInit
  /\ AccountsInit /\ DeliveryInit /\ NotifyInit /\ HubInit /\ BootstrapInit
  /\ focus # "approvals" => rules = <<>> /\ autonomy = "auto"
  /\ \A r, q \in Jobs : onPull[r] => onPull[q] /\ focus = "delivery"

\* Requests, runs and persons that nothing tells apart begin in one order; the second apply is
\* for a part of what the first is for, as what else it has no other is at.
WorkspaceNext ==
  \/ /\ focus = "order" /\ OrderNext
     /\ UNCHANGED <<focus, ticketVars, approvalVars, clientVars, accountVars, deliveryVars,
                  notifyVars, hubVars, bootstrapVars>>
  \/ /\ focus = "tickets" /\ TicketsNext
     /\ UNCHANGED <<focus, orderVars, approvalVars, clientVars, accountVars, deliveryVars,
                  notifyVars, hubVars, bootstrapVars>>
  \/ /\ focus = "approvals" /\ ApprovalsNext
     /\ UNCHANGED <<focus, orderVars, ticketVars, clientVars, accountVars, deliveryVars,
                  notifyVars, hubVars, bootstrapVars>>
  \/ /\ focus = "transport" /\ TransportNext
     /\ UNCHANGED <<focus, orderVars, ticketVars, approvalVars, accountVars, deliveryVars,
                  notifyVars, hubVars, bootstrapVars>>
  \/ /\ focus = "scopes" /\ ScopesNext
     /\ UNCHANGED <<focus, orderVars, ticketVars, approvalVars, accountVars, deliveryVars,
                  notifyVars, hubVars, bootstrapVars>>
  \/ /\ focus = "accounts" /\ AccountsNext /\ role'[m2] # "owner"
     /\ call[web2] = Unsent /\ call'[web2] # Unsent => call[web1] # Unsent
     /\ UNCHANGED <<focus, orderVars, ticketVars, approvalVars, clientVars, deliveryVars,
                  notifyVars, hubVars, bootstrapVars>>
  \/ /\ focus = "delivery" /\ DeliveryNext
     /\ step'[d2] # "queued" => step[d1] # "queued"
     /\ UNCHANGED <<focus, orderVars, ticketVars, approvalVars, clientVars, accountVars,
                  notifyVars, hubVars, bootstrapVars>>
  \/ /\ focus = "notify" /\ NotifyNext
     /\ UNCHANGED <<focus, orderVars, ticketVars, approvalVars, clientVars, accountVars,
                  deliveryVars, hubVars, bootstrapVars>>
  \/ /\ focus = "hub" /\ HubNext
     /\ UNCHANGED <<focus, orderVars, ticketVars, approvalVars, clientVars, accountVars,
                  deliveryVars, notifyVars, bootstrapVars>>
  \/ /\ focus = "bootstrap" /\ BootstrapNext
     /\ apply'[p2].at # "idle" => apply[p1].at # "idle" /\ apply'[p2].checked \subseteq apply[p1].checked
     /\ UNCHANGED <<focus, orderVars, ticketVars, approvalVars, clientVars, accountVars,
                  deliveryVars, notifyVars, hubVars>>

WorkspaceSpec == WorkspaceInit /\ [][WorkspaceNext]_<<focus, everything>>

MCFirst == <<"backlog", "running", "done">> @@ 4 :> "gone"
MCOldRules == {<<>>, <<[covers |-> {"rm"}, decision |-> "ask"]>>}
MCCovers == {{"rm"}}
MCNames  == <<"n1", "n2">>
MCTopics == <<1, 1, 2, 1, 1, 1>>
MCWants  == [c \in Tabs |-> {1}]
==============================================================================
