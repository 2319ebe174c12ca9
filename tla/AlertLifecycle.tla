--------------------------- MODULE AlertLifecycle ---------------------------
(***************************************************************************)
(* What the alert desk promises its users, with no request, no transaction *)
(* and no failure in sight: every change of an alert or of an approval     *)
(* happens at one instant, together with the trail that explains it.       *)
(*                                                                         *)
(* Alerts are opened by the chat workflow and then move along             *)
(*     open -> acknowledged -> closed        (or open -> closed)           *)
(* An approval is requested for an existing alert and decided once.        *)
(* AlertWorkflow is shown to implement this module.                        *)
(***************************************************************************)
EXTENDS Sequences

CONSTANTS Alerts,     \* the alerts that may ever be opened
          Ids,        \* identifiers drawn with uuid4, one per operation
          None        \* the absent value

VARIABLES alertStatus,    \* risk.risk_alerts, status per alert
          statusEvents,   \* risk.risk_alert_status_events, oldest first
          approvals,      \* risk.risk_alert_approvals, by approval id
          auditEvents     \* audit.audit_events of this workflow

vars == <<alertStatus, statusEvents, approvals, auditEvents>>

Init ==
    /\ alertStatus = [a \in Alerts |-> "absent"]
    /\ statusEvents = [a \in Alerts |-> <<>>]
    /\ approvals = [p \in Ids |-> [alert |-> None, status |-> "none"]]
    /\ auditEvents = {}

Fresh(id) == \A e \in auditEvents : e.id # id

OpenAlert(a) ==
    /\ alertStatus[a] = "absent"
    /\ alertStatus' = [alertStatus EXCEPT ![a] = "open"]
    /\ UNCHANGED <<statusEvents, approvals, auditEvents>>

ChangeStatus(id, a, next) ==
    /\ Fresh(id)
    /\ \/ alertStatus[a] = "open" /\ next \in {"acknowledged", "closed"}
       \/ alertStatus[a] = "acknowledged" /\ next = "closed"
    /\ alertStatus' = [alertStatus EXCEPT ![a] = next]
    /\ statusEvents' = [statusEvents EXCEPT ![a] =
                          Append(@, [id |-> id, from |-> alertStatus[a], to |-> next])]
    /\ auditEvents' = auditEvents \cup
                        {[id |-> id, type |-> "status_changed", alert |-> a,
                          approval |-> None, from |-> alertStatus[a], to |-> next]}
    /\ UNCHANGED approvals

RequestApproval(id, a) ==
    /\ Fresh(id)
    /\ alertStatus[a] # "absent"
    /\ approvals[id].status = "none"
    /\ approvals' = [approvals EXCEPT ![id] = [alert |-> a, status |-> "requested"]]
    /\ auditEvents' = auditEvents \cup
                        {[id |-> id, type |-> "approval_requested", alert |-> a,
                          approval |-> id, from |-> "none", to |-> "requested"]}
    /\ UNCHANGED <<alertStatus, statusEvents>>

DecideApproval(id, p, decision) ==
    /\ Fresh(id)
    /\ approvals[p].status = "requested"
    /\ approvals' = [approvals EXCEPT ![p].status = decision]
    /\ auditEvents' = auditEvents \cup
                        {[id |-> id, type |-> "approval_decided",
                          alert |-> approvals[p].alert, approval |-> p,
                          from |-> "requested", to |-> decision]}
    /\ UNCHANGED <<alertStatus, statusEvents>>

Next ==
    \/ \E a \in Alerts : OpenAlert(a)
    \/ \E id \in Ids, a \in Alerts, next \in {"acknowledged", "closed"} :
          ChangeStatus(id, a, next)
    \/ \E id \in Ids, a \in Alerts : RequestApproval(id, a)
    \/ \E id, p \in Ids, decision \in {"approved", "rejected"} :
          DecideApproval(id, p, decision)

Spec == Init /\ [][Next]_vars
=============================================================================
