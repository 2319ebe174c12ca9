--------------------------- MODULE AlertWorkflow ---------------------------
(***************************************************************************)
(* The alert desk: POST /ops/alerts/{id}/status, /ops/alerts/{id}/approval *)
(* and /ops/approvals/{id}/decision (OpsWorkflowService).                  *)
(*                                                                         *)
(* Handlers are synchronous and run on a thread pool, so requests really   *)
(* interleave: each request is a process that advances one database        *)
(* statement at a time.  Reads made before the transaction use a           *)
(* connection of their own; writes are pending in tx until Commit.         *)
(* PostgreSQL runs at READ COMMITTED: an UPDATE waits for the holder of    *)
(* the row and then re-evaluates its WHERE on the committed row.           *)
(***************************************************************************)
EXTENDS Integers, Sequences

CONSTANTS Alerts,     \* alerts that the chat workflow may open
          Requests,   \* HTTP requests; also the uuid4 ids each one draws
          RoleSets,   \* the role sets a caller may hold
          None        \* the absent value

ASSUME NoneAssumption == None \notin Alerts \cup Requests
ASSUME RoleSetsAssumption ==
    RoleSets \subseteq SUBSET {"analyst", "risk_operator", "supervisor", "admin"}

VARIABLES
    \* committed tables
    alertStatus, statusEvents, approvals, auditEvents,
    \* one handler per request
    pc,             \* the next statement of the handler
    req,            \* what the caller asked for
    seenStatus,     \* previous_status, read before the transaction
    seenApprovals,  \* approvals of the alert that existed when the handler looked
    tx,             \* tables with a pending write of this request
    answer          \* what the caller was told

tables == <<alertStatus, statusEvents, approvals, auditEvents>>
vars == <<alertStatus, statusEvents, approvals, auditEvents,
          pc, req, seenStatus, seenApprovals, tx, answer>>

Statuses == {"open", "acknowledged", "closed"}
Decisions == {"approved", "rejected"}
allowed_status_transitions ==
    {<<"open", "acknowledged">>, <<"open", "closed">>, <<"acknowledged", "closed">>}

Refusals == {"forbidden", "not_found", "invalid_transition", "conflict",
             "already_requested", "already_decided"}
Successes == {"completed", "requested"} \cup Decisions

NoApproval == [alert |-> None, status |-> "none"]
NoRequest == [op |-> "none", roles |-> {}, alert |-> None, approval |-> None, to |-> "none"]

\* The bodies a caller may send.  The status is a free string: one outside
\* Statuses behaves like "open", to which no transition leads.  The schema of
\* the decision admits the two decisions only.
Bodies ==
    [op : {"update"}, roles : RoleSets, alert : Alerts, approval : {None}, to : Statuses]
    \cup [op : {"request"}, roles : RoleSets, alert : Alerts, approval : {None}, to : {"requested"}]
    \cup [op : {"decide"}, roles : RoleSets, alert : {None}, approval : Requests, to : Decisions]

InHandler == {"read", "check", "write", "event", "audit", "commit", "reply"}
Holding == {"event", "audit", "commit"}     \* an open transaction with writes

Init ==
    /\ alertStatus = [a \in Alerts |-> "absent"]
    /\ statusEvents = [a \in Alerts |-> <<>>]
    /\ approvals = [p \in Requests |-> NoApproval]
    /\ auditEvents = {}
    /\ pc = [r \in Requests |-> "idle"]
    /\ req = [r \in Requests |-> NoRequest]
    /\ seenStatus = [r \in Requests |-> "none"]
    /\ seenApprovals = [r \in Requests |-> {}]
    /\ tx = [r \in Requests |-> {}]
    /\ answer = [r \in Requests |-> "none"]

----------------------------------------------------------------------------
Goto(r, label) == pc' = [pc EXCEPT ![r] = label]

\* The handler returns; whatever its transaction held is already committed or gone.
Return(r, what) ==
    /\ Goto(r, "done")
    /\ answer' = [answer EXCEPT ![r] = what]

Write(r, table) == tx' = [tx EXCEPT ![r] = @ \cup {table}]

AlertRowLocked(a) ==
    \E q \in Requests : "risk_alerts" \in tx[q] /\ req[q].alert = a

ApprovalRowLocked(p) ==
    \E q \in Requests : /\ req[q].op = "decide"
                        /\ "approvals" \in tx[q]
                        /\ req[q].approval = p

\* The chat workflow inserts a new alert, always as open, in its own statement.
OpenAlert(a) ==
    /\ alertStatus[a] = "absent"
    /\ alertStatus' = [alertStatus EXCEPT ![a] = "open"]
    /\ UNCHANGED <<statusEvents, approvals, auditEvents,
                   pc, req, seenStatus, seenApprovals, tx, answer>>

RouteAllows(b) ==
    /\ \/ b.op = "decide" /\ b.roles \cap {"supervisor", "admin"} # {}
       \/ b.op # "decide" /\ b.roles \cap {"risk_operator", "supervisor", "admin"} # {}
    /\ ~(b.op = "update" /\ "risk_operator" \in b.roles /\ b.to # "acknowledged")

Receive(r, b) ==
    /\ pc[r] = "idle"
    /\ req' = [req EXCEPT ![r] = b]
    /\ IF RouteAllows(b) THEN Goto(r, "read") /\ UNCHANGED answer
                         ELSE Return(r, "forbidden")
    /\ UNCHANGED <<tables, seenStatus, seenApprovals, tx>>

----------------------------------------------------------------------------
(* The reads before the transaction *)

\* get_alert, for both operations on an alert
ReadAlert(r) ==
    LET b == req[r]
        status == alertStatus[b.alert] IN
    /\ pc[r] = "read" /\ b.op \in {"update", "request"}
    /\ \/ status = "absent" /\ Return(r, "not_found") /\ UNCHANGED seenStatus
       \/ /\ b.op = "update" /\ status # "absent"
          /\ <<status, b.to>> \notin allowed_status_transitions
          /\ Return(r, "invalid_transition")
          /\ UNCHANGED seenStatus
       \/ /\ b.op = "update"
          /\ <<status, b.to>> \in allowed_status_transitions
          /\ seenStatus' = [seenStatus EXCEPT ![r] = status]
          /\ Goto(r, "write")
          /\ UNCHANGED answer
       \/ /\ b.op = "request" /\ status # "absent"
          /\ Goto(r, "check")
          /\ UNCHANGED <<seenStatus, answer>>
    /\ UNCHANGED <<tables, req, seenApprovals, tx>>

ApprovalsOf(a) == {p \in Requests : approvals[p].alert = a}

\* bug: the newest approval is looked at without its status
CheckPendingIgnoringStatus(r) ==
    /\ pc[r] = "check"
    /\ seenApprovals' = [seenApprovals EXCEPT ![r] = ApprovalsOf(req[r].alert)]
    /\ Goto(r, "write") /\ UNCHANGED answer
    /\ UNCHANGED <<tables, req, seenStatus, tx>>

\* get_pending_for_alert
CheckPending(r) ==
    LET known == ApprovalsOf(req[r].alert) IN
    /\ pc[r] = "check"
    /\ seenApprovals' = [seenApprovals EXCEPT ![r] = known]
    /\ IF \E p \in known : approvals[p].status = "requested"
         THEN Return(r, "already_requested")
         ELSE Goto(r, "write") /\ UNCHANGED answer
    /\ UNCHANGED <<tables, req, seenStatus, tx>>

\* get_approval
ReadApproval(r) ==
    LET status == approvals[req[r].approval].status IN
    /\ pc[r] = "read" /\ req[r].op = "decide"
    /\ \/ status = "none" /\ Return(r, "not_found")
       \/ status \in Decisions /\ Return(r, "already_decided")
       \/ status = "requested" /\ Goto(r, "write") /\ UNCHANGED answer
    /\ UNCHANGED <<tables, req, seenStatus, seenApprovals, tx>>

----------------------------------------------------------------------------
(* The transaction *)

\* bug: the UPDATE names the alert only, not the status it was read with
UpdateAlertRowUnguarded(r) ==
    /\ pc[r] = "write" /\ req[r].op = "update"
    /\ ~AlertRowLocked(req[r].alert)
    /\ Write(r, "risk_alerts")
    /\ Goto(r, "event")
    /\ UNCHANGED <<tables, req, seenStatus, seenApprovals, answer>>

\* UPDATE risk.risk_alerts ... WHERE alert_id = . AND status = previous_status
UpdateAlertRow(r) ==
    LET b == req[r] IN
    /\ pc[r] = "write" /\ b.op = "update"
    /\ \/ /\ alertStatus[b.alert] = seenStatus[r]
          /\ ~AlertRowLocked(b.alert)
          /\ Write(r, "risk_alerts")
          /\ Goto(r, "event")
          /\ UNCHANGED answer
       \/ /\ alertStatus[b.alert] # seenStatus[r]
          /\ Return(r, "conflict")
          /\ UNCHANGED tx
    /\ UNCHANGED <<tables, req, seenStatus, seenApprovals>>

\* bug: the event is skipped
SkipStatusEvent(r) ==
    /\ pc[r] = "event"
    /\ Goto(r, "audit")
    /\ UNCHANGED <<tables, req, seenStatus, seenApprovals, tx, answer>>

InsertStatusEvent(r) ==
    /\ pc[r] = "event"
    /\ Write(r, "status_events")
    /\ Goto(r, "audit")
    /\ UNCHANGED <<tables, req, seenStatus, seenApprovals, answer>>

\* The id is fresh and no unique index covers pending approvals, so nothing blocks.
InsertApproval(r) ==
    /\ pc[r] = "write" /\ req[r].op = "request"
    /\ Write(r, "approvals")
    /\ Goto(r, "audit")
    /\ UNCHANGED <<tables, req, seenStatus, seenApprovals, answer>>

\* bug: the UPDATE does not repeat the check of the earlier read
DecideApprovalRowUnguarded(r) ==
    /\ pc[r] = "write" /\ req[r].op = "decide"
    /\ ~ApprovalRowLocked(req[r].approval)
    /\ Write(r, "approvals")
    /\ Goto(r, "audit")
    /\ UNCHANGED <<tables, req, seenStatus, seenApprovals, answer>>

\* UPDATE risk.risk_alert_approvals ... WHERE approval_status = 'requested'
DecideApprovalRow(r) ==
    LET p == req[r].approval IN
    /\ pc[r] = "write" /\ req[r].op = "decide"
    /\ \/ /\ approvals[p].status = "requested"
          /\ ~ApprovalRowLocked(p)
          /\ Write(r, "approvals")
          /\ Goto(r, "audit")
          /\ UNCHANGED answer
       \/ /\ approvals[p].status # "requested"
          /\ Return(r, "conflict")
          /\ UNCHANGED tx
    /\ UNCHANGED <<tables, req, seenStatus, seenApprovals>>

\* bug: the audit event is not part of the transaction
SkipAudit(r) ==
    /\ pc[r] = "audit"
    /\ Goto(r, "commit")
    /\ UNCHANGED <<tables, req, seenStatus, seenApprovals, tx, answer>>

InsertAudit(r) ==
    /\ pc[r] = "audit"
    /\ Write(r, "audit_events")
    /\ Goto(r, "commit")
    /\ UNCHANGED <<tables, req, seenStatus, seenApprovals, answer>>

AuditRecord(r) ==
    LET b == req[r] IN
    IF b.op = "update"
      THEN [id |-> r, type |-> "status_changed", alert |-> b.alert,
            approval |-> None, from |-> seenStatus[r], to |-> b.to]
    ELSE IF b.op = "request"
      THEN [id |-> r, type |-> "approval_requested", alert |-> b.alert,
            approval |-> r, from |-> "none", to |-> "requested"]
      ELSE [id |-> r, type |-> "approval_decided",
            alert |-> approvals[b.approval].alert,
            approval |-> b.approval, from |-> "requested", to |-> b.to]

\* COMMIT on the server: every pending write of the transaction becomes visible.
Commit(r) ==
    LET b == req[r] IN
    /\ pc[r] = "commit"
    /\ alertStatus' = IF "risk_alerts" \in tx[r]
                        THEN [alertStatus EXCEPT ![b.alert] = b.to]
                        ELSE alertStatus
    /\ statusEvents' = IF "status_events" \in tx[r]
                         THEN [statusEvents EXCEPT ![b.alert] =
                                 Append(@, [id |-> r, from |-> seenStatus[r], to |-> b.to])]
                         ELSE statusEvents
    /\ approvals' = IF "approvals" \notin tx[r] THEN approvals
                    ELSE IF b.op = "request"
                      THEN [approvals EXCEPT ![r] = [alert |-> b.alert, status |-> "requested"]]
                      ELSE [approvals EXCEPT ![b.approval].status = b.to]
    /\ auditEvents' = IF "audit_events" \in tx[r] THEN auditEvents \cup {AuditRecord(r)}
                                                  ELSE auditEvents
    /\ tx' = [tx EXCEPT ![r] = {}]
    /\ Goto(r, "reply")
    /\ UNCHANGED <<req, seenStatus, seenApprovals, answer>>

SuccessAnswer(b) ==
    IF b.op = "update" THEN "completed" ELSE b.to

\* bug: success is answered before the commit
ReplyEarly(r) ==
    /\ pc[r] \in {"commit", "reply"}
    /\ Return(r, SuccessAnswer(req[r]))
    /\ tx' = [tx EXCEPT ![r] = {}]
    /\ UNCHANGED <<tables, req, seenStatus, seenApprovals>>

\* COMMIT is acknowledged and the handler returns.
Reply(r) ==
    /\ pc[r] = "reply"
    /\ Return(r, SuccessAnswer(req[r]))
    /\ UNCHANGED <<tables, req, seenStatus, seenApprovals, tx>>

\* Any statement, or the acknowledgement of the commit, raises: the open
\* transaction is rolled back and the caller is told that the write failed.
Fail(r) ==
    /\ pc[r] \in InHandler
    /\ Return(r, "failed")
    /\ tx' = [tx EXCEPT ![r] = {}]
    /\ UNCHANGED <<tables, req, seenStatus, seenApprovals>>

\* The API process dies: nobody is answered and PostgreSQL drops the open transactions.
Crash ==
    /\ \E r \in Requests : pc[r] \in InHandler
    /\ pc' = [r \in Requests |-> IF pc[r] \in InHandler THEN "lost" ELSE pc[r]]
    /\ tx' = [r \in Requests |-> {}]
    /\ UNCHANGED <<tables, req, seenStatus, seenApprovals, answer>>

Proceed(r) ==
    \/ ReadAlert(r) \/ CheckPending(r) \/ ReadApproval(r)
    \/ UpdateAlertRow(r) \/ InsertApproval(r) \/ DecideApprovalRow(r)
    \/ InsertStatusEvent(r) \/ InsertAudit(r)
    \/ Commit(r) \/ Reply(r)

\* Every request has been served.
Idle == (\A r \in Requests : pc[r] \in {"done", "lost"}) /\ UNCHANGED vars

Next ==
    \/ \E a \in Alerts : OpenAlert(a)
    \/ \E r \in Requests : \E b \in Bodies : Receive(r, b)
    \/ \E r \in Requests : Proceed(r) \/ Fail(r)
    \/ Crash
    \/ Idle

Spec == Init /\ [][Next]_vars

----------------------------------------------------------------------------
(* Properties *)

StatusEvent == [id : Requests, from : Statuses, to : Statuses]
AuditEvent ==
    [id : Requests, type : {"status_changed"}, alert : Alerts, approval : {None},
     from : Statuses, to : Statuses]
    \cup [id : Requests, type : {"approval_requested", "approval_decided"}, alert : Alerts,
          approval : Requests, from : {"none", "requested"}, to : {"requested"} \cup Decisions]

\* Type invariant of the committed tables and of the handlers' local state.
TypeOK ==
    /\ alertStatus \in [Alerts -> Statuses \cup {"absent"}]
    /\ statusEvents \in [Alerts -> Seq(StatusEvent)]
    /\ approvals \in [Requests -> [alert : Alerts \cup {None},
                                   status : {"none", "requested"} \cup Decisions]]
    /\ auditEvents \in SUBSET AuditEvent
    /\ pc \in [Requests -> InHandler \cup {"idle", "done", "lost"}]
    /\ req \in [Requests -> Bodies \cup {NoRequest}]
    /\ seenStatus \in [Requests -> Statuses \cup {"none"}]
    /\ seenApprovals \in [Requests -> SUBSET Requests]
    /\ tx \in [Requests -> SUBSET {"risk_alerts", "status_events", "approvals", "audit_events"}]
    /\ answer \in [Requests -> Refusals \cup Successes \cup {"none", "failed"}]

\* The status events of an alert are a chain from "open" to the status it has
\* now: no update is lost, doubled or applied to a status nobody saw, whatever
\* update_alert_status requests race (ops_workflow.py).
TrailExplainsStatus ==
    \A a \in Alerts :
      LET trail == statusEvents[a] IN
      /\ trail = <<>> => alertStatus[a] \in {"absent", "open"}
      /\ trail # <<>> => trail[1].from = "open" /\ trail[Len(trail)].to = alertStatus[a]
      /\ \A i \in 1 .. Len(trail) - 1 : trail[i].to = trail[i + 1].from

\* Every status event has its audit event and the reverse, with the same
\* alert and the same statuses: the three writes stand or fall together.
StatusChangesAudited ==
    LET audited == {e \in auditEvents : e.type = "status_changed"} IN
    /\ \A a \in Alerts : \A i \in DOMAIN statusEvents[a] :
         \E e \in audited : /\ e.id = statusEvents[a][i].id /\ e.alert = a
                            /\ e.from = statusEvents[a][i].from
                            /\ e.to = statusEvents[a][i].to
    /\ \A e \in audited : \E i \in DOMAIN statusEvents[e.alert] :
         statusEvents[e.alert][i].id = e.id

\* An approval is decided at most once, and its audit trail says by whom it
\* was requested and how it was decided: two supervisors racing on one
\* approval never both have their decision recorded.
OneDecisionPerApproval ==
    /\ \A p \in Requests :
         approvals[p].status \in Decisions <=>
           \E e \in auditEvents : e.type = "approval_decided" /\ e.approval = p
    /\ \A e \in auditEvents : e.type = "approval_decided" =>
         /\ e.to = approvals[e.approval].status
         /\ e.alert = approvals[e.approval].alert
    /\ \A e, f \in auditEvents :
         e.type = "approval_decided" /\ f.type = "approval_decided"
           /\ e.approval = f.approval => e = f

Recorded(r) == \E e \in auditEvents : e.id = r

\* What a caller is told agrees with the tables: success only if the change
\* and its audit event are committed, a refusal only if the request wrote nothing.
AnswersAreTrue ==
    \A r \in Requests :
      /\ answer[r] \in Successes =>
           \E e \in auditEvents :
             /\ e.id = r /\ e.to = req[r].to
             /\ req[r].op \in {"update", "request"} => e.alert = req[r].alert
             /\ req[r].op = "decide" => e.approval = req[r].approval
      /\ answer[r] \in Refusals => ~Recorded(r) /\ approvals[r] = NoApproval

\* Two approvals pending on one alert were requested by overlapping handlers:
\* a request that looked after another was committed is refused until that one
\* is decided (get_pending_for_alert).
PendingTogetherOverlapped ==
    \A p, q \in Requests :
      /\ p # q
      /\ approvals[p].status = "requested" /\ approvals[q].status = "requested"
      /\ approvals[p].alert = approvals[q].alert
      => p \notin seenApprovals[q]

\* Closing an alert is final, whatever was read before it was closed.
ClosedIsFinal ==
    [][\A a \in Alerts : alertStatus[a] = "closed" => alertStatus'[a] = "closed"]_vars

\* The workflow implements AlertLifecycle: between requests, transactions and
\* failures every committed change is one step of the promised life cycle.
Lifecycle == INSTANCE AlertLifecycle WITH Ids <- Requests
ImplementsLifecycle == Lifecycle!Spec

\* Documented, and not what the route does: a supervisor can close an alert.
SupervisorsMayClose ==
    \A r \in Requests :
      req[r].op = "update" /\ req[r].to = "closed" /\ "supervisor" \in req[r].roles
        => answer[r] # "forbidden"
=============================================================================
