------------------------ MODULE AlertWorkflow_proofs ------------------------
(***************************************************************************)
(* Proofs about AlertWorkflow, for every set of alerts and of requests.    *)
(*                                                                         *)
(* Inv says what a handler knows at each statement: what its transaction   *)
(* has pending, that a row it has written is held by it alone and still    *)
(* has the status it matched, and that the ids it drew are unused.  Under  *)
(* Inv a Commit is one step of AlertLifecycle, and the properties of the   *)
(* tables follow from the steps of AlertLifecycle.                         *)
(* AnswerState adds what a handler knows of its own answer, and SeenState  *)
(* what it saw of the approvals of others.                                 *)
(***************************************************************************)
EXTENDS AlertWorkflow, TLAPS

\* The writes a handler has pending at each statement of its transaction.
PendingWrites(r) ==
    IF pc[r] \notin Holding THEN {}
    ELSE (IF req[r].op = "update"
            THEN {"risk_alerts"} \cup (IF pc[r] = "event" THEN {} ELSE {"status_events"})
            ELSE {"approvals"})
         \cup (IF pc[r] = "commit" THEN {"audit_events"} ELSE {})

HandlerState ==
    \A r \in Requests :
      /\ pc[r] \in InHandler => req[r] \in Bodies
      /\ pc[r] = "check" => req[r].op = "request"
      /\ pc[r] = "event" => req[r].op = "update"
      /\ pc[r] \in {"write"} \cup Holding /\ req[r].op = "update" =>
           <<seenStatus[r], req[r].to>> \in allowed_status_transitions
      /\ pc[r] \in {"check", "write"} \cup Holding /\ req[r].op = "request" =>
           alertStatus[req[r].alert] # "absent"
      /\ tx[r] = PendingWrites(r)

\* A written row has one writer, and the status its UPDATE matched.
RowsHeld ==
    /\ \A q, r \in Requests :
         /\ pc[q] \in Holding /\ pc[r] \in Holding /\ q # r
         /\ req[q].op = req[r].op
         => /\ req[q].op = "update" => req[q].alert # req[r].alert
            /\ req[q].op = "decide" => req[q].approval # req[r].approval
    /\ \A r \in Requests :
         pc[r] \in Holding =>
           /\ req[r].op = "update" => alertStatus[req[r].alert] = seenStatus[r]
           /\ req[r].op = "decide" => approvals[req[r].approval].status = "requested"

\* Before its commit a request has left nothing under its id.
IdsFresh ==
    \A r \in Requests :
      pc[r] \notin {"reply", "done", "lost"} => ~Recorded(r) /\ approvals[r] = NoApproval

ApprovalsWellFormed ==
    \A p \in Requests : \/ approvals[p] = NoApproval
                        \/ approvals[p].alert \in Alerts /\ approvals[p].status # "none"

Inv ==
    /\ TypeOK
    /\ HandlerState
    /\ RowsHeld
    /\ IdsFresh
    /\ ApprovalsWellFormed

-----------------------------------------------------------------------------
\* A body is one of the three requests the routes accept.
LEMMA BodyKinds ==
    ASSUME NEW b \in Bodies
    PROVE  /\ b.roles \in RoleSets
           /\ \/ b.op = "update" /\ b.alert \in Alerts /\ b.approval = None /\ b.to \in Statuses
              \/ b.op = "request" /\ b.alert \in Alerts /\ b.approval = None /\ b.to = "requested"
              \/ b.op = "decide" /\ b.alert = None /\ b.approval \in Requests /\ b.to \in Decisions
BY DEF Bodies

\* A commit writes an audit event of the right shape.
LEMMA AuditRecordType ==
    ASSUME Inv, NEW r \in Requests, pc[r] = "commit"
    PROVE  AuditRecord(r) \in AuditEvent
<1> DEFINE b == req[r]
<1>1. b \in Bodies
  BY DEF Inv, HandlerState, InHandler
<1>2. CASE b.op = "update"
  <2>1. AuditRecord(r) = [id |-> r, type |-> "status_changed", alert |-> b.alert,
                          approval |-> None, from |-> seenStatus[r], to |-> b.to]
    BY <1>2 DEF AuditRecord
  <2>2. b.alert \in Alerts /\ b.to \in Statuses
    BY <1>1, <1>2, BodyKinds
  <2>3. seenStatus[r] \in Statuses
    BY <1>2 DEF Inv, HandlerState, Holding, allowed_status_transitions, Statuses
  <2> QED
    BY <2>1, <2>2, <2>3 DEF AuditEvent
<1>3. CASE b.op = "request"
  <2>1. AuditRecord(r) = [id |-> r, type |-> "approval_requested", alert |-> b.alert,
                          approval |-> r, from |-> "none", to |-> "requested"]
    BY <1>3 DEF AuditRecord
  <2>2. b.alert \in Alerts
    BY <1>1, <1>3, BodyKinds
  <2> QED
    BY <2>1, <2>2 DEF AuditEvent
<1>4. CASE b.op = "decide"
  <2>1. AuditRecord(r) = [id |-> r, type |-> "approval_decided",
                          alert |-> approvals[b.approval].alert,
                          approval |-> b.approval, from |-> "requested", to |-> b.to]
    BY <1>4 DEF AuditRecord
  <2>2. b.approval \in Requests /\ b.to \in Decisions
    BY <1>1, <1>4, BodyKinds
  <2>3. approvals[b.approval].status = "requested"
    BY <1>4 DEF Inv, RowsHeld, Holding
  <2>4. approvals[b.approval].alert \in Alerts
    BY <2>2, <2>3 DEF Inv, ApprovalsWellFormed, NoApproval
  <2> QED
    BY <2>1, <2>2, <2>4 DEF AuditEvent
<1> QED
  BY <1>1, <1>2, <1>3, <1>4, BodyKinds

-----------------------------------------------------------------------------
(* Inv is inductive *)

\* No alert and no request yet.
LEMMA InitInv == Init => Inv
<1> SUFFICES ASSUME Init PROVE Inv
  OBVIOUS
<1>1. TypeOK
  BY NoneAssumption, RoleSetsAssumption
  DEF Init, TypeOK, NoApproval, NoRequest, InHandler, Statuses, Decisions
<1>2. HandlerState
  BY DEF Init, HandlerState, PendingWrites, InHandler, Holding
<1>3. RowsHeld
  BY DEF Init, RowsHeld, Holding
<1>4. IdsFresh /\ ApprovalsWellFormed
  BY DEF Init, IdsFresh, ApprovalsWellFormed, Recorded, NoApproval
<1> QED
  BY <1>1, <1>2, <1>3, <1>4 DEF Inv

\* The row a handler is about to write matches what it looks for and is not held.
RowTaken(r) ==
    /\ req[r].op = "update" => alertStatus[req[r].alert] = seenStatus[r]
    /\ req[r].op = "decide" => approvals[req[r].approval].status = "requested"
    /\ \A q \in Requests \ {r} :
         pc[q] \in Holding /\ req[q].op = req[r].op =>
           /\ req[r].op = "update" => req[q].alert # req[r].alert
           /\ req[r].op = "decide" => req[q].approval # req[r].approval

\* A step of one handler that touches no table keeps Inv if it keeps what
\* HandlerState says of that handler and takes only a row it may take.
LEMMA LocalStepInv ==
    ASSUME Inv, TypeOK', NEW r \in Requests,
           UNCHANGED tables,
           \A q \in Requests \ {r} : /\ pc'[q] = pc[q] /\ req'[q] = req[q]
                                     /\ seenStatus'[q] = seenStatus[q] /\ tx'[q] = tx[q],
           pc'[r] \notin {"idle", "reply"},
           pc[r] \in {"reply", "done", "lost"} => pc'[r] \in {"done", "lost"},
           pc'[r] \in Holding => /\ pc[r] \in {"write"} \cup Holding
                                 /\ req'[r] = req[r] /\ seenStatus'[r] = seenStatus[r],
           pc'[r] \in Holding /\ pc[r] = "write" => RowTaken(r),
           pc'[r] \in InHandler => req'[r] \in Bodies,
           pc'[r] = "check" => req'[r].op = "request",
           pc'[r] = "event" => req'[r].op = "update",
           pc'[r] = "write" /\ req'[r].op = "update" =>
             <<seenStatus'[r], req'[r].to>> \in allowed_status_transitions,
           pc'[r] \in {"check", "write"} /\ req'[r].op = "request" =>
             alertStatus[req'[r].alert] # "absent",
           tx'[r] = PendingWrites(r)'
    PROVE  Inv'
<1>1. HandlerState'
  <2> SUFFICES ASSUME NEW q \in Requests PROVE HandlerState!(q)'
    BY DEF HandlerState
  <2>1. CASE q = r
    <3>1. HandlerState!(r)
      BY DEF Inv, HandlerState
    <3> QED
      BY <2>1, <3>1 DEF tables, InHandler, Holding
  <2>2. CASE q # r
    <3>1. HandlerState!(q)
      BY DEF Inv, HandlerState
    <3>2. PendingWrites(q)' = PendingWrites(q)
      BY <2>2 DEF PendingWrites
    <3> QED
      BY <2>2, <3>1, <3>2 DEF tables
  <2> QED
    BY <2>1, <2>2
<1>2. RowsHeld'
  <2>1. ASSUME NEW q \in Requests, pc'[q] \in Holding
        PROVE  /\ req'[q] = req[q] /\ seenStatus'[q] = seenStatus[q]
               /\ req[q].op = "update" => alertStatus[req[q].alert] = seenStatus[q]
               /\ req[q].op = "decide" => approvals[req[q].approval].status = "requested"
    <3>1. CASE pc[q] \in Holding
      BY <2>1, <3>1 DEF Inv, RowsHeld
    <3>2. CASE pc[q] \notin Holding
      BY <2>1, <3>2 DEF RowTaken
    <3> QED
      BY <3>1, <3>2
  <2>2. ASSUME NEW p \in Requests, NEW q \in Requests, p # q,
               pc'[p] \in Holding, pc'[q] \in Holding, req[p].op = req[q].op
        PROVE  /\ req[p].op = "update" => req[p].alert # req[q].alert
               /\ req[p].op = "decide" => req[p].approval # req[q].approval
    <3>1. CASE pc[p] \in Holding /\ pc[q] \in Holding
      BY <2>2, <3>1 DEF Inv, RowsHeld
    <3>2. CASE pc[p] \notin Holding
      BY <2>2, <3>2 DEF RowTaken
    <3>3. CASE pc[q] \notin Holding
      BY <2>2, <3>3 DEF RowTaken
    <3> QED
      BY <3>1, <3>2, <3>3
  <2> QED
    BY <2>1, <2>2 DEF RowsHeld, tables
<1>3. IdsFresh'
  BY DEF Inv, IdsFresh, Recorded, tables
<1>4. ApprovalsWellFormed'
  BY DEF Inv, ApprovalsWellFormed, tables
<1> QED
  BY <1>1, <1>2, <1>3, <1>4 DEF Inv

\* Every action keeps the types; a commit needs Inv for the rows it writes.
LEMMA TypeStep ==
    ASSUME Inv, [Next]_vars
    PROVE  TypeOK'
<1> USE DEF Inv, TypeOK, Goto, Return, Write, tables, Refusals, Successes, Decisions, InHandler
<1>1. ASSUME NEW a \in Alerts, OpenAlert(a) PROVE TypeOK'
  BY <1>1 DEF OpenAlert, Statuses
<1>2. ASSUME NEW r \in Requests, NEW b \in Bodies, Receive(r, b) PROVE TypeOK'
  BY <1>2 DEF Receive
<1>3. ASSUME NEW r \in Requests, ReadAlert(r) PROVE TypeOK'
  <2>1. pc' \in [Requests -> InHandler \cup {"idle", "done", "lost"}]
    <3>1. \E label \in {"done", "write", "check"} : pc' = [pc EXCEPT ![r] = label]
      <4> HIDE DEF Inv, TypeOK
      <4> QED
        BY <1>3 DEF ReadAlert
    <3> QED
      BY <3>1
  <2>2. answer' \in [Requests -> Refusals \cup Successes \cup {"none", "failed"}]
    BY <1>3 DEF ReadAlert, allowed_status_transitions, Statuses
  <2>3. seenStatus' \in [Requests -> Statuses \cup {"none"}]
    BY <1>3 DEF ReadAlert, allowed_status_transitions, Statuses
  <2> QED
    BY <1>3, <2>1, <2>2, <2>3 DEF ReadAlert
<1>4. ASSUME NEW r \in Requests, CheckPending(r) PROVE TypeOK'
  BY <1>4 DEF CheckPending, ApprovalsOf
<1>5. ASSUME NEW r \in Requests, ReadApproval(r) PROVE TypeOK'
  <2>1. pc' \in [Requests -> InHandler \cup {"idle", "done", "lost"}]
    <3>1. \E label \in {"done", "write"} : pc' = [pc EXCEPT ![r] = label]
      <4> HIDE DEF Inv, TypeOK
      <4> QED
        BY <1>5 DEF ReadApproval
    <3> QED
      BY <3>1
  <2>2. answer' \in [Requests -> Refusals \cup Successes \cup {"none", "failed"}]
    BY <1>5 DEF ReadApproval
  <2> QED
    BY <1>5, <2>1, <2>2 DEF ReadApproval
<1>6. ASSUME NEW r \in Requests, UpdateAlertRow(r) PROVE TypeOK'
  <2>1. pc' \in [Requests -> InHandler \cup {"idle", "done", "lost"}]
    <3>1. \E label \in {"done", "event"} : pc' = [pc EXCEPT ![r] = label]
      <4> HIDE DEF Inv, TypeOK
      <4> QED
        BY <1>6 DEF UpdateAlertRow
    <3> QED
      BY <3>1
  <2>2. answer' \in [Requests -> Refusals \cup Successes \cup {"none", "failed"}]
    BY <1>6 DEF UpdateAlertRow
  <2>3. tx' \in [Requests -> SUBSET {"risk_alerts", "status_events", "approvals", "audit_events"}]
    <3>1. tx' = tx \/ tx' = [tx EXCEPT ![r] = @ \cup {"risk_alerts"}]
      <4> HIDE DEF Inv, TypeOK
      <4> QED
        BY <1>6 DEF UpdateAlertRow
    <3> QED
      BY <3>1
  <2> QED
    BY <1>6, <2>1, <2>2, <2>3 DEF UpdateAlertRow
<1>7. ASSUME NEW r \in Requests, InsertApproval(r) PROVE TypeOK'
  BY <1>7 DEF InsertApproval
<1>8. ASSUME NEW r \in Requests, DecideApprovalRow(r) PROVE TypeOK'
  <2>1. pc' \in [Requests -> InHandler \cup {"idle", "done", "lost"}]
    <3>1. \E label \in {"done", "audit"} : pc' = [pc EXCEPT ![r] = label]
      <4> HIDE DEF Inv, TypeOK
      <4> QED
        BY <1>8 DEF DecideApprovalRow
    <3> QED
      BY <3>1
  <2>2. answer' \in [Requests -> Refusals \cup Successes \cup {"none", "failed"}]
    BY <1>8 DEF DecideApprovalRow
  <2>3. tx' \in [Requests -> SUBSET {"risk_alerts", "status_events", "approvals", "audit_events"}]
    <3>1. tx' = tx \/ tx' = [tx EXCEPT ![r] = @ \cup {"approvals"}]
      <4> HIDE DEF Inv, TypeOK
      <4> QED
        BY <1>8 DEF DecideApprovalRow
    <3> QED
      BY <3>1
  <2> QED
    BY <1>8, <2>1, <2>2, <2>3 DEF DecideApprovalRow
<1>9. ASSUME NEW r \in Requests, InsertStatusEvent(r) PROVE TypeOK'
  BY <1>9 DEF InsertStatusEvent
<1>10. ASSUME NEW r \in Requests, InsertAudit(r) PROVE TypeOK'
  BY <1>10 DEF InsertAudit
<1>11. ASSUME NEW r \in Requests, Commit(r) PROVE TypeOK'
  <2> DEFINE b == req[r]
  <2>1. b \in Bodies /\ tx[r] = PendingWrites(r) /\ pc[r] = "commit"
    BY <1>11 DEF Commit, HandlerState
  <2>2. /\ \/ b.op = "update" /\ b.alert \in Alerts /\ b.to \in Statuses
                /\ seenStatus[r] \in Statuses
           \/ b.op = "request" /\ b.alert \in Alerts
           \/ b.op = "decide" /\ b.approval \in Requests /\ b.to \in Decisions
    BY <2>1, BodyKinds
    DEF HandlerState, Holding, allowed_status_transitions, Statuses
  <2>3. "risk_alerts" \in tx[r] \/ "status_events" \in tx[r] => b.op = "update"
    BY <2>1 DEF PendingWrites
  <2>4. "approvals" \in tx[r] => b.op \in {"request", "decide"}
    BY <2>1, <2>2 DEF PendingWrites
  <2>5. alertStatus' \in [Alerts -> Statuses \cup {"absent"}]
    BY <1>11, <2>2, <2>3 DEF Commit
  <2>6. statusEvents' \in [Alerts -> Seq(StatusEvent)]
    <3>1. CASE "status_events" \in tx[r]
      <4>1. [id |-> r, from |-> seenStatus[r], to |-> b.to] \in StatusEvent
        BY <3>1, <2>2, <2>3 DEF StatusEvent
      <4>2. b.alert \in Alerts
        BY <3>1, <2>2, <2>3
      <4>3. Append(statusEvents[b.alert], [id |-> r, from |-> seenStatus[r], to |-> b.to])
              \in Seq(StatusEvent)
        BY <4>1, <4>2
      <4> QED
        BY <1>11, <3>1, <4>2, <4>3 DEF Commit
    <3> QED
      BY <1>11, <3>1 DEF Commit
  <2>7. approvals' \in [Requests -> [alert : Alerts \cup {None},
                                     status : {"none", "requested"} \cup Decisions]]
    <3>1. CASE "approvals" \notin tx[r]
      BY <1>11, <3>1 DEF Commit
    <3>2. CASE "approvals" \in tx[r] /\ b.op = "request"
      BY <1>11, <2>2, <3>2 DEF Commit
    <3>3. CASE "approvals" \in tx[r] /\ b.op = "decide"
      <4>1. approvals' = [approvals EXCEPT ![b.approval].status = b.to]
        BY <1>11, <3>3 DEF Commit
      <4>2. b.approval \in Requests /\ b.to \in Decisions
        BY <2>2, <3>3
      <4>3. [approvals[b.approval] EXCEPT !.status = b.to]
              \in [alert : Alerts \cup {None}, status : {"none", "requested"} \cup Decisions]
        BY <4>2
      <4> QED
        BY <4>1, <4>2, <4>3
    <3> QED
      BY <2>4, <3>1, <3>2, <3>3
  <2>8. auditEvents' \in SUBSET AuditEvent
    BY <1>11, <2>1, AuditRecordType DEF Commit
  <2> QED
    BY <1>11, <2>5, <2>6, <2>7, <2>8 DEF Commit
<1>12. ASSUME NEW r \in Requests, Reply(r) PROVE TypeOK'
  <2>1. pc[r] = "reply" /\ SuccessAnswer(req[r]) \in Successes
    BY <1>12, BodyKinds DEF Reply, SuccessAnswer, HandlerState
  <2> QED
    BY <1>12, <2>1 DEF Reply
<1>13. ASSUME NEW r \in Requests, Fail(r) PROVE TypeOK'
  BY <1>13 DEF Fail
<1>14. CASE Crash
  BY <1>14 DEF Crash
<1>15. CASE UNCHANGED vars
  BY <1>15 DEF vars
<1> QED
  BY <1>1, <1>2, <1>3, <1>4, <1>5, <1>6, <1>7, <1>8, <1>9, <1>10, <1>11, <1>12,
     <1>13, <1>14, <1>15 DEF Next, Proceed, Idle

\* The handler's own steps, other than Commit.
LEMMA HandlerStepInv ==
    ASSUME Inv, TypeOK', NEW r \in Requests,
           \/ \E b \in Bodies : Receive(r, b)
           \/ ReadAlert(r) \/ CheckPending(r) \/ ReadApproval(r)
           \/ UpdateAlertRow(r) \/ InsertApproval(r) \/ DecideApprovalRow(r)
           \/ InsertStatusEvent(r) \/ InsertAudit(r) \/ Reply(r) \/ Fail(r)
    PROVE  Inv'
<1> USE DEF Goto, Return, Write, InHandler, Holding, PendingWrites
<1>t. /\ pc \in [Requests -> InHandler \cup {"idle", "done", "lost"}]
      /\ req \in [Requests -> Bodies \cup {NoRequest}]
      /\ seenStatus \in [Requests -> Statuses \cup {"none"}]
      /\ tx \in [Requests -> SUBSET {"risk_alerts", "status_events", "approvals", "audit_events"}]
  BY DEF Inv, TypeOK
<1>h. HandlerState!(r)
  BY DEF Inv, HandlerState
<1>1. ASSUME NEW b \in Bodies, Receive(r, b) PROVE Inv'
  BY <1>1, <1>t, <1>h, LocalStepInv DEF Receive
<1>2. CASE ReadAlert(r)
  BY <1>2, <1>t, <1>h, LocalStepInv DEF ReadAlert
<1>3. CASE CheckPending(r)
  BY <1>3, <1>t, <1>h, LocalStepInv DEF CheckPending
<1>4. CASE ReadApproval(r)
  BY <1>4, <1>t, <1>h, LocalStepInv DEF ReadApproval
<1>5. CASE UpdateAlertRow(r)
  <2>1. CASE Return(r, "conflict") /\ UNCHANGED tx
    BY <1>5, <2>1, <1>t, <1>h, LocalStepInv DEF UpdateAlertRow
  <2>2. CASE alertStatus[req[r].alert] = seenStatus[r] /\ ~AlertRowLocked(req[r].alert) /\ Write(r, "risk_alerts") /\ UNCHANGED answer
    <3>1. RowTaken(r)
      <4>1. ASSUME NEW q \in Requests, pc[q] \in Holding, req[q].op = "update"
            PROVE  "risk_alerts" \in tx[q]
        BY <4>1 DEF Inv, HandlerState
      <4> QED
        BY <1>5, <2>2, <4>1 DEF UpdateAlertRow, RowTaken, AlertRowLocked
    <3>2. /\ pc[r] = "write" /\ req[r].op = "update" /\ tx[r] = {}
          /\ pc' = [pc EXCEPT ![r] = "event"]
          /\ tx' = [tx EXCEPT ![r] = @ \cup {"risk_alerts"}]
          /\ UNCHANGED <<tables, req, seenStatus, seenApprovals, answer>>
      BY <1>5, <2>2, <1>h DEF UpdateAlertRow
    <3>3. tx'[r] = PendingWrites(r)'
      BY <3>2, <1>t
    <3> QED
      BY <3>1, <3>2, <3>3, <1>t, <1>h, LocalStepInv
  <2> QED
    BY <1>5, <2>1, <2>2 DEF UpdateAlertRow
<1>6. CASE InsertApproval(r)
  BY <1>6, <1>t, <1>h, LocalStepInv DEF InsertApproval, RowTaken
<1>7. CASE DecideApprovalRow(r)
  <2>1. CASE Return(r, "conflict") /\ UNCHANGED tx
    BY <1>7, <2>1, <1>t, <1>h, LocalStepInv DEF DecideApprovalRow
  <2>2. CASE approvals[req[r].approval].status = "requested" /\ ~ApprovalRowLocked(req[r].approval) /\ Write(r, "approvals") /\ UNCHANGED answer
    <3>1. RowTaken(r)
      <4>1. ASSUME NEW q \in Requests, pc[q] \in Holding, req[q].op = "decide"
            PROVE  "approvals" \in tx[q]
        BY <4>1 DEF Inv, HandlerState
      <4> QED
        BY <1>7, <2>2, <4>1 DEF DecideApprovalRow, RowTaken, ApprovalRowLocked
    <3>2. /\ pc[r] = "write" /\ req[r].op = "decide" /\ tx[r] = {}
          /\ pc' = [pc EXCEPT ![r] = "audit"]
          /\ tx' = [tx EXCEPT ![r] = @ \cup {"approvals"}]
          /\ UNCHANGED <<tables, req, seenStatus, seenApprovals, answer>>
      BY <1>7, <2>2, <1>h DEF DecideApprovalRow
    <3>3. tx'[r] = PendingWrites(r)'
      BY <3>2, <1>t
    <3> QED
      BY <3>1, <3>2, <3>3, <1>t, <1>h, LocalStepInv
  <2> QED
    BY <1>7, <2>1, <2>2 DEF DecideApprovalRow
<1>8. CASE InsertStatusEvent(r)
  BY <1>8, <1>t, <1>h, LocalStepInv DEF InsertStatusEvent
<1>9. CASE InsertAudit(r)
  BY <1>9, <1>t, <1>h, LocalStepInv DEF InsertAudit
<1>10. CASE Reply(r)
  BY <1>10, <1>t, <1>h, LocalStepInv DEF Reply
<1>11. CASE Fail(r)
  BY <1>11, <1>t, <1>h, LocalStepInv DEF Fail
<1> QED
  BY <1>1, <1>2, <1>3, <1>4, <1>5, <1>6, <1>7, <1>8, <1>9, <1>10, <1>11

\* Under Inv a commit is one step of the promised life cycle.
CommitsAs(r) ==
    LET b == req[r] IN
    \/ /\ b.op = "update" /\ b.alert \in Alerts /\ b.to \in {"acknowledged", "closed"}
       /\ Lifecycle!ChangeStatus(r, b.alert, b.to)
    \/ /\ b.op = "request" /\ b.alert \in Alerts
       /\ Lifecycle!RequestApproval(r, b.alert)
    \/ /\ b.op = "decide" /\ b.approval \in Requests /\ b.to \in Decisions
       /\ Lifecycle!DecideApproval(r, b.approval, b.to)

\* What a commit writes, whatever the request.
LEMMA CommitEffect ==
    ASSUME Inv, NEW r \in Requests, Commit(r)
    PROVE  CommitsAs(r)
<1> DEFINE b == req[r]
<1>1. /\ pc[r] = "commit" /\ b \in Bodies /\ tx[r] = PendingWrites(r)
      /\ Lifecycle!Fresh(r) /\ approvals[r] = NoApproval
  BY DEF Commit, Inv, HandlerState, InHandler, IdsFresh, Recorded, Lifecycle!Fresh
<1>2. CASE b.op = "update"
  <2>1. b.alert \in Alerts
    BY <1>1, <1>2, BodyKinds
  <2>2. /\ <<seenStatus[r], b.to>> \in allowed_status_transitions
        /\ alertStatus[b.alert] = seenStatus[r]
    BY <1>1, <1>2 DEF Inv, HandlerState, RowsHeld, Holding
  <2>3. tx[r] = {"risk_alerts", "status_events", "audit_events"}
    BY <1>1, <1>2 DEF PendingWrites, Holding
  <2>4. auditEvents' = auditEvents \cup
          {[id |-> r, type |-> "status_changed", alert |-> b.alert,
            approval |-> None, from |-> alertStatus[b.alert], to |-> b.to]}
    BY <1>2, <2>2, <2>3 DEF Commit, AuditRecord
  <2>5. /\ alertStatus' = [alertStatus EXCEPT ![b.alert] = b.to]
        /\ statusEvents' = [statusEvents EXCEPT ![b.alert] =
               Append(@, [id |-> r, from |-> alertStatus[b.alert], to |-> b.to])]
        /\ approvals' = approvals
    BY <2>2, <2>3 DEF Commit
  <2>6. \/ alertStatus[b.alert] = "open" /\ b.to \in {"acknowledged", "closed"}
        \/ alertStatus[b.alert] = "acknowledged" /\ b.to = "closed"
    BY <2>2 DEF allowed_status_transitions
  <2> QED
    BY <1>1, <1>2, <2>1, <2>4, <2>5, <2>6 DEF CommitsAs, Lifecycle!ChangeStatus
<1>3. CASE b.op = "request"
  <2>1. b.alert \in Alerts /\ alertStatus[b.alert] # "absent"
    BY <1>1, <1>3, BodyKinds DEF Inv, HandlerState, Holding
  <2>2. tx[r] = {"approvals", "audit_events"}
    BY <1>1, <1>3 DEF PendingWrites, Holding
  <2>3. auditEvents' = auditEvents \cup
          {[id |-> r, type |-> "approval_requested", alert |-> b.alert,
            approval |-> r, from |-> "none", to |-> "requested"]}
    BY <1>3, <2>2 DEF Commit, AuditRecord
  <2>4. /\ approvals' = [approvals EXCEPT ![r] = [alert |-> b.alert, status |-> "requested"]]
        /\ UNCHANGED <<alertStatus, statusEvents>>
    BY <1>3, <2>2 DEF Commit
  <2>5. approvals[r].status = "none"
    BY <1>1 DEF NoApproval
  <2> QED
    BY <1>1, <1>3, <2>1, <2>3, <2>4, <2>5 DEF CommitsAs, Lifecycle!RequestApproval
<1>4. CASE b.op = "decide"
  <2>1. /\ b.approval \in Requests /\ b.to \in Decisions
        /\ approvals[b.approval].status = "requested"
    BY <1>1, <1>4, BodyKinds DEF Inv, RowsHeld, Holding
  <2>2. tx[r] = {"approvals", "audit_events"}
    BY <1>1, <1>4 DEF PendingWrites, Holding
  <2>3. auditEvents' = auditEvents \cup
          {[id |-> r, type |-> "approval_decided",
            alert |-> approvals[b.approval].alert,
            approval |-> b.approval, from |-> "requested", to |-> b.to]}
    BY <1>4, <2>2 DEF Commit, AuditRecord
  <2>4. /\ approvals' = [approvals EXCEPT ![b.approval].status = b.to]
        /\ UNCHANGED <<alertStatus, statusEvents>>
    BY <1>4, <2>2 DEF Commit
  <2> QED
    BY <1>1, <1>4, <2>1, <2>3, <2>4 DEF CommitsAs, Lifecycle!DecideApproval
<1> QED
  BY <1>1, <1>2, <1>3, <1>4, BodyKinds

\* A commit keeps the invariant.
LEMMA CommitInv ==
    ASSUME Inv, TypeOK', NEW r \in Requests, Commit(r)
    PROVE  Inv'
<1> DEFINE b == req[r]
<1>1. CommitsAs(r)
  BY CommitEffect
<1>2. /\ pc \in [Requests -> InHandler \cup {"idle", "done", "lost"}]
      /\ tx \in [Requests -> SUBSET {"risk_alerts", "status_events", "approvals", "audit_events"}]
      /\ alertStatus \in [Alerts -> Statuses \cup {"absent"}]
      /\ approvals \in [Requests -> [alert : Alerts \cup {None},
                                     status : {"none", "requested"} \cup Decisions]]
  BY DEF Inv, TypeOK
<1>3. /\ pc[r] = "commit" /\ pc' = [pc EXCEPT ![r] = "reply"] /\ tx' = [tx EXCEPT ![r] = {}]
      /\ UNCHANGED <<req, seenStatus, seenApprovals, answer>>
  BY DEF Commit, Goto
<1>4. \A a \in Alerts : alertStatus[a] # "absent" => alertStatus'[a] # "absent"
  BY <1>1, <1>2 DEF CommitsAs, Lifecycle!ChangeStatus, Lifecycle!RequestApproval, Lifecycle!DecideApproval
<1>5. HandlerState'
  <2> SUFFICES ASSUME NEW q \in Requests PROVE HandlerState!(q)'
    BY DEF HandlerState
  <2>1. HandlerState!(q)
    BY DEF Inv, HandlerState
  <2>2. CASE q = r
    BY <1>2, <1>3, <2>1, <2>2 DEF PendingWrites, InHandler, Holding
  <2>3. CASE q # r
    <3>1. PendingWrites(q)' = PendingWrites(q) /\ tx'[q] = tx[q] /\ pc'[q] = pc[q]
      BY <1>2, <1>3, <2>3 DEF PendingWrites
    <3>2. pc[q] \in InHandler /\ req[q].op = "request" => req[q].alert \in Alerts
      BY <2>1, BodyKinds
    <3> QED
      BY <1>3, <1>4, <2>1, <3>1, <3>2 DEF InHandler, Holding
  <2> QED
    BY <2>2, <2>3
<1>6. \A e \in auditEvents' : e \in auditEvents \/ e.id = r
  BY <1>1 DEF CommitsAs, Lifecycle!ChangeStatus, Lifecycle!RequestApproval, Lifecycle!DecideApproval
<1>7. \A p \in Requests \ {r} : approvals[p] = NoApproval => approvals'[p] = NoApproval
  BY <1>1, <1>2 DEF CommitsAs, Lifecycle!ChangeStatus, Lifecycle!RequestApproval,
     Lifecycle!DecideApproval, NoApproval
<1>8. RowsHeld'
  <2>1. ASSUME NEW q \in Requests, pc'[q] \in Holding
        PROVE  /\ q # r /\ pc[q] \in Holding
               /\ req[q].op = "update" => alertStatus'[req[q].alert] = seenStatus[q]
               /\ req[q].op = "decide" => approvals'[req[q].approval].status = "requested"
    <3>1. q # r /\ pc[q] \in Holding /\ pc[r] \in Holding
      BY <1>2, <1>3, <2>1 DEF Holding
    <3>2. req[q] \in Bodies
      BY <3>1 DEF Inv, HandlerState, InHandler, Holding
    <3>3. /\ req[q].op = "update" => alertStatus[req[q].alert] = seenStatus[q]
          /\ req[q].op = "decide" => approvals[req[q].approval].status = "requested"
          /\ req[q].op = "update" /\ req[r].op = "update" => req[q].alert # req[r].alert
          /\ req[q].op = "decide" /\ req[r].op = "decide" => req[q].approval # req[r].approval
      BY <3>1 DEF Inv, RowsHeld
    <3>4. CASE b.op = "update"
      BY <1>1, <1>2, <3>1, <3>2, <3>3, <3>4, BodyKinds DEF CommitsAs, Lifecycle!ChangeStatus
    <3>5. CASE b.op = "request"
      BY <1>1, <1>2, <3>1, <3>2, <3>3, <3>5, BodyKinds DEF CommitsAs, Lifecycle!RequestApproval
    <3>6. CASE b.op = "decide"
      BY <1>1, <1>2, <3>1, <3>2, <3>3, <3>6, BodyKinds DEF CommitsAs, Lifecycle!DecideApproval
    <3> QED
      BY <1>1, <3>1, <3>4, <3>5, <3>6 DEF CommitsAs
  <2> QED
    BY <1>3, <2>1 DEF Inv, RowsHeld
<1>9. IdsFresh'
  BY <1>2, <1>3, <1>6, <1>7 DEF Inv, IdsFresh, Recorded
<1>10. ApprovalsWellFormed'
  <2>1. CASE b.op = "update"
    BY <1>1, <2>1 DEF CommitsAs, Lifecycle!ChangeStatus, Inv, ApprovalsWellFormed
  <2>2. CASE b.op = "request"
    BY <1>1, <1>2, <2>2 DEF CommitsAs, Lifecycle!RequestApproval, Inv, ApprovalsWellFormed
  <2>3. CASE b.op = "decide"
    BY <1>1, <1>2, <2>3 DEF CommitsAs, Lifecycle!DecideApproval, Inv, ApprovalsWellFormed,
       NoApproval, Decisions
  <2> QED
    BY <1>1, <2>1, <2>2, <2>3 DEF CommitsAs
<1> QED
  BY <1>5, <1>8, <1>9, <1>10 DEF Inv

\* Every step.
LEMMA NextInv ==
    ASSUME Inv, [Next]_vars
    PROVE  Inv'
<1>t. TypeOK'
  BY TypeStep
<1>1. ASSUME NEW a \in Alerts, OpenAlert(a) PROVE Inv'
  <2>1. HandlerState'
    <3> SUFFICES ASSUME NEW q \in Requests PROVE HandlerState!(q)'
      BY DEF HandlerState
    <3>1. HandlerState!(q) /\ PendingWrites(q)' = PendingWrites(q)
      BY <1>1 DEF Inv, HandlerState, OpenAlert, PendingWrites
    <3>2. \A c \in Alerts : alertStatus[c] # "absent" => alertStatus'[c] # "absent"
      BY <1>1 DEF OpenAlert, Inv, TypeOK
    <3>3. pc[q] \in InHandler /\ req[q].op = "request" => req[q].alert \in Alerts
      BY <3>1, BodyKinds
    <3> QED
      BY <1>1, <3>1, <3>2, <3>3 DEF OpenAlert, InHandler, Holding
  <2>2. RowsHeld'
    <3>1. ASSUME NEW q \in Requests, pc[q] \in Holding, req[q].op = "update"
          PROVE  alertStatus'[req[q].alert] = seenStatus[q]
      <4>1. /\ req[q].alert \in Alerts /\ alertStatus[req[q].alert] = seenStatus[q]
            /\ seenStatus[q] # "absent"
        BY <3>1, BodyKinds
        DEF Inv, HandlerState, RowsHeld, InHandler, Holding, allowed_status_transitions
      <4> QED
        BY <1>1, <4>1 DEF OpenAlert, Inv, TypeOK
    <3> QED
      BY <1>1, <3>1 DEF OpenAlert, Inv, RowsHeld
  <2>3. IdsFresh' /\ ApprovalsWellFormed'
    BY <1>1 DEF OpenAlert, Inv, IdsFresh, Recorded, ApprovalsWellFormed
  <2> QED
    BY <1>t, <2>1, <2>2, <2>3 DEF Inv
<1>2. ASSUME NEW r \in Requests, Commit(r) PROVE Inv'
  BY <1>t, <1>2, CommitInv
<1>3. CASE Crash
  <2>1. \A q \in Requests : /\ pc'[q] = IF pc[q] \in InHandler THEN "lost" ELSE pc[q]
                            /\ tx'[q] = {} /\ pc'[q] \notin InHandler
    BY <1>3 DEF Crash, InHandler
  <2>2. UNCHANGED <<tables, req, seenStatus, seenApprovals, answer>>
    BY <1>3 DEF Crash
  <2>3. HandlerState'
    BY <2>1, <2>2 DEF HandlerState, PendingWrites, InHandler, Holding
  <2>4. RowsHeld'
    BY <2>1, <2>2 DEF RowsHeld, InHandler, Holding
  <2>5. IdsFresh'
    BY <2>1, <2>2 DEF Inv, IdsFresh, Recorded, tables, InHandler
  <2>6. ApprovalsWellFormed'
    BY <2>2 DEF Inv, ApprovalsWellFormed, tables
  <2> QED
    BY <1>t, <2>3, <2>4, <2>5, <2>6 DEF Inv
<1>4. CASE UNCHANGED vars
  BY <1>4, <1>t DEF vars, Inv, HandlerState, PendingWrites, RowsHeld, IdsFresh, Recorded,
     ApprovalsWellFormed
<1> QED
  BY <1>t, <1>1, <1>2, <1>3, <1>4, HandlerStepInv DEF Next, Proceed, Idle

\* In every reachable state.
LEMMA Invariance == Spec => []Inv
BY InitInv, NextInv, PTL DEF Spec

\* The tables and the handlers' state always have their types.
THEOREM TypeCorrectness == Spec => []TypeOK
<1>1. Inv => TypeOK
  BY DEF Inv
<1> QED
  BY <1>1, Invariance, PTL

-----------------------------------------------------------------------------
(* The workflow implements the life cycle *)

\* Only the chat workflow's insert and a commit change a table.
LEMMA TableSteps ==
    ASSUME Inv, [Next]_vars
    PROVE  \/ UNCHANGED tables
           \/ \E a \in Alerts : Lifecycle!OpenAlert(a)
           \/ \E r \in Requests : Commit(r) /\ CommitsAs(r)
<1>1. ASSUME NEW a \in Alerts, OpenAlert(a) PROVE Lifecycle!OpenAlert(a)
  BY <1>1 DEF OpenAlert, Lifecycle!OpenAlert
<1>2. ASSUME NEW r \in Requests, Commit(r) PROVE CommitsAs(r)
  BY <1>2, CommitEffect
<1>3. ASSUME NEW r \in Requests, Proceed(r) \/ Fail(r), ~Commit(r) PROVE UNCHANGED tables
  BY <1>3 DEF Proceed, ReadAlert, CheckPending, ReadApproval, UpdateAlertRow, InsertApproval,
     DecideApprovalRow, InsertStatusEvent, InsertAudit, Reply, Fail
<1>4. ASSUME NEW r \in Requests, NEW b \in Bodies, Receive(r, b) PROVE UNCHANGED tables
  BY <1>4 DEF Receive
<1>5. CASE Crash \/ Idle \/ UNCHANGED vars
  BY <1>5 DEF Crash, Idle, vars, tables
<1> QED
  BY <1>1, <1>2, <1>3, <1>4, <1>5 DEF Next

\* Each committed change of the alert tables is one step of AlertLifecycle,
\* for any number of concurrent requests, failures and crashes.
THEOREM Refinement == Spec => ImplementsLifecycle
<1>1. Init => Lifecycle!Init
  BY DEF Init, Lifecycle!Init, NoApproval
<1>2. ASSUME Inv, [Next]_vars PROVE [Lifecycle!Next]_(Lifecycle!vars)
  <2>1. ASSUME NEW r \in Requests, CommitsAs(r) PROVE Lifecycle!Next
    BY <2>1 DEF CommitsAs, Lifecycle!Next, Decisions
  <2>2. ASSUME NEW a \in Alerts, Lifecycle!OpenAlert(a) PROVE Lifecycle!Next
    BY <2>2 DEF Lifecycle!Next
  <2> QED
    BY <1>2, <2>1, <2>2, TableSteps DEF tables, Lifecycle!vars
<1> QED
  BY <1>1, <1>2, Invariance, PTL DEF Spec, ImplementsLifecycle, Lifecycle!Spec

-----------------------------------------------------------------------------
(* Properties of the tables, each kept by every step of the life cycle *)

\* Closing is final: no later commit moves an alert that is closed.
THEOREM ClosingIsFinal == Spec => ClosedIsFinal
<1>1. ASSUME Inv, [Next]_vars
      PROVE  \A a \in Alerts : alertStatus[a] = "closed" => alertStatus'[a] = "closed"
  <2> SUFFICES ASSUME NEW a \in Alerts, alertStatus[a] = "closed"
               PROVE  alertStatus'[a] = "closed"
    OBVIOUS
  <2>t. alertStatus \in [Alerts -> Statuses \cup {"absent"}]
    BY <1>1 DEF Inv, TypeOK
  <2>1. CASE UNCHANGED tables
    BY <2>1 DEF tables
  <2>2. ASSUME NEW c \in Alerts, Lifecycle!OpenAlert(c) PROVE alertStatus'[a] = "closed"
    BY <2>2, <2>t DEF Lifecycle!OpenAlert
  <2>3. ASSUME NEW r \in Requests, CommitsAs(r) PROVE alertStatus'[a] = "closed"
    BY <2>3, <2>t DEF CommitsAs, Lifecycle!ChangeStatus, Lifecycle!RequestApproval,
       Lifecycle!DecideApproval
  <2> QED
    BY <1>1, <2>1, <2>2, <2>3, TableSteps
<1> QED
  BY <1>1, Invariance, PTL DEF Spec, ClosedIsFinal

\* The trail of an alert always leads from "open" to its present status.
THEOREM TrailCorrect == Spec => []TrailExplainsStatus
<1>1. ASSUME Init PROVE TrailExplainsStatus
  <2> SUFFICES ASSUME NEW a \in Alerts PROVE TrailExplainsStatus!(a)
    BY DEF TrailExplainsStatus
  <2>1. statusEvents[a] = <<>> /\ alertStatus[a] = "absent"
    BY <1>1 DEF Init
  <2>2. ~ \E i \in 1 .. Len(<<>>) - 1 : TRUE
    OBVIOUS
  <2> QED
    BY <2>1, <2>2
<1>2. ASSUME Inv, TrailExplainsStatus, [Next]_vars PROVE TrailExplainsStatus'
  <2>t. /\ alertStatus \in [Alerts -> Statuses \cup {"absent"}]
        /\ statusEvents \in [Alerts -> Seq(StatusEvent)]
    BY <1>2 DEF Inv, TypeOK
  <2>1. CASE UNCHANGED tables
    BY <1>2, <2>1 DEF tables, TrailExplainsStatus
  <2>2. ASSUME NEW c \in Alerts, Lifecycle!OpenAlert(c) PROVE TrailExplainsStatus'
    <3> SUFFICES ASSUME NEW a \in Alerts PROVE TrailExplainsStatus!(a)'
      BY DEF TrailExplainsStatus
    <3>1. TrailExplainsStatus!(a)
      BY <1>2 DEF TrailExplainsStatus
    <3>2. statusEvents[a] = <<>> \/ alertStatus[a] # "absent"
      <4>1. CASE statusEvents[a] # <<>>
        <5>1. Len(statusEvents[a]) \in 1 .. Len(statusEvents[a])
          BY <2>t, <4>1
        <5>2. statusEvents[a][Len(statusEvents[a])] \in StatusEvent
          BY <2>t, <5>1
        <5> QED
          BY <3>1, <4>1, <5>2 DEF StatusEvent, Statuses
      <4> QED
        BY <4>1
    <3> QED
      BY <2>2, <2>t, <3>1, <3>2 DEF Lifecycle!OpenAlert
  <2>3. ASSUME NEW r \in Requests, CommitsAs(r) PROVE TrailExplainsStatus'
    <3>1. CASE UNCHANGED <<alertStatus, statusEvents>>
      BY <1>2, <3>1 DEF TrailExplainsStatus
    <3>2. ASSUME NEW c \in Alerts, NEW next, Lifecycle!ChangeStatus(r, c, next)
          PROVE  TrailExplainsStatus'
      <4> SUFFICES ASSUME NEW a \in Alerts PROVE TrailExplainsStatus!(a)'
        BY DEF TrailExplainsStatus
      <4>1. TrailExplainsStatus!(a)
        BY <1>2 DEF TrailExplainsStatus
      <4>2. CASE a # c
        BY <2>t, <3>2, <4>1, <4>2 DEF Lifecycle!ChangeStatus
      <4>3. CASE a = c
        <5> DEFINE old == statusEvents[c]
                   e == [id |-> r, from |-> alertStatus[c], to |-> next]
        <5>1. /\ statusEvents'[c] = Append(old, e) /\ alertStatus'[c] = next
              /\ alertStatus[c] # "absent" /\ old \in Seq(StatusEvent)
              /\ e.from = alertStatus[c] /\ e.to = next
          BY <2>t, <3>2 DEF Lifecycle!ChangeStatus
        <5> HIDE DEF e
        <5>2. /\ Len(Append(old, e)) = Len(old) + 1 /\ Append(old, e) # <<>>
              /\ Append(old, e)[Len(old) + 1] = e
              /\ \A i \in 1 .. Len(old) : Append(old, e)[i] = old[i]
          BY <5>1
        <5>3. CASE old = <<>>
          BY <4>1, <4>3, <5>1, <5>2, <5>3
        <5>4. CASE old # <<>>
          <6>1. Len(old) \in Nat /\ Len(old) >= 1
            BY <5>1, <5>4
          <6>2. /\ old[1].from = "open" /\ old[Len(old)].to = e.from
                /\ \A i \in 1 .. Len(old) - 1 : old[i].to = old[i + 1].from
            BY <4>1, <4>3, <5>1, <5>4
          <6>3. \A i \in 1 .. Len(old) : Append(old, e)[i].to = Append(old, e)[i + 1].from
            BY <5>2, <6>1, <6>2
          <6> QED
            BY <4>3, <5>1, <5>2, <6>1, <6>2, <6>3
        <5> QED
          BY <5>3, <5>4
      <4> QED
        BY <4>2, <4>3
    <3> QED
      BY <2>3, <3>1, <3>2 DEF CommitsAs, Lifecycle!RequestApproval, Lifecycle!DecideApproval
  <2> QED
    BY <1>2, <2>1, <2>2, <2>3, TableSteps
<1> QED
  BY <1>1, <1>2, Invariance, PTL DEF Spec

\* Two decisions of one approval never both commit, and the decision recorded
\* is the one the approval has.
THEOREM DecisionsCorrect == Spec => []OneDecisionPerApproval
<1>1. Init => OneDecisionPerApproval
  BY DEF Init, OneDecisionPerApproval, NoApproval, Decisions
<1>2. ASSUME Inv, OneDecisionPerApproval, [Next]_vars PROVE OneDecisionPerApproval'
  <2>t. /\ approvals \in [Requests -> [alert : Alerts \cup {None},
                                       status : {"none", "requested"} \cup Decisions]]
        /\ auditEvents \in SUBSET AuditEvent
    BY <1>2 DEF Inv, TypeOK
  <2>1. CASE UNCHANGED tables
    BY <1>2, <2>1 DEF tables, OneDecisionPerApproval
  <2>2. ASSUME NEW c \in Alerts, Lifecycle!OpenAlert(c) PROVE OneDecisionPerApproval'
    BY <1>2, <2>2 DEF Lifecycle!OpenAlert, OneDecisionPerApproval
  <2>3. ASSUME NEW r \in Requests, CommitsAs(r) PROVE OneDecisionPerApproval'
    <3>1. ASSUME NEW c \in Alerts, NEW next, Lifecycle!ChangeStatus(r, c, next)
          PROVE  OneDecisionPerApproval'
      BY <1>2, <3>1 DEF Lifecycle!ChangeStatus, OneDecisionPerApproval
    <3>2. ASSUME NEW c \in Alerts, Lifecycle!RequestApproval(r, c)
          PROVE  OneDecisionPerApproval'
      <4>1. /\ approvals[r].status = "none"
            /\ approvals'[r].status = "requested"
            /\ \A p \in Requests : p # r => approvals'[p] = approvals[p]
            /\ \A e \in auditEvents' : e \in auditEvents \/ e.type = "approval_requested"
            /\ auditEvents \subseteq auditEvents'
        BY <2>t, <3>2 DEF Lifecycle!RequestApproval
      <4>2. \A e \in auditEvents : e.type = "approval_decided" =>
              e.approval \in Requests /\ e.approval # r
        BY <1>2, <2>t, <4>1 DEF OneDecisionPerApproval, Decisions, AuditEvent
      <4> QED
        BY <1>2, <4>1, <4>2 DEF OneDecisionPerApproval, Decisions
    <3>3. ASSUME NEW p \in Requests, NEW d \in Decisions, Lifecycle!DecideApproval(r, p, d)
          PROVE  OneDecisionPerApproval'
      <4> DEFINE new == [id |-> r, type |-> "approval_decided", alert |-> approvals[p].alert,
                         approval |-> p, from |-> "requested", to |-> d]
      <4>1. /\ approvals[p].status = "requested"
            /\ approvals'[p].status = d /\ approvals'[p].alert = approvals[p].alert
            /\ \A q \in Requests : q # p => approvals'[q] = approvals[q]
            /\ auditEvents' = auditEvents \cup {new}
        BY <2>t, <3>3 DEF Lifecycle!DecideApproval
      <4>2. /\ new.type = "approval_decided" /\ new.approval = p
            /\ new.to = d /\ new.alert = approvals[p].alert
        OBVIOUS
      <4> HIDE DEF new
      <4>3. \A e \in auditEvents : e.type = "approval_decided" =>
              e.approval \in Requests /\ e.approval # p
        BY <1>2, <2>t, <4>1 DEF OneDecisionPerApproval, Decisions, AuditEvent
      <4> QED
        BY <1>2, <4>1, <4>2, <4>3 DEF OneDecisionPerApproval, Decisions
    <3> QED
      BY <2>3, <3>1, <3>2, <3>3 DEF CommitsAs
  <2> QED
    BY <1>2, <2>1, <2>2, <2>3, TableSteps
<1> QED
  BY <1>1, <1>2, Invariance, PTL DEF Spec

\* A status event and its audit event come from the same commit, with the same
\* alert and statuses, and neither is ever removed.
THEOREM ChangesAreAudited == Spec => []StatusChangesAudited
<1>1. ASSUME Init PROVE StatusChangesAudited
  <2>1. auditEvents = {} /\ \A a \in Alerts : DOMAIN statusEvents[a] = {}
    BY <1>1 DEF Init
  <2> QED
    BY <2>1 DEF StatusChangesAudited
<1>2. ASSUME Inv, StatusChangesAudited, [Next]_vars PROVE StatusChangesAudited'
  <2>t. /\ statusEvents \in [Alerts -> Seq(StatusEvent)]
        /\ auditEvents \in SUBSET AuditEvent
    BY <1>2 DEF Inv, TypeOK
  <2>1. CASE UNCHANGED tables
    BY <1>2, <2>1 DEF tables, StatusChangesAudited
  <2>2. ASSUME NEW c \in Alerts, Lifecycle!OpenAlert(c) PROVE StatusChangesAudited'
    BY <1>2, <2>2 DEF Lifecycle!OpenAlert, StatusChangesAudited
  <2>3. ASSUME NEW r \in Requests, CommitsAs(r) PROVE StatusChangesAudited'
    <3>1. ASSUME NEW c \in Alerts, NEW next, Lifecycle!ChangeStatus(r, c, next)
          PROVE  StatusChangesAudited'
      <4> DEFINE old == statusEvents[c]
                 event == [id |-> r, from |-> alertStatus[c], to |-> next]
                 new == [id |-> r, type |-> "status_changed", alert |-> c,
                         approval |-> None, from |-> alertStatus[c], to |-> next]
      <4>1. /\ statusEvents'[c] = Append(old, event) /\ old \in Seq(StatusEvent)
            /\ \A a \in Alerts : a # c => statusEvents'[a] = statusEvents[a]
            /\ auditEvents' = auditEvents \cup {new}
        BY <2>t, <3>1 DEF Lifecycle!ChangeStatus
      <4>2. /\ new.type = "status_changed" /\ new.id = event.id /\ new.alert = c
            /\ new.from = event.from /\ new.to = event.to
        OBVIOUS
      <4> HIDE DEF event, new
      <4>3. /\ DOMAIN Append(old, event) = DOMAIN old \cup {Len(old) + 1}
            /\ Append(old, event)[Len(old) + 1] = event
            /\ \A i \in DOMAIN old : Append(old, event)[i] = old[i]
        <5>1. Len(old) \in Nat /\ DOMAIN old = 1 .. Len(old) /\ Len(Append(old, event)) = Len(old) + 1
              /\ DOMAIN Append(old, event) = 1 .. Len(Append(old, event))
          BY <4>1
        <5> QED
          BY <4>1, <5>1
      <4> HIDE DEF old
      <4>4. ASSUME NEW a \in Alerts, NEW i \in DOMAIN statusEvents'[a]
            PROVE  \E e \in auditEvents' :
                     /\ e.type = "status_changed" /\ e.alert = a /\ e.id = statusEvents'[a][i].id
                     /\ e.from = statusEvents'[a][i].from /\ e.to = statusEvents'[a][i].to
        <5>1. CASE i \in DOMAIN statusEvents[a] /\ statusEvents'[a][i] = statusEvents[a][i]
          <6>1. PICK e \in auditEvents :
                   /\ e.type = "status_changed" /\ e.alert = a /\ e.id = statusEvents[a][i].id
                   /\ e.from = statusEvents[a][i].from /\ e.to = statusEvents[a][i].to
            BY <1>2, <5>1 DEF StatusChangesAudited
          <6> QED
            BY <4>1, <5>1, <6>1
        <5>2. CASE a = c /\ statusEvents'[a][i] = event
          BY <4>1, <4>2, <5>2
        <5> QED
          BY <4>1, <4>3, <4>4, <5>1, <5>2 DEF old
      <4>5. ASSUME NEW e \in auditEvents', e.type = "status_changed"
            PROVE  \E i \in DOMAIN statusEvents'[e.alert] : statusEvents'[e.alert][i].id = e.id
        <5>1. CASE e \in auditEvents
          <6>1. e.alert \in Alerts
            BY <2>t, <4>5, <5>1 DEF AuditEvent
          <6>2. PICK i \in DOMAIN statusEvents[e.alert] : statusEvents[e.alert][i].id = e.id
            BY <1>2, <4>5, <5>1 DEF StatusChangesAudited
          <6>3. i \in DOMAIN statusEvents'[e.alert] /\ statusEvents'[e.alert][i] = statusEvents[e.alert][i]
            BY <4>1, <4>3, <6>1, <6>2 DEF old
          <6> QED
            BY <6>2, <6>3
        <5>2. CASE e = new
          BY <4>1, <4>2, <4>3, <5>2
        <5> QED
          BY <4>1, <5>1, <5>2
      <4> QED
        BY <4>4, <4>5 DEF StatusChangesAudited
    <3>2. CASE /\ UNCHANGED statusEvents
               /\ auditEvents \subseteq auditEvents'
               /\ \A e \in auditEvents' \ auditEvents : e.type # "status_changed"
      BY <1>2, <3>2 DEF StatusChangesAudited
    <3> QED
      BY <2>3, <3>1, <3>2 DEF CommitsAs, Lifecycle!RequestApproval, Lifecycle!DecideApproval
  <2> QED
    BY <1>2, <2>1, <2>2, <2>3, TableSteps
<1> QED
  BY <1>1, <1>2, Invariance, PTL DEF Spec

-----------------------------------------------------------------------------
(* What a caller is told *)

\* What a success claims: the audit event of the request, with what it asked for.
Written(r) ==
    \E e \in auditEvents :
      /\ e.id = r /\ e.to = req[r].to
      /\ req[r].op \in {"update", "request"} => e.alert = req[r].alert
      /\ req[r].op = "decide" => e.approval = req[r].approval

\* A handler whose commit is acknowledged has what it will claim, and one that
\* has been refused will never write.
AnswerState ==
    \A r \in Requests :
      /\ pc[r] # "done" => answer[r] = "none"
      /\ pc[r] = "reply" \/ answer[r] \in Successes => Written(r)
      /\ answer[r] \in Refusals => ~Recorded(r) /\ approvals[r] = NoApproval

\* A commit writes the audit event of its own request, and an approval of
\* another request only if that one is pending.
LEMMA CommitWrites ==
    ASSUME Inv, NEW r \in Requests, Commit(r)
    PROVE  /\ auditEvents' = auditEvents \cup {AuditRecord(r)}
           /\ AuditRecord(r).id = r /\ AuditRecord(r).to = req[r].to
           /\ req[r].op \in {"update", "request"} => AuditRecord(r).alert = req[r].alert
           /\ req[r].op = "decide" => AuditRecord(r).approval = req[r].approval
           /\ \A p \in Requests \ {r} : approvals[p] = NoApproval => approvals'[p] = NoApproval
<1>t. approvals \in [Requests -> [alert : Alerts \cup {None},
                                  status : {"none", "requested"} \cup Decisions]]
  BY DEF Inv, TypeOK
<1>1. pc[r] = "commit" /\ req[r] \in Bodies /\ tx[r] = PendingWrites(r)
  BY DEF Commit, Inv, HandlerState, InHandler
<1>2. auditEvents' = auditEvents \cup {AuditRecord(r)}
  BY <1>1 DEF Commit, PendingWrites, Holding
<1>3. \/ req[r].op = "update" /\ req[r].to \in Statuses
      \/ req[r].op = "request" /\ req[r].to = "requested"
      \/ req[r].op = "decide"
  BY <1>1, BodyKinds
<1>4. CommitsAs(r)
  BY CommitEffect
<1>5. \A p \in Requests \ {r} : approvals[p] = NoApproval => approvals'[p] = NoApproval
  BY <1>4, <1>t DEF CommitsAs, Lifecycle!ChangeStatus, Lifecycle!RequestApproval,
     Lifecycle!DecideApproval, NoApproval
<1> QED
  BY <1>2, <1>3, <1>5 DEF AuditRecord

\* Every step.
LEMMA AnswerStep == Inv /\ AnswerState /\ [Next]_vars => AnswerState'
<1> SUFFICES ASSUME Inv, AnswerState, [Next]_vars, NEW r \in Requests PROVE AnswerState!(r)'
  BY DEF AnswerState
<1>t. /\ pc \in [Requests -> InHandler \cup {"idle", "done", "lost"}]
      /\ req \in [Requests -> Bodies \cup {NoRequest}]
      /\ answer \in [Requests -> Refusals \cup Successes \cup {"none", "failed"}]
  BY DEF Inv, TypeOK
<1>h. AnswerState!(r)
  BY DEF AnswerState
<1>f. pc[r] \notin {"reply", "done", "lost"} => ~Recorded(r) /\ approvals[r] = NoApproval
  BY DEF Inv, IdsFresh
<1>n. "none" \notin Successes \cup Refusals /\ "failed" \notin Successes \cup Refusals
      /\ Successes \cap Refusals = {} /\ "reply" \in InHandler /\ "done" \notin InHandler
      /\ "idle" \notin InHandler /\ "commit" \in InHandler /\ "lost" \notin InHandler
  BY DEF Successes, Refusals, Decisions, InHandler
\* a step that leaves the tables, and the handler of r, alone
<1>1. ASSUME UNCHANGED <<approvals, auditEvents>>, pc'[r] = pc[r], req'[r] = req[r], answer'[r] = answer[r]
      PROVE  AnswerState!(r)'
  BY <1>1, <1>h DEF Written, Recorded
\* a step of the handler of r, without an answer
<1>2. ASSUME UNCHANGED <<approvals, auditEvents>>, pc[r] # "done", pc'[r] \notin {"done", "reply"},
             answer'[r] = answer[r]
      PROVE  AnswerState!(r)'
  BY <1>2, <1>h, <1>n DEF Written, Recorded
\* a refusal or a failure
<1>3. ASSUME UNCHANGED <<approvals, auditEvents>>, pc'[r] = "done",
             answer'[r] = "failed" \/ (answer'[r] \in Refusals /\ pc[r] \notin {"reply", "done", "lost"})
      PROVE  AnswerState!(r)'
  BY <1>3, <1>f, <1>n DEF Recorded
<1>4. ASSUME NEW a \in Alerts, OpenAlert(a) PROVE AnswerState!(r)'
  BY <1>1, <1>4 DEF OpenAlert
<1>5. ASSUME NEW q \in Requests, NEW b \in Bodies, Receive(q, b) PROVE AnswerState!(r)'
  <2>1. CASE q # r
    BY <1>1, <1>5, <1>t, <2>1 DEF Receive, Goto, Return, tables
  <2>2. CASE q = r /\ RouteAllows(b)
    BY <1>2, <1>5, <1>t, <2>2 DEF Receive, Goto, tables
  <2>3. CASE q = r /\ ~RouteAllows(b)
    BY <1>3, <1>5, <1>t, <2>3 DEF Receive, Return, Goto, tables, Refusals
  <2> QED
    BY <2>1, <2>2, <2>3
<1>6. ASSUME NEW q \in Requests,
             \/ ReadAlert(q) \/ CheckPending(q) \/ ReadApproval(q)
             \/ UpdateAlertRow(q) \/ InsertApproval(q) \/ DecideApprovalRow(q)
             \/ InsertStatusEvent(q) \/ InsertAudit(q)
      PROVE  AnswerState!(r)'
  <2>1. /\ UNCHANGED tables /\ req' = req
        /\ \/ \E label \in {"write", "check", "event", "audit", "commit"} : Goto(q, label) /\ UNCHANGED answer
           \/ \E what \in Refusals : Return(q, what)
        /\ pc[q] \in {"read", "check", "write", "event", "audit"}
    BY <1>6 DEF ReadAlert, CheckPending, ReadApproval, UpdateAlertRow, InsertApproval,
       DecideApprovalRow, InsertStatusEvent, InsertAudit, Refusals
  <2>2. CASE q # r
    BY <1>1, <1>t, <2>1, <2>2 DEF tables, Goto, Return
  <2>3. CASE q = r /\ \E label \in {"write", "check", "event", "audit", "commit"} : Goto(q, label) /\ UNCHANGED answer
    BY <1>2, <1>t, <2>1, <2>3 DEF tables, Goto
  <2>4. CASE q = r /\ \E what \in Refusals : Return(q, what)
    BY <1>3, <1>t, <2>1, <2>4 DEF tables, Goto, Return
  <2> QED
    BY <2>1, <2>2, <2>3, <2>4
<1>7. ASSUME NEW q \in Requests, Commit(q) PROVE AnswerState!(r)'
  <2>1. /\ pc[q] = "commit" /\ pc' = [pc EXCEPT ![q] = "reply"] /\ UNCHANGED <<req, answer>>
    BY <1>7 DEF Commit, Goto
  <2>2. CASE q = r
    <3>1. AuditRecord(r) \in auditEvents' /\ AnswerState!(r) /\ answer[r] = "none"
      BY <1>7, <1>h, <2>1, <2>2, CommitWrites
    <3>2. Written(r)'
      BY <1>7, <2>1, <2>2, <3>1, CommitWrites DEF Written
    <3> QED
      BY <1>t, <1>n, <2>1, <2>2, <3>1, <3>2
  <2>3. CASE q # r
    <3>1. /\ auditEvents \subseteq auditEvents' /\ \A e \in auditEvents' : e \in auditEvents \/ e.id = q
          /\ approvals[r] = NoApproval => approvals'[r] = NoApproval
      BY <1>7, <2>3, CommitWrites
    <3>2. (Written(r) => Written(r)') /\ (~Recorded(r) => ~Recorded(r)')
      BY <2>1, <2>3, <3>1 DEF Written, Recorded
    <3> QED
      BY <1>t, <1>h, <2>1, <2>3, <3>1, <3>2
  <2> QED
    BY <2>2, <2>3
<1>8. ASSUME NEW q \in Requests, Reply(q) PROVE AnswerState!(r)'
  <2>1. /\ UNCHANGED <<tables, req>> /\ pc[q] = "reply" /\ pc' = [pc EXCEPT ![q] = "done"]
        /\ answer' = [answer EXCEPT ![q] = SuccessAnswer(req[q])]
    BY <1>8 DEF Reply, Return, Goto
  <2>2. req[q] \in Bodies
    BY <2>1 DEF Inv, HandlerState, InHandler
  <2>3. SuccessAnswer(req[q]) \in Successes
    BY <2>2, BodyKinds DEF SuccessAnswer, Successes
  <2>4. CASE q # r
    BY <1>1, <1>t, <2>1, <2>4 DEF tables
  <2>5. CASE q = r
    <3>1. Written(r)'
      BY <1>h, <2>1, <2>5 DEF Written, tables
    <3> QED
      BY <1>t, <1>n, <2>1, <2>3, <2>5, <3>1
  <2> QED
    BY <2>4, <2>5
<1>9. ASSUME NEW q \in Requests, Fail(q) PROVE AnswerState!(r)'
  BY <1>1, <1>3, <1>9, <1>t DEF Fail, Return, Goto, tables
<1>10. CASE Crash
  <2>1. /\ UNCHANGED <<tables, req, answer>>
        /\ pc'[r] = IF pc[r] \in InHandler THEN "lost" ELSE pc[r]
    BY <1>10 DEF Crash
  <2> QED
    BY <1>1, <1>2, <1>n, <2>1 DEF tables
<1>11. CASE UNCHANGED vars
  BY <1>1, <1>11 DEF vars
<1> QED
  BY <1>4, <1>5, <1>6, <1>7, <1>8, <1>9, <1>10, <1>11 DEF Next, Proceed, Idle

\* A caller is told of a success only if the change and its audit event are
\* committed, and of a refusal only if nothing ever will be.
THEOREM AnswersAreAlwaysTrue == Spec => []AnswersAreTrue
<1>1. Init => AnswerState
  BY DEF Init, AnswerState, Successes, Refusals, Decisions
<1>2. AnswerState => AnswersAreTrue
  BY DEF AnswerState, AnswersAreTrue, Written
<1> QED
  BY <1>1, <1>2, AnswerStep, Invariance, PTL DEF Spec

-----------------------------------------------------------------------------
(* Two pending approvals *)

\* What a handler saw when it looked for a pending approval stays committed,
\* and had been decided if the handler went on to write one of its own.
SeenState ==
    \A q \in Requests :
      /\ pc[q] \in {"idle", "read", "check"} => seenApprovals[q] = {}
      /\ \A p \in seenApprovals[q] :
           /\ approvals[p].status # "none"
           /\ pc[q] \in {"write"} \cup Holding \/ approvals[q] # NoApproval =>
                approvals[p].status \in Decisions

\* A commit takes no approval back, changes no decision, and writes under the
\* id of its own request only where there was nothing.
LEMMA CommitKeepsDecisions ==
    ASSUME Inv, NEW r \in Requests, Commit(r), NEW p \in Requests
    PROVE  /\ approvals[p].status # "none" => approvals'[p].status # "none"
           /\ approvals[p].status \in Decisions => approvals'[p].status \in Decisions
           /\ p # r /\ approvals[p] = NoApproval => approvals'[p] = NoApproval
<1>t. approvals \in [Requests -> [alert : Alerts \cup {None},
                                  status : {"none", "requested"} \cup Decisions]]
  BY DEF Inv, TypeOK
<1>1. CommitsAs(r)
  BY CommitEffect
<1>2. p # r /\ approvals[p] = NoApproval => approvals'[p] = NoApproval
  BY CommitWrites
<1>3. "none" \notin Decisions /\ "requested" \notin Decisions
  BY DEF Decisions
<1> QED
  BY <1>t, <1>1, <1>2, <1>3 DEF CommitsAs, Lifecycle!ChangeStatus, Lifecycle!RequestApproval,
     Lifecycle!DecideApproval

\* Every step.
LEMMA SeenStep == Inv /\ SeenState /\ [Next]_vars => SeenState'
<1> SUFFICES ASSUME Inv, SeenState, [Next]_vars, NEW q \in Requests PROVE SeenState!(q)'
  BY DEF SeenState
<1>t. /\ pc \in [Requests -> InHandler \cup {"idle", "done", "lost"}]
      /\ approvals \in [Requests -> [alert : Alerts \cup {None},
                                     status : {"none", "requested"} \cup Decisions]]
      /\ seenApprovals \in [Requests -> SUBSET Requests]
  BY DEF Inv, TypeOK
<1>h. SeenState!(q)
  BY DEF SeenState
\* a step that leaves the approvals, and what q saw, alone
<1>1. ASSUME UNCHANGED approvals, seenApprovals'[q] = seenApprovals[q],
             pc'[q] \in {"idle", "read", "check"} => pc[q] \in {"idle", "read", "check"},
             pc'[q] \in {"write"} \cup Holding => pc[q] \in {"read", "write"} \cup Holding
      PROVE  SeenState!(q)'
  BY <1>1, <1>h
<1>2. ASSUME NEW a \in Alerts, OpenAlert(a) PROVE SeenState!(q)'
  BY <1>1, <1>2 DEF OpenAlert, Holding
<1>3. ASSUME NEW r \in Requests, NEW b \in Bodies, Receive(r, b) PROVE SeenState!(q)'
  BY <1>1, <1>3, <1>t DEF Receive, Goto, Return, tables, Holding
<1>4. ASSUME NEW r \in Requests, ReadAlert(r) \/ ReadApproval(r) PROVE SeenState!(q)'
  <2>1. /\ pc[r] = "read" /\ UNCHANGED <<tables, seenApprovals>>
        /\ \E label \in {"write", "check", "done"} : Goto(r, label)
    BY <1>4 DEF ReadAlert, ReadApproval, Return
  <2> QED
    BY <1>1, <1>t, <2>1 DEF Goto, tables, Holding
<1>5. ASSUME NEW r \in Requests, CheckPending(r) PROVE SeenState!(q)'
  <2> DEFINE known == ApprovalsOf(req[r].alert)
  <2>1. /\ pc[r] = "check" /\ UNCHANGED tables
        /\ seenApprovals' = [seenApprovals EXCEPT ![r] = known]
        /\ \/ (\E p \in known : approvals[p].status = "requested") /\ Goto(r, "done")
           \/ ~(\E p \in known : approvals[p].status = "requested") /\ Goto(r, "write")
    BY <1>5 DEF CheckPending, Return
  <2>2. CASE q # r
    BY <1>1, <1>t, <2>1, <2>2 DEF Goto, tables
  <2>3. CASE q = r
    <3>1. req[r] \in Bodies /\ req[r].op = "request" /\ approvals[r] = NoApproval
      BY <2>1 DEF Inv, HandlerState, IdsFresh, InHandler
    <3>2. req[r].alert \in Alerts
      BY <3>1, BodyKinds
    <3>3. \A p \in known : p \in Requests /\ approvals[p].status # "none"
      BY <3>2, NoneAssumption DEF ApprovalsOf, Inv, ApprovalsWellFormed, NoApproval
    <3>4. (~\E p \in known : approvals[p].status = "requested") =>
            \A p \in known : approvals[p].status \in Decisions
      BY <1>t, <3>3
    <3>5. seenApprovals'[q] = known /\ UNCHANGED approvals /\ approvals[q] = NoApproval
      BY <1>t, <2>1, <2>3, <3>1 DEF tables
    <3>6. \/ (~\E p \in known : approvals[p].status = "requested") /\ pc'[q] = "write"
          \/ pc'[q] = "done"
      BY <1>t, <2>1, <2>3 DEF Goto
    <3> HIDE DEF known
    <3> QED
      BY <3>3, <3>4, <3>5, <3>6 DEF Holding
  <2> QED
    BY <2>2, <2>3
<1>6. ASSUME NEW r \in Requests,
             \/ UpdateAlertRow(r) \/ InsertApproval(r) \/ DecideApprovalRow(r)
             \/ InsertStatusEvent(r) \/ InsertAudit(r) \/ Reply(r) \/ Fail(r)
      PROVE  SeenState!(q)'
  <2>1. /\ UNCHANGED <<tables, seenApprovals>>
        /\ \/ pc[r] \in {"write"} \cup Holding /\ \E label \in Holding : Goto(r, label)
           \/ Goto(r, "done")
    BY <1>6 DEF UpdateAlertRow, InsertApproval, DecideApprovalRow, InsertStatusEvent,
       InsertAudit, Reply, Fail, Return, Holding
  <2> QED
    BY <1>1, <1>t, <2>1 DEF Goto, tables, Holding
<1>7. ASSUME NEW r \in Requests, Commit(r) PROVE SeenState!(q)'
  <2>1. pc[r] = "commit" /\ pc' = [pc EXCEPT ![r] = "reply"] /\ UNCHANGED seenApprovals
    BY <1>7 DEF Commit, Goto
  <2>2. \A p \in Requests :
          /\ approvals[p].status # "none" => approvals'[p].status # "none"
          /\ approvals[p].status \in Decisions => approvals'[p].status \in Decisions
          /\ p # r /\ approvals[p] = NoApproval => approvals'[p] = NoApproval
    BY <1>7, CommitKeepsDecisions
  <2>3. seenApprovals[q] \subseteq Requests
    BY <1>t
  <2>4. /\ pc'[q] \in {"idle", "read", "check"} => pc[q] = pc'[q]
        /\ pc'[q] \in {"write"} \cup Holding => pc[q] = pc'[q]
        /\ q = r => pc[q] \in Holding
    BY <1>t, <2>1 DEF Holding
  <2> QED
    BY <1>h, <2>1, <2>2, <2>3, <2>4
<1>8. CASE Crash
  BY <1>1, <1>8, <1>t DEF Crash, tables, Holding, InHandler
<1>9. CASE UNCHANGED vars
  BY <1>1, <1>9 DEF vars
<1> QED
  BY <1>2, <1>3, <1>4, <1>5, <1>6, <1>7, <1>8, <1>9 DEF Next, Proceed, Idle

\* Of two approvals pending on one alert neither handler had seen the other.
THEOREM PendingTogetherAlwaysOverlapped == Spec => []PendingTogetherOverlapped
<1>1. Init => SeenState
  BY DEF Init, SeenState
<1>2. SeenState => PendingTogetherOverlapped
  <2> SUFFICES ASSUME SeenState, NEW p \in Requests, NEW q \in Requests,
                      approvals[p].status = "requested", approvals[q].status = "requested",
                      p \in seenApprovals[q]
               PROVE  FALSE
    BY DEF PendingTogetherOverlapped
  <2>1. approvals[q] # NoApproval
    BY DEF NoApproval
  <2> QED
    BY <2>1 DEF SeenState, Decisions
<1> QED
  BY <1>1, <1>2, SeenStep, Invariance, PTL DEF Spec
=============================================================================
