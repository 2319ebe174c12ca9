------------------------ MODULE IdentityAccess_proofs ------------------------
(***************************************************************************)
(* Proofs about IdentityAccess, for any users, roles, requests and         *)
(* browsers and whatever kinds of request arrive.                          *)
(***************************************************************************)
EXTENDS IdentityAccess, FiniteSetTheorems, TLAPS

WorkState == [admins : SUBSET Users, locked : SUBSET Users,
              snapshot : SUBSET Row, deleted : SUBSET Row, inserted : SUBSET Roles,
              rows : SUBSET Requests, revoked : SUBSET Requests, openBefore : SUBSET Requests]
SessionState == [user : Users \cup {None}, browser : Browsers \cup {None},
                 state : {"none", "live", "expired", "revoked"}]
Changing == {"read", "guard", "lock", "snapshot", "delete", "insert", "reference", "update", "sessions",
             "revoke", "audit", "commit"}

\* The requests that may be at a statement.
Fits(b, label) ==
    /\ label \in Changing => b.op \in AdminOps
    /\ label \in {"read", "guard", "lock", "update", "sessions", "revoke"} => b.op # "create"
    /\ label \in {"guard", "lock", "sessions", "revoke"} => b.op # "activate"
    /\ label \in {"snapshot", "delete", "insert", "reference"} => b.op = "roles"
    /\ label = "update" => b.op # "roles"
    /\ label = "create" => b.op = "create"
    /\ label \in {"login", "list_roles", "browser_sessions", "browser", "session"} => b.op = "login"
    /\ label = "logout" => b.op = "logout"

Answers == {"none", "ok", "not_found", "refused", "failed", "unauthorized"}

\* A request has nothing before it begins, is at a statement of its own, and is
\* answered when it ends.
LabelOK(r) ==
    /\ pc[r] = "idle" => req[r] = NoRequest /\ work[r] = NoWork
    /\ pc[r] # "idle" => req[r] \in Bodies
    /\ Fits(req[r], pc[r])
    /\ answer[r] # "none" <=> pc[r] = "done"

TablesOK ==
    /\ userState \in [Users -> {"absent", "active", "inactive"}]
    /\ bindings \in [Users -> SUBSET Row]
    /\ sessions \in [Requests -> SessionState]
    /\ changes \in Seq(Requests)

Typed == TypeOK /\ \A r \in Requests : LabelOK(r)

----------------------------------------------------------------------------
\* What a body holds for each operation.
LEMMA BodyFacts ==
    ASSUME NEW b \in Bodies
    PROVE  /\ b.op \in AdminOps \cup {"login", "logout"}
           /\ b.roles \in SUBSET Roles
           /\ b.op # "logout" => b.user \in Users
           /\ b.op = "login" => b.browser \in Browsers
           /\ b.op = "logout" => b.session \in Requests
  BY DEF Bodies, AdminOps

\* A step of one request keeps the types if what it leaves behind has them.
LEMMA OwnStep ==
    ASSUME Typed, TablesOK', NEW r \in Requests, pc[r] # "idle", UNCHANGED asked,
           NEW label \in Labels \ {"idle"}, NEW w \in WorkState, NEW a \in Answers,
           pc' = [pc EXCEPT ![r] = label], work' = [work EXCEPT ![r] = w],
           answer' = [answer EXCEPT ![r] = a],
           Fits(req[r], label), a # "none" <=> label = "done"
    PROVE  Typed'
  <1>1. TypeOK'
    BY DEF Typed, TypeOK, TablesOK, asked, WorkState, SessionState, Answers
  <1>2. \A q \in Requests : LabelOK(q)'
    <2> TAKE q \in Requests
    <2>1. CASE q = r
      BY <2>1 DEF Typed, TypeOK, LabelOK, asked, Fits
    <2>2. CASE q # r
      BY <2>2 DEF Typed, TypeOK, LabelOK, asked, Fits
    <2> QED
      BY <2>1, <2>2
  <1> QED
    BY <1>1, <1>2 DEF Typed

\* So does one that ends the request.
LEMMA ReturnStep ==
    ASSUME Typed, TablesOK', NEW r \in Requests, pc[r] # "idle", UNCHANGED asked,
           NEW what \in Answers \ {"none"}, Return(r, what)
    PROVE  Typed'
  <1> DEFINE w == [NoWork EXCEPT !.openBefore = work[r].openBefore]
  <1>1. work[r] \in WorkState
    BY DEF Typed, TypeOK, WorkState
  <1>2. w \in WorkState
    BY <1>1 DEF NoWork, WorkState
  <1>3. Fits(req[r], "done") /\ "done" \in Labels \ {"idle"}
    BY DEF Fits, Changing, Labels
  <1>4. /\ pc' = [pc EXCEPT ![r] = "done"] /\ work' = [work EXCEPT ![r] = w]
        /\ answer' = [answer EXCEPT ![r] = what]
    BY DEF Return, Goto, Keep
  <1> QED
    BY <1>2, <1>3, <1>4, OwnStep

\* And so does one that goes on to its next statement.
LEMMA GoStep ==
    ASSUME Typed, TablesOK', NEW r \in Requests, pc[r] \notin {"idle", "done"}, UNCHANGED asked,
           NEW label \in Labels \ {"idle", "done"}, NEW w \in WorkState,
           Goto(r, label), Keep(r, w) \/ (work' = work /\ w = work[r]), UNCHANGED answer, Fits(req[r], label)
    PROVE  Typed'
  <1>1. answer[r] \in Answers /\ answer' = [answer EXCEPT ![r] = answer[r]]
    BY DEF Typed, TypeOK, Answers
  <1>2. work' = [work EXCEPT ![r] = w]
    BY DEF Typed, TypeOK, Keep
  <1>3. answer[r] = "none"
    BY DEF Typed, LabelOK
  <1> QED
    BY <1>1, <1>2, <1>3, OwnStep DEF Goto

\* Before any request everything has its type.
LEMMA TypedInit == Init => Typed
  <1> SUFFICES ASSUME Init PROVE Typed
    OBVIOUS
  <1>1. NoWork \in WorkState
    BY DEF NoWork, WorkState
  <1>2. NoSession \in SessionState
    BY DEF NoSession, SessionState
  <1>3. bindings \in [Users -> SUBSET Row]
    BY RolesAssumption DEF Init, Row
  <1>4. TypeOK
    <2>1. sessions \in [Requests -> SessionState] /\ work \in [Requests -> WorkState]
      BY <1>1, <1>2 DEF Init
    <2>2. changes \in Seq(Requests)
      BY DEF Init
    <2> QED
      BY <1>3, <2>1, <2>2 DEF Init, TypeOK, Labels, WorkState, SessionState
  <1>5. \A r \in Requests : LabelOK(r)
    BY DEF Init, LabelOK, Changing, Fits
  <1> QED
    BY <1>4, <1>5 DEF Typed

\* The tables keep their types when nothing is written.
LEMMA TablesStay == Typed /\ UNCHANGED tables => TablesOK'
  BY DEF Typed, TypeOK, TablesOK, tables, SessionState

\* What a request has.
LEMMA RequestFacts ==
    ASSUME Typed, NEW r \in Requests, pc[r] # "idle"
    PROVE  /\ req[r] \in Bodies /\ req[r].roles \in SUBSET Roles
           /\ req[r].op \in AdminOps \cup {"login", "logout"}
           /\ req[r].op # "logout" => req[r].user \in Users
           /\ req[r].op = "login" => req[r].browser \in Browsers
           /\ req[r].op = "logout" => req[r].session \in Requests
           /\ pc[r] \in Changing => req[r].op \in AdminOps /\ req[r].user \in Users
           /\ Fits(req[r], pc[r])
           /\ work[r] \in WorkState
  BY BodyFacts DEF Typed, TypeOK, LabelOK, WorkState, Fits, AdminOps

\* What a statement has still to lock, statement by statement.
LEMMA WantedIs ==
    ASSUME NEW r \in Requests
    PROVE  /\ pc[r] = "lock" => Wanted(r) = work[r].admins \ work[r].locked
           /\ pc[r] = "delete" => Wanted(r) = work[r].snapshot
           /\ pc[r] = "insert" => Wanted(r) = req[r].roles \ work[r].inserted
           /\ pc[r] \in {"revoke", "browser"} => Wanted(r) = work[r].rows
  BY DEF Wanted

\* An UPDATE that comes to the next of its rows has one less.
LEMMA RevokingType ==
    ASSUME NEW r \in Requests, work[r] \in WorkState, NEW s \in work[r].rows
    PROVE  Revoking(r, s) \in WorkState
  BY DEF Revoking, WorkState

\* WithState changes states only.
LEMMA WithStateType ==
    ASSUME Typed, NEW ids, NEW state \in {"live", "expired", "revoked"}
    PROVE  WithState(ids, state) \in [Requests -> SessionState]
  <1>1. sessions \in [Requests -> SessionState]
    BY DEF Typed, TypeOK, SessionState
  <1>2. \A s \in Requests : sessions[s] \in SessionState /\ [sessions[s] EXCEPT !.state = state] \in SessionState
    BY <1>1 DEF SessionState
  <1> QED
    BY <1>2 DEF WithState

\* The roles of a user are roles.
LEMMA RolesOfType ==
    ASSUME Typed, NEW u \in Users PROVE RolesOf(u) \in SUBSET Roles
  BY DEF Typed, TypeOK, RolesOf, Row

----------------------------------------------------------------------------
(* The steps keep the types *)

\* Receiving a request, Receive, keeps the types.
LEMMA TypedReceive ==
    ASSUME Typed, NEW r \in Requests, NEW b \in Bodies, Receive(r, b)
    PROVE  Typed'
  <1> DEFINE label == IF b.op \in {"roles", "activate", "deactivate"} THEN "read" ELSE b.op
             w == [NoWork EXCEPT !.openBefore = IF b.op \in {"roles", "deactivate"} THEN SessionsOf(b.user) ELSE {}]
  <1>1. label \in Labels \ {"idle", "done"} /\ Fits(b, label)
    BY BodyFacts DEF AdminOps, Labels, Fits, Changing
  <1>2. w \in WorkState
    BY DEF NoWork, WorkState, SessionsOf, OpenSessions
  <1>3. /\ pc' = [pc EXCEPT ![r] = label] /\ req' = [req EXCEPT ![r] = b]
        /\ work' = [work EXCEPT ![r] = w] /\ UNCHANGED <<tables, answer>>
        /\ overlapped' = (overlapped \/ InFlight # {}) /\ pc[r] = "idle"
    BY DEF Receive, Goto, Keep
  <1> HIDE DEF label, w
  <1>4. TypeOK'
    BY <1>1, <1>2, <1>3 DEF Typed, TypeOK, WorkState, tables
  <1>5. \A q \in Requests : LabelOK(q)'
    <2> TAKE q \in Requests
    <2>1. CASE q = r
      BY <1>1, <1>3, <2>1 DEF Typed, TypeOK, LabelOK
    <2>2. CASE q # r
      BY <1>3, <2>2 DEF Typed, TypeOK, LabelOK
    <2> QED
      BY <2>1, <2>2
  <1> QED
    BY <1>4, <1>5 DEF Typed

\* So do the statements of a change that read and lock users, ...
LEMMA TypedRead ==
    ASSUME Typed, NEW r \in Requests,
           ReadUser(r) \/ FindActiveAdmins(r) \/ LockActiveAdmin(r) \/ GuardLastActiveAdmin(r)
    PROVE  Typed'
  <1>1. TablesOK' /\ UNCHANGED asked /\ pc[r] \in {"read", "guard", "lock"}
    BY TablesStay DEF ReadUser, FindActiveAdmins, LockActiveAdmin, GuardLastActiveAdmin
  <1>2. /\ work[r] \in WorkState /\ req[r].user \in Users /\ Fits(req[r], pc[r])
        /\ req[r].op \in {"roles", "activate", "deactivate"}
    BY <1>1, RequestFacts DEF Fits, Changing, AdminOps
  <1>3. CASE ReadUser(r)
    <2>1. CASE Return(r, "not_found")
      BY <1>1, <2>1, ReturnStep DEF Answers
    <2>2. CASE ~Return(r, "not_found")
      <3> DEFINE b == req[r]
                 known == IF userState[b.user] = "active" THEN RolesOf(b.user) ELSE {}
                 removing == "admin" \in known /\ (b.op = "deactivate" \/ (b.op = "roles" /\ "admin" \notin b.roles))
                 label == IF removing THEN "guard" ELSE IF b.op = "roles" THEN "snapshot" ELSE "update"
      <3>1. Goto(r, label) /\ work' = work /\ UNCHANGED answer
        BY <1>3, <2>2 DEF ReadUser
      <3>2. label \in Labels \ {"idle", "done"} /\ Fits(b, label)
        BY <1>2 DEF Labels, Fits, Changing, AdminOps
      <3> HIDE DEF label
      <3> QED
        BY <1>1, <1>2, <3>1, <3>2, GoStep
    <2> QED
      BY <2>1, <2>2
  <1>4. CASE FindActiveAdmins(r)
    <2> DEFINE w == [work[r] EXCEPT !.admins = ActiveAdmins]
    <2>1. w \in WorkState
      BY <1>2 DEF WorkState, ActiveAdmins
    <2>2. Goto(r, "lock") /\ Keep(r, w) /\ UNCHANGED answer
      BY <1>4 DEF FindActiveAdmins
    <2>3. Fits(req[r], "lock") /\ "lock" \in Labels \ {"idle", "done"}
      BY <1>2, <1>4 DEF Fits, Changing, Labels, FindActiveAdmins
    <2> HIDE DEF w
    <2> QED
      BY <1>1, <2>1, <2>2, <2>3, GoStep
  <1>5. CASE LockActiveAdmin(r)
    <2>1. PICK u \in Wanted(r) : Keep(r, [work[r] EXCEPT !.locked = @ \cup {u}])
      BY <1>5 DEF LockActiveAdmin
    <2> DEFINE w == [work[r] EXCEPT !.locked = work[r].locked \cup {u}]
    <2>2. w \in WorkState
      BY <1>2, <1>5, <2>1, WantedIs DEF WorkState, LockActiveAdmin
    <2>3. Goto(r, "lock") /\ Keep(r, w) /\ UNCHANGED answer
      <3>1. pc[r] = "lock" /\ UNCHANGED <<pc, answer>> /\ pc \in [Requests -> Labels]
        BY <1>5 DEF LockActiveAdmin, Typed, TypeOK
      <3>2. w = [work[r] EXCEPT !.locked = @ \cup {u}]
        BY <1>2 DEF WorkState
      <3> HIDE DEF w
      <3> QED
        BY <2>1, <3>1, <3>2 DEF Goto
    <2>4. Fits(req[r], "lock") /\ "lock" \in Labels \ {"idle", "done"}
      BY <1>2, <1>5 DEF LockActiveAdmin, Labels
    <2> HIDE DEF w
    <2> QED
      BY <1>1, <2>2, <2>3, <2>4, GoStep
  <1>6. CASE GuardLastActiveAdmin(r)
    <2>1. CASE Return(r, "refused")
      BY <1>1, <2>1, ReturnStep DEF Answers
    <2>2. CASE ~Return(r, "refused")
      <3>1. Goto(r, Guarded(r)) /\ work' = work /\ UNCHANGED answer
        BY <1>6, <2>2 DEF GuardLastActiveAdmin
      <3>2. Guarded(r) \in Labels \ {"idle", "done"} /\ Fits(req[r], Guarded(r))
        BY <1>2 DEF Labels, Fits, Changing, Guarded, AdminOps
      <3> QED
        BY <1>1, <1>2, <3>1, <3>2, GoStep
    <2> QED
      BY <2>1, <2>2
  <1> QED
    BY <1>3, <1>4, <1>5, <1>6

\* ... those that delete and insert bindings or update the user, ...
LEMMA TypedWrite ==
    ASSUME Typed, NEW r \in Requests,
           FindBindings(r) \/ DeleteBinding(r) \/ InsertBinding(r) \/ CheckReference(r) \/ UpdateActive(r)
    PROVE  Typed'
  <1>1. /\ TablesOK' /\ UNCHANGED asked
        /\ pc[r] \in {"snapshot", "delete", "insert", "reference", "update"}
    BY TablesStay DEF FindBindings, DeleteBinding, InsertBinding, CheckReference, UpdateActive
  <1>2. /\ work[r] \in WorkState /\ req[r].user \in Users /\ Fits(req[r], pc[r])
        /\ req[r].op \in {"roles", "activate", "deactivate"} /\ req[r].roles \in SUBSET Roles
    BY <1>1, RequestFacts DEF Fits, Changing, AdminOps
  <1>3. bindings[req[r].user] \in SUBSET Row
    BY <1>2 DEF Typed, TypeOK
  <1>0. pc[r] # "update" => \A label \in {"delete", "insert", "reference", "sessions"} :
          Fits(req[r], label) /\ label \in Labels \ {"idle", "done"}
    BY <1>1, <1>2 DEF Fits, Changing, Labels, AdminOps
  <1>4. CASE FindBindings(r)
    <2> DEFINE w == [work[r] EXCEPT !.snapshot = bindings[req[r].user]]
               label == IF bindings[req[r].user] = {} THEN "insert" ELSE "delete"
    <2>1. w \in WorkState
      BY <1>2, <1>3 DEF WorkState
    <2>2. Goto(r, label) /\ Keep(r, w) /\ UNCHANGED answer /\ label \in {"insert", "delete"} /\ pc[r] # "update"
      BY <1>4 DEF FindBindings
    <2> HIDE DEF w, label
    <2> QED
      BY <1>0, <1>1, <2>1, <2>2, GoStep
  <1>5. CASE DeleteBinding(r)
    <2>1. PICK row \in Wanted(r) :
            /\ Keep(r, [work[r] EXCEPT !.snapshot = @ \ {row},
                                       !.deleted = @ \cup ({row} \cap bindings[req[r].user])])
            /\ Goto(r, IF work[r].snapshot = {row} THEN "insert" ELSE "delete")
      BY <1>5 DEF DeleteBinding
    <2> DEFINE w == [work[r] EXCEPT !.snapshot = work[r].snapshot \ {row},
                                    !.deleted = work[r].deleted \cup ({row} \cap bindings[req[r].user])]
               label == IF work[r].snapshot = {row} THEN "insert" ELSE "delete"
    <2>2. w \in WorkState
      BY <1>2, <1>3 DEF WorkState
    <2>3. Goto(r, label) /\ Keep(r, w) /\ UNCHANGED answer /\ label \in {"insert", "delete"} /\ pc[r] # "update"
      BY <1>2, <1>5, <2>1 DEF DeleteBinding, Keep, WorkState
    <2> HIDE DEF w, label
    <2> QED
      BY <1>0, <1>1, <2>2, <2>3, GoStep
  <1>6. CASE InsertBinding(r)
    <2>1. CASE Return(r, "failed")
      BY <1>1, <2>1, ReturnStep DEF Answers
    <2>2. CASE ~Return(r, "failed")
      <3>1. PICK x \in Wanted(r) :
              /\ Keep(r, [work[r] EXCEPT !.inserted = @ \cup {x}])
              /\ Goto(r, IF Wanted(r) = {x} THEN "reference" ELSE "insert")
              /\ UNCHANGED answer
        BY <1>6, <2>2 DEF InsertBinding
      <3> DEFINE w == [work[r] EXCEPT !.inserted = work[r].inserted \cup {x}]
                 label == IF Wanted(r) = {x} THEN "reference" ELSE "insert"
      <3>2. pc[r] = "insert" /\ x \in Roles
        BY <1>2, <1>6, <3>1, WantedIs DEF InsertBinding
      <3>3. w \in WorkState
        BY <1>2, <3>2 DEF WorkState
      <3>4. Goto(r, label) /\ Keep(r, w) /\ label \in {"insert", "reference"}
        BY <1>2, <3>1 DEF Keep, WorkState
      <3> HIDE DEF w, label
      <3> QED
        BY <1>0, <1>1, <3>1, <3>2, <3>3, <3>4, GoStep
    <2> QED
      BY <2>1, <2>2
  <1>7. CASE CheckReference(r)
    <2>1. Goto(r, "sessions") /\ work' = work /\ UNCHANGED answer /\ pc[r] # "update"
      BY <1>7 DEF CheckReference
    <2> QED
      BY <1>0, <1>1, <1>2, <2>1, GoStep
  <1>8. CASE UpdateActive(r)
    <2> DEFINE label == IF req[r].op = "deactivate" THEN "sessions" ELSE "audit"
    <2>1. Goto(r, label) /\ work' = work /\ UNCHANGED answer
      BY <1>8 DEF UpdateActive
    <2>2. Fits(req[r], label) /\ label \in Labels \ {"idle", "done"}
      BY <1>2, <1>8 DEF Fits, Changing, Labels, UpdateActive, AdminOps
    <2> HIDE DEF label
    <2> QED
      BY <1>1, <1>2, <2>1, <2>2, GoStep
  <1> QED
    BY <1>4, <1>5, <1>6, <1>7, <1>8

\* ... those that revoke sessions, create a user and write the audit event, ...
LEMMA TypedRevoke ==
    ASSUME Typed, NEW r \in Requests,
           FindUserSessions(r) \/ RevokeUserSession(r) \/ CreateUser(r) \/ InsertAudit(r)
    PROVE  Typed'
  <1>1. TablesOK' /\ UNCHANGED asked /\ pc[r] \in {"sessions", "revoke", "create", "audit"}
    BY TablesStay DEF FindUserSessions, RevokeUserSession, CreateUser, InsertAudit
  <1>2. work[r] \in WorkState /\ Fits(req[r], pc[r])
    BY <1>1, RequestFacts
  <1>3. /\ \A label \in {"audit", "commit"} : Fits(req[r], label) /\ label \in Labels \ {"idle", "done"}
        /\ pc[r] \in {"sessions", "revoke"} => Fits(req[r], "revoke") /\ "revoke" \in Labels \ {"idle", "done"}
    BY <1>1, <1>2 DEF Fits, Changing, Labels, AdminOps
  <1>4. CASE FindUserSessions(r)
    <2> DEFINE w == [work[r] EXCEPT !.rows = SessionsOf(req[r].user)]
               label == IF SessionsOf(req[r].user) = {} THEN "audit" ELSE "revoke"
    <2>1. w \in WorkState
      BY <1>2 DEF WorkState, SessionsOf, OpenSessions
    <2>2. Goto(r, label) /\ Keep(r, w) /\ UNCHANGED answer /\ label \in {"audit", "revoke"} /\ pc[r] = "sessions"
      BY <1>4 DEF FindUserSessions
    <2> HIDE DEF w, label
    <2> QED
      BY <1>1, <1>3, <2>1, <2>2, GoStep
  <1>5. CASE RevokeUserSession(r)
    <2>1. pc[r] = "revoke" /\ UNCHANGED answer
      BY <1>5 DEF RevokeUserSession
    <2>2. PICK s \in work[r].rows :
            Keep(r, Revoking(r, s)) /\ Goto(r, IF work[r].rows = {s} THEN "audit" ELSE "revoke")
      BY <1>5, <2>1, WantedIs DEF RevokeUserSession
    <2> DEFINE label == IF work[r].rows = {s} THEN "audit" ELSE "revoke"
    <2>3. Goto(r, label) /\ label \in {"audit", "revoke"}
      BY <2>2
    <2>4. Revoking(r, s) \in WorkState
      BY <1>2, RevokingType
    <2> HIDE DEF label
    <2> QED
      BY <1>1, <1>3, <2>1, <2>2, <2>3, <2>4, GoStep
  <1>6. CASE CreateUser(r)
    <2>1. Return(r, "failed") \/ (Goto(r, "audit") /\ work' = work /\ UNCHANGED answer)
      BY <1>6 DEF CreateUser
    <2> QED
      BY <1>1, <1>2, <1>3, <2>1, GoStep, ReturnStep DEF Answers
  <1>7. CASE InsertAudit(r)
    <2>1. Goto(r, "commit") /\ work' = work /\ UNCHANGED answer
      BY <1>7 DEF InsertAudit
    <2> QED
      BY <1>1, <1>2, <1>3, <2>1, GoStep
  <1> QED
    BY <1>4, <1>5, <1>6, <1>7

\* (the rows a change writes are rows)
LEMMA NewRowsType ==
    ASSUME Typed, NEW r \in Requests, pc[r] # "idle" PROVE NewRows(r) \in SUBSET Row
  BY RequestFacts DEF NewRows, Row

\* ... the commit of a change, CommitChange, ...
LEMMA TypedCommit ==
    ASSUME Typed, NEW r \in Requests, CommitChange(r)
    PROVE  Typed'
  <1>1. UNCHANGED asked /\ pc[r] = "commit" /\ Return(r, "ok")
    BY DEF CommitChange
  <1>2. req[r].user \in Users /\ NewRows(r) \in SUBSET Row
    BY <1>1, RequestFacts, NewRowsType DEF Changing
  <1>3. userState' \in [Users -> {"absent", "active", "inactive"}]
    BY DEF CommitChange, Typed, TypeOK
  <1>4. bindings' \in [Users -> SUBSET Row]
    BY <1>2 DEF CommitChange, Typed, TypeOK
  <1>5. sessions' \in [Requests -> SessionState]
    BY WithStateType DEF CommitChange
  <1>6. changes' \in Seq(Requests)
    BY DEF CommitChange, Typed, TypeOK
  <1> QED
    BY <1>1, <1>3, <1>4, <1>5, <1>6, ReturnStep DEF TablesOK, Answers

\* ... the statements of a login and the logout, ...
LEMMA TypedLogin ==
    ASSUME Typed, NEW r \in Requests,
           \/ ReadLoginUser(r) \/ ReadLoginRoles(r) \/ FindBrowserSessions(r) \/ RevokeBrowserSession(r)
           \/ CreateSession(r) \/ Logout(r)
    PROVE  Typed'
  <1>1. UNCHANGED asked /\ pc[r] \in {"login", "list_roles", "browser_sessions", "browser", "session", "logout"}
    BY DEF ReadLoginUser, ReadLoginRoles, FindBrowserSessions, RevokeBrowserSession, CreateSession, Logout
  <1>2. work[r] \in WorkState /\ Fits(req[r], pc[r])
    BY <1>1, RequestFacts
  <1>3. pc[r] # "logout" => \A label \in {"list_roles", "browser_sessions", "browser", "session"} :
          Fits(req[r], label) /\ label \in Labels \ {"idle", "done"}
    BY <1>1, <1>2 DEF Fits, Changing, Labels
  <1>4. CASE ReadLoginUser(r)
    <2>1. TablesOK'
      BY <1>4, TablesStay DEF ReadLoginUser
    <2>2. (Goto(r, "list_roles") /\ work' = work /\ UNCHANGED answer) \/ Return(r, "unauthorized")
      BY <1>4 DEF ReadLoginUser
    <2>3. pc[r] # "logout"
      BY <1>4 DEF ReadLoginUser
    <2> QED
      BY <1>1, <1>2, <1>3, <2>1, <2>2, <2>3, GoStep, ReturnStep DEF Answers
  <1>5. CASE ReadLoginRoles(r)
    <2> DEFINE label == IF allow_multiple_identities THEN "session" ELSE "browser_sessions"
    <2>1. TablesOK' /\ pc[r] # "logout" /\ label \in {"session", "browser_sessions"}
      BY <1>5, TablesStay DEF ReadLoginRoles
    <2>2. (Goto(r, label) /\ work' = work /\ UNCHANGED answer) \/ Return(r, "unauthorized")
      BY <1>5 DEF ReadLoginRoles
    <2> HIDE DEF label
    <2> QED
      BY <1>1, <1>2, <1>3, <2>1, <2>2, GoStep, ReturnStep DEF Answers
  <1>6. CASE FindBrowserSessions(r)
    <2> DEFINE found == {s \in OpenSessions : sessions[s].browser = req[r].browser}
               w == [work[r] EXCEPT !.rows = found]
               label == IF found = {} THEN "session" ELSE "browser"
    <2>1. TablesOK' /\ pc[r] # "logout" /\ label \in {"session", "browser"}
      BY <1>6, TablesStay DEF FindBrowserSessions
    <2>2. w \in WorkState
      BY <1>2 DEF WorkState, OpenSessions
    <2>3. Goto(r, label) /\ Keep(r, w) /\ UNCHANGED answer
      BY <1>6 DEF FindBrowserSessions
    <2> HIDE DEF w, label, found
    <2> QED
      BY <1>1, <1>3, <2>1, <2>2, <2>3, GoStep
  <1>7. CASE RevokeBrowserSession(r)
    <2>1. pc[r] = "browser" /\ UNCHANGED <<userState, bindings, changes, answer>>
      BY <1>7 DEF RevokeBrowserSession
    <2>2. PICK s \in work[r].rows :
            IF work[r].rows # {s}
              THEN Keep(r, Revoking(r, s)) /\ UNCHANGED <<sessions, pc>>
              ELSE /\ sessions' = WithState(Revoking(r, s).revoked \cap OpenSessions, "revoked")
                   /\ Keep(r, [work[r] EXCEPT !.rows = {}, !.revoked = {}])
                   /\ Goto(r, "session")
      BY <1>7, <2>1, WantedIs DEF RevokeBrowserSession
    <2>3. CASE work[r].rows # {s}
      <3>1. Goto(r, "browser") /\ Keep(r, Revoking(r, s))
        BY <2>1, <2>2, <2>3 DEF Goto, Typed, TypeOK
      <3>2. TablesOK'
        BY <2>1, <2>2, <2>3, TablesStay DEF tables
      <3>3. Revoking(r, s) \in WorkState
        BY <1>2, RevokingType
      <3> QED
        BY <1>1, <1>3, <2>1, <3>1, <3>2, <3>3, GoStep
    <2>4. CASE work[r].rows = {s}
      <3> DEFINE w == [work[r] EXCEPT !.rows = {}, !.revoked = {}]
      <3>1. Goto(r, "session") /\ Keep(r, w)
        BY <2>2, <2>4
      <3>2. sessions' \in [Requests -> SessionState]
        BY <2>2, <2>4, WithStateType
      <3>3. TablesOK'
        BY <2>1, <3>2 DEF TablesOK, Typed, TypeOK
      <3>4. w \in WorkState
        BY <1>2 DEF WorkState
      <3> HIDE DEF w
      <3> QED
        BY <1>1, <1>3, <2>1, <3>1, <3>3, <3>4, GoStep
    <2> QED
      BY <2>3, <2>4
  <1>8. CASE CreateSession(r)
    <2>1. req[r].user \in Users /\ req[r].browser \in Browsers
      BY <1>8, RequestFacts DEF CreateSession, Fits
    <2>2. sessions' \in [Requests -> SessionState]
      BY <1>8, <2>1 DEF CreateSession, Typed, TypeOK, SessionState
    <2>3. TablesOK' /\ Return(r, "ok")
      BY <1>8, <2>2 DEF CreateSession, TablesOK, Typed, TypeOK
    <2> QED
      BY <1>1, <2>3, ReturnStep DEF Answers
  <1>9. CASE Logout(r)
    <2>1. sessions' \in [Requests -> SessionState]
      BY <1>9, WithStateType DEF Logout
    <2>2. TablesOK' /\ Return(r, "ok")
      BY <1>9, <2>1 DEF Logout, TablesOK, Typed, TypeOK
    <2> QED
      BY <1>1, <2>2, ReturnStep DEF Answers
  <1> QED
    BY <1>4, <1>5, <1>6, <1>7, <1>8, <1>9

\* ... a statement that raises, Fail, ...
LEMMA TypedFail ==
    ASSUME Typed, NEW r \in Requests, Fail(r) PROVE Typed'
  <1>1. TablesOK' /\ UNCHANGED asked /\ pc[r] # "idle" /\ Return(r, "failed")
    BY TablesStay DEF Fail, InFlight
  <1> QED
    BY <1>1, ReturnStep DEF Answers

\* ... and a session that expires.
LEMMA TypedExpire ==
    ASSUME Typed, NEW s \in Requests, Expire(s) PROVE Typed'
  <1>1. sessions' \in [Requests -> SessionState]
    BY WithStateType DEF Expire
  <1>2. TypeOK'
    BY <1>1 DEF Expire, asked, Typed, TypeOK, SessionState
  <1>3. \A r \in Requests : LabelOK(r)'
    BY DEF Expire, asked, Typed, LabelOK
  <1> QED
    BY <1>2, <1>3 DEF Typed

\* Every step of Next keeps the types.
LEMMA TypedStep == Typed /\ [Next]_vars => Typed'
  <1> SUFFICES ASSUME Typed, [Next]_vars PROVE Typed'
    OBVIOUS
  <1>1. CASE UNCHANGED vars
    <2>1. TypeOK'
      BY <1>1 DEF vars, Typed, TypeOK
    <2>2. \A r \in Requests : LabelOK(r)'
      BY <1>1 DEF vars, Typed, LabelOK
    <2> QED
      BY <2>1, <2>2 DEF Typed
  <1>2. ASSUME NEW r \in Requests, Proceed(r) \/ Fail(r) PROVE Typed'
    BY <1>2, TypedRead, TypedWrite, TypedRevoke, TypedCommit, TypedLogin, TypedFail DEF Proceed, BreakDeadlock
  <1> QED
    BY <1>1, <1>2, TypedReceive, TypedExpire DEF Next, Idle

\* The type invariant holds for any users, roles, browsers and requests.
THEOREM TypeCorrectness == Spec => []TypeOK
  <1>1. Spec => []Typed
    BY TypedInit, TypedStep, PTL DEF Spec
  <1> QED
    BY <1>1, PTL DEF Typed

----------------------------------------------------------------------------
(* Sessions *)

\* A request logs out of, or has found, sessions that exist, and its own session
\* is the last thing it does; what a change revokes has all it had found open.
SessionsOK(r) ==
    /\ sessions[r].state # "none" => pc[r] = "done"
    /\ pc[r] = "logout" => sessions[req[r].session].state # "none"
    /\ \A s \in work[r].openBefore : sessions[s].state # "none" /\ sessions[s].user = req[r].user
    /\ pc[r] = "revoke" => work[r].openBefore \cap OpenSessions \subseteq work[r].rows \cup work[r].revoked
    /\ pc[r] \in {"audit", "commit"} /\ req[r].op \in {"roles", "deactivate"} =>
         work[r].openBefore \cap OpenSessions \subseteq work[r].revoked
    /\ req[r].op \in {"roles", "deactivate"} /\ answer[r] = "ok" =>
         work[r].openBefore \cap OpenSessions = {}

SessionInv == \A r \in Requests : SessionsOK(r)

\* A step of r changes nothing of the other requests; ...
StepOf(r) ==
    \A q \in Requests \ {r} :
      pc'[q] = pc[q] /\ req'[q] = req[q] /\ work'[q] = work[q] /\ answer'[q] = answer[q]

\* ... it opens no session but its own, and no session that was closed.
Settled(r) ==
    /\ \A s \in Requests : sessions[s].state # "none" =>
         /\ sessions'[s].state # "none" /\ sessions'[s].user = sessions[s].user
         /\ sessions'[s].state = "live" => sessions[s].state = "live"
    /\ \A s \in Requests \ {r} : sessions[s].state = "none" => sessions'[s].state = "none"

\* Four statements write what others see when they end; the rest leave the tables alone.
LEMMA QuietSteps ==
    ASSUME NEW r \in Requests, Proceed(r) \/ Fail(r),
           ~CommitChange(r), ~RevokeBrowserSession(r), ~CreateSession(r), ~Logout(r)
    PROVE  UNCHANGED tables
  BY DEF Proceed, BreakDeadlock, Fail, ReadUser, FindActiveAdmins, LockActiveAdmin, GuardLastActiveAdmin,
         FindBindings, DeleteBinding, InsertBinding, CheckReference, UpdateActive, FindUserSessions,
         RevokeUserSession, CreateUser, InsertAudit, ReadLoginUser, ReadLoginRoles, FindBrowserSessions

\* An action of a request is a step of its own.
LEMMA ProceedIsOwn ==
    ASSUME Typed, NEW r \in Requests, Proceed(r) \/ Fail(r)
    PROVE  StepOf(r) /\ UNCHANGED asked /\ r \in InFlight /\ work'[r].openBefore = work[r].openBefore
  <1>1. work[r] \in WorkState
    BY DEF Typed, TypeOK, WorkState
  <1>2. pc \in [Requests -> Labels] /\ work \in [Requests -> WorkState]
        /\ answer \in [Requests -> Answers]
    BY DEF Typed, TypeOK, WorkState, Answers
  <1>3. ASSUME NEW what, Return(r, what), UNCHANGED req
        PROVE  StepOf(r) /\ work'[r].openBefore = work[r].openBefore
    BY <1>1, <1>2, <1>3 DEF Return, StepOf, Goto, Keep, NoWork
  <1>4. ASSUME UNCHANGED <<req, answer>>, UNCHANGED pc \/ \E label : Goto(r, label),
               UNCHANGED work \/ \E w : Keep(r, w) /\ w.openBefore = work[r].openBefore
        PROVE  StepOf(r) /\ work'[r].openBefore = work[r].openBefore
    BY <1>2, <1>4 DEF Goto, Keep, StepOf
  <1>5. \A s : Revoking(r, s).openBefore = work[r].openBefore
    BY <1>1 DEF Revoking, WorkState
  <1>6. /\ \A x : [work[r] EXCEPT !.admins = x].openBefore = work[r].openBefore
        /\ \A x : [work[r] EXCEPT !.locked = @ \cup {x}].openBefore = work[r].openBefore
        /\ \A x : [work[r] EXCEPT !.snapshot = x].openBefore = work[r].openBefore
        /\ \A x : [work[r] EXCEPT !.inserted = @ \cup {x}].openBefore = work[r].openBefore
        /\ \A x : [work[r] EXCEPT !.rows = x].openBefore = work[r].openBefore
        /\ [work[r] EXCEPT !.rows = {}, !.revoked = {}].openBefore = work[r].openBefore
    BY <1>1 DEF WorkState
  <1>7. CASE ReadUser(r) \/ FindActiveAdmins(r)
    BY <1>3, <1>4, <1>6, <1>7 DEF ReadUser, FindActiveAdmins, InFlight, asked
  <1>8. CASE LockActiveAdmin(r) \/ GuardLastActiveAdmin(r)
    BY <1>3, <1>4, <1>6, <1>8 DEF LockActiveAdmin, GuardLastActiveAdmin, InFlight, asked
  <1>9. CASE FindBindings(r)
    BY <1>4, <1>6, <1>9 DEF FindBindings, InFlight, asked
  <1>10. CASE DeleteBinding(r)
    <2>1. /\ UNCHANGED asked /\ UNCHANGED answer /\ pc[r] = "delete" /\ \E label : Goto(r, label)
          /\ \E x, y : Keep(r, [work[r] EXCEPT !.snapshot = @ \ {x}, !.deleted = @ \cup y])
      BY <1>10 DEF DeleteBinding
    <2>2. PICK x, y : Keep(r, [work[r] EXCEPT !.snapshot = @ \ {x}, !.deleted = @ \cup y])
      BY <2>1
    <2>3. \E w : Keep(r, w) /\ w.openBefore = work[r].openBefore
      <3> DEFINE w == [work[r] EXCEPT !.snapshot = @ \ {x}, !.deleted = @ \cup y]
      <3>1. Keep(r, w)
        BY <2>2
      <3>2. w.openBefore = work[r].openBefore
        BY <1>1 DEF WorkState
      <3> HIDE DEF w
      <3> QED
        BY <3>1, <3>2
    <2>4. StepOf(r) /\ work'[r].openBefore = work[r].openBefore
      BY <1>4, <2>1, <2>3 DEF asked
    <2> QED
      BY <2>1, <2>4 DEF InFlight
  <1>11. CASE InsertBinding(r) \/ CheckReference(r) \/ UpdateActive(r)
    BY <1>3, <1>4, <1>6, <1>11 DEF InsertBinding, CheckReference, UpdateActive, InFlight, asked
  <1>12. CASE FindUserSessions(r) \/ RevokeUserSession(r)
    BY <1>4, <1>5, <1>6, <1>12 DEF FindUserSessions, RevokeUserSession, InFlight, asked
  <1>13. CASE CommitChange(r) \/ CreateUser(r) \/ InsertAudit(r)
    BY <1>3, <1>4, <1>13 DEF CommitChange, CreateUser, InsertAudit, InFlight, asked
  <1>14. CASE ReadLoginUser(r) \/ ReadLoginRoles(r) \/ FindBrowserSessions(r)
    BY <1>3, <1>4, <1>6, <1>14 DEF ReadLoginUser, ReadLoginRoles, FindBrowserSessions, InFlight, asked
  <1>15. CASE RevokeBrowserSession(r)
    BY <1>4, <1>5, <1>6, <1>15 DEF RevokeBrowserSession, InFlight, asked
  <1>16. CASE CreateSession(r) \/ Logout(r) \/ Fail(r)
    BY <1>3, <1>16 DEF CreateSession, Logout, Fail, InFlight, asked
  <1> QED
    BY <1>7, <1>8, <1>9, <1>10, <1>11, <1>12, <1>13, <1>14, <1>15, <1>16 DEF Proceed, BreakDeadlock

\* Revoking, expiring and stamping settle; so does a new session of the request itself.
LEMMA ProceedSettles ==
    ASSUME Typed, SessionInv, NEW r \in Requests, Proceed(r) \/ Fail(r)
    PROVE  /\ Settled(r)
           /\ sessions[r].state = "none"
           /\ sessions'[r].state # "none" => pc'[r] = "done"
  <1>1. r \in InFlight /\ sessions[r].state = "none"
    BY ProceedIsOwn DEF SessionInv, SessionsOK, InFlight
  <1>2. sessions \in [Requests -> SessionState] /\ pc \in [Requests -> Labels]
    BY DEF Typed, TypeOK, SessionState
  <1>3. ASSUME NEW ids, sessions' = WithState(ids, "revoked"),
               \A s \in ids : s \in Requests => sessions[s].state # "none"
        PROVE  Settled(r) /\ sessions'[r].state = "none"
    BY <1>1, <1>2, <1>3 DEF WithState, Settled, SessionState
  <1>4. CASE UNCHANGED sessions
    BY <1>1, <1>4 DEF Settled
  <1>5. CASE CommitChange(r)
    BY <1>1, <1>3, <1>5 DEF CommitChange, OpenSessions
  <1>6. CASE RevokeBrowserSession(r)
    <2>1. PICK s \in Wanted(r) :
            UNCHANGED sessions \/ sessions' = WithState(Revoking(r, s).revoked \cap OpenSessions, "revoked")
      BY <1>6 DEF RevokeBrowserSession
    <2> DEFINE ids == Revoking(r, s).revoked \cap OpenSessions
    <2>2. \A t \in ids : t \in Requests => sessions[t].state # "none"
      BY DEF OpenSessions
    <2>3. UNCHANGED sessions \/ sessions' = WithState(ids, "revoked")
      BY <2>1
    <2> HIDE DEF ids
    <2> QED
      BY <1>1, <1>3, <1>4, <2>2, <2>3
  <1>7. CASE Logout(r)
    <2> DEFINE ids == {req[r].session}
    <2>1. sessions' = WithState(ids, "revoked")
      BY <1>7 DEF Logout
    <2>2. \A s \in ids : s \in Requests => sessions[s].state # "none"
      BY <1>7 DEF Logout, SessionInv, SessionsOK
    <2> HIDE DEF ids
    <2> QED
      BY <1>1, <1>3, <2>1, <2>2
  <1>8. CASE CreateSession(r)
    <2>1. pc'[r] = "done"
      BY <1>2, <1>8 DEF CreateSession, Return, Goto
    <2>2. Settled(r)
      BY <1>1, <1>2, <1>8 DEF CreateSession, Settled
    <2> QED
      BY <1>1, <2>1, <2>2
  <1> QED
    BY <1>4, <1>5, <1>6, <1>7, <1>8, QuietSteps DEF tables

\* The other requests' part of the invariant holds after a step of r.
LEMMA SessionsOfOthers ==
    ASSUME Typed, SessionInv, NEW r \in Requests, StepOf(r), Settled(r), NEW q \in Requests \ {r}
    PROVE  SessionsOK(q)'
  <1>1. SessionsOK(q) /\ pc'[q] = pc[q] /\ req'[q] = req[q] /\ work'[q] = work[q] /\ answer'[q] = answer[q]
    BY DEF SessionInv, StepOf
  <1>2. work[q].openBefore \in SUBSET Requests
    BY DEF Typed, TypeOK
  <1>3. pc[q] = "logout" => req[q].session \in Requests
    BY RequestFacts DEF Typed, LabelOK, Fits
  <1>4. work[q].openBefore \cap OpenSessions' \subseteq OpenSessions
    BY <1>1, <1>2 DEF SessionsOK, Settled, OpenSessions
  <1> QED
    BY <1>1, <1>2, <1>3, <1>4 DEF SessionsOK, Settled

\* A request that arrives finds sessions that exist, and has revoked none of them yet.
LEMMA SessionsReceive ==
    ASSUME Typed, SessionInv, NEW r \in Requests, NEW b \in Bodies, Receive(r, b)
    PROVE  SessionInv'
  <1>1. /\ pc \in [Requests -> Labels] /\ work \in [Requests -> WorkState]
        /\ req \in [Requests -> Bodies \cup {NoRequest}]
    BY DEF Typed, TypeOK, WorkState
  <1>2. StepOf(r)
    BY <1>1 DEF Receive, StepOf, Goto, Keep
  <1>3. UNCHANGED <<sessions, answer>> /\ Settled(r) /\ answer[r] = "none"
    BY DEF Receive, tables, Settled, Typed, LabelOK
  <1>4. req'[r] = b /\ work'[r].openBefore = IF b.op \in {"roles", "deactivate"} THEN SessionsOf(b.user) ELSE {}
    BY <1>1 DEF Receive, Keep, NoWork
  <1>5. pc'[r] \notin {"revoke", "audit", "commit"} /\ (pc'[r] = "logout" => b.op = "logout" /\ b.session \in OpenSessions)
    BY <1>1, BodyFacts DEF Receive, Goto, AdminOps
  <1>6. sessions[r].state = "none"
    BY DEF Receive, SessionInv, SessionsOK
  <1>7. SessionsOK(r)'
    BY <1>3, <1>4, <1>5, <1>6 DEF SessionsOK, SessionsOf, OpenSessions
  <1> QED
    BY <1>2, <1>3, <1>7, SessionsOfOthers DEF SessionInv

\* What a change has found open when it is told "ok" has been revoked by its commit.
LEMMA SessionsProceed ==
    ASSUME Typed, SessionInv, NEW r \in Requests, Proceed(r) \/ Fail(r)
    PROVE  SessionInv'
  <1>1. /\ StepOf(r) /\ UNCHANGED asked /\ r \in InFlight /\ work'[r].openBefore = work[r].openBefore
        /\ Settled(r) /\ sessions[r].state = "none" /\ (sessions'[r].state # "none" => pc'[r] = "done")
    BY ProceedIsOwn, ProceedSettles
  <1>2. /\ pc \in [Requests -> Labels] /\ work \in [Requests -> WorkState] /\ answer \in [Requests -> Answers]
        /\ sessions \in [Requests -> SessionState]
    BY DEF Typed, TypeOK, WorkState, Answers, SessionState
  <1>3. req'[r] = req[r] /\ SessionsOK(r) /\ work[r].openBefore \in SUBSET Requests /\ Fits(req[r], pc[r])
    BY <1>1, <1>2 DEF SessionInv, Typed, LabelOK, asked, WorkState
  <1>4. pc'[r] # "logout"
    BY <1>1, <1>2 DEF Proceed, BreakDeadlock, Fail, Return, Goto, InFlight, ReadUser, FindActiveAdmins,
         LockActiveAdmin, GuardLastActiveAdmin, Guarded, FindBindings, DeleteBinding, InsertBinding, CheckReference,
         UpdateActive, FindUserSessions, RevokeUserSession, CommitChange, CreateUser, InsertAudit, ReadLoginUser,
         ReadLoginRoles, FindBrowserSessions, RevokeBrowserSession, CreateSession, Logout
  <1>5. /\ pc'[r] = "revoke" => work'[r].openBefore \cap OpenSessions' \subseteq work'[r].rows \cup work'[r].revoked
        /\ pc'[r] \in {"audit", "commit"} /\ req[r].op \in {"roles", "deactivate"} =>
             work'[r].openBefore \cap OpenSessions' \subseteq work'[r].revoked
    <2>1. CASE pc'[r] \notin {"revoke", "audit", "commit"}
      BY <2>1
    <2>2. CASE FindUserSessions(r)
      <3>1. /\ work'[r].rows = SessionsOf(req[r].user) /\ UNCHANGED sessions /\ pc[r] = "sessions"
            /\ pc'[r] = IF SessionsOf(req[r].user) = {} THEN "audit" ELSE "revoke"
        BY <1>2, <2>2 DEF FindUserSessions, Goto, Keep, tables, WorkState
      <3>2. work[r].openBefore \cap OpenSessions \subseteq SessionsOf(req[r].user)
        BY <1>3 DEF SessionsOK, SessionsOf, OpenSessions
      <3> QED
        BY <1>1, <3>1, <3>2 DEF OpenSessions
    <2>3. CASE RevokeUserSession(r)
      <3>1. pc[r] = "revoke" /\ UNCHANGED sessions /\ work[r] \in WorkState
        BY <1>2, <2>3 DEF RevokeUserSession, tables
      <3>2. PICK s \in work[r].rows :
              work'[r] = Revoking(r, s) /\ pc'[r] = IF work[r].rows = {s} THEN "audit" ELSE "revoke"
        BY <1>2, <2>3, <3>1, WantedIs DEF RevokeUserSession, Goto, Keep
      <3>3. work'[r].rows = work[r].rows \ {s} /\ (s \in OpenSessions => s \in work'[r].revoked)
            /\ work[r].revoked \subseteq work'[r].revoked
        BY <3>1, <3>2 DEF Revoking, WorkState, OpenSessions
      <3>4. work[r].openBefore \cap OpenSessions \subseteq work[r].rows \cup work[r].revoked /\ OpenSessions' = OpenSessions
        BY <1>3, <3>1 DEF SessionsOK, OpenSessions
      <3> QED
        BY <1>1, <3>2, <3>3, <3>4
    <2>4. CASE InsertAudit(r)
      <3>1. pc[r] = "audit" /\ pc'[r] = "commit" /\ work' = work /\ UNCHANGED sessions
        BY <1>2, <2>4 DEF InsertAudit, Goto, tables
      <3> QED
        BY <1>3, <3>1 DEF SessionsOK, OpenSessions
    <2>5. CASE UpdateActive(r) \/ CreateUser(r)
      <3>1. pc'[r] \notin {"revoke", "commit"} /\ (pc'[r] = "audit" => req[r].op \notin {"roles", "deactivate"})
        BY <1>2, <1>3, <2>5 DEF UpdateActive, CreateUser, Goto, Return, Fits
      <3> QED
        BY <3>1
    <2> QED
      BY <1>1, <1>2, <2>1, <2>2, <2>3, <2>4, <2>5
         DEF Proceed, BreakDeadlock, Fail, Return, Goto, InFlight, ReadUser, FindActiveAdmins,
         LockActiveAdmin, GuardLastActiveAdmin, Guarded, FindBindings, DeleteBinding, InsertBinding, CheckReference,
         CommitChange, ReadLoginUser, ReadLoginRoles, FindBrowserSessions, RevokeBrowserSession, CreateSession, Logout
  <1>6. ASSUME answer'[r] = "ok", req[r].op \in {"roles", "deactivate"}
        PROVE  work'[r].openBefore \cap OpenSessions' = {}
    <2>1. answer[r] = "none"
      BY <1>1 DEF Typed, LabelOK, InFlight
    <2>2. CommitChange(r) \/ CreateSession(r) \/ Logout(r)
      BY <1>2, <1>6, <2>1 DEF Proceed, BreakDeadlock, Fail, Return, ReadUser, FindActiveAdmins,
         LockActiveAdmin, GuardLastActiveAdmin, FindBindings, DeleteBinding, InsertBinding, CheckReference,
         UpdateActive, FindUserSessions, RevokeUserSession, CreateUser, InsertAudit, ReadLoginUser,
         ReadLoginRoles, FindBrowserSessions, RevokeBrowserSession
    <2>3. CommitChange(r)
      BY <1>3, <1>6, <2>2 DEF CreateSession, Logout, Fits
    <2>4. sessions' = WithState(work[r].revoked \cap OpenSessions, "revoked") /\ pc[r] = "commit"
      BY <2>3 DEF CommitChange
    <2> QED
      BY <1>1, <1>2, <1>3, <1>6, <2>4 DEF SessionsOK, OpenSessions, WithState, SessionState
  <1>7. SessionsOK(r)'
    BY <1>1, <1>3, <1>4, <1>5, <1>6 DEF SessionsOK, Settled
  <1> QED
    BY <1>1, <1>7, SessionsOfOthers DEF SessionInv

\* A session that expires, Expire, disturbs nothing that is said of sessions.
LEMMA SessionsExpire ==
    ASSUME Typed, SessionInv, NEW s \in Requests, Expire(s)
    PROVE  SessionInv'
  <1>1. sessions \in [Requests -> SessionState]
    BY DEF Typed, TypeOK, SessionState
  <1>2. sessions' = WithState({s}, "expired") /\ sessions[s].state = "live"
    BY DEF Expire, OpenSessions
  <1>3. Settled(s) /\ sessions'[s].state = "expired"
    BY <1>1, <1>2 DEF Settled, WithState, SessionState
  <1>4. StepOf(s) /\ UNCHANGED <<pc, req, work, answer>>
    BY DEF Expire, StepOf, asked
  <1>5. pc[s] = "done" /\ work[s].openBefore \in SUBSET Requests
    BY <1>2 DEF SessionInv, SessionsOK, Typed, TypeOK
  <1>6. SessionsOK(s)'
    BY <1>3, <1>4, <1>5 DEF SessionInv, SessionsOK, Settled, OpenSessions
  <1> QED
    BY <1>3, <1>4, <1>6, SessionsOfOthers DEF SessionInv

\* No step of Next does.
LEMMA SessionsStep == Typed /\ SessionInv /\ [Next]_vars => SessionInv'
  <1> SUFFICES ASSUME Typed, SessionInv, [Next]_vars PROVE SessionInv'
    OBVIOUS
  <1>1. CASE UNCHANGED vars
    BY <1>1 DEF vars, SessionInv, SessionsOK, OpenSessions
  <1> QED
    BY <1>1, SessionsReceive, SessionsProceed, SessionsExpire DEF Next, Idle

\* Before any request there are no sessions.
LEMMA SessionsInit == Init => SessionInv
  BY DEF Init, SessionInv, SessionsOK, NoSession, NoRequest, NoWork

\* The sessions a user had open when a role change or a deactivation arrived are
\* dead once it has succeeded, whatever logs in and out meanwhile.
THEOREM SessionsAreRevoked == Spec => []EarlierSessionsRevoked
  <1>1. Spec => [](Typed /\ SessionInv)
    BY TypedInit, TypedStep, SessionsInit, SessionsStep, PTL DEF Spec
  <1>2. SessionInv => EarlierSessionsRevoked
    BY DEF SessionInv, SessionsOK, EarlierSessionsRevoked
  <1> QED
    BY <1>1, <1>2, PTL

----------------------------------------------------------------------------
(* Role changes *)

\* The places of the changes of u among ch, rq being the requests; and the last of them.
ChangesOf(ch, rq, u) == {i \in DOMAIN ch : rq[ch[i]].user = u}
IsLatest(ch, rq, u, i) == i \in ChangesOf(ch, rq, u) /\ \A j \in ChangesOf(ch, rq, u) : j <= i
LatestIn(ch, rq, u) ==
    IF ChangesOf(ch, rq, u) = {} THEN InitialRoles[u]
    ELSE rq[ch[CHOOSE i \in ChangesOf(ch, rq, u) : \A j \in ChangesOf(ch, rq, u) : j <= i]].roles

\* The choice of LatestChange is the last one.
LEMMA LatestAt ==
    ASSUME NEW ch \in Seq(Requests), NEW rq, NEW u, NEW i, IsLatest(ch, rq, u, i)
    PROVE  LatestIn(ch, rq, u) = rq[ch[i]].roles
  <1> DEFINE of == ChangesOf(ch, rq, u)
             c == CHOOSE k \in of : \A j \in of : j <= k
  <1>1. i \in of /\ \A j \in of : j <= i
    BY DEF IsLatest
  <1>2. c \in of /\ \A j \in of : j <= c
    BY <1>1
  <1>3. of \subseteq Int
    BY DEF ChangesOf
  <1>4. c = i
    <2>1. c <= i /\ i <= c /\ c \in Int /\ i \in Int
      BY <1>1, <1>2, <1>3
    <2> QED
      BY <2>1
  <1>5. of # {}
    BY <1>1
  <1> QED
    BY <1>4, <1>5 DEF LatestIn

\* The roles of u come from its last change, or from the beginning, and from
\* nowhere else while requests do not overlap.
Granted(u) ==
    \/ /\ ChangesOf(changes, req, u) = {}
       /\ InitialRoles[u] \subseteq RolesOf(u)
       /\ ~overlapped => RolesOf(u) = InitialRoles[u]
    \/ \E i \in DOMAIN changes :
         /\ IsLatest(changes, req, u, i)
         /\ req[changes[i]].roles \subseteq RolesOf(u)
         /\ ~overlapped => RolesOf(u) = req[changes[i]].roles

RolesInv ==
    /\ \A i \in DOMAIN changes : pc[changes[i]] = "done"
    /\ \A u \in Users : Granted(u)

\* What the invariant says of the last change is what the property says.
LEMMA RolesInvMeans == Typed /\ RolesInv => RolesAsRequested
  <1> SUFFICES ASSUME Typed, RolesInv, NEW u \in Users
               PROVE  LatestChange(u) \subseteq RolesOf(u) /\ (~overlapped => RolesOf(u) = LatestChange(u))
    BY DEF RolesAsRequested
  <1>1. LatestChange(u) = LatestIn(changes, req, u)
    BY DEF LatestChange, LatestIn, ChangesOf
  <1>2. changes \in Seq(Requests) /\ Granted(u)
    BY DEF Typed, TypeOK, RolesInv
  <1>3. CASE ChangesOf(changes, req, u) = {}
    <2>1. LatestIn(changes, req, u) = InitialRoles[u]
      BY <1>3 DEF LatestIn
    <2> QED
      BY <1>1, <1>2, <1>3, <2>1 DEF Granted, IsLatest
  <1>4. CASE ChangesOf(changes, req, u) # {}
    <2>1. PICK i \in DOMAIN changes :
             /\ IsLatest(changes, req, u, i)
             /\ req[changes[i]].roles \subseteq RolesOf(u)
             /\ ~overlapped => RolesOf(u) = req[changes[i]].roles
      BY <1>2, <1>4 DEF Granted
    <2>2. LatestIn(changes, req, u) = req[changes[i]].roles
      BY <1>2, <2>1, LatestAt
    <2> QED
      BY <1>1, <2>1, <2>2
  <1> QED
    BY <1>3, <1>4

\* Nothing changes for a user whose bindings and changes stay.
LEMMA GrantedStays ==
    ASSUME NEW u \in Users, Granted(u), RolesOf(u)' = RolesOf(u), overlapped => overlapped',
           DOMAIN changes' = DOMAIN changes,
           \A i \in DOMAIN changes : changes'[i] = changes[i] /\ req'[changes[i]] = req[changes[i]]
    PROVE  Granted(u)'
  <1>1. ChangesOf(changes, req, u)' = ChangesOf(changes, req, u)
    BY DEF ChangesOf
  <1>2. \A i : IsLatest(changes, req, u, i)' <=> IsLatest(changes, req, u, i)
    BY <1>1 DEF IsLatest
  <1> QED
    BY <1>1, <1>2 DEF Granted

\* A change of r is the last one of its user, and none of the others.
LEMMA GrantedAppends ==
    ASSUME Typed, RolesInv, NEW r \in Requests, UNCHANGED <<req, overlapped>>, changes' = Append(changes, r),
           req[r].user \in Users,
           req[r].roles \subseteq RolesOf(req[r].user)', ~overlapped => RolesOf(req[r].user)' = req[r].roles,
           \A v \in Users \ {req[r].user} : RolesOf(v)' = RolesOf(v),
           NEW u \in Users
    PROVE  Granted(u)'
  <1> DEFINE n == Len(changes) + 1
  <1>1. changes \in Seq(Requests)
    BY DEF Typed, TypeOK
  <1>2. /\ DOMAIN changes = 1..Len(changes) /\ DOMAIN changes' = 1..n /\ changes'[n] = r
        /\ \A i \in DOMAIN changes : changes'[i] = changes[i]
        /\ Len(changes) \in Nat
    BY <1>1
  <1>3. CASE u = req[r].user
    <2>1. IsLatest(changes', req', u, n)
      BY <1>2, <1>3 DEF IsLatest, ChangesOf
    <2>2. n \in DOMAIN changes'
      BY <1>2
    <2> QED
      BY <1>2, <1>3, <2>1, <2>2 DEF Granted
  <1>4. CASE u # req[r].user
    <2>1. ChangesOf(changes', req', u) = ChangesOf(changes, req, u)
      BY <1>2, <1>4 DEF ChangesOf
    <2>2. \A i : IsLatest(changes', req', u, i) <=> IsLatest(changes, req, u, i)
      BY <2>1 DEF IsLatest
    <2>3. \A i \in DOMAIN changes : i \in DOMAIN changes' /\ changes'[i] = changes[i]
      BY <1>2
    <2>4. RolesOf(u)' = RolesOf(u) /\ Granted(u)
      BY <1>4 DEF RolesInv
    <2> QED
      BY <2>1, <2>2, <2>3, <2>4 DEF Granted
  <1> QED
    BY <1>3, <1>4

----------------------------------------------------------------------------
(* Requests that come one after the other *)

\* A change that takes the role or the activity of an administrator from its user.
Removing(b) == b.op = "deactivate" \/ (b.op = "roles" /\ "admin" \notin b.roles)

\* What the request in flight has read is still so.
SerialOK(r) ==
    LET u == req[r].user IN
    /\ pc[r] \in Changing \ {"read"} => (req[r].op = "create" <=> userState[u] = "absent")
    /\ pc[r] = "lock" => work[r].admins \subseteq ActiveAdmins
    /\ pc[r] \in Changing \ {"read", "guard", "lock"} /\ Removing(req[r]) => ActiveAdmins \ {u} # {}
    /\ pc[r] \in {"read", "guard", "lock", "snapshot"} => work[r].deleted = {}
    /\ pc[r] = "delete" => work[r].snapshot \cup work[r].deleted = bindings[u]
    /\ pc[r] \in {"insert", "reference", "sessions", "revoke", "audit", "commit"} /\ req[r].op = "roles"
         => work[r].deleted = bindings[u]
    /\ pc[r] = "revoke" /\ req[r].op = "deactivate" => SessionsOf(u) \subseteq work[r].rows \cup work[r].revoked
    /\ pc[r] \in {"audit", "commit"} /\ req[r].op = "deactivate" => SessionsOf(u) \subseteq work[r].revoked
    /\ pc[r] \in {"list_roles", "browser_sessions", "browser", "session"} => userState[u] = "active"
    /\ pc[r] = "browser" =>
         \A s \in OpenSessions : sessions[s].browser = req[r].browser => s \in work[r].rows \cup work[r].revoked
    /\ pc[r] = "session" /\ ~allow_multiple_identities =>
         \A s \in OpenSessions : sessions[s].browser # req[r].browser

OneBrowserEach ==
    ~allow_multiple_identities =>
      \A s, t \in OpenSessions : sessions[s].browser = sessions[t].browser => sessions[s].user = sessions[t].user

\* Tables that nobody is changing.
AtRest ==
    /\ ActiveAdmins # {}
    /\ \A u \in Users : userState[u] = "absent" => bindings[u] = {}
    /\ OneBrowserEach
    /\ \A s \in OpenSessions : sessions[s].user \in Users /\ userState[sessions[s].user] = "active"

SerialInv ==
    ~overlapped =>
      /\ AtRest
      /\ \A q, r \in InFlight : q = r
      /\ \A r \in Requests : SerialOK(r)

\* More than one of a set: there is another one than u.
LEMMA AnotherOne ==
    ASSUME NEW S \in SUBSET Users, ~(Cardinality(S) <= 1), NEW u
    PROVE  \E v \in S : v # u
  <1> SUFFICES ASSUME \A v \in S : v = u PROVE FALSE
    OBVIOUS
  <1>1. IsFiniteSet({u}) /\ Cardinality({u}) = 1
    BY FS_Singleton
  <1>2. S \subseteq {u}
    OBVIOUS
  <1>3. Cardinality(S) <= Cardinality({u})
    BY <1>1, <1>2, FS_Subset
  <1> QED
    BY <1>1, <1>3

\* The first state is at rest, and the roles are the initial ones.
LEMMA SerialInit == Init => SerialInv /\ RolesInv
  <1> SUFFICES ASSUME Init PROVE SerialInv /\ RolesInv
    OBVIOUS
  <1>1. \A u \in Users : RolesOf(u) = InitialRoles[u]
    <2> TAKE u \in Users
    <2>1. bindings[u] = {[role |-> x, by |-> None] : x \in InitialRoles[u]}
      BY DEF Init
    <2>2. \A row \in bindings[u] : row.role \in InitialRoles[u]
      BY <2>1
    <2>3. \A x \in InitialRoles[u] : \E row \in bindings[u] : row.role = x
      <3> TAKE x \in InitialRoles[u]
      <3>1. [role |-> x, by |-> None] \in bindings[u] /\ [role |-> x, by |-> None].role = x
        BY <2>1
      <3> QED
        BY <3>1
    <2> QED
      BY <2>2, <2>3 DEF RolesOf
  <1>2. ActiveAdmins # {}
    <2>1. PICK u \in Users : "admin" \in InitialRoles[u]
      BY UsersAssumption
    <2>2. userState[u] = "active"
      BY <2>1 DEF Init
    <2> QED
      BY <1>1, <2>1, <2>2 DEF ActiveAdmins
  <1>3. OpenSessions = {} /\ InFlight = {} /\ \A r \in Requests : pc[r] = "idle"
    BY DEF Init, OpenSessions, NoSession, InFlight
  <1>6. \A u \in Users : userState[u] = "absent" => bindings[u] = {}
    BY DEF Init
  <1>4. SerialInv
    BY <1>2, <1>3, <1>6 DEF SerialInv, SerialOK, AtRest, OneBrowserEach, Changing
  <1>5. RolesInv
    BY <1>1 DEF Init, RolesInv, Granted, ChangesOf
  <1> QED
    BY <1>4, <1>5

\* A request that arrives alone has read nothing yet.
LEMMA SerialReceive ==
    ASSUME Typed, SerialInv, RolesInv, NEW r \in Requests, NEW b \in Bodies, Receive(r, b)
    PROVE  SerialInv' /\ RolesInv'
  <1>1. /\ pc \in [Requests -> Labels] /\ req \in [Requests -> Bodies \cup {NoRequest}]
        /\ overlapped \in BOOLEAN /\ changes \in Seq(Requests)
    BY DEF Typed, TypeOK
  <1>2. pc[r] = "idle" /\ UNCHANGED tables /\ overlapped' = (overlapped \/ InFlight # {})
        /\ req' = [req EXCEPT ![r] = b]
    BY DEF Receive
  <1>3. RolesInv'
    <2>1. \A i \in DOMAIN changes : changes[i] \in Requests \ {r}
      BY <1>1, <1>2 DEF RolesInv
    <2>2. \A i \in DOMAIN changes : req'[changes[i]] = req[changes[i]] /\ pc'[changes[i]] = "done"
      BY <1>1, <1>2, <2>1 DEF RolesInv, Receive, Goto
    <2>3. \A u \in Users : Granted(u)'
      <3> TAKE u \in Users
      <3>1. RolesOf(u)' = RolesOf(u) /\ Granted(u)
        BY <1>2 DEF RolesOf, tables, RolesInv
      <3> QED
        BY <1>2, <2>2, <3>1, GrantedStays DEF tables
    <2> QED
      BY <1>2, <2>2, <2>3 DEF RolesInv, tables
  <1>4. ASSUME ~overlapped' PROVE AtRest' /\ (\A p, q \in InFlight' : p = q) /\ \A q \in Requests : SerialOK(q)'
    <2>1. ~overlapped /\ InFlight = {}
      BY <1>2, <1>4
    <2>2. AtRest'
      BY <1>2, <2>1 DEF SerialInv, AtRest, OneBrowserEach, OpenSessions, ActiveAdmins, RolesOf, tables
    <2>3. \A q \in Requests \ {r} : pc'[q] = pc[q] /\ pc[q] \in {"idle", "done"}
      BY <1>1, <2>1 DEF Receive, Goto, InFlight
    <2>4. pc'[r] \in {"read", "create", "login", "logout"}
      BY <1>1, BodyFacts DEF Receive, Goto, AdminOps
    <2>5. \A q \in Requests : pc'[q] \in {"idle", "done", "read", "create", "login", "logout"}
      BY <2>3, <2>4
    <2>6. work'[r].deleted = {}
      BY DEF Receive, Keep, NoWork, Typed, TypeOK
    <2>7. \A q \in Requests : pc'[q] = "read" => work'[q].deleted = {}
      BY <2>3, <2>6
    <2> QED
      BY <2>2, <2>3, <2>5, <2>7 DEF InFlight, SerialOK, Changing
  <1> QED
    BY <1>3, <1>4 DEF SerialInv

\* Only the request in flight has a part in the invariant.
LEMMA SerialOthers ==
    ASSUME Typed, SerialInv, ~overlapped, NEW r \in InFlight, StepOf(r), AtRest', SerialOK(r)'
    PROVE  (\A p, q \in InFlight' : p = q) /\ \A q \in Requests : SerialOK(q)'
  <1>1. \A q \in Requests \ {r} : pc[q] \in {"idle", "done"} /\ pc'[q] = pc[q]
    BY DEF SerialInv, StepOf, InFlight
  <1>2. \A q \in Requests \ {r} : SerialOK(q)'
    BY <1>1 DEF SerialOK, Changing
  <1> QED
    BY <1>1, <1>2 DEF InFlight

\* While the tables stay, so does what is true of them.
LEMMA RestStays ==
    ASSUME UNCHANGED tables
    PROVE  /\ AtRest => AtRest'
           /\ ActiveAdmins' = ActiveAdmins /\ OpenSessions' = OpenSessions
           /\ \A u : RolesOf(u)' = RolesOf(u) /\ SessionsOf(u)' = SessionsOf(u)
  BY DEF AtRest, OneBrowserEach, OpenSessions, SessionsOf, ActiveAdmins, RolesOf, tables

\* What a request that is alone in flight starts from.
LEMMA SerialFacts ==
    ASSUME Typed, SerialInv, ~overlapped, NEW r \in Requests, Proceed(r) \/ Fail(r), pc[r] \in Changing \cup {"create"}
    PROVE  /\ pc \in [Requests -> Labels] /\ work \in [Requests -> WorkState] /\ work[r] \in WorkState
           /\ req[r].user \in Users /\ Fits(req[r], pc[r]) /\ req[r].op \in AdminOps
           /\ userState \in [Users -> {"absent", "active", "inactive"}] /\ bindings \in [Users -> SUBSET Row]
           /\ sessions \in [Requests -> SessionState]
           /\ AtRest /\ SerialOK(r) /\ UNCHANGED req
  <1>1. req[r].op \in AdminOps /\ req[r].user \in Users
    BY RequestFacts DEF Fits, Changing, AdminOps
  <1>2. UNCHANGED req
    BY ProceedIsOwn DEF asked
  <1> QED
    BY <1>1, <1>2 DEF Typed, TypeOK, LabelOK, WorkState, SessionState, SerialInv

\* The guard of a request that is alone counts the administrators there are.
LEMMA SerialGuard ==
    ASSUME Typed, SerialInv, ~overlapped, NEW r \in Requests,
           ReadUser(r) \/ FindActiveAdmins(r) \/ LockActiveAdmin(r) \/ GuardLastActiveAdmin(r)
    PROVE  AtRest' /\ SerialOK(r)'
  <1> DEFINE u == req[r].user
  <1>1. UNCHANGED tables /\ pc[r] \in {"read", "guard", "lock"}
    BY DEF ReadUser, FindActiveAdmins, LockActiveAdmin, GuardLastActiveAdmin
  <1>2. /\ pc \in [Requests -> Labels] /\ work \in [Requests -> WorkState] /\ work[r] \in WorkState
        /\ u \in Users /\ Fits(req[r], pc[r]) /\ req[r].op \in AdminOps
        /\ userState \in [Users -> {"absent", "active", "inactive"}] /\ AtRest /\ SerialOK(r) /\ UNCHANGED req
    BY <1>1, SerialFacts DEF Proceed, Changing
  <1>3. AtRest' /\ ActiveAdmins' = ActiveAdmins /\ userState' = userState
    BY <1>1, <1>2, RestStays DEF tables
  <1>4. CASE pc'[r] = "done"
    BY <1>3, <1>4 DEF SerialOK, Changing
  <1>5. work[r].deleted = {} /\ req[r].op # "create"
    BY <1>1, <1>2 DEF SerialOK, Fits
  <1>6. CASE ReadUser(r) /\ pc'[r] # "done"
    <2> DEFINE known == IF userState[u] = "active" THEN RolesOf(u) ELSE {}
               removing == "admin" \in known /\ Removing(req[r])
    <2>1. /\ pc'[r] = IF removing THEN "guard" ELSE IF req[r].op = "roles" THEN "snapshot" ELSE "update"
          /\ work' = work /\ userState[u] # "absent"
      BY <1>2, <1>6 DEF ReadUser, Goto, Return, Removing
    <2>2. Removing(req[r]) /\ ~removing => ActiveAdmins \ {u} # {}
      BY <1>2 DEF ActiveAdmins, AtRest
    <2> QED
      BY <1>2, <1>3, <1>5, <2>1, <2>2 DEF SerialOK, Changing
  <1>7. CASE FindActiveAdmins(r)
    <2>1. pc'[r] = "lock" /\ work'[r] = [work[r] EXCEPT !.admins = ActiveAdmins] /\ pc[r] = "guard"
      BY <1>2, <1>7 DEF FindActiveAdmins, Goto, Keep
    <2>2. work'[r].admins = ActiveAdmins /\ work'[r].deleted = work[r].deleted
      BY <1>2, <2>1 DEF WorkState
    <2> QED
      BY <1>2, <1>3, <1>5, <2>1, <2>2 DEF SerialOK, Changing
  <1>8. CASE LockActiveAdmin(r)
    <2>1. PICK v \in Wanted(r) : work'[r] = [work[r] EXCEPT !.locked = @ \cup {v}]
      BY <1>2, <1>8 DEF LockActiveAdmin, Keep
    <2>2. pc[r] = "lock" /\ pc'[r] = "lock"
      BY <1>8 DEF LockActiveAdmin
    <2>3. work'[r].admins = work[r].admins /\ work'[r].deleted = work[r].deleted
      BY <1>2, <2>1 DEF WorkState
    <2> QED
      BY <1>2, <1>3, <1>5, <2>2, <2>3 DEF SerialOK, Changing
  <1>9. CASE GuardLastActiveAdmin(r) /\ pc'[r] # "done"
    <2> DEFINE found == {v \in work[r].admins : userState[v] = "active"}
    <2>1. pc[r] = "lock" /\ pc'[r] \in {"snapshot", "update"} /\ ~(Cardinality(found) <= 1) /\ work' = work
      BY <1>2, <1>9 DEF GuardLastActiveAdmin, Guarded, Goto, Return
    <2>2. found \in SUBSET Users
      BY <1>2 DEF WorkState
    <2>3. PICK v \in found : v # u
      BY <2>1, <2>2, AnotherOne
    <2>4. v \in ActiveAdmins
      BY <1>2, <2>1, <2>3 DEF SerialOK
    <2>5. userState[u] # "absent"
      BY <1>2, <1>5, <2>1 DEF SerialOK, Changing
    <2> QED
      BY <1>2, <1>3, <1>5, <2>1, <2>3, <2>4, <2>5 DEF SerialOK, Changing
  <1> QED
    BY <1>3, <1>4, <1>6, <1>7, <1>8, <1>9

\* Where the request that is alone deletes, inserts, updates and revokes, it finds
\* what it has found before.
LEMMA SerialWrite ==
    ASSUME Typed, SerialInv, ~overlapped, NEW r \in Requests,
           \/ FindBindings(r) \/ DeleteBinding(r) \/ InsertBinding(r) \/ CheckReference(r) \/ UpdateActive(r)
           \/ FindUserSessions(r) \/ RevokeUserSession(r) \/ CreateUser(r) \/ InsertAudit(r)
    PROVE  AtRest' /\ SerialOK(r)'
  <1> DEFINE u == req[r].user
  <1>1. /\ UNCHANGED tables
        /\ pc[r] \in {"snapshot", "delete", "insert", "reference", "update", "sessions", "revoke", "create", "audit"}
    BY DEF FindBindings, DeleteBinding, InsertBinding, CheckReference, UpdateActive, FindUserSessions,
           RevokeUserSession, CreateUser, InsertAudit
  <1>2. /\ pc \in [Requests -> Labels] /\ work \in [Requests -> WorkState] /\ work[r] \in WorkState
        /\ u \in Users /\ Fits(req[r], pc[r]) /\ req[r].op \in AdminOps
        /\ AtRest /\ SerialOK(r) /\ UNCHANGED req
    BY <1>1, SerialFacts DEF Proceed, Changing
  <1>3. /\ AtRest' /\ ActiveAdmins' = ActiveAdmins /\ userState' = userState /\ bindings' = bindings
        /\ SessionsOf(u)' = SessionsOf(u) /\ OpenSessions' = OpenSessions /\ sessions' = sessions
    BY <1>1, <1>2, RestStays DEF tables
  <1>4. CASE pc'[r] = "done"
    BY <1>3, <1>4 DEF SerialOK, Changing
  <1>5. /\ pc[r] # "create" => (req[r].op = "create" <=> userState[u] = "absent")
        /\ pc[r] # "create" /\ Removing(req[r]) => ActiveAdmins \ {u} # {}
    BY <1>1, <1>2 DEF SerialOK, Changing
  <1>6. CASE FindBindings(r)
    <2>1. /\ pc[r] = "snapshot" /\ pc'[r] = IF bindings[u] = {} THEN "insert" ELSE "delete"
          /\ work'[r] = [work[r] EXCEPT !.snapshot = bindings[u]]
      BY <1>2, <1>6 DEF FindBindings, Goto, Keep
    <2>2. work'[r].snapshot = bindings[u] /\ work'[r].deleted = {}
      BY <1>2, <2>1 DEF WorkState, SerialOK
    <2> QED
      BY <1>2, <1>3, <1>5, <2>1, <2>2 DEF SerialOK, Changing, Fits
  <1>7. CASE DeleteBinding(r)
    <2>0. pc[r] = "delete" /\ Wanted(r) = work[r].snapshot
      BY <1>7, WantedIs DEF DeleteBinding
    <2>1. PICK row \in work[r].snapshot :
            /\ work'[r] = [work[r] EXCEPT !.snapshot = @ \ {row}, !.deleted = @ \cup ({row} \cap bindings[u])]
            /\ pc'[r] = IF work[r].snapshot = {row} THEN "insert" ELSE "delete"
      BY <1>2, <1>7, <2>0 DEF DeleteBinding, Goto, Keep
    <2>2. /\ work'[r].snapshot = work[r].snapshot \ {row}
          /\ work'[r].deleted = work[r].deleted \cup ({row} \cap bindings[u])
      BY <1>2, <2>1 DEF WorkState
    <2>3. work[r].snapshot \cup work[r].deleted = bindings[u]
      BY <1>2, <2>0 DEF SerialOK
    <2>4. /\ work'[r].snapshot \cup work'[r].deleted = bindings[u]
          /\ pc'[r] = "insert" => work'[r].deleted = bindings[u]
      BY <2>1, <2>2, <2>3
    <2>5. pc'[r] \in {"delete", "insert"}
      BY <2>1
    <2> QED
      BY <1>2, <1>3, <1>5, <2>0, <2>4, <2>5 DEF SerialOK, Changing, Fits
  <1>8. CASE (InsertBinding(r) \/ CheckReference(r)) /\ pc'[r] # "done"
    <2>1. pc[r] \in {"insert", "reference"} /\ pc'[r] \in {"insert", "reference", "sessions"}
      BY <1>2, <1>8 DEF InsertBinding, CheckReference, Goto, Return
    <2>2. work'[r].deleted = work[r].deleted
      BY <1>2, <1>8 DEF InsertBinding, CheckReference, Return, Goto, Keep, WorkState
    <2> QED
      BY <1>2, <1>3, <1>5, <2>1, <2>2 DEF SerialOK, Changing, Fits
  <1>9. CASE UpdateActive(r)
    <2>1. pc'[r] = (IF req[r].op = "deactivate" THEN "sessions" ELSE "audit") /\ pc[r] = "update"
      BY <1>2, <1>9 DEF UpdateActive, Goto
    <2>2. req[r].op # "roles"
      BY <1>2, <2>1 DEF Fits
    <2> QED
      BY <1>2, <1>3, <1>5, <2>1, <2>2 DEF SerialOK, Changing
  <1>10. CASE FindUserSessions(r)
    <2>1. /\ pc[r] = "sessions" /\ pc'[r] = IF SessionsOf(u) = {} THEN "audit" ELSE "revoke"
          /\ work'[r] = [work[r] EXCEPT !.rows = SessionsOf(u)]
      BY <1>2, <1>10 DEF FindUserSessions, Goto, Keep
    <2>2. work'[r].rows = SessionsOf(u) /\ work'[r].deleted = work[r].deleted
      BY <1>2, <2>1 DEF WorkState
    <2> QED
      BY <1>2, <1>3, <1>5, <2>1, <2>2 DEF SerialOK, Changing, Fits
  <1>11. CASE RevokeUserSession(r)
    <2>0. pc[r] = "revoke" /\ Wanted(r) = work[r].rows
      BY <1>11, WantedIs DEF RevokeUserSession
    <2>1. PICK s \in work[r].rows :
            work'[r] = Revoking(r, s) /\ pc'[r] = IF work[r].rows = {s} THEN "audit" ELSE "revoke"
      BY <1>2, <1>11, <2>0 DEF RevokeUserSession, Goto, Keep
    <2>2. /\ work'[r].rows = work[r].rows \ {s} /\ work'[r].deleted = work[r].deleted
          /\ work[r].revoked \subseteq work'[r].revoked
          /\ s \in OpenSessions => s \in work'[r].revoked
      BY <1>2, <2>1 DEF Revoking, WorkState, OpenSessions
    <2>3. req[r].op = "deactivate" => SessionsOf(u) \subseteq work[r].rows \cup work[r].revoked
      BY <1>2, <2>0 DEF SerialOK
    <2>4. SessionsOf(u) \subseteq OpenSessions
      BY DEF SessionsOf
    <2>5. req[r].op = "deactivate" => /\ SessionsOf(u) \subseteq work'[r].rows \cup work'[r].revoked
                                      /\ pc'[r] = "audit" => SessionsOf(u) \subseteq work'[r].revoked
      BY <2>1, <2>2, <2>3, <2>4
    <2>6. pc'[r] \in {"audit", "revoke"}
      BY <2>1
    <2> QED
      BY <1>2, <1>3, <1>5, <2>0, <2>2, <2>5, <2>6 DEF SerialOK, Changing
  <1>12. CASE CreateUser(r) /\ pc'[r] # "done"
    <2>1. pc'[r] = "audit" /\ userState[u] = "absent" /\ req[r].op = "create"
      BY <1>2, <1>12 DEF CreateUser, Goto, Return, Fits
    <2> QED
      BY <1>2, <1>3, <2>1 DEF SerialOK, Changing, Removing
  <1>13. CASE InsertAudit(r)
    <2>1. pc[r] = "audit" /\ pc'[r] = "commit" /\ work' = work
      BY <1>2, <1>13 DEF InsertAudit, Goto
    <2> QED
      BY <1>2, <1>3, <1>5, <2>1 DEF SerialOK, Changing
  <1> QED
    BY <1>3, <1>4, <1>6, <1>7, <1>8, <1>9, <1>10, <1>11, <1>12, <1>13

\* A commit leaves an administrator, and the roles and sessions that it is about.
LEMMA SerialCommit ==
    ASSUME Typed, SerialInv, ~overlapped, NEW r \in Requests, CommitChange(r)
    PROVE  /\ AtRest' /\ SerialOK(r)'
           /\ req[r].op \in {"roles", "create"} => bindings' = [bindings EXCEPT ![req[r].user] = NewRows(r)]
  <1> DEFINE u == req[r].user
  <1>1. /\ pc[r] = "commit" /\ pc'[r] = "done"
        /\ sessions' = WithState(work[r].revoked \cap OpenSessions, "revoked")
    BY DEF CommitChange, Return, Goto, Typed, TypeOK
  <1>2. /\ u \in Users /\ req[r].op \in AdminOps
        /\ userState \in [Users -> {"absent", "active", "inactive"}] /\ bindings \in [Users -> SUBSET Row]
        /\ sessions \in [Requests -> SessionState] /\ AtRest /\ SerialOK(r) /\ UNCHANGED req
    BY <1>1, SerialFacts DEF Proceed, Changing
  <1>3. /\ req[r].op = "create" <=> userState[u] = "absent"
        /\ Removing(req[r]) => ActiveAdmins \ {u} # {}
    BY <1>1, <1>2 DEF SerialOK, Changing
  <1>4. req[r].op \in {"roles", "create"} => bindings' = [bindings EXCEPT ![u] = NewRows(r)]
    <2>1. req[r].op = "roles" => bindings[u] \ work[r].deleted = {}
      BY <1>1, <1>2 DEF SerialOK
    <2>2. req[r].op = "create" => bindings[u] \ work[r].deleted = {}
      BY <1>2, <1>3 DEF AtRest
    <2> QED
      BY <1>2, <2>1, <2>2 DEF CommitChange
  <1>5. req[r].op = "roles" => userState' = userState
    BY DEF CommitChange
  <1>6. /\ req[r].op \notin {"roles", "create"} => bindings' = bindings
        /\ req[r].op # "roles" =>
             userState' = [userState EXCEPT ![u] = IF req[r].op = "deactivate" THEN "inactive" ELSE "active"]
    BY DEF CommitChange
  <1>7. ActiveAdmins' # {}
    <2>1. \A v \in Users \ {u} : v \in ActiveAdmins => v \in ActiveAdmins'
      BY <1>2, <1>4, <1>5, <1>6 DEF ActiveAdmins, RolesOf
    <2>2. CASE Removing(req[r])
      BY <1>3, <2>1, <2>2 DEF ActiveAdmins
    <2>3. CASE ~Removing(req[r]) /\ req[r].op = "roles"
      <3>1. "admin" \in RolesOf(u)'
        <4>1. [role |-> "admin", by |-> r] \in NewRows(r)
          BY <2>3 DEF Removing, NewRows
        <4>2. [role |-> "admin", by |-> r] \in bindings'[u] /\ [role |-> "admin", by |-> r].role = "admin"
          BY <1>2, <1>4, <2>3, <4>1
        <4> QED
          BY <1>2, <4>2 DEF RolesOf
      <3>2. u \in ActiveAdmins => u \in ActiveAdmins'
        BY <1>2, <1>5, <2>3, <3>1 DEF ActiveAdmins
      <3> QED
        BY <1>2, <2>1, <3>2 DEF AtRest, ActiveAdmins
    <2>4. CASE req[r].op = "activate"
      <3>1. u \in ActiveAdmins => u \in ActiveAdmins'
        BY <1>2, <1>6, <2>4 DEF ActiveAdmins, RolesOf
      <3> QED
        BY <1>2, <2>1, <3>1 DEF AtRest, ActiveAdmins
    <2>5. CASE req[r].op = "create"
      BY <1>2, <1>3, <2>1, <2>5 DEF AtRest, ActiveAdmins
    <2> QED
      BY <1>2, <2>2, <2>3, <2>4, <2>5 DEF Removing, AdminOps
  <1>8. /\ OpenSessions' = OpenSessions \ work[r].revoked
        /\ \A s \in Requests : sessions'[s].user = sessions[s].user /\ sessions'[s].browser = sessions[s].browser
    BY <1>1, <1>2 DEF OpenSessions, WithState, SessionState
  <1>9. OneBrowserEach'
    BY <1>2, <1>8 DEF AtRest, OneBrowserEach, OpenSessions
  <1>10. ASSUME NEW s \in OpenSessions'
         PROVE  sessions'[s].user \in Users /\ userState'[sessions'[s].user] = "active"
    <2>1. s \in OpenSessions /\ s \notin work[r].revoked /\ sessions'[s].user = sessions[s].user
      BY <1>8, <1>10 DEF OpenSessions
    <2>2. sessions[s].user \in Users /\ userState[sessions[s].user] = "active"
      BY <1>2, <2>1 DEF AtRest
    <2>3. CASE req[r].op = "deactivate"
      <3>1. sessions[s].user # u
        BY <1>1, <1>2, <2>1, <2>3 DEF SerialOK, SessionsOf
      <3> QED
        BY <1>2, <1>6, <2>1, <2>2, <2>3, <3>1
    <2>4. CASE req[r].op = "roles"
      BY <1>5, <2>1, <2>2, <2>4
    <2>5. CASE req[r].op \in {"activate", "create"}
      BY <1>2, <1>6, <2>1, <2>2, <2>5
    <2> QED
      BY <1>2, <2>3, <2>4, <2>5 DEF AdminOps
  <1>11. SerialOK(r)'
    BY <1>1 DEF SerialOK, Changing
  <1>12. \A v \in Users : userState'[v] = "absent" => bindings'[v] = {}
    <2> SUFFICES ASSUME NEW v \in Users, userState'[v] = "absent" PROVE bindings'[v] = {}
      OBVIOUS
    <2>1. v # u /\ userState[v] = "absent"
      BY <1>2, <1>3, <1>5, <1>6
    <2>2. bindings'[v] = bindings[v]
      BY <1>2, <1>4, <1>6, <2>1
    <2> QED
      BY <1>2, <2>1, <2>2 DEF AtRest
  <1> QED
    BY <1>4, <1>7, <1>9, <1>10, <1>11, <1>12 DEF AtRest

\* The rows a request writes hold the roles it asks for.
LEMMA NewRoles ==
    ASSUME NEW r \in Requests
    PROVE  {row.role : row \in NewRows(r)} = req[r].roles
  <1>1. \A x \in req[r].roles : [role |-> x, by |-> r] \in NewRows(r) /\ [role |-> x, by |-> r].role = x
    BY DEF NewRows
  <1>2. \A row \in NewRows(r) : row.role \in req[r].roles
    BY DEF NewRows
  <1> QED
    BY <1>1, <1>2

\* Sessions that close disturb nothing.
LEMMA FewerSessions ==
    ASSUME AtRest, UNCHANGED <<userState, bindings>>, OpenSessions' \subseteq OpenSessions,
           \A s \in OpenSessions' : sessions'[s].user = sessions[s].user /\ sessions'[s].browser = sessions[s].browser
    PROVE  AtRest' /\ \A u : SessionsOf(u)' \subseteq SessionsOf(u)
  <1>1. ActiveAdmins' = ActiveAdmins
    BY DEF ActiveAdmins, RolesOf
  <1>2. \A s \in OpenSessions' : s \in OpenSessions
    OBVIOUS
  <1> QED
    BY <1>1, <1>2 DEF AtRest, OneBrowserEach, SessionsOf

\* Sessions that are expired or revoked are no longer open, and keep user and browser.
LEMMA Closing ==
    ASSUME Typed, NEW ids, NEW state \in {"expired", "revoked"}, sessions' = WithState(ids, state)
    PROVE  /\ OpenSessions' = OpenSessions \ ids
           /\ \A s \in Requests : sessions'[s].user = sessions[s].user /\ sessions'[s].browser = sessions[s].browser
  BY DEF OpenSessions, WithState, Typed, TypeOK

\* A login that nobody overlaps finds its user active until its session is there.
LEMMA SerialLogin ==
    ASSUME Typed, SerialInv, ~overlapped, NEW r \in Requests,
           \/ ReadLoginUser(r) \/ ReadLoginRoles(r) \/ FindBrowserSessions(r) \/ RevokeBrowserSession(r)
           \/ CreateSession(r) \/ Logout(r)
    PROVE  AtRest' /\ SerialOK(r)'
  <1> DEFINE u == req[r].user
  <1>1. UNCHANGED <<userState, bindings, req>> /\ pc \in [Requests -> Labels]
        /\ work \in [Requests -> WorkState] /\ work[r] \in WorkState
        /\ sessions \in [Requests -> SessionState] /\ AtRest /\ SerialOK(r)
    BY DEF ReadLoginUser, ReadLoginRoles, FindBrowserSessions, RevokeBrowserSession, CreateSession, Logout, asked, tables,
           Typed, TypeOK, SessionState, WorkState, SerialInv
  <1>2. CASE ReadLoginUser(r) \/ ReadLoginRoles(r)
    <2>1. UNCHANGED tables
      BY <1>2 DEF ReadLoginUser, ReadLoginRoles
    <2>2. AtRest' /\ UNCHANGED userState
      BY <1>1, <2>1, RestStays DEF tables
    <2>3. CASE ReadLoginUser(r)
      <3>1. pc'[r] \in {"list_roles", "done"} /\ (pc'[r] = "list_roles" => userState[u] = "active")
        BY <1>1, <2>3 DEF ReadLoginUser, Goto, Return
      <3> QED
        BY <1>1, <2>2, <3>1 DEF SerialOK, Changing
    <2>4. CASE ReadLoginRoles(r)
      <3>1. /\ pc[r] = "list_roles" /\ pc'[r] \in {"browser_sessions", "session", "done"}
            /\ pc'[r] = "session" => allow_multiple_identities
        BY <1>1, <2>4 DEF ReadLoginRoles, Goto, Return
      <3> QED
        BY <1>1, <2>2, <3>1 DEF SerialOK, Changing
    <2> QED
      BY <1>2, <2>3, <2>4
  <1>6. CASE FindBrowserSessions(r)
    <2> DEFINE found == {s \in OpenSessions : sessions[s].browser = req[r].browser}
    <2>1. /\ pc[r] = "browser_sessions" /\ pc'[r] = (IF found = {} THEN "session" ELSE "browser")
          /\ work'[r] = [work[r] EXCEPT !.rows = found] /\ UNCHANGED tables
      BY <1>1, <1>6 DEF FindBrowserSessions, Goto, Keep
    <2>2. work'[r].rows = found
      BY <1>1, <2>1 DEF WorkState
    <2>3. AtRest' /\ UNCHANGED <<userState, sessions>> /\ OpenSessions' = OpenSessions
      BY <1>1, <2>1, RestStays DEF tables
    <2>4. \A s \in OpenSessions : sessions[s].browser = req[r].browser => s \in found
      OBVIOUS
    <2> HIDE DEF found
    <2> QED
      BY <1>1, <2>1, <2>2, <2>3, <2>4 DEF SerialOK, Changing
  <1>3. CASE RevokeBrowserSession(r)
    <2>1. pc[r] = "browser" /\ Wanted(r) = work[r].rows
      BY <1>3, WantedIs DEF RevokeBrowserSession
    <2>2. PICK s \in work[r].rows :
            IF work[r].rows # {s}
              THEN Keep(r, Revoking(r, s)) /\ UNCHANGED <<sessions, pc>>
              ELSE /\ sessions' = WithState(Revoking(r, s).revoked \cap OpenSessions, "revoked")
                   /\ Goto(r, "session")
      BY <1>3, <2>1 DEF RevokeBrowserSession
    <2>3. \A t \in OpenSessions : sessions[t].browser = req[r].browser => t \in work[r].rows \cup work[r].revoked
      BY <1>1, <2>1 DEF SerialOK
    <2>4. userState[u] = "active"
      BY <1>1, <2>1 DEF SerialOK
    <2>5. /\ Revoking(r, s).rows = work[r].rows \ {s} /\ work[r].revoked \subseteq Revoking(r, s).revoked
          /\ s \in OpenSessions => s \in Revoking(r, s).revoked
      BY <1>1 DEF Revoking, WorkState, OpenSessions
    <2>6. CASE work[r].rows # {s}
      <3>1. work'[r] = Revoking(r, s) /\ pc'[r] = "browser" /\ UNCHANGED <<sessions, userState, bindings>>
        BY <1>1, <2>1, <2>2, <2>6 DEF Keep
      <3>2. OpenSessions' = OpenSessions /\ AtRest'
        BY <1>1, <3>1 DEF OpenSessions, AtRest, OneBrowserEach, ActiveAdmins, RolesOf
      <3> QED
        BY <1>1, <2>3, <2>4, <2>5, <3>1, <3>2 DEF SerialOK, Changing
    <2>7. CASE work[r].rows = {s}
      <3> DEFINE ids == Revoking(r, s).revoked \cap OpenSessions
      <3>1. pc'[r] = "session" /\ sessions' = WithState(ids, "revoked")
        BY <1>1, <2>2, <2>7 DEF Goto
      <3>2. \A t \in OpenSessions : sessions[t].browser = req[r].browser => t \in ids
        BY <2>3, <2>5, <2>7
      <3> HIDE DEF ids
      <3>3. /\ OpenSessions' = OpenSessions \ ids
            /\ \A t \in Requests : sessions'[t].user = sessions[t].user /\ sessions'[t].browser = sessions[t].browser
        BY <3>1, Closing
      <3>4. OpenSessions' \subseteq Requests
        BY DEF OpenSessions
      <3>5. AtRest'
        BY <1>1, <3>3, <3>4, FewerSessions
      <3>6. \A t \in OpenSessions' : sessions'[t].browser # req'[r].browser
        BY <1>1, <3>2, <3>3, <3>4
      <3> QED
        BY <1>1, <2>4, <3>1, <3>5, <3>6 DEF SerialOK, Changing
    <2> QED
      BY <2>6, <2>7
  <1>4. CASE CreateSession(r)
    <2>1. /\ pc[r] = "session" /\ pc'[r] = "done"
          /\ sessions' = [sessions EXCEPT ![r] = [user |-> u, browser |-> req[r].browser, state |-> "live"]]
      BY <1>1, <1>4 DEF CreateSession, Goto, Return
    <2>2. u \in Users /\ userState[u] = "active"
          /\ (~allow_multiple_identities => \A s \in OpenSessions : sessions[s].browser # req[r].browser)
      BY <1>1, <2>1, RequestFacts DEF SerialOK, Typed, LabelOK, Fits
    <2>3. /\ OpenSessions' = OpenSessions \cup {r}
          /\ sessions'[r].user = u /\ sessions'[r].browser = req[r].browser
          /\ \A s \in Requests \ {r} : sessions'[s] = sessions[s]
      BY <1>1, <2>1 DEF OpenSessions
    <2>4. OneBrowserEach'
      BY <1>1, <2>2, <2>3 DEF AtRest, OneBrowserEach, OpenSessions
    <2>5. \A s \in OpenSessions' : sessions'[s].user \in Users /\ userState'[sessions'[s].user] = "active"
      BY <1>1, <2>2, <2>3 DEF AtRest, OpenSessions
    <2>6. ActiveAdmins' = ActiveAdmins
      BY <1>1 DEF ActiveAdmins, RolesOf
    <2> QED
      BY <1>1, <2>1, <2>4, <2>5, <2>6 DEF AtRest, SerialOK, Changing
  <1>5. CASE Logout(r)
    <2> DEFINE ids == {req[r].session}
    <2>1. pc'[r] = "done" /\ sessions' = WithState(ids, "revoked")
      BY <1>1, <1>5 DEF Logout, Return, Goto
    <2> HIDE DEF ids
    <2>2. /\ OpenSessions' = OpenSessions \ ids
          /\ \A s \in Requests : sessions'[s].user = sessions[s].user /\ sessions'[s].browser = sessions[s].browser
      BY <2>1, Closing
    <2>3. OpenSessions' \subseteq Requests
      BY DEF OpenSessions
    <2>4. AtRest'
      BY <1>1, <2>2, <2>3, FewerSessions
    <2> QED
      BY <2>1, <2>4 DEF SerialOK, Changing
  <1> QED
    BY <1>2, <1>3, <1>4, <1>5, <1>6

\* A step of the one request in flight keeps what is said of requests without overlap.
LEMMA SerialProceed ==
    ASSUME Typed, SerialInv, NEW r \in Requests, Proceed(r) \/ Fail(r)
    PROVE  SerialInv'
  <1> SUFFICES ASSUME ~overlapped
               PROVE  AtRest' /\ (\A p, q \in InFlight' : p = q) /\ \A q \in Requests : SerialOK(q)'
    BY ProceedIsOwn DEF SerialInv, asked
  <1>1. StepOf(r) /\ r \in InFlight
    BY ProceedIsOwn
  <1>2. CASE Fail(r)
    <2>1. pc'[r] = "done" /\ UNCHANGED tables
      BY <1>2 DEF Fail, Return, Goto, Typed, TypeOK
    <2> QED
      BY <2>1, RestStays, <1>1, SerialOthers DEF SerialInv, SerialOK, Changing
  <1>3. AtRest' /\ SerialOK(r)'
    <2>1. CASE Fail(r)
      BY <1>2, <2>1
    <2>2. CASE Proceed(r)
      BY <1>2, <2>2, SerialGuard, SerialWrite, SerialCommit, SerialLogin DEF Proceed, BreakDeadlock
    <2> QED
      BY <2>1, <2>2
  <1> QED
    BY <1>1, <1>3, SerialOthers

\* So does a session that expires while it runs.
LEMMA SerialExpire ==
    ASSUME Typed, SerialInv, NEW s \in Requests, Expire(s)
    PROVE  SerialInv'
  <1> SUFFICES ASSUME ~overlapped
               PROVE  AtRest' /\ (\A p, q \in InFlight' : p = q) /\ \A q \in Requests : SerialOK(q)'
    BY DEF SerialInv, Expire, asked
  <1>1. sessions' = WithState({s}, "expired") /\ UNCHANGED <<userState, bindings, pc, req, work>>
    BY DEF Expire, asked
  <1>2. /\ OpenSessions' = OpenSessions \ {s}
        /\ \A t \in Requests : sessions'[t].user = sessions[t].user /\ sessions'[t].browser = sessions[t].browser
    BY <1>1, Closing
  <1>3. AtRest /\ OpenSessions' \subseteq Requests
    BY DEF SerialInv, OpenSessions
  <1>4. AtRest' /\ \A u : SessionsOf(u)' \subseteq SessionsOf(u)
    BY <1>1, <1>2, <1>3, FewerSessions
  <1>5. ActiveAdmins' = ActiveAdmins
    BY <1>1 DEF ActiveAdmins, RolesOf
  <1>6. ASSUME NEW q \in Requests PROVE SerialOK(q)'
    <2>1. SerialOK(q)
      BY DEF SerialInv
    <2> DEFINE of == {s1 \in OpenSessions : sessions[s1].user = req[q].user}
    <2>2. of' \subseteq of
      BY <1>1, <1>2, <1>3
    <2>3. SessionsOf(req[q].user) = of /\ SessionsOf(req[q].user)' = of'
      BY DEF SessionsOf
    <2>4. SessionsOf(req[q].user)' \subseteq SessionsOf(req[q].user)
      BY <2>2, <2>3
    <2>5. \A t \in OpenSessions' : t \in OpenSessions /\ sessions'[t].browser = sessions[t].browser
      BY <1>2, <1>3
    <2>6. pc'[q] = "revoke" /\ req'[q].op = "deactivate" =>
            SessionsOf(req[q].user)' \subseteq work'[q].rows \cup work'[q].revoked
      BY <1>1, <2>1, <2>4 DEF SerialOK
    <2>7. pc'[q] \in {"audit", "commit"} /\ req'[q].op = "deactivate" =>
            SessionsOf(req[q].user)' \subseteq work'[q].revoked
      BY <1>1, <2>1, <2>4 DEF SerialOK
    <2>8. /\ pc'[q] = "browser" => \A t \in OpenSessions' :
               sessions'[t].browser = req'[q].browser => t \in work'[q].rows \cup work'[q].revoked
          /\ pc'[q] = "session" /\ ~allow_multiple_identities =>
               \A t \in OpenSessions' : sessions'[t].browser # req'[q].browser
      BY <1>1, <2>1, <2>5 DEF SerialOK
    <2> QED
      BY <1>1, <1>5, <2>1, <2>6, <2>7, <2>8 DEF SerialOK
  <1> QED
    BY <1>1, <1>4, <1>6 DEF SerialInv, InFlight

\* No step of Next breaks what is said of requests that come one after the other.
LEMMA SerialStep == Typed /\ SerialInv /\ RolesInv /\ [Next]_vars => SerialInv'
  <1> SUFFICES ASSUME Typed, SerialInv, RolesInv, [Next]_vars PROVE SerialInv'
    OBVIOUS
  <1>1. CASE UNCHANGED vars
    BY <1>1 DEF vars, SerialInv, SerialOK, AtRest, OneBrowserEach, OpenSessions, SessionsOf, ActiveAdmins,
                RolesOf, InFlight
  <1> QED
    BY <1>1, SerialReceive, SerialProceed, SerialExpire DEF Next, Idle

\* A step that is told of no change, or only of its own failure, leaves the roles alone.
LEMMA RolesStay ==
    ASSUME Typed, RolesInv, UNCHANGED <<bindings, changes, req>>, overlapped => overlapped',
           \A q \in Requests : pc[q] = "done" => pc'[q] = "done"
    PROVE  RolesInv'
  <1>1. changes \in Seq(Requests)
    BY DEF Typed, TypeOK
  <1>2. \A i \in DOMAIN changes' : pc'[changes'[i]] = "done"
    BY <1>1 DEF RolesInv
  <1>3. \A u \in Users : Granted(u)'
    <2> TAKE u \in Users
    <2>1. RolesOf(u)' = RolesOf(u) /\ Granted(u)
      BY DEF RolesOf, RolesInv
    <2> QED
      BY <2>1, GrantedStays
  <1> QED
    BY <1>2, <1>3 DEF RolesInv

\* What a change commits is what it asks for, and all of it when nothing overlaps.
LEMMA RolesGrant ==
    ASSUME Typed, SerialInv, RolesInv, NEW r \in Requests,
           CommitChange(r), req[r].op \in {"roles", "create"}
    PROVE  RolesInv'
  <1> DEFINE u == req[r].user
  <1>1. /\ pc[r] = "commit" /\ UNCHANGED <<req, overlapped>> /\ changes' = Append(changes, r)
        /\ pc' = [pc EXCEPT ![r] = "done"]
    BY DEF CommitChange, Return, Goto, asked
  <1>2. /\ u \in Users /\ changes \in Seq(Requests) /\ pc \in [Requests -> Labels]
        /\ bindings \in [Users -> SUBSET Row]
    BY <1>1, RequestFacts DEF Typed, TypeOK, LabelOK, Fits, Changing
  <1>3. /\ NewRows(r) \subseteq bindings'[u]
        /\ ~overlapped => bindings'[u] = NewRows(r)
        /\ \A v \in Users \ {u} : bindings'[v] = bindings[v]
    <2>1. bindings' = [bindings EXCEPT ![u] = (@ \ work[r].deleted) \cup NewRows(r)]
      BY DEF CommitChange
    <2>2. ~overlapped => bindings' = [bindings EXCEPT ![u] = NewRows(r)]
      BY SerialCommit
    <2> QED
      BY <1>2, <2>1, <2>2
  <1>4. {row.role : row \in NewRows(r)} = req[r].roles
    BY NewRoles
  <1>5. req[r].roles \subseteq RolesOf(u)' /\ (~overlapped => RolesOf(u)' = req[r].roles)
    BY <1>1, <1>3, <1>4 DEF RolesOf
  <1>6. \A v \in Users \ {u} : RolesOf(v)' = RolesOf(v)
    BY <1>3 DEF RolesOf
  <1>7. \A v \in Users : Granted(v)'
    BY <1>1, <1>2, <1>5, <1>6, GrantedAppends
  <1>8. \A i \in DOMAIN changes' : pc'[changes'[i]] = "done"
    BY <1>1, <1>2 DEF RolesInv
  <1> QED
    BY <1>7, <1>8 DEF RolesInv

\* Every step of Next keeps the roles those of the last change.
LEMMA RolesStep == Typed /\ SerialInv /\ RolesInv /\ [Next]_vars => RolesInv'
  <1> SUFFICES ASSUME Typed, SerialInv, RolesInv, [Next]_vars PROVE RolesInv'
    OBVIOUS
  <1>1. CASE UNCHANGED vars
    BY <1>1, RolesStay DEF vars
  <1>2. ASSUME NEW r \in Requests, Proceed(r) \/ Fail(r) PROVE RolesInv'
    <2>1. StepOf(r) /\ r \in InFlight /\ UNCHANGED asked
      BY <1>2, ProceedIsOwn
    <2>2. \A q \in Requests : pc[q] = "done" => pc'[q] = "done"
      BY <2>1 DEF StepOf, InFlight
    <2>3. CASE UNCHANGED <<bindings, changes>>
      BY <2>1, <2>2, <2>3, RolesStay DEF asked
    <2>4. CASE CommitChange(r)
      <3>1. CASE req[r].op \notin {"roles", "create"}
        BY <2>3, <2>4, <3>1 DEF CommitChange
      <3> QED
        BY <2>4, <3>1, RolesGrant
    <2>5. CASE RevokeBrowserSession(r) \/ CreateSession(r) \/ Logout(r)
      BY <2>3, <2>5 DEF RevokeBrowserSession, CreateSession, Logout
    <2> QED
      BY <1>2, <2>3, <2>4, <2>5, QuietSteps DEF tables
  <1>3. ASSUME NEW s \in Requests, Expire(s) PROVE RolesInv'
    BY <1>3, RolesStay DEF Expire, asked
  <1> QED
    BY <1>1, <1>2, <1>3, SerialReceive DEF Next, Idle

\* The invariants of role changes and of requests without overlap always hold.
LEMMA SerialAlways == Spec => [](Typed /\ SerialInv /\ RolesInv)
  BY TypedInit, TypedStep, SerialInit, SerialStep, RolesStep, PTL DEF Spec

\* The role change that was committed last is in force: the user holds each role
\* it asked for, and no other when requests do not overlap.
THEOREM LatestRolesInForce == Spec => []RolesAsRequested
  BY SerialAlways, RolesInvMeans, PTL

\* The live sessions of one browser belong to one user when requests do not overlap.
THEOREM OneIdentity == Spec => []OneIdentityPerBrowser
  <1>1. SerialInv => OneIdentityPerBrowser
    BY DEF SerialInv, AtRest, OneBrowserEach, OneIdentityPerBrowser
  <1> QED
    BY <1>1, SerialAlways, PTL

\* A deactivated user has no live session left when requests do not overlap.
THEOREM InactiveHaveNoSession == Spec => []NoSessionWhenInactive
  <1>1. SerialInv => NoSessionWhenInactive
    BY DEF SerialInv, AtRest, NoSessionWhenInactive
  <1> QED
    BY <1>1, SerialAlways, PTL

----------------------------------------------------------------------------
(* Deactivations, however they overlap *)

OnlyDeactivations == \A r \in Requests : req[r].op \notin {"roles", "activate"}

\* A user who exists stays, with the same roles, and is made an administrator by
\* nobody; only the commit of a new user adds one, and only the commit of r takes an
\* administrator away, the user it is about.
Steady(r) ==
    /\ \A v \in Users : userState[v] # "absent" =>
         userState'[v] # "absent" /\ RolesOf(v)' = RolesOf(v) /\ (v \in ActiveAdmins' => v \in ActiveAdmins)
    /\ \A v \in Users : userState[v] = "absent" => userState'[v] = "absent" \/ Creates(r, v)
    /\ \A v \in ActiveAdmins : v \in ActiveAdmins' \/ Updates(r, v)

\* What a deactivation has found is an administrator, and the one it goes on with
\* is no administrator or leaves another one, whose row it holds.
GuardedOK(r) ==
    LET u == req[r].user IN
    /\ pc[r] = "lock" => \A v \in work[r].admins : userState[v] # "absent" /\ "admin" \in RolesOf(v)
    /\ pc[r] \in Changing \ {"read"} => (req[r].op = "create" <=> userState[u] = "absent")
    /\ pc[r] \in Changing \ {"read", "guard", "lock"} /\ req[r].op = "deactivate" =>
         u \notin ActiveAdmins \/ \E v \in work[r].locked : v \in ActiveAdmins /\ v # u

\* The row that p has updated is locked by no other request, and the user that it
\* creates is created by no other.
Apart(p, q) ==
    p # q => \A v \in Users : /\ Updates(p, v) => v \notin work[q].locked
                              /\ ~(Creates(p, v) /\ Creates(q, v))

GuardInv ==
    OnlyDeactivations =>
      /\ ActiveAdmins # {}
      /\ \A r \in Requests : GuardedOK(r)
      /\ \A p, q \in Requests : Apart(p, q)

\* Before any request there is an administrator and no lock.
LEMMA GuardInit == Init => GuardInv
  <1> SUFFICES ASSUME Init PROVE GuardInv
    OBVIOUS
  <1>1. \A r \in Requests : pc[r] = "idle"
    BY DEF Init
  <1>2. ActiveAdmins # {}
    BY SerialInit DEF SerialInv, AtRest, Init
  <1> QED
    BY <1>1, <1>2 DEF GuardInv, GuardedOK, Apart, Updates, Creates, Changing

\* What two requests have is their own: a step of one leaves the other's locks.
LEMMA OthersKeep ==
    ASSUME NEW r \in Requests, NEW q \in Requests \ {r}, StepOf(r)
    PROVE  /\ pc'[q] = pc[q] /\ req'[q] = req[q] /\ work'[q] = work[q]
           /\ \A v : (Updates(q, v)' <=> Updates(q, v)) /\ (Creates(q, v)' <=> Creates(q, v))
  BY DEF StepOf, Updates, Creates

\* Only a commit changes who is an administrator.
LEMMA DeactivationsAreSteady ==
    ASSUME Typed, OnlyDeactivations, GuardInv, NEW r \in Requests, Proceed(r) \/ Fail(r)
    PROVE  Steady(r)
  <1> DEFINE u == req[r].user
  <1>1. userState \in [Users -> {"absent", "active", "inactive"}] /\ bindings \in [Users -> SUBSET Row]
    BY DEF Typed, TypeOK
  <1>2. CASE UNCHANGED <<userState, bindings>>
    BY <1>2 DEF Steady, ActiveAdmins, RolesOf
  <1>3. CASE CommitChange(r)
    <2>1. /\ pc[r] = "commit" /\ u \in Users /\ req[r].op \in {"deactivate", "create"}
          /\ req[r].op = "create" <=> userState[u] = "absent"
      BY <1>3, RequestFacts DEF CommitChange, Changing, OnlyDeactivations, AdminOps, GuardInv, GuardedOK
    <2>2. CASE req[r].op = "deactivate"
      <3>1. bindings' = bindings /\ userState' = [userState EXCEPT ![u] = "inactive"] /\ Updates(r, u)
        BY <1>3, <2>1, <2>2 DEF CommitChange, Updates
      <3> QED
        BY <1>1, <2>1, <2>2, <3>1 DEF Steady, ActiveAdmins, RolesOf
    <2>3. CASE req[r].op = "create"
      <3>1. /\ userState' = [userState EXCEPT ![u] = "active"] /\ Creates(r, u)
            /\ \A v \in Users \ {u} : bindings'[v] = bindings[v]
        BY <1>1, <1>3, <2>1, <2>3 DEF CommitChange, Creates
      <3>2. \A v \in Users : userState[v] # "absent" => userState'[v] = userState[v] /\ bindings'[v] = bindings[v]
        BY <1>1, <2>1, <2>3, <3>1
      <3> QED
        BY <1>1, <2>1, <3>1, <3>2 DEF Steady, ActiveAdmins, RolesOf
    <2> QED
      BY <2>1, <2>2, <2>3
  <1>4. CASE RevokeBrowserSession(r) \/ CreateSession(r) \/ Logout(r)
    BY <1>2, <1>4 DEF RevokeBrowserSession, CreateSession, Logout
  <1> QED
    BY <1>2, <1>3, <1>4, QuietSteps DEF tables

\* A step of another request leaves what a deactivation relies on.
LEMMA GuardedOthers ==
    ASSUME Typed, OnlyDeactivations, GuardInv, NEW r \in Requests, Steady(r), StepOf(r), NEW q \in Requests \ {r}
    PROVE  GuardedOK(q)'
  <1> DEFINE u == req[q].user
  <1>1. pc'[q] = pc[q] /\ req'[q] = req[q] /\ work'[q] = work[q]
    BY OthersKeep
  <1>2. GuardedOK(q) /\ Apart(r, q)
    BY DEF GuardInv
  <1>3. work[q].admins \subseteq Users /\ work[q].locked \subseteq Users
    BY DEF Typed, TypeOK
  <1>4. pc[q] \in Changing => u \in Users
    BY RequestFacts DEF Changing
  <1>5. pc[q] = "lock" => \A v \in work[q].admins : userState'[v] # "absent" /\ "admin" \in RolesOf(v)'
    BY <1>2, <1>3 DEF Steady, GuardedOK
  <1>6. pc[q] \in Changing \ {"read"} => (req[q].op = "create" <=> userState'[u] = "absent")
    <2> SUFFICES ASSUME pc[q] \in Changing \ {"read"} PROVE req[q].op = "create" <=> userState'[u] = "absent"
      OBVIOUS
    <2>1. u \in Users /\ (req[q].op = "create" <=> userState[u] = "absent")
      BY <1>2, <1>4 DEF GuardedOK
    <2>2. CASE req[q].op = "create"
      <3>1. Creates(q, u)
        BY <2>2, RequestFacts DEF Fits, Changing, Creates
      <3>2. ~Creates(r, u)
        BY <1>2, <2>1, <3>1 DEF Apart
      <3> QED
        BY <2>1, <2>2, <3>2 DEF Steady
    <2> QED
      BY <2>1, <2>2 DEF Steady
  <1>7. ASSUME pc[q] \in Changing \ {"read", "guard", "lock"}, req[q].op = "deactivate"
        PROVE  u \notin ActiveAdmins' \/ \E v \in work[q].locked : v \in ActiveAdmins' /\ v # u
    <2>1. CASE u \notin ActiveAdmins
      BY <1>2, <1>4, <1>7, <2>1 DEF Steady, GuardedOK
    <2>2. CASE u \in ActiveAdmins
      <3>1. PICK v \in work[q].locked : v \in ActiveAdmins /\ v # u
        BY <1>2, <1>7, <2>2 DEF GuardedOK
      <3>2. ~Updates(r, v)
        BY <1>2, <1>3, <3>1 DEF Apart
      <3> QED
        BY <3>1, <3>2 DEF Steady
    <2> QED
      BY <2>1, <2>2
  <1> QED
    BY <1>1, <1>5, <1>6, <1>7 DEF GuardedOK, RolesOf

\* The guard of a deactivation counts administrators it has locked, and goes on
\* when there is another one.
LEMMA GuardedProceed ==
    ASSUME Typed, OnlyDeactivations, GuardInv, NEW r \in Requests, Proceed(r) \/ Fail(r), pc'[r] # "done"
    PROVE  GuardedOK(r)'
  <1> DEFINE u == req[r].user
  <1>1. /\ pc \in [Requests -> Labels] /\ work \in [Requests -> WorkState] /\ work[r] \in WorkState
        /\ userState \in [Users -> {"absent", "active", "inactive"}]
        /\ UNCHANGED req /\ GuardedOK(r) /\ Fits(req[r], pc[r])
        /\ req[r].op \notin {"roles", "activate"} /\ pc[r] # "idle"
    BY ProceedIsOwn, RequestFacts DEF Typed, TypeOK, WorkState, GuardInv, asked, OnlyDeactivations, InFlight
  <1>2. pc[r] \in Changing => u \in Users /\ req[r].op \in {"deactivate", "create"}
    BY <1>1, RequestFacts DEF AdminOps
  <1>3. CASE ReadUser(r)
    <2>1. /\ UNCHANGED <<userState, bindings>> /\ pc[r] = "read" /\ userState[u] # "absent" /\ req[r].op = "deactivate"
          /\ pc'[r] = IF userState[u] = "active" /\ "admin" \in RolesOf(u) THEN "guard" ELSE "update"
      BY <1>1, <1>2, <1>3 DEF ReadUser, Return, Goto, tables, Changing, Fits
    <2>2. pc'[r] = "update" => u \notin ActiveAdmins
      BY <2>1 DEF ActiveAdmins
    <2> QED
      BY <1>1, <2>1, <2>2 DEF GuardedOK, ActiveAdmins, RolesOf, Changing
  <1>4. CASE FindActiveAdmins(r)
    <2>1. /\ UNCHANGED <<userState, bindings>> /\ pc[r] = "guard" /\ pc'[r] = "lock" /\ work'[r].admins = ActiveAdmins
      BY <1>1, <1>4 DEF FindActiveAdmins, Goto, Keep, tables, WorkState
    <2> QED
      BY <1>1, <2>1 DEF GuardedOK, ActiveAdmins, RolesOf, Changing
  <1>5. CASE LockActiveAdmin(r)
    <2>1. PICK v \in Wanted(r) : work'[r] = [work[r] EXCEPT !.locked = @ \cup {v}]
      BY <1>1, <1>5 DEF LockActiveAdmin, Keep
    <2>2. /\ UNCHANGED <<userState, bindings>> /\ pc[r] = "lock" /\ pc'[r] = "lock" /\ work'[r].admins = work[r].admins
      BY <1>1, <1>5, <2>1 DEF LockActiveAdmin, tables, WorkState
    <2> QED
      BY <1>1, <2>2 DEF GuardedOK, RolesOf, Changing
  <1>6. CASE GuardLastActiveAdmin(r)
    <2> DEFINE found == {v \in work[r].admins : userState[v] = "active"}
    <2>1. /\ UNCHANGED <<userState, bindings>> /\ pc[r] = "lock" /\ ~(Cardinality(found) <= 1)
          /\ pc'[r] = "update" /\ work' = work /\ Wanted(r) = {} /\ req[r].op = "deactivate"
      BY <1>1, <1>2, <1>6 DEF GuardLastActiveAdmin, Guarded, Goto, Return, tables, Changing, Fits
    <2>2. found \in SUBSET Users /\ work[r].admins \subseteq work[r].locked
      BY <1>1, <2>1, WantedIs DEF WorkState
    <2>3. PICK v \in found : v # u
      BY <2>1, <2>2, AnotherOne
    <2>4. v \in ActiveAdmins /\ v \in work[r].locked
      BY <1>1, <2>1, <2>2, <2>3 DEF GuardedOK, ActiveAdmins
    <2> QED
      BY <1>1, <2>1, <2>3, <2>4 DEF GuardedOK, ActiveAdmins, RolesOf, Changing
  <1>7. CASE UpdateActive(r) \/ FindUserSessions(r) \/ RevokeUserSession(r) \/ InsertAudit(r)
    <2>1. /\ UNCHANGED <<userState, bindings>> /\ pc[r] \in {"update", "sessions", "revoke", "audit"}
          /\ pc'[r] \in {"sessions", "revoke", "audit", "commit"}
      BY <1>1, <1>7 DEF UpdateActive, FindUserSessions, RevokeUserSession, InsertAudit, Goto, tables
    <2>0. \A s : Revoking(r, s).locked = work[r].locked
      BY <1>1 DEF Revoking, WorkState
    <2>2. work'[r].locked = work[r].locked
      <3>1. CASE RevokeUserSession(r)
        BY <1>1, <2>0, <3>1 DEF RevokeUserSession, Keep
      <3>2. CASE UpdateActive(r) \/ FindUserSessions(r) \/ InsertAudit(r)
        BY <1>1, <3>2 DEF UpdateActive, FindUserSessions, InsertAudit, Keep, WorkState
      <3> QED
        BY <1>7, <3>1, <3>2
    <2> QED
      BY <1>1, <2>1, <2>2 DEF GuardedOK, ActiveAdmins, RolesOf, Changing
  <1>8. CASE CreateUser(r)
    <2>1. /\ UNCHANGED <<userState, bindings>> /\ pc'[r] = "audit" /\ userState[u] = "absent" /\ req[r].op = "create"
      BY <1>1, <1>8 DEF CreateUser, Goto, Return, tables, Fits
    <2> QED
      BY <1>1, <2>1 DEF GuardedOK
  <1>9. CASE ReadLoginUser(r) \/ ReadLoginRoles(r) \/ FindBrowserSessions(r) \/ RevokeBrowserSession(r)
    <2>1. pc'[r] \in {"list_roles", "browser_sessions", "browser", "session", "done"}
      BY <1>1, <1>9 DEF ReadLoginUser, ReadLoginRoles, FindBrowserSessions, RevokeBrowserSession, Goto, Return
    <2> QED
      BY <2>1 DEF GuardedOK, Changing
  <1>10. ~FindBindings(r) /\ ~DeleteBinding(r) /\ ~InsertBinding(r) /\ ~CheckReference(r)
    BY <1>1 DEF FindBindings, DeleteBinding, InsertBinding, CheckReference, Fits
  <1>11. ~CommitChange(r) /\ ~CreateSession(r) /\ ~Logout(r) /\ ~Fail(r)
    BY <1>1 DEF CommitChange, CreateSession, Logout, Fail, Return, Goto
  <1> QED
    BY <1>3, <1>4, <1>5, <1>6, <1>7, <1>8, <1>9, <1>10, <1>11 DEF Proceed, BreakDeadlock

\* What a step adds to the locks of its request: a row that it locks is free, and so is
\* one that it updates or creates.
LEMMA LocksProceed ==
    ASSUME Typed, OnlyDeactivations, NEW r \in Requests, Proceed(r) \/ Fail(r)
    PROVE  /\ \A v \in work'[r].locked : v \in work[r].locked \/ \A q \in Requests \ {r} : ~Updates(q, v)
           /\ \A v : Updates(r, v)' => Updates(r, v) \/ \A q \in Requests \ {r} : v \notin work[q].locked
           /\ \A v : Creates(r, v)' => Creates(r, v) \/ \A q \in Requests \ {r} : ~Creates(q, v)
  <1>1. /\ pc \in [Requests -> Labels] /\ work \in [Requests -> WorkState] /\ work[r] \in WorkState
        /\ UNCHANGED req /\ Fits(req[r], pc[r]) /\ req[r].op \notin {"roles", "activate"} /\ pc[r] # "idle"
    BY ProceedIsOwn, RequestFacts DEF Typed, TypeOK, WorkState, asked, OnlyDeactivations, InFlight
  <1>2. CASE LockActiveAdmin(r)
    <2>1. PICK u \in Wanted(r) : Free(r, u) /\ work'[r] = [work[r] EXCEPT !.locked = @ \cup {u}]
      BY <1>1, <1>2 DEF LockActiveAdmin, Keep
    <2>2. pc[r] = "lock" /\ UNCHANGED <<pc, req>> /\ work'[r].locked = work[r].locked \cup {u}
      BY <1>1, <1>2, <2>1 DEF LockActiveAdmin, WorkState
    <2>3. \A q \in Requests \ {r} : ~Updates(q, u)
      BY <2>1, <2>2 DEF Free, Holds
    <2> QED
      BY <2>2, <2>3 DEF Updates, Creates
  <1>3. CASE UpdateActive(r)
    <2>1. pc[r] = "update" /\ Free(r, req[r].user) /\ work' = work
      BY <1>3 DEF UpdateActive
    <2>2. \A q \in Requests \ {r} : req[r].user \notin work[q].locked
      BY <2>1 DEF Free, Holds
    <2>3. req[r].op # "create"
      BY <1>1, <2>1 DEF Fits
    <2> QED
      BY <1>1, <2>1, <2>2, <2>3 DEF Updates, Creates
  <1>4. CASE CreateUser(r)
    <2>1. pc[r] = "create" /\ Free(r, req[r].user) /\ req[r].op = "create"
      BY <1>1, <1>4 DEF CreateUser, Fits
    <2>2. \A q \in Requests \ {r} : ~Creates(q, req[r].user)
      BY <2>1 DEF Free, Holds
    <2>3. work'[r].locked \in {work[r].locked, {}}
      BY <1>1, <1>4 DEF CreateUser, Return, Keep, NoWork
    <2> QED
      BY <1>1, <2>1, <2>2, <2>3 DEF Updates, Creates
  <1>5. CASE ~LockActiveAdmin(r) /\ ~UpdateActive(r) /\ ~CreateUser(r)
    <2>0. \A s : Revoking(r, s).locked = work[r].locked
      BY <1>1 DEF Revoking, WorkState
    <2>1. work'[r].locked \in {work[r].locked, {}}
      <3>0. [work[r] EXCEPT !.rows = {}, !.revoked = {}].locked = work[r].locked
        BY <1>1 DEF WorkState
      <3>1. CASE RevokeBrowserSession(r) \/ RevokeUserSession(r)
        BY <1>1, <2>0, <3>0, <3>1 DEF RevokeBrowserSession, RevokeUserSession, Keep
      <3>2. CASE FindBindings(r) \/ DeleteBinding(r) \/ InsertBinding(r) \/ CheckReference(r)
        BY <1>1, <3>2 DEF FindBindings, DeleteBinding, InsertBinding, CheckReference, Fits
      <3>3. CASE CommitChange(r) \/ CreateSession(r) \/ Logout(r) \/ Fail(r)
        BY <1>1, <3>3 DEF CommitChange, CreateSession, Logout, Fail, Return, Keep, NoWork
      <3>4. CASE ReadUser(r) \/ FindActiveAdmins(r) \/ GuardLastActiveAdmin(r) \/ InsertAudit(r)
        BY <1>1, <3>4 DEF ReadUser, FindActiveAdmins, GuardLastActiveAdmin, InsertAudit, Return, Keep, NoWork, WorkState
      <3>5. CASE FindUserSessions(r) \/ FindBrowserSessions(r) \/ ReadLoginUser(r) \/ ReadLoginRoles(r)
        BY <1>1, <3>5 DEF FindUserSessions, FindBrowserSessions, ReadLoginUser, ReadLoginRoles, Return, Keep, NoWork, WorkState
      <3> QED
        BY <1>5, <3>1, <3>2, <3>3, <3>4, <3>5 DEF Proceed, BreakDeadlock
    <2>2. /\ pc'[r] \in {"sessions", "revoke", "audit", "commit"} => pc[r] \in {"sessions", "revoke", "audit", "commit"}
          /\ pc'[r] \in {"audit", "commit"} /\ req[r].op = "create" => pc[r] \in {"audit", "commit"}
      BY <1>1, <1>5 DEF Proceed, BreakDeadlock, Fail, Return, Goto, ReadUser, FindActiveAdmins, GuardLastActiveAdmin,
                 Guarded, FindBindings, DeleteBinding, InsertBinding, CheckReference, FindUserSessions, RevokeUserSession,
                 InsertAudit, CommitChange, ReadLoginUser, ReadLoginRoles, FindBrowserSessions, RevokeBrowserSession,
                 CreateSession, Logout, Fits
    <2> QED
      BY <1>1, <2>1, <2>2 DEF Updates, Creates
  <1> QED
    BY <1>2, <1>3, <1>4, <1>5

\* Nobody locks a row that another has updated, updates one that another has locked,
\* or creates a user that another creates.
LEMMA ApartProceed ==
    ASSUME Typed, OnlyDeactivations, GuardInv, NEW r \in Requests, Proceed(r) \/ Fail(r), NEW q \in Requests \ {r}
    PROVE  Apart(r, q)' /\ Apart(q, r)'
  <1>1. Apart(r, q) /\ Apart(q, r) /\ StepOf(r)
    BY ProceedIsOwn DEF GuardInv
  <1> QED
    BY <1>1, OthersKeep, LocksProceed DEF Apart

\* A step of one request keeps the guard of every deactivation good.
LEMMA GuardProceed ==
    ASSUME Typed, GuardInv, NEW r \in Requests, Proceed(r) \/ Fail(r)
    PROVE  GuardInv'
  <1>1. UNCHANGED req /\ StepOf(r)
    BY ProceedIsOwn DEF asked
  <1> SUFFICES ASSUME OnlyDeactivations
               PROVE  /\ ActiveAdmins' # {}
                      /\ \A q \in Requests : GuardedOK(q)'
                      /\ \A p, q \in Requests : Apart(p, q)'
    BY <1>1 DEF GuardInv, OnlyDeactivations
  <1>2. Steady(r) /\ ActiveAdmins # {} /\ GuardedOK(r) /\ ActiveAdmins \subseteq Users
    BY DeactivationsAreSteady DEF GuardInv, ActiveAdmins
  <1>3. ActiveAdmins' # {}
    <2>1. CASE \E u \in ActiveAdmins : Updates(r, u)
      <3>1. pc[r] \in Changing \ {"read", "guard", "lock"} /\ req[r].op = "deactivate" /\ req[r].user \in ActiveAdmins
        BY <2>1 DEF Updates, Changing, OnlyDeactivations
      <3>2. PICK v \in work[r].locked : v \in ActiveAdmins /\ v # req[r].user
        BY <1>2, <3>1 DEF GuardedOK
      <3> QED
        BY <1>2, <3>2 DEF Steady, Updates
    <2> QED
      BY <1>2, <2>1 DEF Steady
  <1>4. ASSUME NEW q \in Requests PROVE GuardedOK(q)'
    <2>1. CASE pc'[q] = "done"
      BY <2>1 DEF GuardedOK, Changing
    <2> QED
      BY <1>1, <1>2, <2>1, GuardedOthers, GuardedProceed
  <1>5. ASSUME NEW p \in Requests, NEW q \in Requests PROVE Apart(p, q)'
    <2>1. CASE p # q /\ (p = r \/ q = r)
      BY <2>1, ApartProceed
    <2>2. CASE p # q /\ p # r /\ q # r
      BY <1>1, <2>2, OthersKeep DEF GuardInv, Apart
    <2> QED
      BY <2>1, <2>2 DEF Apart
  <1> QED
    BY <1>3, <1>4, <1>5

\* A request that arrives has locked nothing.
LEMMA GuardReceive ==
    ASSUME Typed, GuardInv, NEW r \in Requests, NEW b \in Bodies, Receive(r, b)
    PROVE  GuardInv'
  <1>1. /\ pc \in [Requests -> Labels] /\ work \in [Requests -> WorkState]
        /\ req \in [Requests -> Bodies \cup {NoRequest}]
    BY DEF Typed, TypeOK, WorkState
  <1>2. /\ pc[r] = "idle" /\ req[r].op = "none" /\ UNCHANGED tables
        /\ pc'[r] \in {"read", "create", "login", "logout"} /\ work'[r].locked = {}
        /\ req' = [req EXCEPT ![r] = b]
    BY <1>1, BodyFacts DEF Receive, Goto, Keep, NoWork, Typed, LabelOK, NoRequest, AdminOps
  <1>3. StepOf(r)
    BY <1>1 DEF Receive, StepOf, Goto, Keep
  <1> SUFFICES ASSUME OnlyDeactivations'
               PROVE  /\ ActiveAdmins' # {}
                      /\ \A q \in Requests : GuardedOK(q)'
                      /\ \A p, q \in Requests : Apart(p, q)'
    BY DEF GuardInv
  <1>4. OnlyDeactivations
    BY <1>1, <1>2 DEF OnlyDeactivations
  <1>5. Steady(r)
    BY <1>2 DEF Steady, ActiveAdmins, RolesOf, tables
  <1>6. ActiveAdmins' # {}
    BY <1>2, <1>4 DEF GuardInv, ActiveAdmins, RolesOf, tables
  <1>7. \A q \in Requests : GuardedOK(q)'
    <2>1. GuardedOK(r)'
      BY <1>2 DEF GuardedOK, Changing
    <2> QED
      BY <1>3, <1>4, <1>5, <2>1, GuardedOthers
  <1>8. \A p, q \in Requests : Apart(p, q)'
    <2>1. \A v : ~Updates(r, v)' /\ ~Creates(r, v)'
      BY <1>2 DEF Updates, Creates
    <2>2. \A p, q \in Requests : Apart(p, q)
      BY <1>4 DEF GuardInv
    <2> QED
      BY <1>2, <1>3, <2>1, <2>2, OthersKeep DEF Apart
  <1> QED
    BY <1>6, <1>7, <1>8

\* No step of Next breaks what the guards of deactivations rely on.
LEMMA GuardStep == Typed /\ GuardInv /\ [Next]_vars => GuardInv'
  <1> SUFFICES ASSUME Typed, GuardInv, [Next]_vars PROVE GuardInv'
    OBVIOUS
  <1>1. ASSUME UNCHANGED <<userState, bindings, pc, req, work>> PROVE GuardInv'
    BY <1>1 DEF GuardInv, OnlyDeactivations, GuardedOK, Apart, Updates, Creates, ActiveAdmins, RolesOf
  <1>2. CASE UNCHANGED vars
    BY <1>1, <1>2 DEF vars
  <1>3. ASSUME NEW s \in Requests, Expire(s) PROVE GuardInv'
    BY <1>1, <1>3 DEF Expire, asked
  <1> QED
    BY <1>2, <1>3, GuardReceive, GuardProceed DEF Next, Idle

\* Changes that come one after the other never take away the last active
\* administrator, and deactivations never do, however they overlap.
THEOREM AnAdminStays == Spec => []GuardKeepsAnAdmin
  <1>1. Spec => []GuardInv
    BY TypedInit, TypedStep, GuardInit, GuardStep, PTL DEF Spec
  <1>2. SerialInv /\ GuardInv => GuardKeepsAnAdmin
    BY DEF SerialInv, AtRest, GuardInv, OnlyDeactivations, GuardKeepsAnAdmin
  <1> QED
    BY <1>1, <1>2, SerialAlways, PTL
=============================================================================
