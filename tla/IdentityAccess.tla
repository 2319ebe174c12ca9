--------------------------- MODULE IdentityAccess ---------------------------
(***************************************************************************)
(* Users, role bindings and login sessions: the admin-only /admin/users    *)
(* routes (AdminIdentityService), POST /auth/login and /auth/logout        *)
(* (AuthService).                                                          *)
(*                                                                         *)
(* An administrator's change is one PostgreSQL transaction; a login is     *)
(* four statements that commit one by one.  Handlers run concurrently on   *)
(* a thread pool, at READ COMMITTED: every statement sees what was         *)
(* committed when it started, and a statement that needs a row another     *)
(* transaction holds waits for that transaction to end.  A statement that  *)
(* may wait is therefore several steps, the snapshot and then its rows one *)
(* by one, in any order; what it has locked it keeps to the end of its     *)
(* transaction.                                                            *)
(***************************************************************************)
EXTENDS Integers, Sequences, FiniteSets

CONSTANTS Users,         \* user names
          Roles,         \* role names, "admin" among them
          Requests,      \* HTTP requests; also the ids of the sessions they open
          Browsers,      \* browser_session_id values
          None,
          InitialRoles,  \* [Users -> SUBSET Roles]; {} for a user not created yet
          Kinds,         \* the operations a run looks at
          allow_multiple_identities

ASSUME NoneAssumption == None \notin Users \cup Requests \cup Browsers
ASSUME RolesAssumption == "admin" \in Roles /\ InitialRoles \in [Users -> SUBSET Roles]
\* The demonstration data creates an administrator.
ASSUME UsersAssumption == \E u \in Users : "admin" \in InitialRoles[u]
ASSUME ModeAssumption == allow_multiple_identities \in BOOLEAN

VARIABLES
    userState,   \* iam.users: is_active, or "absent"
    bindings,    \* iam.user_role_bindings: per user, rows named by role and writer
    sessions,    \* iam.auth_sessions, by session id
    changes,     \* the role changes in the order they were committed (history)
    overlapped,  \* whether a request has ever arrived while another ran (history)
    pc, req,     \* per request: next statement, and what the caller asked for
    work,        \* per request: what its statements have read, locked and written
    answer       \* per request: what the caller was told

tables == <<userState, bindings, sessions, changes>>
asked == <<overlapped, req>>
vars == <<userState, bindings, sessions, changes, overlapped, pc, req, work, answer>>

NoSession == [user |-> None, browser |-> None, state |-> "none"]
NoRequest == [op |-> "none", user |-> None, roles |-> {}, browser |-> None, session |-> None, actor |-> None]
\* locked: users FOR UPDATE; rows: sessions that a statement has still to revoke.
NoWork == [admins |-> {}, locked |-> {}, snapshot |-> {}, deleted |-> {}, inserted |-> {}, rows |-> {},
           revoked |-> {}, openBefore |-> {}]

AdminOps == {"roles", "activate", "deactivate", "create"}

\* The actor is the administrator who asks.
Bodies ==
    LET Body(op, users, roles, browsers, ids, actors) ==
          [op : {op}, user : users, roles : roles, browser : browsers, session : ids, actor : actors]
        some == (SUBSET Roles) \ {{}} IN
    {b \in Body("roles", Users, some, {None}, {None}, Users)
           \cup Body("create", Users, some, {None}, {None}, Users)
           \cup Body("activate", Users, {{}}, {None}, {None}, Users)
           \cup Body("deactivate", Users, {{}}, {None}, {None}, Users)
           \cup Body("login", Users, {{}}, Browsers, {None}, {None})
           \cup Body("logout", {None}, {{}}, {None}, Requests, {None}) : b.op \in Kinds}

Init ==
    /\ userState = [u \in Users |-> IF InitialRoles[u] = {} THEN "absent" ELSE "active"]
    /\ bindings = [u \in Users |-> {[role |-> x, by |-> None] : x \in InitialRoles[u]}]
    /\ sessions = [s \in Requests |-> NoSession]
    /\ changes = <<>>
    /\ overlapped = FALSE
    /\ pc = [r \in Requests |-> "idle"]
    /\ req = [r \in Requests |-> NoRequest]
    /\ work = [r \in Requests |-> NoWork]
    /\ answer = [r \in Requests |-> "none"]

----------------------------------------------------------------------------
RolesOf(u) == {row.role : row \in bindings[u]}
ActiveAdmins == {u \in Users : userState[u] = "active" /\ "admin" \in RolesOf(u)}

OpenSessions == {s \in Requests : sessions[s].state = "live"}
SessionsOf(u) == {s \in OpenSessions : sessions[s].user = u}
WithState(ids, state) ==
    [s \in Requests |-> IF s \in ids THEN [sessions[s] EXCEPT !.state = state] ELSE sessions[s]]

InFlight == {r \in Requests : pc[r] \notin {"idle", "done"}}
Goto(r, label) == pc' = [pc EXCEPT ![r] = label]
Keep(r, w) == work' = [work EXCEPT ![r] = w]

\* The handler returns; its transaction is over and its locks are released.
Return(r, what) ==
    /\ Goto(r, "done")
    /\ answer' = [answer EXCEPT ![r] = what]
    /\ Keep(r, [NoWork EXCEPT !.openBefore = work[r].openBefore])

\* Only an active administrator reaches /admin/users, and only the owner of a
\* live session can log out of it.
Receive(r, b) ==
    /\ pc[r] = "idle"
    /\ b.op \in AdminOps => b.actor \in ActiveAdmins
    /\ b.op = "logout" =>
         b.session \in OpenSessions /\ userState[sessions[b.session].user] = "active"
    /\ req' = [req EXCEPT ![r] = b]
    /\ overlapped' = (overlapped \/ InFlight # {})
    /\ Goto(r, IF b.op \in {"roles", "activate", "deactivate"} THEN "read" ELSE b.op)
    /\ Keep(r, [NoWork EXCEPT !.openBefore = IF b.op \in {"roles", "deactivate"}
                                               THEN SessionsOf(b.user) ELSE {}])
    /\ UNCHANGED <<tables, answer>>

\* A session reaches its expires_at.
Expire(s) ==
    /\ s \in OpenSessions
    /\ sessions' = WithState({s}, "expired")
    /\ UNCHANGED <<userState, bindings, changes, pc, asked, work, answer>>

----------------------------------------------------------------------------
(* Row locks *)

\* q has updated the row of u, which leaves references to it possible ...
Updates(q, u) ==
    /\ req[q].op \in {"activate", "deactivate"} /\ req[q].user = u
    /\ pc[q] \in {"sessions", "revoke", "audit", "commit"}

\* ... and here has rows that refer to it, by a binding or by the audit event:
\* a foreign key locks the row FOR KEY SHARE.
RefersTo(q, u) ==
    \/ req[q].op = "roles" /\ req[q].user = u /\ pc[q] \in {"sessions", "revoke", "audit", "commit"}
    \/ req[q].actor = u /\ pc[q] = "commit"

\* q has changed the binding of u that gives role x.
Rebinds(q, u, x) ==
    req[q].user = u /\ (x \in work[q].inserted \/ \E row \in work[q].deleted : row.role = x)

\* q has created u; the user name is unique.
Creates(q, u) == req[q].op = "create" /\ req[q].user = u /\ pc[q] \in {"audit", "commit"}

\* The rows that the statement of r has still to lock.
Wanted(r) ==
    CASE pc[r] = "lock" -> work[r].admins \ work[r].locked
      [] pc[r] \in {"update", "reference", "create", "session"} -> {req[r].user}
      [] pc[r] = "delete" -> work[r].snapshot
      [] pc[r] = "insert" -> req[r].roles \ work[r].inserted
      [] pc[r] \in {"revoke", "browser"} -> work[r].rows
      [] pc[r] = "audit" -> {req[r].actor}
      [] pc[r] = "logout" -> {req[r].session}
      [] OTHER -> {}

\* The transaction of q holds one of them.
Holds(q, r, x) ==
    \/ pc[r] \in {"lock", "update", "reference", "audit", "session"} /\ x \in work[q].locked
    \/ pc[r] \in {"lock", "update"} /\ Updates(q, x)
    \/ pc[r] = "lock" /\ RefersTo(q, x)
    \/ pc[r] = "delete" /\ req[q].user = req[r].user /\ x \in work[q].deleted
    \/ pc[r] = "insert" /\ Rebinds(q, req[r].user, x)
    \/ pc[r] \in {"revoke", "browser", "logout"} /\ x \in work[q].revoked
    \/ pc[r] = "create" /\ Creates(q, x)

Free(r, x) == \A q \in Requests \ {r} : ~Holds(q, r, x)

\* r waits for q, if the row it comes to next is one that q holds.
WaitsFor(r, q) == q # r /\ \E x \in Wanted(r) : Holds(q, r, x)

----------------------------------------------------------------------------
(* AdminIdentityService *)

\* _get_managed_user, an unlocked read; the guard is only for a user seen as an
\* active administrator who is about to stop being one
ReadUser(r) ==
    LET b == req[r]
        known == IF userState[b.user] = "active" THEN RolesOf(b.user) ELSE {}
        removing == /\ "admin" \in known
                    /\ b.op = "deactivate" \/ (b.op = "roles" /\ "admin" \notin b.roles) IN
    /\ pc[r] = "read"
    /\ \/ userState[b.user] = "absent" /\ Return(r, "not_found")
       \/ /\ userState[b.user] # "absent"
          /\ Goto(r, IF removing THEN "guard" ELSE IF b.op = "roles" THEN "snapshot" ELSE "update")
          /\ UNCHANGED <<work, answer>>
    /\ UNCHANGED <<tables, asked>>

\* What follows the guard.
Guarded(r) == IF req[r].op = "roles" THEN "snapshot" ELSE "update"

\* bug: the SELECT has no FOR UPDATE
CountActiveAdmins(r) ==
    /\ pc[r] = "guard"
    /\ IF Cardinality(ActiveAdmins) <= 1
         THEN Return(r, "refused")
         ELSE Goto(r, Guarded(r)) /\ UNCHANGED <<work, answer>>
    /\ UNCHANGED <<tables, asked>>

\* SELECT ... WHERE is_active AND role_name = 'admin' FOR UPDATE OF user_record:
\* the rows are found first ...
FindActiveAdmins(r) ==
    /\ pc[r] = "guard"
    /\ Goto(r, "lock")
    /\ Keep(r, [work[r] EXCEPT !.admins = ActiveAdmins])
    /\ UNCHANGED <<tables, asked, answer>>

\* ... then locked, one after the other ...
LockActiveAdmin(r) ==
    /\ pc[r] = "lock"
    /\ \E u \in Wanted(r) :
         Free(r, u) /\ Keep(r, [work[r] EXCEPT !.locked = @ \cup {u}])
    /\ UNCHANGED <<tables, asked, pc, answer>>

\* bug: off by one in the comparison with the number of rows
GuardOffByOne(r) ==
    /\ pc[r] = "lock" /\ Wanted(r) = {}
    /\ Goto(r, Guarded(r))
    /\ UNCHANGED <<tables, asked, work, answer>>

\* ... and counted.  A user row that was updated while the statement waited is
\* checked again, its bindings are not.
GuardLastActiveAdmin(r) ==
    /\ pc[r] = "lock" /\ Wanted(r) = {}
    /\ IF Cardinality({u \in work[r].admins : userState[u] = "active"}) <= 1
         THEN Return(r, "refused")
         ELSE Goto(r, Guarded(r)) /\ UNCHANGED <<work, answer>>
    /\ UNCHANGED <<tables, asked>>

\* DELETE FROM iam.user_role_bindings WHERE user_id = .
FindBindings(r) ==
    LET found == bindings[req[r].user] IN
    /\ pc[r] = "snapshot"
    /\ Goto(r, IF found = {} THEN "insert" ELSE "delete")
    /\ Keep(r, [work[r] EXCEPT !.snapshot = found])
    /\ UNCHANGED <<tables, asked, answer>>

\* bug: the old bindings are not deleted
KeepBindings(r) ==
    /\ pc[r] = "delete"
    /\ Goto(r, "insert")
    /\ UNCHANGED <<tables, asked, work, answer>>

\* A row that another transaction deleted while the statement waited is skipped.
DeleteBinding(r) ==
    /\ pc[r] = "delete"
    /\ \E row \in Wanted(r) :
         /\ Free(r, row)
         /\ Keep(r, [work[r] EXCEPT !.snapshot = @ \ {row}, !.deleted = @ \cup ({row} \cap bindings[req[r].user])])
         /\ Goto(r, IF work[r].snapshot = {row} THEN "insert" ELSE "delete")
    /\ UNCHANGED <<tables, asked, answer>>

\* INSERT INTO iam.user_role_bindings, role by role; its primary key is (user_id, role_id)
InsertBinding(r) ==
    LET taken == {row.role : row \in bindings[req[r].user] \ work[r].deleted} IN
    /\ pc[r] = "insert"
    /\ \E x \in Wanted(r) :
         /\ Free(r, x)
         /\ \/ x \in taken /\ Return(r, "failed")
            \/ /\ x \notin taken
               /\ Keep(r, [work[r] EXCEPT !.inserted = @ \cup {x}])
               /\ Goto(r, IF Wanted(r) = {x} THEN "reference" ELSE "insert")
               /\ UNCHANGED answer
    /\ UNCHANGED <<tables, asked>>

\* The foreign key to iam.users, at the end of the INSERT.
CheckReference(r) ==
    /\ pc[r] = "reference" /\ Free(r, req[r].user)
    /\ Goto(r, "sessions")
    /\ UNCHANGED <<tables, asked, work, answer>>

\* UPDATE iam.users SET is_active = .
UpdateActive(r) ==
    /\ pc[r] = "update" /\ Free(r, req[r].user)
    /\ Goto(r, IF req[r].op = "deactivate" THEN "sessions" ELSE "audit")
    /\ UNCHANGED <<tables, asked, work, answer>>

\* bug: the sessions are left alone
SkipRevocation(r) ==
    /\ pc[r] = "sessions"
    /\ Goto(r, "audit")
    /\ UNCHANGED <<tables, asked, work, answer>>

\* UPDATE iam.auth_sessions SET revoked_at = NOW() WHERE user_id = . AND live
FindUserSessions(r) ==
    LET found == SessionsOf(req[r].user) IN
    /\ pc[r] = "sessions"
    /\ Goto(r, IF found = {} THEN "audit" ELSE "revoke")
    /\ Keep(r, [work[r] EXCEPT !.rows = found])
    /\ UNCHANGED <<tables, asked, answer>>

\* The work of r when its UPDATE has come to the row of s.
Revoking(r, s) ==
    [work[r] EXCEPT !.rows = @ \ {s}, !.revoked = @ \cup {x \in {s} : sessions[x].state # "revoked"}]

RevokeUserSession(r) ==
    /\ pc[r] = "revoke"
    /\ \E s \in Wanted(r) :
         /\ Free(r, s)
         /\ Keep(r, Revoking(r, s))
         /\ Goto(r, IF work[r].rows = {s} THEN "audit" ELSE "revoke")
    /\ UNCHANGED <<tables, asked, answer>>

\* The first statement of create_user; the others write rows that belong to the
\* new user, and wait for nobody.
CreateUser(r) ==
    /\ pc[r] = "create" /\ Free(r, req[r].user)
    /\ IF userState[req[r].user] # "absent"
         THEN Return(r, "failed")
         ELSE Goto(r, "audit") /\ UNCHANGED <<work, answer>>
    /\ UNCHANGED <<tables, asked>>

\* The audit event refers to the actor.
InsertAudit(r) ==
    /\ pc[r] = "audit" /\ Free(r, req[r].actor)
    /\ Goto(r, "commit")
    /\ UNCHANGED <<tables, asked, work, answer>>

\* bug: the roles that were there are written back
DeletedRows(r) == {[role |-> row.role, by |-> r] : row \in work[r].deleted}

NewRows(r) == {[role |-> x, by |-> r] : x \in req[r].roles}

CommitChange(r) ==
    LET b == req[r] IN
    /\ pc[r] = "commit"
    /\ userState' = IF b.op = "roles" THEN userState
                    ELSE [userState EXCEPT ![b.user] =
                            IF b.op = "deactivate" THEN "inactive" ELSE "active"]
    /\ bindings' = IF b.op \notin {"roles", "create"} THEN bindings
                   ELSE [bindings EXCEPT ![b.user] = (@ \ work[r].deleted) \cup NewRows(r)]
    /\ changes' = IF b.op \in {"roles", "create"} THEN Append(changes, r) ELSE changes
    /\ sessions' = WithState(work[r].revoked \cap OpenSessions, "revoked")
    /\ Return(r, "ok")
    /\ UNCHANGED asked

----------------------------------------------------------------------------
(* AuthService *)

\* get_user_by_username and the password
ReadLoginUser(r) ==
    /\ pc[r] = "login"
    /\ IF userState[req[r].user] = "active"
         THEN Goto(r, "list_roles") /\ UNCHANGED <<work, answer>>
         ELSE Return(r, "unauthorized")
    /\ UNCHANGED <<tables, asked>>

ReadLoginRoles(r) ==
    /\ pc[r] = "list_roles"
    /\ IF RolesOf(req[r].user) # {}
         THEN /\ Goto(r, IF allow_multiple_identities THEN "session" ELSE "browser_sessions")
              /\ UNCHANGED <<work, answer>>
         ELSE Return(r, "unauthorized")
    /\ UNCHANGED <<tables, asked>>

\* bug: the browser's other identity stays
SkipBrowserRevocation(r) ==
    /\ pc[r] = "browser_sessions"
    /\ Goto(r, "session")
    /\ UNCHANGED <<tables, asked, work, answer>>

\* UPDATE iam.auth_sessions SET revoked_at = NOW() WHERE browser_session_id = . AND live
FindBrowserSessions(r) ==
    LET found == {s \in OpenSessions : sessions[s].browser = req[r].browser} IN
    /\ pc[r] = "browser_sessions"
    /\ Goto(r, IF found = {} THEN "session" ELSE "browser")
    /\ Keep(r, [work[r] EXCEPT !.rows = found])
    /\ UNCHANGED <<tables, asked, answer>>

\* The statement is committed with its last row.
RevokeBrowserSession(r) ==
    /\ pc[r] = "browser"
    /\ \E s \in Wanted(r) :
         /\ Free(r, s)
         /\ IF work[r].rows # {s}
              THEN Keep(r, Revoking(r, s)) /\ UNCHANGED <<sessions, pc>>
              ELSE /\ sessions' = WithState(Revoking(r, s).revoked \cap OpenSessions, "revoked")
                   /\ Keep(r, [work[r] EXCEPT !.rows = {}, !.revoked = {}])
                   /\ Goto(r, "session")
    /\ UNCHANGED <<userState, bindings, changes, asked, answer>>

\* create_auth_session, and the token is returned
CreateSession(r) ==
    /\ pc[r] = "session" /\ Free(r, req[r].user)
    /\ sessions' = [sessions EXCEPT ![r] = [user |-> req[r].user, browser |-> req[r].browser,
                                            state |-> "live"]]
    /\ Return(r, "ok")
    /\ UNCHANGED <<userState, bindings, changes, asked>>

\* revoke_auth_session; an expired session is stamped too
Logout(r) ==
    /\ pc[r] = "logout" /\ Free(r, req[r].session)
    /\ sessions' = WithState({req[r].session}, "revoked")
    /\ Return(r, "ok")
    /\ UNCHANGED <<userState, bindings, changes, asked>>

----------------------------------------------------------------------------
\* bug: the exception leaves the connection, and its row locks, open
FailWithoutRollback(r) ==
    /\ r \in InFlight
    /\ Goto(r, "done")
    /\ answer' = [answer EXCEPT ![r] = "failed"]
    /\ UNCHANGED <<tables, asked, work>>

\* A statement raises: the transaction is rolled back, but what a login has
\* already committed stays.
Fail(r) ==
    /\ r \in InFlight
    /\ Return(r, "failed")
    /\ UNCHANGED <<tables, asked>>

\* PostgreSQL aborts a transaction that is part of a cycle of waiting ones.
BreakDeadlock(r) ==
    /\ \E cycle \in SUBSET InFlight :
         /\ r \in cycle
         /\ \A p \in cycle : (\E q \in cycle : WaitsFor(p, q)) /\ (\E q \in cycle : WaitsFor(q, p))
    /\ Fail(r)

Proceed(r) ==
    \/ ReadUser(r) \/ FindActiveAdmins(r) \/ LockActiveAdmin(r) \/ GuardLastActiveAdmin(r)
    \/ FindBindings(r) \/ DeleteBinding(r) \/ InsertBinding(r) \/ CheckReference(r)
    \/ UpdateActive(r) \/ FindUserSessions(r) \/ RevokeUserSession(r)
    \/ CreateUser(r) \/ InsertAudit(r) \/ CommitChange(r)
    \/ ReadLoginUser(r) \/ ReadLoginRoles(r) \/ FindBrowserSessions(r) \/ RevokeBrowserSession(r)
    \/ CreateSession(r) \/ Logout(r)
    \/ BreakDeadlock(r)

Idle == (\A r \in Requests : pc[r] = "done") /\ UNCHANGED vars

Next ==
    \/ \E r \in Requests : \E b \in Bodies : Receive(r, b)
    \/ \E r \in Requests : Proceed(r) \/ Fail(r)
    \/ \E s \in Requests : Expire(s)
    \/ Idle

Spec == Init /\ [][Next]_vars

\* The thread pool runs the handlers it has started and PostgreSQL detects
\* deadlocks; clients and failures are not fair.
Fairness == \A r \in Requests : WF_vars(Proceed(r))
FairSpec == Spec /\ Fairness

----------------------------------------------------------------------------
(* Properties *)

Labels == {"idle", "read", "guard", "lock", "snapshot", "delete", "insert", "reference", "update", "sessions",
           "revoke", "create", "audit", "commit", "login", "list_roles", "browser_sessions", "browser",
           "session", "logout", "done"}
Row == [role : Roles, by : Requests \cup {None}]

\* Type invariant.
TypeOK ==
    /\ userState \in [Users -> {"absent", "active", "inactive"}]
    /\ bindings \in [Users -> SUBSET Row]
    /\ sessions \in [Requests -> [user : Users \cup {None}, browser : Browsers \cup {None},
                                  state : {"none", "live", "expired", "revoked"}]]
    /\ changes \in Seq(Requests)
    /\ overlapped \in BOOLEAN
    /\ pc \in [Requests -> Labels]
    /\ req \in [Requests -> Bodies \cup {NoRequest}]
    /\ work \in [Requests -> [admins : SUBSET Users, locked : SUBSET Users,
                              snapshot : SUBSET Row, deleted : SUBSET Row, inserted : SUBSET Roles,
                              rows : SUBSET Requests, revoked : SUBSET Requests,
                              openBefore : SUBSET Requests]]
    /\ answer \in [Requests -> {"none", "ok", "not_found", "refused", "failed", "unauthorized"}]

\* No change of roles or of activity takes away the last active administrator
\* (_guard_last_active_admin).
AlwaysAnActiveAdmin == ActiveAdmins # {}

\* Changes that come one after the other, failing anywhere, never take away the
\* last active administrator, and deactivations never do, however they overlap:
\* the guard waits for the rows it counts and counts them again
\* (_guard_last_active_admin).
GuardKeepsAnAdmin ==
    ~overlapped \/ (\A r \in Requests : req[r].op \notin {"roles", "activate"})
      => ActiveAdmins # {}

LatestChange(u) ==
    LET of == {i \in DOMAIN changes : req[changes[i]].user = u} IN
    IF of = {} THEN InitialRoles[u]
               ELSE req[changes[CHOOSE i \in of : \A j \in of : j <= i]].roles

\* The role change that was committed last is in force: however changes race the
\* user holds each role it asked for, and no other when changes do not overlap
\* (_replace_roles deletes the old bindings and inserts the new ones).
RolesAsRequested ==
    \A u \in Users :
      /\ LatestChange(u) \subseteq RolesOf(u)
      /\ ~overlapped => RolesOf(u) = LatestChange(u)

\* The sessions a user had open when a role change or a deactivation arrived
\* are dead once it has succeeded, whatever logs in and out meanwhile.
EarlierSessionsRevoked ==
    \A r \in Requests :
      req[r].op \in {"roles", "deactivate"} /\ answer[r] = "ok"
        => work[r].openBefore \cap OpenSessions = {}

\* The live sessions of one browser belong to one user (authenticate revokes
\* the browser's sessions before it adds one), when logins do not overlap.
OneIdentityPerBrowser ==
    ~overlapped /\ ~allow_multiple_identities =>
      \A s, t \in OpenSessions :
        sessions[s].browser = sessions[t].browser => sessions[s].user = sessions[t].user

\* A user who is deactivated has no live session left (set_user_active and
\* authenticate, one after the other).
NoSessionWhenInactive ==
    ~overlapped => \A s \in OpenSessions : userState[sessions[s].user] = "active"

\* A request that has started is answered: no handler waits forever for a row.
EveryRequestEnds == \A r \in Requests : r \in InFlight ~> pc[r] = "done"
=============================================================================
