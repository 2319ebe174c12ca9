---------------------------- MODULE ChatExchange ----------------------------
(***************************************************************************)
(* One chat turn: POST /chat, AgentService.handle_command with             *)
(* ChatPersistenceCoordinator, RedisChatContextStore and the response      *)
(* cache.                                                                  *)
(*                                                                         *)
(* A turn restores the history of its session, records the user's message, *)
(* looks for a cached response, otherwise plans and runs tools, and then   *)
(* records the reply and what came of it.  Every statement commits on its  *)
(* own; a failing one is noted in the turn's flags and the turn goes on.   *)
(* Turns run concurrently on a thread pool and the process may die.        *)
(*                                                                         *)
(* Two stores hold the messages of a session: PostgreSQL all of them, and  *)
(* Redis the last few for each user, which is what a turn prefers to read. *)
(***************************************************************************)
EXTENDS Integers, Sequences, FiniteSets

CONSTANTS Users, Sessions, Requests, None,
          RoleOf,        \* [Users -> Roles], the primary role
          ApprovalOf,    \* [Users -> BOOLEAN], approval_status = 'approved' in the context
          Plans,         \* the sets of tools a planner may select
          Limit,         \* messages restored, and kept in Redis (6 in both places)
          MaxInFlight,   \* bound: turns at the same time
          MaxFailures    \* bound: failing calls and crashes in a behaviour

Roles == {"analyst", "risk_operator", "supervisor", "admin"}

ASSUME NoneAssumption == None \notin Users \cup Sessions \cup Requests
ASSUME IdsAssumption == Sessions \cap Requests = {} /\ "absent" \notin Users
ASSUME RolesAssumption == RoleOf \in [Users -> Roles] /\ ApprovalOf \in [Users -> BOOLEAN]
ASSUME PlansAssumption == Plans \subseteq SUBSET {"read", "ops"} /\ {} \notin Plans
ASSUME BoundsAssumption == Limit \in Nat \ {0} /\ MaxInFlight \in Nat /\ MaxFailures \in Nat

VARIABLES
    \* PostgreSQL
    owner,       \* chat_sessions.user_id, None for NULL, or "absent"
    messages,    \* chat_messages per session, oldest first
    toolLogs, alerts, audits,
    \* Redis
    context,     \* per user and session, the list of recent messages
    cache,       \* response cache entries
    \* turns
    pc, req, work, answer,
    \* history: failures so far, and sessions with a failure or overlapping turns
    failures, disturbed

database == <<owner, messages, toolLogs, alerts, audits>>
redis == <<context, cache>>
ghosts == <<failures, disturbed>>
vars == <<owner, messages, toolLogs, alerts, audits, context, cache,
          pc, req, work, answer, failures, disturbed>>

SessionIds == Sessions \cup Requests     \* a turn without a session draws its own id
Tools == {"read", "ops"}                 \* CACHEABLE_READ_ONLY_TOOLS, and the alert tool
ACTION_ENABLED_ROLES == {"risk_operator", "supervisor", "admin"}
SENSITIVE_ACTION_ALLOWED_ROLES == {"supervisor", "admin"}

\* What a message text is to the guardrails and to the cache policy: a question
\* that may be answered from the cache, a sensitive action, or whitespace.
Asks == {"read", "sensitive", "blank"}

Bodies == [user : Users, session : Sessions \cup {None}, ask : Asks]

NoRequest == [user |-> None, session |-> None, ask |-> "none"]
NoResponse == [by |-> None, tools |-> {}, ops |-> "none", grounded |-> FALSE]
NoWork == [history |-> <<>>, seen |-> "none", cacheStatus |-> "none", response |-> NoResponse,
           sessionOk |-> FALSE, userOk |-> FALSE, assistantOk |-> FALSE,
           logsOk |-> FALSE, recordsOk |-> FALSE]

\* From before there were logins: no owner, and a message that is in PostgreSQL only.
Legacy == [from |-> "user", content |-> "read", by |-> None]

Init ==
    /\ owner \in {o \in [SessionIds -> {"absent", None}] : \A r \in Requests : o[r] = "absent"}
    /\ messages = [s \in SessionIds |-> IF owner[s] = None THEN <<Legacy>> ELSE <<>>]
    /\ toolLogs = {} /\ alerts = {} /\ audits = {}
    /\ context = [k \in Users \X SessionIds |-> <<>>]
    /\ cache = {}
    /\ pc = [r \in Requests |-> "idle"]
    /\ req = [r \in Requests |-> NoRequest]
    /\ work = [r \in Requests |-> NoWork]
    /\ answer = [r \in Requests |-> "none"]
    /\ failures = 0
    /\ disturbed = {s \in SessionIds : owner[s] = None}

----------------------------------------------------------------------------
Sid(r) == IF req[r].session = None THEN r ELSE req[r].session
InFlight == {r \in Requests : pc[r] \notin {"idle", "done", "lost"}}

Goto(r, label) == pc' = [pc EXCEPT ![r] = label]
Keep(r, w) == work' = [work EXCEPT ![r] = w]

\* What stays of a turn's work as history, for the properties.
Outlives(w) == [NoWork EXCEPT !.history = w.history, !.seen = w.seen,
                              !.cacheStatus = w.cacheStatus, !.response = w.response]

Return(r, what) ==
    /\ Goto(r, "done")
    /\ answer' = [answer EXCEPT ![r] = what]

\* A call to a store succeeds (ok) or raises, having had its effect (done) or not.
Attempt(r, ok, done) ==
    \/ ok /\ done /\ UNCHANGED ghosts
    \/ /\ ~ok /\ failures < MaxFailures
       /\ failures' = failures + 1
       /\ disturbed' = disturbed \cup {Sid(r)}

TakeLast(s) == IF Len(s) <= Limit THEN s ELSE SubSeq(s, Len(s) - Limit + 1, Len(s))

UserMessage(r) == [from |-> "user", content |-> req[r].ask, by |-> r]
AssistantMessage(r) ==
    [from |-> "assistant", content |-> IF work[r].response.tools = {} THEN "refusal" ELSE "reply",
     by |-> r]

\* Whitespace only passes the schema and is refused after the history was restored.
AfterRestore(r) ==
    IF req[r].ask = "blank" THEN Return(r, "prompted")
                            ELSE Goto(r, "lookup") /\ UNCHANGED answer

Receive(r, b) ==
    /\ pc[r] = "idle" /\ Cardinality(InFlight) < MaxInFlight
    /\ req' = [req EXCEPT ![r] = b]
    /\ \/ b.session # None /\ Goto(r, "restore") /\ UNCHANGED answer
       \/ b.session = None /\ b.ask = "blank" /\ Return(r, "prompted")
       \/ b.session = None /\ b.ask # "blank" /\ Goto(r, "create") /\ UNCHANGED answer
    /\ disturbed' = disturbed \cup
          IF b.session # None /\ \E q \in InFlight : Sid(q) = b.session THEN {b.session} ELSE {}
    /\ UNCHANGED <<database, redis, work, failures>>

----------------------------------------------------------------------------
(* restore_recent_messages *)

RestoreSession(r) ==
    LET o == owner[Sid(r)] IN
    /\ pc[r] = "restore"
    /\ \/ Attempt(r, FALSE, FALSE) /\ AfterRestore(r)
       \/ /\ UNCHANGED ghosts
          /\ \/ o = "absent" /\ AfterRestore(r)
             \/ o \in {None, req[r].user} /\ Goto(r, "load_context") /\ UNCHANGED answer
             \/ o \notin {"absent", None, req[r].user} /\ Return(r, "forbidden")
    /\ UNCHANGED <<database, redis, req, work>>

\* load_recent_messages_with_status; an empty list and a Redis failure lead to PostgreSQL
LoadContext(r) ==
    LET list == context[<<req[r].user, Sid(r)>>] IN
    /\ pc[r] = "load_context"
    /\ \/ /\ list # <<>>
          /\ Keep(r, [work[r] EXCEPT !.history = TakeLast(list)])
          /\ AfterRestore(r)
          /\ UNCHANGED ghosts
       \/ /\ \/ list = <<>> /\ UNCHANGED ghosts
             \/ Attempt(r, FALSE, FALSE)
          /\ Goto(r, "load_durable")
          /\ UNCHANGED <<work, answer>>
    /\ UNCHANGED <<database, redis, req>>

\* bug: the query has no LIMIT
LoadDurableUncut(r) ==
    /\ pc[r] = "load_durable"
    /\ \/ Keep(r, [work[r] EXCEPT !.history = messages[Sid(r)]]) /\ UNCHANGED ghosts
       \/ Attempt(r, FALSE, FALSE) /\ UNCHANGED work
    /\ AfterRestore(r)
    /\ UNCHANGED <<database, redis, req>>

\* list_recent_messages
LoadDurable(r) ==
    /\ pc[r] = "load_durable"
    /\ \/ /\ Keep(r, [work[r] EXCEPT !.history = TakeLast(messages[Sid(r)])])
          /\ UNCHANGED ghosts
       \/ Attempt(r, FALSE, FALSE) /\ UNCHANGED work
    /\ AfterRestore(r)
    /\ UNCHANGED <<database, redis, req>>

----------------------------------------------------------------------------
(* start_exchange *)

\* bug: the owner is not compared again
LookupSessionTrusting(r) ==
    LET o == owner[Sid(r)] IN
    /\ pc[r] = "lookup"
    /\ Keep(r, [work[r] EXCEPT !.seen = o, !.sessionOk = o \notin {"absent", None}])
    /\ Goto(r, CASE o = "absent" -> "create" [] o = None -> "claim" [] OTHER -> "append_user")
    /\ UNCHANGED <<database, redis, req, answer, ghosts>>

\* ensure_chat_session reads the session a second time ...
LookupSession(r) ==
    LET o == owner[Sid(r)] IN
    /\ pc[r] = "lookup"
    /\ \/ Attempt(r, FALSE, FALSE) /\ Goto(r, "append_user") /\ UNCHANGED <<work, answer>>
       \/ /\ o \notin {"absent", None, req[r].user}
          /\ Return(r, "forbidden")
          /\ UNCHANGED <<work, ghosts>>
       \/ /\ o \in {"absent", None, req[r].user}
          /\ Keep(r, [work[r] EXCEPT !.seen = o, !.sessionOk = (o = req[r].user)])
          /\ Goto(r, IF o = "absent" THEN "create" ELSE IF o = None THEN "claim" ELSE "append_user")
          /\ UNCHANGED <<answer, ghosts>>
    /\ UNCHANGED <<database, redis, req>>

\* bug: the UPDATE does not ask whether the session is still unowned
ClaimSessionUnguarded(r) ==
    /\ pc[r] = "claim"
    /\ owner' = [owner EXCEPT ![Sid(r)] = req[r].user]
    /\ Keep(r, [work[r] EXCEPT !.sessionOk = TRUE])
    /\ Goto(r, "append_user")
    /\ UNCHANGED <<messages, toolLogs, alerts, audits, redis, req, answer, ghosts>>

\* ... claims it, WHERE user_id IS NULL and without looking at the number of rows ...
ClaimSession(r) ==
    /\ pc[r] = "claim"
    /\ \E ok, done \in BOOLEAN :
         /\ Attempt(r, ok, done)
         /\ owner' = [owner EXCEPT ![Sid(r)] = IF done /\ @ = None THEN req[r].user ELSE @]
         /\ Keep(r, [work[r] EXCEPT !.sessionOk = ok])
    /\ Goto(r, "append_user")
    /\ UNCHANGED <<messages, toolLogs, alerts, audits, redis, req, answer>>

\* ... or creates it, ON CONFLICT DO NOTHING.
CreateSession(r) ==
    /\ pc[r] = "create"
    /\ \E ok, done \in BOOLEAN :
         /\ Attempt(r, ok, done)
         /\ owner' = [owner EXCEPT ![Sid(r)] = IF done /\ @ = "absent" THEN req[r].user ELSE @]
         /\ Keep(r, [work[r] EXCEPT !.sessionOk = ok])
    /\ Goto(r, "append_user")
    /\ UNCHANGED <<messages, toolLogs, alerts, audits, redis, req, answer>>

Stored(r, message) == [messages EXCEPT ![Sid(r)] = Append(@, message)]

AppendUserMessage(r) ==
    /\ pc[r] = "append_user"
    /\ \/ ~work[r].sessionOk /\ UNCHANGED <<messages, work, ghosts>>
       \/ /\ work[r].sessionOk
          /\ \E ok, done \in BOOLEAN :
               /\ Attempt(r, ok, done)
               /\ messages' = IF done THEN Stored(r, UserMessage(r)) ELSE messages
               /\ Keep(r, [work[r] EXCEPT !.userOk = ok])
    /\ Goto(r, "push_user")
    /\ UNCHANGED <<owner, toolLogs, alerts, audits, redis, req, answer>>

\* bug: LTRIM 0 .. max_messages - 1 keeps the oldest messages
PushOldest(r, message) ==
    /\ context' = [context EXCEPT ![<<req[r].user, Sid(r)>>] =
                  LET longer == Append(@, message) IN
                  IF Len(longer) <= Limit THEN longer ELSE SubSeq(longer, 1, Limit)]
    /\ UNCHANGED ghosts

\* append_message: RPUSH, then LTRIM, which may not be reached.
Push(r, message) ==
    \E ok, done \in BOOLEAN :
      /\ Attempt(r, ok, done)
      /\ context' = [context EXCEPT ![<<req[r].user, Sid(r)>>] =
                       IF ~done THEN @
                       ELSE IF ok THEN TakeLast(Append(@, message)) ELSE Append(@, message)]

PushUserMessage(r) ==
    /\ pc[r] = "push_user"
    /\ Push(r, UserMessage(r))
    /\ Goto(r, "cache")
    /\ UNCHANGED <<database, cache, req, work, answer>>

----------------------------------------------------------------------------
(* The response cache *)

Plain(history) ==
    [i \in DOMAIN history |-> [from |-> history[i].from, content |-> history[i].content]]

\* bug: the history is not part of the key
CacheKeyWithoutHistory(r) ==
    [user |-> req[r].user, session |-> Sid(r), ask |-> req[r].ask, history |-> <<>>]

\* build_cache_key; role and scope are functions of the user
CacheKey(r) ==
    [user |-> req[r].user, session |-> Sid(r), ask |-> req[r].ask,
     history |-> Plain(work[r].history)]

\* The switch is read from PostgreSQL at every use and an administrator may set
\* it at any time, so each use sees either value.  "none" stands for a cache that
\* is off, passed by (BYPASS) or does not answer (UNAVAILABLE).
ReadCache(r) ==
    LET entries == {e \in cache : e.key = CacheKey(r)}
        Go(status) == Keep(r, [work[r] EXCEPT !.cacheStatus = status]) /\ Goto(r, "respond") IN
    /\ pc[r] = "cache"
    /\ \/ Go("none") /\ UNCHANGED <<cache, ghosts>>
       \/ /\ req[r].ask = "read"
          /\ \/ Attempt(r, FALSE, FALSE) /\ Go("none") /\ UNCHANGED cache
             \/ \* nothing there, or its time to live is over
                /\ cache' = cache \ entries
                /\ Go("miss") /\ UNCHANGED ghosts
             \/ \E e \in entries :
                  /\ Keep(r, [work[r] EXCEPT !.cacheStatus = "hit", !.response = e.response])
                  /\ Goto(r, "append_assistant")
                  /\ UNCHANGED <<cache, ghosts>>
    /\ UNCHANGED <<database, context, req, answer>>

\* enforce_tool_invocation, for the alert tool
ToolAllowed(r, grounded) ==
    RoleOf[req[r].user] \in ACTION_ENABLED_ROLES /\ ApprovalOf[req[r].user] /\ grounded

\* The planner is a language model or a list of keywords: it may select any plan
\* for any question.  A blocked tool is part of the response like one that ran.
\* Whether there was grounded evidence is kept for the roles of which it is asked.
Responses(r) ==
    LET evidence == IF RoleOf[req[r].user] \in ACTION_ENABLED_ROLES THEN BOOLEAN ELSE {FALSE} IN
    {[by |-> r, tools |-> tools, grounded |-> FALSE, ops |-> "none"] : tools \in Plans \cap {{"read"}}}
    \cup
    {[by |-> r, tools |-> tools, grounded |-> grounded,
      ops |-> IF ToolAllowed(r, grounded) THEN "run" ELSE "blocked"] :
       tools \in Plans \ {{"read"}}, grounded \in evidence}

\* build_sensitive_action_response
Refused(r) ==
    req[r].ask = "sensitive" /\ RoleOf[req[r].user] \notin SENSITIVE_ACTION_ALLOWED_ROLES

Respond(r) ==
    /\ pc[r] = "respond"
    /\ \/ /\ Refused(r)
          /\ Keep(r, [work[r] EXCEPT !.response = [NoResponse EXCEPT !.by = r]])
          /\ Goto(r, "append_assistant")
          /\ UNCHANGED <<answer, ghosts>>
       \/ /\ ~Refused(r)
          /\ \E response \in Responses(r) : Keep(r, [work[r] EXCEPT !.response = response])
          /\ Goto(r, IF work[r].cacheStatus = "miss" THEN "store" ELSE "append_assistant")
          /\ UNCHANGED <<answer, ghosts>>
       \/ \* a tool raises: the request fails with the user's message recorded
          /\ ~Refused(r) /\ Attempt(r, FALSE, FALSE)
          /\ Return(r, "failed")
          /\ UNCHANGED work
    /\ UNCHANGED <<database, redis, req>>

WithEntry(r) ==
    {e \in cache : e.key # CacheKey(r)} \cup {[key |-> CacheKey(r), response |-> work[r].response]}

\* Only results of read-only tools are stored, and of those not every one: they
\* must be complete and grounded, and the switch may be off by now.
StoreCache(r) ==
    LET response == work[r].response IN
    /\ pc[r] = "store"
    /\ \/ UNCHANGED <<cache, ghosts>>
       \/ /\ response.tools \subseteq {"read"}
          /\ \E ok, done \in BOOLEAN :
               /\ Attempt(r, ok, done)
               /\ cache' = IF done THEN WithEntry(r) ELSE cache
    /\ Keep(r, [work[r] EXCEPT !.cacheStatus = "none"])   \* a miss plays no further part
    /\ Goto(r, "append_assistant")
    /\ UNCHANGED <<database, context, req, answer>>

----------------------------------------------------------------------------
(* finish_exchange *)

AppendAssistantMessage(r) ==
    /\ pc[r] = "append_assistant"
    /\ \/ ~work[r].sessionOk /\ UNCHANGED <<messages, work, ghosts>>
       \/ /\ work[r].sessionOk
          /\ \E ok, done \in BOOLEAN :
               /\ Attempt(r, ok, done)
               /\ messages' = IF done THEN Stored(r, AssistantMessage(r)) ELSE messages
               /\ Keep(r, [work[r] EXCEPT !.assistantOk = ok])
    /\ Goto(r, "push_assistant")
    /\ UNCHANGED <<owner, toolLogs, alerts, audits, redis, req, answer>>

PushAssistantMessage(r) ==
    /\ pc[r] = "push_assistant"
    /\ Push(r, AssistantMessage(r))
    /\ Goto(r, "tool_logs")
    /\ UNCHANGED <<database, cache, req, work, answer>>

\* bug: the flag is set whether the inserts raised or not
PersistToolLogsHopeful(r) ==
    /\ pc[r] = "tool_logs"
    /\ \E written \in SUBSET work[r].response.tools :
         /\ Attempt(r, written = work[r].response.tools, TRUE)
         /\ toolLogs' = toolLogs \cup IF work[r].userOk
                                      THEN [by : {r}, session : {Sid(r)}, tool : written] ELSE {}
    /\ Keep(r, [work[r] EXCEPT !.logsOk = TRUE])
    /\ Goto(r, "records")
    /\ UNCHANGED <<owner, messages, alerts, audits, redis, req, answer>>

\* One insert per tool; those before the one that raises are kept.
PersistToolLogs(r) ==
    LET w == work[r]
        nothing == w.cacheStatus = "hit" \/ w.response.tools = {} IN
    /\ pc[r] = "tool_logs"
    /\ \/ /\ nothing \/ ~w.userOk
          /\ Keep(r, [w EXCEPT !.logsOk = nothing])
          /\ UNCHANGED <<toolLogs, ghosts>>
       \/ /\ ~nothing /\ w.userOk
          /\ \E ok \in BOOLEAN, written \in SUBSET w.response.tools :
               /\ Attempt(r, ok, written = w.response.tools)
               /\ toolLogs' = toolLogs \cup [by : {r}, session : {Sid(r)}, tool : written]
               /\ Keep(r, [w EXCEPT !.logsOk = ok])
    /\ Goto(r, "records")
    /\ UNCHANGED <<owner, messages, alerts, audits, redis, req, answer>>

NewAlert(r) == [by |-> r, session |-> Sid(r)]

\* bug: the reply the alert refers to may be missing
PersistRecordsUnanchored(r) ==
    /\ pc[r] = "records"
    /\ alerts' = IF work[r].response.ops = "run" THEN alerts \cup {NewAlert(r)} ELSE alerts
    /\ Keep(r, [work[r] EXCEPT !.recordsOk = TRUE])
    /\ Goto(r, "audit")
    /\ UNCHANGED <<owner, messages, toolLogs, audits, redis, req, answer, ghosts>>

\* A blocked tool has no recommended action; a cached response is not told apart here.
PersistOperationalRecords(r) ==
    LET w == work[r] IN
    /\ pc[r] = "records"
    /\ \/ /\ w.response.ops = "none" \/ ~w.assistantOk \/ w.response.ops = "blocked"
          /\ Keep(r, [w EXCEPT !.recordsOk = (w.response.ops = "none" \/ w.assistantOk)])
          /\ UNCHANGED <<alerts, ghosts>>
       \/ /\ w.response.ops = "run" /\ w.assistantOk
          /\ \E ok, done \in BOOLEAN :
               /\ Attempt(r, ok, done)
               /\ alerts' = IF done THEN alerts \cup {NewAlert(r)} ELSE alerts
               /\ Keep(r, [w EXCEPT !.recordsOk = ok])
    /\ Goto(r, "audit")
    /\ UNCHANGED <<owner, messages, toolLogs, audits, redis, req, answer>>

AuditRecord(r) ==
    LET w == work[r] IN
    [by |-> r, session |-> Sid(r), hit |-> (w.cacheStatus = "hit"),
     user |-> w.userOk, assistant |-> w.assistantOk, logs |-> w.logsOk, records |-> w.recordsOk]

PersistAudit(r) ==
    /\ pc[r] = "audit"
    /\ \/ ~work[r].sessionOk /\ UNCHANGED <<audits, ghosts>>
       \/ /\ work[r].sessionOk
          /\ \E ok, done \in BOOLEAN :
               /\ Attempt(r, ok, done)
               /\ audits' = IF done THEN audits \cup {AuditRecord(r)} ELSE audits
    /\ Return(r, "ok")
    /\ work' = [work EXCEPT ![r] = Outlives(@)]
    /\ UNCHANGED <<owner, messages, toolLogs, alerts, redis, req>>

----------------------------------------------------------------------------
\* The API process dies with its turns.
Crash ==
    /\ InFlight # {} /\ failures < MaxFailures
    /\ failures' = failures + 1
    /\ pc' = [r \in Requests |-> IF r \in InFlight THEN "lost" ELSE pc[r]]
    /\ disturbed' = disturbed \cup {Sid(r) : r \in InFlight}
    /\ work' = [r \in Requests |-> Outlives(work[r])]
    /\ UNCHANGED <<database, redis, req, answer>>

Proceed(r) ==
    \/ RestoreSession(r) \/ LoadContext(r) \/ LoadDurable(r)
    \/ LookupSession(r) \/ ClaimSession(r) \/ CreateSession(r)
    \/ AppendUserMessage(r) \/ PushUserMessage(r)
    \/ ReadCache(r) \/ Respond(r) \/ StoreCache(r)
    \/ AppendAssistantMessage(r) \/ PushAssistantMessage(r)
    \/ PersistToolLogs(r) \/ PersistOperationalRecords(r) \/ PersistAudit(r)

Idle == (\A r \in Requests : pc[r] \in {"done", "lost"}) /\ UNCHANGED vars

Next ==
    \/ \E r \in Requests : \E b \in Bodies : Receive(r, b)
    \/ \E r \in Requests : Proceed(r)
    \/ Crash
    \/ Idle

Spec == Init /\ [][Next]_vars

----------------------------------------------------------------------------
(* Properties *)

Message == [from : {"user", "assistant"}, content : Asks \cup {"reply", "refusal"},
            by : Requests \cup {None}]
Response == [by : Requests \cup {None}, tools : SUBSET Tools, ops : {"none", "blocked", "run"},
             grounded : BOOLEAN]
Key == [user : Users, session : SessionIds, ask : {"read"},
        history : Seq([from : {"user", "assistant"}, content : Asks \cup {"reply", "refusal"}])]
Labels == {"idle", "restore", "load_context", "load_durable", "lookup", "claim", "create",
           "append_user", "push_user", "cache", "respond", "store", "append_assistant",
           "push_assistant", "tool_logs", "records", "audit", "done", "lost"}

\* Type invariant.  A turn works with at most Limit messages, also when a list
\* in Redis was not trimmed.
TypeOK ==
    /\ owner \in [SessionIds -> Users \cup {"absent", None}]
    /\ messages \in [SessionIds -> Seq(Message)]
    /\ toolLogs \subseteq [by : Requests, session : SessionIds, tool : Tools]
    /\ alerts \subseteq [by : Requests, session : SessionIds]
    /\ audits \subseteq [by : Requests, session : SessionIds, hit : BOOLEAN, user : BOOLEAN,
                         assistant : BOOLEAN, logs : BOOLEAN, records : BOOLEAN]
    /\ context \in [Users \X SessionIds -> Seq(Message)]
    /\ \A e \in cache : e.key \in Key /\ e.response \in Response
    /\ pc \in [Requests -> Labels]
    /\ req \in [Requests -> Bodies \cup {NoRequest}]
    /\ work \in [Requests ->
          [history : Seq(Message), seen : Users \cup {"none", "absent", None},
           cacheStatus : {"none", "miss", "hit"},
           response : Response, sessionOk : BOOLEAN, userOk : BOOLEAN, assistantOk : BOOLEAN,
           logsOk : BOOLEAN, recordsOk : BOOLEAN]]
    /\ \A r \in Requests : Len(work[r].history) <= Limit
    /\ answer \in [Requests -> {"none", "ok", "forbidden", "prompted", "failed"}]
    /\ failures \in 0 .. MaxFailures /\ disturbed \subseteq SessionIds

\* The owner of a session never changes, however first turns and take-overs of
\* an unowned session race (claim_session, create_session).
OwnersStay ==
    [][\A s \in SessionIds : owner[s] \in Users => owner'[s] = owner[s]]_vars

\* A message of another user than the owner is in a session only if that user's
\* turn had looked the session up while nobody owned it (ensure_chat_session):
\* once the owner is known no turn of another user writes to the session.
ForeignMessagesOverlapped ==
    \A s \in SessionIds : \A i \in DOMAIN messages[s] :
      LET r == messages[s][i].by IN
      r # None /\ req[r].user # owner[s] => work[r].seen \in {"none", "absent", None}

\* Redis and PostgreSQL tell the same recent history of a session in which no
\* call has failed and no two turns have overlapped, once its turns are over.
HistorySourcesAgree ==
    \A s \in SessionIds \ disturbed :
      (\A r \in InFlight : Sid(r) # s) /\ owner[s] \in Users
        => context[<<owner[s], s>>] = TakeLast(messages[s])

Has(s, r, from) == \E i \in DOMAIN messages[s] : messages[s][i].by = r /\ messages[s][i].from = from

\* What a turn leaves behind refers to messages that exist: a tool log to the
\* question, an alert to the reply, of that turn in that session.
ArtifactsAnchored ==
    /\ \A l \in toolLogs : Has(l.session, l.by, "user")
    /\ \A a \in alerts : Has(a.session, a.by, "assistant")

\* The persistence flags of an audit event claim nothing that is not in the
\* tables, whichever calls failed before it (persist_audit_events).
AuditClaimsAreTrue ==
    \A e \in audits :
      /\ e.user => Has(e.session, e.by, "user")
      /\ e.assistant => Has(e.session, e.by, "assistant")
      /\ e.logs /\ ~e.hit => \A t \in work[e.by].response.tools :
                               [by |-> e.by, session |-> e.session, tool |-> t] \in toolLogs
      /\ e.records /\ work[e.by].response.ops = "run" =>
           [by |-> e.by, session |-> e.session] \in alerts

\* A turn answered from the cache gets the reply to the same question, asked by
\* the same user in the same session after the same messages.
HitsRepeatTheTurn ==
    \A r \in Requests : work[r].cacheStatus = "hit" =>
      LET q == work[r].response.by IN
      /\ CacheKey(q) = CacheKey(r)
      /\ Plain(work[q].history) = Plain(work[r].history)
=============================================================================
