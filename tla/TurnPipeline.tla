---------------------------- MODULE TurnPipeline ----------------------------
(***************************************************************************)
(* A request through the backend: POST /chat from the maintenance check to *)
(* the response cache, the direct POST /tools routes, and GET /health.     *)
(*                                                                         *)
(* While a request is under way administrators change switches and roles,  *)
(* refreshes change the index, and PostgreSQL and Redis come and go.       *)
(* ChatExchange has what a turn records and who may use a session; here    *)
(* the turns are of one session of one user with the same history, so an   *)
(* entry of the cache is told apart by text, role and scope.               *)
(***************************************************************************)
EXTENDS RuntimeSwitches, ToolGateway, PlannerContext

CONSTANTS Requests,        \* slots: as many requests at the same time
          PathsOf,         \* [Requests -> SUBSET Paths], what a slot is used for
          UserRoles,       \* the roles the user may get
          Texts,           \* messages, as sets of keywords
          ModelOutputs,    \* what the planner's model may come up with
          Histories,       \* conversations restored for the planner
          Indexes,         \* states of the index a refresh may leave
          Configurations,  \* settings of the process
          passage,         \* [Docs -> Passages], a document's text
          TopKs,           \* top_k of direct searches
          MaxChanges       \* bound: changes of the surroundings

Paths == {"/chat", "/tools", "/health"}

ASSUME RequestsAssumption == PathsOf \in [Requests -> SUBSET Paths] /\ UserRoles \subseteq Roles
ASSUME TextsAssumption == Texts \subseteq SUBSET Keywords /\ Histories \subseteq Seq(Messages)
ASSUME OutputsAssumption == ModelOutputs \subseteq PlannerOutput
ASSUME IndexesAssumption == Indexes \subseteq SUBSET Docs
ASSUME PassageAssumption == passage \in [Docs -> Passages]
ASSUME TopKsAssumption == TopKs \subseteq 1..50 /\ MaxChanges \in Nat

\* approved: the context has approval_status 'approved', which callers of
\* handle_command may pass and POST /chat does not.
Settings == [mcp_transport_mode : {"registry", "sdk_stdio"}, mcp_server_runtime : {"preview", "runtime"},
             retrieval_enabled : BOOLEAN, embedding_provider : EmbeddingProviders \cup {"other"},
             response_cache_enabled : BOOLEAN, planner_override : PlannerOutput, approved : BOOLEAN]

ASSUME ConfigurationsAssumption == Configurations \subseteq Settings

VARIABLES
    config,      \* settings, fixed while the process runs
    role,        \* the user's role, as a login's session finds it
    index,       \* the documents with an embedding of the configured model
    up,          \* per dependency: it answers
    entries,     \* response cache in Redis
    turn,        \* per slot: the request it serves
    changes      \* changes of the surroundings so far, without those of switches

vars == <<config, role, index, up, entries, turn, changes, rows, change, clock>>

surroundings == <<config, role, index, up, changes, rows, change, clock>>

\* An answer's citations, and whether it says that it is grounded.
Nothing == [citations |-> {}, grounded_claims |-> FALSE]

Idle == [step |-> "idle", path |-> None, text |-> {}, tool |-> None, top_k |-> 0, role |-> None,
         cache |-> "disabled", checks |-> <<>>, history |-> <<>>, evidence |-> FALSE,
         grounding |-> <<>>, plan |-> None, results |-> <<>>, outcome |-> None, found |-> Nothing,
         seen |-> {}, undisturbed |-> TRUE, searched |-> {}]

Init ==
    /\ SwitchInit
    /\ config \in Configurations
    /\ role \in UserRoles
    /\ index \in Indexes
    /\ up = [postgresql |-> TRUE, redis |-> TRUE]
    /\ entries = {}
    /\ turn = [r \in Requests |-> Idle]
    /\ changes = 0

Runtime == RetrievalRuntime(config.retrieval_enabled, config.embedding_provider)

On(key) == IsEnabled(key, up.postgresql)
FeaturesOn == {key \in {"response_cache_enabled", "retrieval_enabled"} : On(key)}

\* History: the switches a turn or tool call under way has found on, or could
\* have, and whether anything has changed since the request arrived.
Observe ==
    \E on \in {FeaturesOn'} :
      turn' = [r \in Requests |->
                 IF turn[r].step = "idle" THEN turn[r]
                 ELSE IF turn[r].step = "done" \/ turn[r].path = "/health"
                   THEN [turn[r] EXCEPT !.undisturbed = FALSE]
                 ELSE [turn[r] EXCEPT !.undisturbed = FALSE, !.seen = @ \cup on]]

Go(r, t) ==
    /\ turn' = [turn EXCEPT ![r] = t]
    /\ UNCHANGED surroundings

Done(t, outcome, found) ==
    [t EXCEPT !.step = "done", !.outcome = outcome, !.found = found]

----------------------------------------------------------------------------
(* Arrival: enforce_maintenance_mode, then get_current_principal *)

\* enforce_maintenance_mode; the paths below /admin are exempt as well
Admitted(path) == path = "/health" \/ ~On("maintenance_mode")

\* require_principal_roles of the route
RouteRoles(path, tool) ==
    IF path = "/tools" /\ tool = "ops.create_alert_or_action" THEN ACTION_ENABLED_ROLES ELSE Roles

\* A bearer token is looked up in PostgreSQL; GET /health asks for none.
Arrive(r, t) ==
    /\ turn[r].step = "idle" /\ t.path \in PathsOf[r]
    /\ LET arrived == [t EXCEPT !.seen = IF t.path = "/health" THEN {} ELSE FeaturesOn] IN
       \/ /\ ~Admitted(t.path)
          /\ Go(r, Done(arrived, "maintenance", Nothing))
       \/ /\ Admitted(t.path) /\ t.path = "/health"
          /\ Go(r, [arrived EXCEPT !.step = "postgresql"])
       \/ /\ Admitted(t.path) /\ t.path # "/health" /\ ~up.postgresql
          /\ Go(r, Done(arrived, "error", Nothing))
       \/ /\ Admitted(t.path) /\ t.path # "/health" /\ up.postgresql
          /\ Go(r, IF role \in RouteRoles(t.path, t.tool)
                     THEN [arrived EXCEPT !.step = IF t.path = "/chat" THEN "consider" ELSE "route",
                                          !.role = role]
                     ELSE Done(arrived, "forbidden", Nothing))
    /\ UNCHANGED entries

Calls ==
    {[Idle EXCEPT !.path = "/chat", !.text = text] : text \in Texts}
      \cup {[Idle EXCEPT !.path = "/tools", !.tool = "knowledge.search", !.top_k = k] : k \in TopKs}
      \cup {[Idle EXCEPT !.path = "/tools", !.tool = tool] : tool \in Tools \ {"knowledge.search"}}
      \cup {[Idle EXCEPT !.path = "/health"]}

\* The response is sent, and the slot is free.
Leave(r) ==
    /\ turn[r].step = "done"
    /\ Go(r, Idle)
    /\ UNCHANGED entries

----------------------------------------------------------------------------
(* POST /chat: AgentService.handle_command *)

\* bug: the switch is not asked
ActiveBySettings(r) == config.response_cache_enabled

\* _cache_is_active
CacheIsActive(r) == config.response_cache_enabled /\ On("response_cache_enabled")

ConsiderCache(r) ==
    /\ turn[r].step = "consider"
    /\ Go(r, [turn[r] EXCEPT
          !.cache = IF ~CacheIsActive(r) THEN "disabled"
                    ELSE IF MayAskCache(turn[r].role, turn[r].text) THEN "eligible" ELSE "bypass",
          !.step = IF CacheIsActive(r) /\ MayAskCache(turn[r].role, turn[r].text) THEN "lookup" ELSE "plan"])
    /\ UNCHANGED entries

\* bug: the key has neither role nor scope
KeyOfText(t) == <<t.text>>

\* build_cache_key; user, session, history and revision are the same here
CacheKey(t) == <<t.text, t.role, Scope(t.role)>>

Cached(t) == {e \in entries : e.key = CacheKey(t)}

\* serialize_agent_response: what an entry keeps of an answer
Entry(t) == [key |-> CacheKey(t), results |-> t.results, found |-> t.found]

\* deserialize_agent_response: it becomes the answer of the turn that finds it
Restored(t, e) == Done([t EXCEPT !.cache = "hit", !.results = e.results], "answered", e.found)

ReadCacheEntry(r) ==
    /\ turn[r].step = "lookup"
    /\ \/ /\ ~up.redis
          /\ Go(r, [turn[r] EXCEPT !.cache = "unavailable", !.step = "plan"])
       \/ /\ up.redis /\ Cached(turn[r]) = {}
          /\ Go(r, [turn[r] EXCEPT !.cache = "miss", !.step = "plan"])
       \/ /\ up.redis
          /\ \E e \in Cached(turn[r]) :
               Go(r, Restored(turn[r], e))
    /\ UNCHANGED entries

Refuse(r) ==
    /\ turn[r].step = "plan"
    /\ RefusedAsSensitive(turn[r].role, turn[r].text)
    /\ Go(r, Done(turn[r], "refused", Nothing))
    /\ UNCHANGED entries

\* What a search in this process finds.
Finds(levels, top_k) ==
    Retrieve(Runtime, On("retrieval_enabled"), up.postgresql, index, levels, top_k)

\* The passages in the order of their similarity, or in one of these orders if
\* some are equally similar.
PassagesOf(docs) ==
    {[i \in DOMAIN order |-> passage[order[i]]] :
       order \in {o \in [1..Cardinality(docs) -> docs] :
                    \A i, j \in 1..Cardinality(docs) :
                      i < j => o[i] # o[j] /\ similarity[o[i]] >= similarity[o[j]]}}

\* build_langchain_planner_result: retrieval without access levels, the
\* grounding, the bounded history, and the model.
PlanTools(r) ==
    /\ turn[r].step = "plan"
    /\ ~RefusedAsSensitive(turn[r].role, turn[r].text)
    /\ \E found \in Finds({}, 2), output \in ModelOutputs, history \in Histories :
       \E passages \in PassagesOf(found.docs) :
         Go(r, [turn[r] EXCEPT !.step = "invoke", !.history = history, !.grounding = passages,
                !.evidence = found.status = "completed" /\ Ground(passages).included # <<>>,
                !.plan = PlannerResult(config.planner_override, output, turn[r].text)])
    /\ UNCHANGED entries

\* Which of these calls are answered by the MCP server: none without the SDK
\* transport, and with it those that did not raise.
AnsweredByServer(tools) == IF config.mcp_transport_mode = "sdk_stdio" THEN SUBSET tools ELSE {{}}

\* What the knowledge search finds, here or in the server's process.
FindsIn(tools, levels, top_k) ==
    IF "knowledge.search" \in tools
      THEN ServerFinds(config.mcp_server_runtime, Runtime, up.postgresql, index, levels, top_k)
      ELSE Finds(AuthorizedLevels(levels), top_k)

AfterInvocation(t, results) ==
    LET found == Validated(results, ClaimsGrounding(t.plan, t.text)) IN
    IF t.cache = "miss" THEN [t EXCEPT !.step = "store", !.found = found]
                        ELSE Done(t, "answered", found)

\* invoke_planned_tool_calls and build_agent_response
InvokeTools(r) ==
    LET t == turn[r]
        allowed == {tool \in t.plan.tools : Allowed(tool, t.role, config.approved, t.evidence)} IN
    /\ t.step = "invoke"
    /\ \E served \in AnsweredByServer(allowed) :
       \E found \in IF "knowledge.search" \in allowed THEN FindsIn(served, Scope(t.role), 3)
                                                       ELSE {NothingRetrieved("empty")} :
         LET results == [tool \in t.plan.tools |->
                           IF tool \notin allowed THEN PlainResult("blocked")
                           ELSE IF tool \in served THEN SdkResult(tool, FALSE, found)
                           ELSE RegistryResult(tool, found)] IN
         Go(r, AfterInvocation([t EXCEPT !.history = <<>>, !.grounding = <<>>,
                                         !.results = results, !.searched = found.scanned], results))
    /\ UNCHANGED entries

\* bug: stored whatever the tools reported
StoreAnything(r) ==
    LET t == turn[r] IN
    /\ t.step = "store"
    /\ Go(r, Done(t, "answered", t.found))
    /\ entries' = IF CacheIsActive(r) /\ up.redis
                    THEN (entries \ Cached(t)) \cup {Entry(t)}
                    ELSE entries

\* The end of handle_command; a Redis that is down changes the telemetry only.
StoreAnswer(r) ==
    LET t == turn[r] IN
    /\ t.step = "store"
    /\ Go(r, Done(t, "answered", t.found))
    /\ entries' = IF CacheIsActive(r) /\ MayStore(t.role, t.text, t.results) /\ up.redis
                    THEN (entries \ Cached(t)) \cup {Entry(t)}
                    ELSE entries

----------------------------------------------------------------------------
(* POST /tools/..., the direct routes: a query, and no guardrail of the chat *)

InvokeRoute(r) ==
    LET t == turn[r] IN
    /\ t.step = "route"
    /\ \E served \in AnsweredByServer({t.tool}) :
       \E found \in IF t.tool = "knowledge.search" THEN FindsIn(served, Scope(t.role), t.top_k)
                                                   ELSE {NothingRetrieved("empty")} :
         LET result == IF served = {} THEN RegistryResult(t.tool, found) ELSE SdkResult(t.tool, TRUE, found) IN
         Go(r, Done([t EXCEPT !.results = [tool \in {t.tool} |-> result], !.searched = found.scanned],
                    "answered", [citations |-> result.citations, grounded_claims |-> FALSE]))
    /\ UNCHANGED entries

----------------------------------------------------------------------------
(* GET /health: RuntimeReadinessService.check *)

ReadinessStates == {"ready", "degraded", "disabled", "unavailable"}

\* bug: whatever is switched off is as good as ready
OverallIgnoringSwitches(checks) ==
    IF checks.postgresql = "unavailable" \/ checks.redis = "unavailable" THEN "unavailable"
    ELSE IF {checks.retrieval, checks.response_cache} \cap {"degraded", "unavailable"} # {} THEN "degraded"
    ELSE "ready"

\* _overall_state; the backend and the registry, which are always ready, left out
Overall(checks) ==
    IF checks.postgresql = "unavailable" \/ checks.redis = "unavailable" THEN "unavailable"
    ELSE IF {checks.retrieval, checks.response_cache} \cap {"degraded", "unavailable"} # {}
            \/ checks.retrieval = "disabled" THEN "degraded"
    ELSE "ready"

Pinged(dependency) == IF up[dependency] THEN "ready" ELSE "unavailable"

CheckPostgres(r) ==
    /\ turn[r].step = "postgresql"
    /\ Go(r, [turn[r] EXCEPT !.step = "redis", !.checks = [postgresql |-> Pinged("postgresql")]])
    /\ UNCHANGED entries

CheckRedis(r) ==
    /\ turn[r].step = "redis"
    /\ Go(r, [turn[r] EXCEPT !.step = "report",
                         !.checks = [postgresql |-> @.postgresql, redis |-> Pinged("redis")]])
    /\ UNCHANGED entries

\* _check_retrieval, and _check_cache, which goes by the settings and the ping
Report(r) ==
    LET checks ==
          [postgresql |-> turn[r].checks.postgresql, redis |-> turn[r].checks.redis,
           retrieval |-> RuntimeState(Runtime, On("retrieval_enabled")),
           response_cache |-> IF ~config.response_cache_enabled THEN "disabled"
                              ELSE IF turn[r].checks.redis = "ready" THEN "ready" ELSE "degraded"] IN
    /\ turn[r].step = "report"
    /\ Go(r, Done([turn[r] EXCEPT !.checks = checks], Overall(checks), Nothing))
    /\ UNCHANGED entries

----------------------------------------------------------------------------
(* The surroundings *)

Changed == changes < MaxChanges /\ changes' = changes + 1

\* An administrator changes a switch (RuntimeSwitches).
RequestSwitch(c) ==
    /\ up.postgresql
    /\ \E key \in Switches, enabled \in BOOLEAN : SetEnabled(c, key, enabled)
    /\ UNCHANGED <<config, role, index, up, entries, turn, changes>>

ContinueSwitch(c) ==
    /\ (up.postgresql /\ ProceedSwitch(c)) \/ RollbackSwitch(c)
    /\ UNCHANGED <<config, role, index, up, entries, changes>>
    /\ IF rows' = rows THEN UNCHANGED turn ELSE Observe

\* A dependency goes down or comes back.
Toggle(dependency) ==
    /\ Changed
    /\ up' = [up EXCEPT ![dependency] = ~@]
    /\ UNCHANGED <<config, role, index, entries, rows, change, clock>>
    /\ Observe

\* A refresh commits (KnowledgeIngestion), or an administrator replaces the role.
Refresh ==
    /\ Changed
    /\ index' \in Indexes \ {index}
    /\ UNCHANGED <<config, role, up, entries, rows, change, clock>>
    /\ Observe

ReplaceRole ==
    /\ Changed
    /\ role' \in UserRoles \ {role}
    /\ UNCHANGED <<config, index, up, entries, rows, change, clock>>
    /\ Observe

\* An entry's time to live is over.
Expire ==
    /\ \E e \in entries : entries' = entries \ {e}
    /\ UNCHANGED <<surroundings, turn>>

----------------------------------------------------------------------------
Chat(r) == ConsiderCache(r) \/ ReadCacheEntry(r) \/ Refuse(r) \/ PlanTools(r) \/ InvokeTools(r) \/ StoreAnswer(r)
Health(r) == CheckPostgres(r) \/ CheckRedis(r) \/ Report(r)
Serve(r) == Chat(r) \/ InvokeRoute(r) \/ Health(r)

Next ==
    \/ \E r \in Requests : (\E t \in Calls : Arrive(r, t)) \/ Serve(r) \/ Leave(r)
    \/ \E c \in Changes : RequestSwitch(c) \/ ContinueSwitch(c)
    \/ \E dependency \in DOMAIN up : Toggle(dependency)
    \/ Refresh \/ ReplaceRole \/ Expire

Spec == Init /\ [][Next]_vars

----------------------------------------------------------------------------
(* Properties *)

TurnSteps == {"idle", "consider", "lookup", "plan", "invoke", "store", "route",
              "postgresql", "redis", "report", "done"}
Found == [citations : SUBSET Docs, grounded_claims : BOOLEAN]
Answered(r) == turn[r].step = "done" /\ turn[r].outcome = "answered"
Fresh(r) == Answered(r) /\ turn[r].cache # "hit"
Searched(r) == "knowledge.search" \in DOMAIN turn[r].results

\* Type invariant; a plan is not empty and names tools of the registry only,
\* as registry.invoke raises on others.
TypeOK ==
    /\ SwitchTypeOK
    /\ config \in Configurations /\ role \in UserRoles /\ index \in Indexes
    /\ up \in [{"postgresql", "redis"} -> BOOLEAN]
    /\ changes \in 0..MaxChanges
    /\ \A e \in entries : e.found \in Found /\ \A d \in entries : d.key = e.key => d = e
    /\ \A r \in Requests :
         LET t == turn[r] IN
         /\ t.step \in TurnSteps /\ t.found \in Found /\ t.seen \subseteq Switches
         /\ t.cache \in {"disabled", "eligible", "bypass", "unavailable", "miss", "hit"}
         /\ t.step = "invoke" => t.plan.tools \in (SUBSET Tools) \ {{}}
         /\ \A tool \in DOMAIN t.results : t.results[tool] \in ToolResult

\* Whatever way an answer takes, by search, through the MCP server or from the
\* cache, it cites documents only of the access levels of the role the user had
\* when the request was authenticated (build_cache_key, _build_authorized_access_levels).
CitationsAuthorized ==
    \A r \in Requests : turn[r].step = "done" =>
        \A d \in turn[r].found.citations : access_level[d] \in Scope(turn[r].role)

\* An answer that searched and says it is grounded has citations, each found by
\* a search that completed (validate_evidence_bound_output).
GroundedAnswersCite ==
    \A r \in Requests : Answered(r) /\ Searched(r) =>
        LET result == turn[r].results["knowledge.search"] IN
        /\ turn[r].found.grounded_claims => turn[r].found.citations # {}
        /\ turn[r].found.citations \subseteq result.citations
        /\ turn[r].path = "/chat" /\ turn[r].found.citations # {} => result.result_status = "completed"

\* Of a cached answer, which is repeated for as long as the entry lives, every
\* tool has completed without changing anything; and what looks like an answer
\* of the knowledge base cites it, unless the search went through the SDK.
CachedAnswersComplete ==
    \A e \in entries :
        /\ DOMAIN e.results \subseteq CACHEABLE_READ_ONLY_TOOLS
        /\ \A tool \in DOMAIN e.results : e.results[tool].invocation = "completed"
        /\ "knowledge.search" \in DOMAIN e.results /\ config.mcp_transport_mode = "registry" => e.found.citations # {}

\* Whatever the model plans, a chat turn runs the alert tool only for a role
\* that may act, and after its own retrieval has found something
\* (enforce_tool_invocation with handle_command's evidence_context).
ActionsHaveEvidence ==
    \A r \in Requests :
        /\ Fresh(r) /\ turn[r].path = "/chat"
        /\ "ops.create_alert_or_action" \in DOMAIN turn[r].results
        /\ turn[r].results["ops.create_alert_or_action"].invocation # "blocked"
        => turn[r].evidence /\ turn[r].role \in ACTION_ENABLED_ROLES

\* With its switch off, and readable, all the time a request takes, the cache is
\* left alone, and neither the planning nor the tools retrieve anything, if the
\* tools run in this process (_cache_is_active, _is_runtime_enabled).
SwitchedOffMeansOff ==
    \A r \in Requests :
        LET t == turn[r] IN
        /\ t.step # "idle" /\ "response_cache_enabled" \notin t.seen => t.cache = "disabled"
        /\ Fresh(r) /\ config.mcp_transport_mode = "registry" /\ "retrieval_enabled" \notin t.seen
           => ~t.evidence /\ t.found.citations = {}

\* Of the documents its scan has reached, a search returns the best ones the user
\* may see, as many as asked for: none is displaced by one that the user may not
\* see, or lost between the WHERE clause, LIMIT and the minimum similarity
\* (search_similar_chunks).  What a scan of the HNSW index misses is missing.
BestResults ==
    \A r \in Requests : Fresh(r) /\ Searched(r) =>
        LET result == turn[r].results["knowledge.search"] IN
        result.result_status \in {"completed", "empty"} =>
            IsBestOf(result.citations, turn[r].searched, Scope(turn[r].role),
                     IF turn[r].path = "/chat" THEN 3 ELSE turn[r].top_k)

\* What the planner is told of the conversation and of the knowledge base is
\* bounded and starts with the newest and the most similar.  The payload, and
\* the answer's trace of the grounding, say when something is missing, but the
\* prompt's text does not: it is made from the passages grounded a second time,
\* which are the same but for white space at a cut, and then nothing is missing
\* (build_langchain_retrieval_context_prompt).
ContextIsHonest ==
    \A r \in Requests : turn[r].step = "invoke" =>
        /\ IsNewestOf(BoundHistory(turn[r].history), turn[r].history)
        /\ IsHonestGrounding(Ground(turn[r].grounding), turn[r].grounding)

\* A request served in the surroundings of a report of "ready", shortly before
\* or after it or at the same time, meets no failing database or cache and no
\* retrieval that is off or cannot run (RuntimeReadinessService).  That the
\* search succeeds is not said: the report loads no embedding model, and the
\* first search that does may fail.
ReportPredicts ==
    \A h, r \in Requests :
        /\ turn[h].step = "done" /\ turn[h].outcome = "ready"
        /\ turn[r].step = "done"
        /\ turn[h].undisturbed /\ turn[r].undisturbed
        => /\ turn[r].outcome # "error"
           /\ turn[r].cache # "unavailable"
           /\ Searched(r) /\ turn[r].cache # "hit" =>
                turn[r].results["knowledge.search"].result_status \notin {"disabled", "unavailable"}
=============================================================================
