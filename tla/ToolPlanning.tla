---------------------------- MODULE ToolPlanning ----------------------------
(***************************************************************************)
(* What a chat turn decides without side effects: the tools to run         *)
(* (build_langchain_planner_result with its fallbacks), what the           *)
(* guardrails allow, which claims the answer may make, and whether it may  *)
(* come from, or go into, the response cache.                              *)
(*                                                                         *)
(* A text is the set of the keyword groups found in it.                    *)
(***************************************************************************)
EXTENDS Integers, FiniteSets, Retrieval

CONSTANTS Tools,         \* the tools of the registry
          Unknown        \* a name no tool has

CORE_MCP_TOOL_NAMES ==
    {"knowledge.search", "risk.score_account", "trade.query_metrics", "ops.create_alert_or_action"}
DEFAULT_TOOL_NAME == "knowledge.search"
HIGH_IMPACT_TOOL_NAMES == {"ops.create_alert_or_action"}
CACHEABLE_READ_ONLY_TOOLS == {"knowledge.search", "risk.score_account", "trade.query_metrics"}

ASSUME ToolsAssumption == Tools \subseteq CORE_MCP_TOOL_NAMES /\ DEFAULT_TOOL_NAME \in Tools
ASSUME UnknownAssumption == Unknown \notin CORE_MCP_TOOL_NAMES

Roles == {"analyst", "risk_operator", "supervisor", "admin"}
ACTION_ENABLED_ROLES == {"risk_operator", "supervisor", "admin"}
SENSITIVE_ACTION_ALLOWED_ROLES == {"supervisor", "admin"}

\* allowed_access_levels of the authorization context
Scope(role) == IF role = "admin" THEN {"internal", "restricted"} ELSE {"internal"}

\* "alert" also stands for escalate, "freeze" for release and unlock, and each
\* topic for its words; "create" is the phrase create action.
Keywords == {"knowledge", "risk", "trade", "alert", "create", "review", "freeze"}

TOOL_ROUTING_RULES ==
    {[tool_name |-> "knowledge.search", keywords |-> {"knowledge"}],
     [tool_name |-> "risk.score_account", keywords |-> {"risk"}],
     [tool_name |-> "trade.query_metrics", keywords |-> {"trade"}],
     [tool_name |-> "ops.create_alert_or_action", keywords |-> {"alert", "create"}]}

----------------------------------------------------------------------------
(* Planner *)

Matched(text) ==
    {rule.tool_name : rule \in {r \in TOOL_ROUTING_RULES : r.tool_name \in Tools
                                                             /\ r.keywords \cap text # {}}}

\* bug: no tool by default
PlanMatchedOnly(text) == Matched(text)

\* plan_tool_calls
PlanByRules(text) == IF Matched(text) = {} THEN {DEFAULT_TOOL_NAME} ELSE Matched(text)

\* What an override or a model may come up with: nothing, a structured
\* decision, or free text; "none" also stands for an exception and for an
\* answer the schema refuses.
PlannerOutput == [kind : {"none", "structured", "text"}, names : SUBSET (Tools \cup {Unknown})]
NoOutput == [kind |-> "none", names |-> {}]

\* parse_structured_planner_decision with the caller's check: every name is known
StructuredSelection(output) ==
    IF output.kind = "structured" /\ output.names \subseteq Tools THEN output.names ELSE {}

\* parse_langchain_planner_output: unknown names are dropped
TextSelection(output) == IF output.kind = "text" THEN output.names \cap Tools ELSE {}

Plan(source, tools) == [source |-> source, tools |-> tools]

\* build_langchain_planner_result
PlannerResult(override, output, text) ==
    LET overridden == TextSelection(override)
        selected == StructuredSelection(output) \cup TextSelection(output) IN
    IF overridden # {} THEN Plan("planner_override", overridden)
    ELSE IF selected # {} THEN Plan("langchain_model", selected)
    ELSE Plan("rule_fallback", PlanByRules(text))

\* The note of the knowledge rule announces citations; the default's does not.
ClaimsGrounding(plan, text) ==
    /\ "knowledge.search" \in plan.tools
    /\ plan.source = "rule_fallback" => "knowledge" \in text

----------------------------------------------------------------------------
(* GuardrailPolicy *)

\* build_decision: the checks a text gives rise to
InputChecks(text) ==
    (IF "freeze" \in text THEN {"sensitive_action_requested"} ELSE {})
      \cup (IF text \cap {"alert", "review"} # {} THEN {"ops_action_requested"} ELSE {})

EscalationRequired(role, text) ==
    \/ "sensitive_action_requested" \in InputChecks(text) /\ role \notin SENSITIVE_ACTION_ALLOWED_ROLES
    \/ "ops_action_requested" \in InputChecks(text) /\ role \notin ACTION_ENABLED_ROLES

\* build_sensitive_action_response
RefusedAsSensitive(role, text) ==
    "freeze" \in text /\ role \notin SENSITIVE_ACTION_ALLOWED_ROLES

\* bug: any retrieval counts as evidence
AllowedWithoutEvidence(tool, role, approved, evidence) ==
    tool \in HIGH_IMPACT_TOOL_NAMES => role \in ACTION_ENABLED_ROLES /\ approved

\* enforce_tool_invocation
Allowed(tool, role, approved, evidence) ==
    tool \in HIGH_IMPACT_TOOL_NAMES => role \in ACTION_ENABLED_ROLES /\ approved /\ evidence

----------------------------------------------------------------------------
(* Evidence-bound output *)

\* What a tool reports: the invocation, and for the knowledge search the
\* status and the documents cited; "none" where the payload has no status.
ToolResult == [invocation : {"completed", "failed", "unavailable", "blocked", "stubbed"},
               result_status : RetrievalStatuses \cup {"none"}, citations : SUBSET Docs]
PlainResult(invocation) == [invocation |-> invocation, result_status |-> "none", citations |-> {}]

\* is_knowledge_result_usable
Usable(result) ==
    /\ result.invocation = "completed"
    /\ result.result_status \in {"completed", "none"}

Cited(results) ==
    IF "knowledge.search" \in DOMAIN results /\ Usable(results["knowledge.search"])
      THEN results["knowledge.search"].citations ELSE {}

\* bug: a usable result is enough
ValidatedByStatus(results, claims) ==
    [citations |-> Cited(results),
     grounded_claims |-> claims /\ ("knowledge.search" \in DOMAIN results
                                      => Usable(results["knowledge.search"]))]

\* validate_evidence_bound_output: the citations and the grounded claims that
\* stay; citations add a claim of their own
Validated(results, claims) ==
    [citations |-> Cited(results),
     grounded_claims |-> IF "knowledge.search" \in DOMAIN results THEN Cited(results) # {}
                                                                ELSE claims]

----------------------------------------------------------------------------
(* CacheEligibilityPolicy; the caller always has a user, a role, a scope, a *)
(* session and a context revision *)

\* build_cache_request_context and evaluate, before the answer is known
MayAskCache(role, text) == InputChecks(text) = {} /\ ~EscalationRequired(role, text)

CompletedReadOnly(results) ==
    /\ DOMAIN results # {} /\ DOMAIN results \subseteq CACHEABLE_READ_ONLY_TOOLS
    /\ \A t \in DOMAIN results : results[t].invocation = "completed"

NON_CACHEABLE_RETRIEVAL_STATUSES == {"empty", "disabled", "failed", "unavailable", "preview"}

\* build_post_response_cache_context and evaluate
MayStore(role, text, results) ==
    /\ MayAskCache(role, text)
    /\ CompletedReadOnly(results)
    /\ "knowledge.search" \in DOMAIN results =>
         results["knowledge.search"].result_status \notin NON_CACHEABLE_RETRIEVAL_STATUSES
=============================================================================
