---------------------------- MODULE ToolGateway ----------------------------
(***************************************************************************)
(* MCPTransportRouter over the tool registry: a call goes to a handler of  *)
(* the registry or, with transport "sdk_stdio", to an MCP server in a      *)
(* process of its own, and to the registry after all when that raises.     *)
(***************************************************************************)
EXTENDS ToolPlanning

\* build_knowledge_invocation_status
KnowledgeInvocation(result_status) ==
    IF result_status = "failed" THEN "failed"
    ELSE IF result_status \in {"disabled", "unavailable"} THEN "unavailable" ELSE "completed"

\* build_normalized_knowledge_payload
KnowledgeResult(found) ==
    [invocation |-> KnowledgeInvocation(found.status),
     result_status |-> found.status, citations |-> found.docs]

\* build_default_tool_handlers; found is the search's result
HandlerResult(tool, found) ==
    IF tool = "knowledge.search" THEN KnowledgeResult(found) ELSE PlainResult("completed")

\* build_default_registry: the tools registered with a handler
Handled == CORE_MCP_TOOL_NAMES

\* ToolRegistry.invoke: a tool without a handler is answered by a stub
RegistryResult(tool, found) ==
    IF tool \in Handled THEN HandlerResult(tool, found) ELSE PlainResult("stubbed")

\* _invoke_with_sdk: every tool of the server requires the argument query.
\* Without it the call is an error with no content; the knowledge search's
\* missing status counts as completed.
SdkResult(tool, has_query, found) ==
    IF has_query THEN RegistryResult(tool, found)
    ELSE PlainResult(IF tool = "knowledge.search" THEN "completed" ELSE "failed")

\* _build_authorized_access_levels
AuthorizedLevels(levels) == IF levels = {} THEN {"internal"} ELSE levels

\* build_server_authorization_context, of what the client put in the environment
ServerLevels(levels) == IF levels = {} THEN {"internal"} ELSE levels

\* What the search finds where the call is answered.  The server's process has
\* settings of its own and no runtime switches; in "preview" it has no database.
ServerFinds(server_runtime, runtime, reachable, index, levels, top_k) ==
    IF server_runtime = "runtime"
      THEN Retrieve(runtime, TRUE, reachable, index, AuthorizedLevels(ServerLevels(levels)), top_k)
      ELSE {NothingRetrieved("preview")}
=============================================================================
