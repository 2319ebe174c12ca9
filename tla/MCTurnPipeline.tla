--------------------------- MODULE MCTurnPipeline ---------------------------
(* Small instances of TurnPipeline. *)
EXTENDS TurnPipeline, TLC

CONSTANTS d1, d2, d3, r1, r2, c1, c2

\* The best match is restricted, and the third is not similar enough.
MCAccess == (d1 :> "internal") @@ (d2 :> "restricted") @@ (d3 :> "internal")
MCSimilarity == (d1 :> 5) @@ (d2 :> 9) @@ (d3 :> 1)
\* The text of the first is cut after the space.
MCPassages ==
    LET short == [size |-> 1, spaces |-> {}]
    IN (d1 :> [size |-> 4, spaces |-> {2}]) @@ (d2 :> short) @@ (d3 :> short)
MCIndexes == {{d1, d2, d3}, {d3}}

MCTools == CORE_MCP_TOOL_NAMES
MCTexts == {{"knowledge"}, {"create"}, {"freeze"}}
MCOutputs == {NoOutput, [kind |-> "structured", names |-> {"knowledge.search", "ops.create_alert_or_action"}],
              [kind |-> "text", names |-> {"risk.score_account", Unknown}]}

\* None, short ones and long ones, more than are kept, and one of another role.
MCHistories ==
    LET short == [trusted |-> TRUE, size |-> 1, space |-> 0]
        medium == [short EXCEPT !.size = 2]
        long == [trusted |-> TRUE, size |-> 4, space |-> 2]
        other == [medium EXCEPT !.trusted = FALSE]
    IN {<<>>, <<long, short>>, <<short, long>>, <<short, short, short>>,
        <<long, long, other, medium>>}

\* Turns and tool calls in one slot, health checks in the other.
MCPaths == (r1 :> {"/chat", "/tools"}) @@ (r2 :> {"/health"})

\* One entry at a time; as the history is gone after the planning, turns go on
\* with the empty one only.  A second switch change is there to overlap the
\* first one, between turns; in the middle of a turn a switch changes while
\* nothing else has and there is no entry.  Next to a health check the rules
\* plan, there is no entry, and the surroundings change or a switch has; and
\* where nothing can be embedded only switches change.  Before the switches'
\* rows are seeded there is no entry and only switches change, and next to an
\* entry either a switch has changed or the surroundings have.
MCBounds ==
    /\ Cardinality(entries) <= 1
    /\ \A r \in Requests : turn[r].history = <<>>
    /\ config.embedding_provider = "other" => changes = 0
    /\ (\E key \in Switches : rows[key] = None) => entries = {} /\ changes = 0
    /\ entries # {} /\ changes > 0 => change[c1].step = "idle"
    /\ change[c1].step \notin {"idle", "committed"} /\ turn[r1].step # "idle" => entries = {} /\ changes = 0
    /\ change[c2].step # "idle" =>
         /\ \A r \in Requests : turn[r].step = "idle"
         /\ entries = {} /\ changes = 0 /\ change[c1].step # "idle"
    /\ turn[r2].step # "idle" =>
         /\ entries = {} /\ (turn[r1].plan = None \/ turn[r1].plan.source = "rule_fallback")
         /\ change[c1].step \in {"idle", "committed"}
         /\ changes > 0 => change[c1].step = "idle"

MCConfigurations ==
    LET local == [mcp_transport_mode |-> "registry", mcp_server_runtime |-> "preview",
                  retrieval_enabled |-> TRUE, embedding_provider |-> "mock",
                  response_cache_enabled |-> TRUE, planner_override |-> NoOutput, approved |-> TRUE]
    IN {local, [local EXCEPT !.embedding_provider = "other"],
        [local EXCEPT !.mcp_transport_mode = "sdk_stdio", !.mcp_server_runtime = "runtime"]}
=============================================================================
