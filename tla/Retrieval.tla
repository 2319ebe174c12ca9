----------------------------- MODULE Retrieval -----------------------------
(***************************************************************************)
(* RetrievalService.retrieve over KnowledgeSearchRepository.  A document   *)
(* stands for its chunks; its similarity to the text asked is a number.    *)
(* Rows of equal similarity come in any order.                             *)
(*                                                                         *)
(* The query orders by the distance an HNSW index is built for: PostgreSQL *)
(* may scan that index, which is approximate and reaches some of the       *)
(* documents only, and it applies the WHERE clause to what the scan has    *)
(* reached; or it may scan all of them.                                    *)
(***************************************************************************)
EXTENDS Integers, FiniteSets

CONSTANTS Docs,
          access_level,       \* [Docs -> AccessLevels]
          similarity,         \* [Docs -> Nat]
          minimum_similarity,
          MaxMissed           \* bound: documents a scan of the index misses

AccessLevels == {"internal", "restricted"}
EmbeddingProviders == {"mock", "local_sentence_transformer"}

ASSUME AccessLevelAssumption == access_level \in [Docs -> AccessLevels]
ASSUME SimilarityAssumption == similarity \in [Docs -> Nat] /\ minimum_similarity \in Nat
ASSUME DocsAssumption == IsFiniteSet(Docs) /\ MaxMissed \in Nat

\* "preview" comes from the demonstration data, without retrieval
RetrievalStatuses == {"completed", "empty", "failed", "disabled", "unavailable", "preview"}
\* scanned is history: what the search's scan has reached.
RetrievalResult == [status : RetrievalStatuses, docs : SUBSET Docs, scanned : SUBSET Docs]
NothingRetrieved(status) == [status |-> status, docs |-> {}, scanned |-> {}]

\* What a scan may reach, all of the documents in the sequential one.
Scans(index) == {scan \in SUBSET index : Cardinality(index \ scan) <= MaxMissed}

\* The WHERE clause: without access levels there is no condition on them.
Accessible(scan, levels) == {d \in scan : levels = {} \/ access_level[d] \in levels}

Similar(docs) == {d \in docs : similarity[d] >= minimum_similarity}

\* The possible results of ORDER BY similarity LIMIT top_k.
Top(docs, top_k) ==
    {s \in SUBSET docs :
       /\ Cardinality(s) = IF Cardinality(docs) < top_k THEN Cardinality(docs) ELSE top_k
       /\ \A d \in s, e \in docs \ s : similarity[d] >= similarity[e]}

\* bug: the access levels are checked after the LIMIT
SearchThenFilter(scan, levels, top_k) == {Similar(Accessible(s, levels)) : s \in Top(scan, top_k)}

\* search_similar_chunks over what the scan reaches, and then the minimum similarity
Search(scan, levels, top_k) == {Similar(s) : s \in Top(Accessible(scan, levels), top_k)}

\* The results of a search that completes.
SearchResults(index, levels, top_k) ==
    UNION {{[status |-> IF s = {} THEN "empty" ELSE "completed", docs |-> s, scanned |-> scan] :
              s \in Search(scan, levels, top_k)} : scan \in Scans(index)}

\* build_retrieval_service: "disabled" by the settings, "error" without an
\* embedding provider, or "ready"
RetrievalRuntime(retrieval_enabled, embedding_provider) ==
    IF ~retrieval_enabled THEN "disabled"
    ELSE IF embedding_provider \in EmbeddingProviders THEN "ready" ELSE "error"

\* bug: the runtime switch is not asked
RetrieveBySettings(runtime, switched_on, reachable, index, levels, top_k) ==
    IF runtime = "disabled" THEN {NothingRetrieved("disabled")}
    ELSE IF runtime = "error" THEN {NothingRetrieved("unavailable")}
    ELSE {NothingRetrieved("failed")} \cup (IF reachable THEN SearchResults(index, levels, top_k) ELSE {})

\* retrieve; reachable says whether PostgreSQL is up.  The search may fail all
\* the same: embed_query loads its model on the first use, and both may raise.
Retrieve(runtime, switched_on, reachable, index, levels, top_k) ==
    IF runtime = "disabled" \/ ~switched_on THEN {NothingRetrieved("disabled")}
    ELSE IF runtime = "error" THEN {NothingRetrieved("unavailable")}
    ELSE {NothingRetrieved("failed")} \cup (IF reachable THEN SearchResults(index, levels, top_k) ELSE {})

\* runtime_status, as the readiness report shows it
RuntimeState(runtime, switched_on) ==
    IF runtime = "disabled" \/ ~switched_on THEN "disabled"
    ELSE IF runtime = "error" THEN "unavailable" ELSE "ready"

\* What a search should make of a scan, said without a LIMIT: documents that may
\* be seen and are similar enough, as many as asked for, none of them less
\* similar than one left out.
IsBestOf(found, scan, levels, top_k) ==
    LET relevant == Similar(Accessible(scan, levels)) IN
    /\ found \subseteq relevant
    /\ Cardinality(found) = IF Cardinality(relevant) < top_k THEN Cardinality(relevant) ELSE top_k
    /\ \A d \in found, e \in relevant \ found : similarity[d] >= similarity[e]
=============================================================================
