------------------------ MODULE TurnPipeline_proofs ------------------------
(***************************************************************************)
(* What every answer of the pipeline keeps, for any documents, texts,      *)
(* models, settings and bounds.  SwitchInv comes first: the audit trail    *)
(* explains the switches.  Two invariants carry the rest.  AnswerInv says  *)
(* of a turn that has an answer, or is about to store it, what the         *)
(* properties say of one that is sent, and of an entry of the cache what   *)
(* a later hit needs.  TurnInv relates a turn to its surroundings: to the  *)
(* switches it has seen on, and, until something changes, to what the      *)
(* dependencies and the retrieval are like.                                *)
(***************************************************************************)
EXTENDS TurnPipeline, PlannerContext_proofs, FiniteSetTheorems, TLAPS

----------------------------------------------------------------------------
(* The switches, for any number of changes of them *)

ChangeState == [step : Steps, key : Switches \cup {None}, enabled : BOOLEAN, began : Nat, alone : BOOLEAN]

Begun(c) == change[c].step # "idle"

\* A transaction has a time of its own, not later than now, and a switch.
Timed ==
    /\ \A c \in Changes : Begun(c) => change[c].began \in 1..clock /\ change[c].key \in Switches
    /\ \A c, d \in Changes : Begun(c) /\ Begun(d) /\ change[c].began = change[d].began => c = d

\* Of a switch, what began during an open transaction is marked, and so is that transaction.
OverlapsMarked ==
    \A c, d \in Changes :
        /\ Open(c) /\ Begun(d) /\ change[d].key = change[c].key
        /\ change[c].began < change[d].began
        => ~change[c].alone /\ ~change[d].alone

SwitchInv == SwitchTypeOK /\ Timed /\ OverlapsMarked /\ SwitchesExplained

\* The seeded rows, or none.
LEMMA SwitchInitInv == SwitchInit => SwitchInv
  <1> SUFFICES ASSUME SwitchInit PROVE SwitchInv
    OBVIOUS
  <1>1. \A c \in Changes : change[c] = NoChange
    BY DEF SwitchInit
  <1>2. \A key \in Switches : rows[key] \in {None, Default(key)}
    BY DEF SwitchInit
  <1>3. rows \in [Switches -> BOOLEAN \cup {None}]
    <2>1. \A key \in Switches : Default(key) \in BOOLEAN
      BY DEF Default
    <2>2. CASE rows = [key \in Switches |-> Default(key)]
      BY <2>1, <2>2
    <2>3. CASE rows = [key \in Switches |-> None]
      BY <2>3
    <2> QED
      BY <2>2, <2>3 DEF SwitchInit
  <1>4. change \in [Changes -> ChangeState]
    <2>1. NoChange \in ChangeState
      BY DEF NoChange, ChangeState, Steps
    <2> QED
      BY <2>1 DEF SwitchInit
  <1>5. clock \in Nat
    BY DEF SwitchInit
  <1>6. SwitchTypeOK
    BY <1>3, <1>4, <1>5 DEF SwitchTypeOK, ChangeState
  <1>7. Timed /\ OverlapsMarked
    BY <1>1 DEF Timed, OverlapsMarked, Begun, Open, NoChange
  <1>8. SwitchesExplained
    BY <1>1, <1>2 DEF SwitchesExplained, Committed, NoChange
  <1> QED
    BY <1>6, <1>7, <1>8 DEF SwitchInv

\* A new transaction is the latest, and marks the open ones of its switch.
LEMMA SetEnabledInv ==
  ASSUME SwitchInv, NEW c \in Changes, NEW key \in Switches, NEW enabled \in BOOLEAN, SetEnabled(c, key, enabled)
  PROVE  SwitchInv'
  <1>1. /\ change \in [Changes -> ChangeState] /\ clock \in Nat
        /\ rows \in [Switches -> BOOLEAN \cup {None}] /\ rows' = rows
    BY DEF SwitchInv, SwitchTypeOK, SetEnabled, ChangeState
  <1>2. /\ clock' = clock + 1 /\ change[c].step = "idle"
        /\ change'[c] = [step |-> "upsert", key |-> key, enabled |-> enabled,
                         began |-> clock + 1, alone |-> Rivals(key) = {}]
    BY DEF SetEnabled
  <1>3. \A d \in Changes : d # c /\ d \in Rivals(key) => change'[d] = [change[d] EXCEPT !.alone = FALSE]
    BY DEF SetEnabled
  <1>4. \A d \in Changes : d # c /\ d \notin Rivals(key) => change'[d] = change[d]
    BY DEF SetEnabled
  <1>5. change'[c] \in ChangeState
    BY <1>1, <1>2 DEF ChangeState, Steps
  <1>6. \A d \in Changes : d # c =>
          /\ change'[d] \in ChangeState /\ change'[d].step = change[d].step /\ change'[d].key = change[d].key
          /\ change'[d].began = change[d].began /\ change'[d].enabled = change[d].enabled
          /\ change'[d].alone => change[d].alone
          /\ d \in Rivals(key) => ~change'[d].alone
    <2> SUFFICES ASSUME NEW d \in Changes, d # c
                 PROVE  /\ change'[d] \in ChangeState
                        /\ change'[d].step = change[d].step /\ change'[d].key = change[d].key
                        /\ change'[d].began = change[d].began /\ change'[d].enabled = change[d].enabled
                        /\ change'[d].alone => change[d].alone
                        /\ d \in Rivals(key) => ~change'[d].alone
      OBVIOUS
    <2>1. change[d] \in ChangeState
      BY <1>1
    <2>2. CASE d \in Rivals(key)
      <3>1. change'[d] = [change[d] EXCEPT !.alone = FALSE]
        BY <2>2, <1>3
      <3> QED
        BY <2>1, <3>1 DEF ChangeState
    <2>3. CASE d \notin Rivals(key)
      BY <2>1, <2>3, <1>4
    <2> QED
      BY <2>2, <2>3
  <1>7. SwitchTypeOK'
    <2>1. change' \in [Changes -> ChangeState]
      BY <1>5, <1>6 DEF SetEnabled
    <2> QED
      BY <2>1, <1>1, <1>2 DEF SwitchTypeOK, ChangeState
  <1>8. Timed'
    BY <1>1, <1>2, <1>6 DEF SwitchInv, Timed, Begun
  <1>9. OverlapsMarked'
    <2> SUFFICES ASSUME NEW a \in Changes, NEW b \in Changes, Open(a)', Begun(b)',
                        change'[b].key = change'[a].key, change'[a].began < change'[b].began
                 PROVE  ~change'[a].alone /\ ~change'[b].alone
      BY DEF OverlapsMarked
    <2>1. a # c
      <3> SUFFICES ASSUME a = c PROVE FALSE
        OBVIOUS
      <3>1. b # c /\ Begun(b) /\ change[b].began > clock + 1
        BY <1>1, <1>2, <1>6 DEF Begun
      <3> QED
        BY <3>1, <1>1 DEF SwitchInv, Timed
    <2>2. Open(a)
      BY <2>1, <1>6 DEF Open
    <2>3. CASE b = c
      <3>1. a \in Rivals(key)
        BY <2>1, <2>2, <2>3, <1>2, <1>6 DEF Rivals
      <3>2. ~change'[a].alone
        BY <2>1, <3>1, <1>6
      <3>3. Rivals(key) # {}
        BY <3>1
      <3>4. ~change'[c].alone
        <4>1. (Rivals(key) = {}) = FALSE
          BY <3>3, Zenon
        <4>2. change'[c] = [step |-> "upsert", key |-> key, enabled |-> enabled,
                            began |-> clock + 1, alone |-> FALSE]
          BY <1>2, <4>1, Zenon
        <4> QED
          BY <4>2
      <3> QED
        BY <2>3, <3>2, <3>4
    <2>4. CASE b # c
      BY <2>1, <2>2, <2>4, <1>6 DEF SwitchInv, OverlapsMarked, Begun
    <2> QED
      BY <2>3, <2>4
  <1>10. SwitchesExplained'
    <2>1. \A k \in Switches : Committed(k)' = Committed(k) /\ c \notin Committed(k)
      BY <1>2, <1>6 DEF Committed
    <2> QED
      BY <1>1, <1>6, <2>1 DEF SwitchInv, SwitchesExplained, Committed
  <1> QED
    BY <1>7, <1>8, <1>9, <1>10 DEF SwitchInv

\* A transaction that goes on, or is undone, changes its own step only.
LEMMA StepInv ==
  ASSUME SwitchInv, NEW c \in Changes, NEW step \in {"audit", "commit", "undone"}, Open(c),
         change' = [change EXCEPT ![c].step = step], UNCHANGED <<rows, clock>>
  PROVE  SwitchInv'
  <1>1. change \in [Changes -> ChangeState]
    BY DEF SwitchInv, SwitchTypeOK, ChangeState
  <1>2. /\ change' \in [Changes -> ChangeState] /\ change'[c].step = step
        /\ \A d \in Changes : d # c => change'[d] = change[d]
    BY <1>1 DEF ChangeState, Steps
  <1>3. \A d \in Changes : /\ change'[d].key = change[d].key /\ change'[d].began = change[d].began
                           /\ change'[d].alone = change[d].alone /\ change'[d].enabled = change[d].enabled
    BY <1>1 DEF ChangeState
  <1>4. \A d \in Changes : (Begun(d)' <=> Begun(d)) /\ (Open(d)' => Open(d))
    BY <1>2 DEF Begun, Open
  <1>5. \A k \in Switches : Committed(k)' = Committed(k)
    BY <1>2, <1>3 DEF Committed, Open
  <1>6. SwitchTypeOK'
    BY <1>2 DEF SwitchInv, SwitchTypeOK, ChangeState
  <1>7. Timed'
    BY <1>3, <1>4 DEF SwitchInv, Timed
  <1>8. OverlapsMarked'
    BY <1>3, <1>4 DEF SwitchInv, OverlapsMarked
  <1>9. SwitchesExplained'
    BY <1>3, <1>5 DEF SwitchInv, SwitchesExplained, Committed
  <1> QED
    BY <1>6, <1>7, <1>8, <1>9 DEF SwitchInv

\* A commit writes the row.  If a change that began later was committed before
\* it, that one is marked, as it began while this one was open.
LEMMA CommitSwitchInv == ASSUME SwitchInv, NEW c \in Changes, CommitSwitch(c) PROVE SwitchInv'
  <1>1. /\ change \in [Changes -> ChangeState] /\ change[c].step = "commit" /\ Open(c) /\ Begun(c)
        /\ rows \in [Switches -> BOOLEAN \cup {None}]
    BY DEF SwitchInv, SwitchTypeOK, ChangeState, CommitSwitch, Open, Begun
  <1>2. change[c].key \in Switches /\ change[c].enabled \in BOOLEAN
    BY <1>1 DEF SwitchInv, Timed, ChangeState
  <1>3. /\ change' \in [Changes -> ChangeState] /\ change'[c].step = "committed"
        /\ \A d \in Changes : d # c => change'[d] = change[d]
        /\ rows' = [rows EXCEPT ![change[c].key] = change[c].enabled] /\ clock' = clock
    BY <1>1 DEF CommitSwitch, ChangeState, Steps
  <1>4. \A d \in Changes : /\ change'[d].key = change[d].key /\ change'[d].began = change[d].began
                           /\ change'[d].alone = change[d].alone /\ change'[d].enabled = change[d].enabled
    BY <1>1 DEF CommitSwitch, ChangeState
  <1>5. \A d \in Changes : (Begun(d)' <=> Begun(d)) /\ (Open(d)' => Open(d))
    BY <1>1, <1>3 DEF Begun, Open
  <1>6. SwitchTypeOK'
    BY <1>1, <1>2, <1>3 DEF SwitchInv, SwitchTypeOK, ChangeState
  <1>7. Timed'
    BY <1>3, <1>4, <1>5 DEF SwitchInv, Timed
  <1>8. OverlapsMarked'
    BY <1>4, <1>5 DEF SwitchInv, OverlapsMarked
  <1>9. SwitchesExplained'
    <2> SUFFICES ASSUME NEW k \in Switches
                 PROVE  /\ Committed(k)' = {} => rows'[k] \in {None, Default(k)}
                        /\ \A d \in Committed(k)' :
                             /\ change'[d].alone
                             /\ \A e \in Committed(k)' : change'[e].began <= change'[d].began
                             => rows'[k] = change'[d].enabled
      BY DEF SwitchesExplained, Default
    <2>1. CASE k # change[c].key
      <3>1. Committed(k)' = Committed(k) /\ rows'[k] = rows[k]
        BY <2>1, <1>1, <1>2, <1>3, <1>4 DEF Committed
      <3> QED
        BY <3>1, <1>4 DEF SwitchInv, SwitchesExplained, Committed
    <2>2. CASE k = change[c].key
      <3>1. c \in Committed(k)' /\ rows'[k] = change[c].enabled
        BY <2>2, <1>1, <1>2, <1>3, <1>4 DEF Committed
      <3>2. ASSUME NEW d \in Committed(k)', d # c, change'[c].began <= change'[d].began
            PROVE  ~change'[d].alone
        <4>1. d \in Changes /\ Begun(d) /\ change[d].key = change[c].key
          BY <2>2, <3>2, <1>3, <1>4 DEF Committed, Begun
        <4>2. change[c].began \in Nat /\ change[d].began \in Nat /\ change[c].began # change[d].began
          BY <1>1, <3>2, <4>1 DEF SwitchInv, Timed, ChangeState
        <4>3. change[c].began < change[d].began
          BY <3>2, <4>1, <4>2, <1>4
        <4> QED
          BY <1>1, <1>4, <4>1, <4>3 DEF SwitchInv, OverlapsMarked
      <3> QED
        BY <3>1, <3>2, <1>4 DEF Committed
    <2> QED
      BY <2>1, <2>2
  <1> QED
    BY <1>6, <1>7, <1>8, <1>9 DEF SwitchInv

\* Every step of the switches.
LEMMA SwitchNextInv == SwitchInv /\ [SwitchNext]_switchVars => SwitchInv'
  <1> SUFFICES ASSUME SwitchInv, [SwitchNext]_switchVars PROVE SwitchInv'
    OBVIOUS
  <1>1. ASSUME NEW c \in Changes, NEW key \in Switches, NEW enabled \in BOOLEAN, SetEnabled(c, key, enabled)
        PROVE  SwitchInv'
    BY <1>1, SetEnabledInv
  <1>2. ASSUME NEW c \in Changes, Upsert(c) \/ InsertSwitchAudit(c) \/ RollbackSwitch(c) PROVE SwitchInv'
    BY <1>2, StepInv DEF Upsert, InsertSwitchAudit, RollbackSwitch, Open
  <1>3. ASSUME NEW c \in Changes, CommitSwitch(c) PROVE SwitchInv'
    BY <1>3, CommitSwitchInv
  <1>4. CASE UNCHANGED switchVars
    BY <1>4 DEF switchVars, SwitchInv, SwitchTypeOK, Timed, OverlapsMarked, SwitchesExplained, Committed,
                Open, Begun, Default
  <1> QED
    BY <1>1, <1>2, <1>3, <1>4 DEF SwitchNext, ProceedSwitch

\* For any number of administrators: a switch has the value of its newest audit
\* event, unless the change overlapped another of the same switch.
THEOREM TrailExplainsSwitches == SwitchSpec => []SwitchesExplained
  <1>1. SwitchInv => SwitchesExplained
    BY DEF SwitchInv
  <1> QED
    BY <1>1, SwitchInitInv, SwitchNextInv, PTL DEF SwitchSpec

----------------------------------------------------------------------------
(* Retrieval *)

\* Cutting the LIMIT before the minimum similarity loses nothing.
LEMMA SearchIsBest ==
  ASSUME NEW scan \in SUBSET Docs, NEW levels, levels # {}, NEW k \in Nat,
         NEW found \in Search(scan, levels, k)
  PROVE  IsBestOf(found, scan, levels, k)
<1> DEFINE D == Accessible(scan, levels)
           R == Similar(D)
<1>1. D \subseteq Docs /\ IsFiniteSet(D)
  <2>1. D \subseteq Docs
    BY DEF Accessible
  <2> QED BY <2>1, DocsAssumption, FS_Subset
<1>2. PICK s \in Top(D, k) : found = Similar(s)
  BY DEF Search
<1>3. /\ s \subseteq D
      /\ Cardinality(s) = IF Cardinality(D) < k THEN Cardinality(D) ELSE k
      /\ \A d \in s, e \in D \ s : similarity[d] >= similarity[e]
  BY <1>2 DEF Top
<1>4. /\ IsFiniteSet(s) /\ IsFiniteSet(R) /\ R \subseteq D
      /\ Cardinality(D) \in Nat /\ Cardinality(s) \in Nat /\ Cardinality(R) \in Nat
      /\ Cardinality(R) <= Cardinality(D)
  <2>1. R \subseteq D
    BY DEF Similar
  <2>2. IsFiniteSet(s) /\ IsFiniteSet(R)
    BY <1>1, <1>3, <2>1, FS_Subset
  <2>3. Cardinality(R) <= Cardinality(D)
    BY <1>1, <2>1, FS_Subset
  <2> QED BY <1>1, <2>1, <2>2, <2>3, FS_CardinalityType
<1>5. found \subseteq s /\ found \subseteq R
  BY <1>2, <1>3 DEF Similar
<1>6. \A d \in found, e \in R \ found : similarity[d] >= similarity[e]
  <2>1. \A e \in R \ found : e \in D \ s
    BY <1>2, <1>3 DEF Similar
  <2> QED BY <2>1, <1>3, <1>5
<1>7. Cardinality(found) = IF Cardinality(R) < k THEN Cardinality(R) ELSE k
  <2>1. CASE s = D
    <3>1. found = R
      BY <1>2, <2>1
    <3>2. Cardinality(D) <= k
      BY <1>3, <1>4, <2>1
    <3> QED BY <1>4, <3>1, <3>2
  <2>2. CASE found = s /\ s # D
    <3>1. Cardinality(s) < Cardinality(D)
      <4>1. Cardinality(s) <= Cardinality(D) /\ Cardinality(s) # Cardinality(D)
        BY <1>1, <1>3, <2>2, FS_Subset
      <4> QED BY <1>4, <4>1
    <3>2. Cardinality(s) = k
      BY <1>3, <1>4, <3>1
    <3>3. Cardinality(s) <= Cardinality(R)
      BY <1>4, <1>5, <2>2, FS_Subset
    <3> QED BY <1>4, <2>2, <3>2, <3>3
  <2>3. CASE found # s
    <3>1. PICK e \in s : ~(similarity[e] >= minimum_similarity)
      BY <1>2, <1>5, <2>3 DEF Similar
    <3>2. \A d \in D \ s : ~(similarity[d] >= minimum_similarity)
      <4> SUFFICES ASSUME NEW d \in D \ s PROVE ~(similarity[d] >= minimum_similarity)
        OBVIOUS
      <4>1. similarity[d] \in Nat /\ similarity[e] \in Nat /\ minimum_similarity \in Nat
        BY <1>1, <1>3, <3>1, SimilarityAssumption
      <4>2. similarity[e] >= similarity[d]
        BY <1>3, <3>1
      <4> QED BY <3>1, <4>1, <4>2
    <3>3. R \subseteq found
      BY <1>2, <3>2 DEF Similar
    <3>4. found = R
      BY <1>5, <3>3
    <3>5. Cardinality(R) <= Cardinality(s)
      BY <1>4, <1>5, <3>4, FS_Subset
    <3>6. Cardinality(s) <= k
      BY <1>3, <1>4
    <3> QED BY <1>4, <3>4, <3>5, <3>6
  <2> QED BY <2>1, <2>2, <2>3
<1> HIDE DEF D, R
<1> QED BY <1>5, <1>6, <1>7 DEF IsBestOf, D, R

\* What a search that completes returns comes from one scan.
LEMMA SearchResultsCases ==
  ASSUME NEW ix \in SUBSET Docs, NEW levels, NEW k, NEW found \in SearchResults(ix, levels, k)
  PROVE  \E scan \in SUBSET Docs : \E s \in Search(scan, levels, k) :
           found = [status |-> IF s = {} THEN "empty" ELSE "completed", docs |-> s, scanned |-> scan]
<1>1. PICK scan \in Scans(ix) : \E s \in Search(scan, levels, k) :
        found = [status |-> IF s = {} THEN "empty" ELSE "completed", docs |-> s, scanned |-> scan]
  BY DEF SearchResults
<1>2. scan \in SUBSET Docs
  BY DEF Scans
<1> QED BY <1>1, <1>2

\* A search with access levels finds only documents of them, and the best ones
\* of its scan; without a search nothing is found.
LEMMA RetrieveIsBest ==
  ASSUME NEW runtime, NEW on, NEW reachable, NEW ix \in SUBSET Docs, NEW levels, levels # {},
         NEW k \in Nat, NEW found \in Retrieve(runtime, on, reachable, ix, levels, k)
  PROVE  /\ found = [status |-> found.status, docs |-> found.docs, scanned |-> found.scanned]
         /\ \A d \in found.docs : access_level[d] \in levels
         /\ found.docs # {} => found.status = "completed"
         /\ found.status \in {"completed", "empty"} => IsBestOf(found.docs, found.scanned, levels, k)
<1>1. CASE \E status \in {"disabled", "unavailable", "failed"} : found = NothingRetrieved(status)
  BY <1>1 DEF NothingRetrieved
<1>2. CASE found \in SearchResults(ix, levels, k)
  <2>1. PICK scan \in SUBSET Docs : \E s \in Search(scan, levels, k) :
          found = [status |-> IF s = {} THEN "empty" ELSE "completed", docs |-> s, scanned |-> scan]
    BY <1>2, SearchResultsCases
  <2>2. PICK s \in Search(scan, levels, k) :
          found = [status |-> IF s = {} THEN "empty" ELSE "completed", docs |-> s, scanned |-> scan]
    BY <2>1
  <2>3. IsBestOf(s, scan, levels, k)
    BY SearchIsBest
  <2>4. \A d \in s : access_level[d] \in levels
    BY <2>3 DEF IsBestOf, Similar, Accessible
  <2> QED BY <2>2, <2>3, <2>4
<1> QED BY <1>1, <1>2 DEF Retrieve

\* No role has an empty scope, which a search would take for no condition.
LEMMA ScopeHasLevels ==
  ASSUME NEW x PROVE Scope(x) # {} /\ AuthorizedLevels(Scope(x)) = Scope(x)
                      /\ AuthorizedLevels(ServerLevels(Scope(x))) = Scope(x)
BY DEF Scope, AuthorizedLevels, ServerLevels

\* Wherever a call is answered, the same holds of what its search finds.
LEMMA FindsAreBest ==
  ASSUME index \in SUBSET Docs, NEW served, NEW x, NEW k \in Nat,
         NEW found \in FindsIn(served, Scope(x), k)
  PROVE  /\ found = [status |-> found.status, docs |-> found.docs, scanned |-> found.scanned]
         /\ \A d \in found.docs : access_level[d] \in Scope(x)
         /\ found.docs # {} => found.status = "completed"
         /\ found.status \in {"completed", "empty"} => IsBestOf(found.docs, found.scanned, Scope(x), k)
<1>1. CASE found = NothingRetrieved("preview")
  BY <1>1 DEF NothingRetrieved
<1>2. CASE \E on : found \in Retrieve(Runtime, on, up.postgresql, index, Scope(x), k)
  <2>1. PICK on : found \in Retrieve(Runtime, on, up.postgresql, index, Scope(x), k)
    BY <1>2
  <2> QED BY <2>1, ScopeHasLevels, RetrieveIsBest
<1> QED BY <1>1, <1>2, ScopeHasLevels DEF FindsIn, Finds, ServerFinds

----------------------------------------------------------------------------
(* The invariant *)

Fields == {"step", "path", "text", "tool", "top_k", "role", "cache", "checks", "history", "evidence",
           "grounding", "plan", "results", "outcome", "found", "seen", "undisturbed", "searched"}

Authorized(found, levels) == \A d \in found.citations : access_level[d] \in levels

\* GroundedAnswersCite, of results and an answer
Cites(path, results, found) ==
    "knowledge.search" \in DOMAIN results =>
      LET result == results["knowledge.search"] IN
      /\ found.grounded_claims => found.citations # {}
      /\ found.citations \subseteq result.citations
      /\ path = "/chat" /\ found.citations # {} => result.result_status = "completed"

Evident(t) ==
    t.path = "/chat" /\ "ops.create_alert_or_action" \in DOMAIN t.results
      /\ t.results["ops.create_alert_or_action"].invocation # "blocked"
      => t.evidence /\ t.role \in ACTION_ENABLED_ROLES

Best(t) ==
    "knowledge.search" \in DOMAIN t.results =>
      LET result == t.results["knowledge.search"] IN
      result.result_status \in {"completed", "empty"} =>
        IsBestOf(result.citations, t.searched, Scope(t.role), IF t.path = "/chat" THEN 3 ELSE t.top_k)

HasAnswer(t) == t.step = "store" \/ (t.step = "done" /\ t.outcome = "answered")

AnswerInv(t) ==
    /\ DOMAIN t = Fields
    /\ t.top_k \in Nat
    /\ t.step \in {"consider", "lookup", "plan", "invoke", "store"} => t.path = "/chat"
    /\ t.step = "route" => t.path = "/tools"
    /\ t.step \in {"store", "done"} => Authorized(t.found, Scope(t.role))
    /\ HasAnswer(t) => Cites(t.path, t.results, t.found)
    /\ HasAnswer(t) /\ t.cache # "hit" => Evident(t) /\ Best(t)

EntryInv(e) == Authorized(e.found, e.key[3]) /\ Cites("/chat", e.results, e.found)

PipelineInv ==
    /\ index \in Indexes
    /\ DOMAIN turn = Requests
    /\ \A r \in Requests : AnswerInv(turn[r])
    /\ \A e \in entries : EntryInv(e)

\* A free slot.
LEMMA IdleInv == AnswerInv(Idle) /\ DOMAIN Idle = Fields /\ Idle.cache = "disabled"
BY DEF Idle, AnswerInv, Fields, HasAnswer

\* An end without an answer.
LEMMA DoneInv ==
  ASSUME NEW t, DOMAIN t = Fields, t.top_k \in Nat, NEW outcome, outcome # "answered"
  PROVE  AnswerInv(Done(t, outcome, Nothing))
BY DEF AnswerInv, Fields, HasAnswer, Done, Nothing, Authorized

\* A step that changes the turn of one slot, and no entry.
LEMMA GoInv ==
  ASSUME PipelineInv, NEW r \in Requests, NEW t, AnswerInv(t), Go(r, t), UNCHANGED entries
  PROVE  PipelineInv'
<1>1. /\ index' = index /\ entries' = entries /\ DOMAIN turn' = Requests
      /\ \A q \in Requests : turn'[q] = IF q = r THEN t ELSE turn[q]
  BY DEF Go, surroundings, PipelineInv
<1>2. index' \in Indexes
  BY <1>1 DEF PipelineInv
<1>3. \A q \in Requests : AnswerInv(turn'[q])
  BY <1>1 DEF PipelineInv
<1>4. \A e \in entries' : EntryInv(e)
  BY <1>1 DEF PipelineInv
<1> QED BY <1>1, <1>2, <1>3, <1>4 DEF PipelineInv

\* No request yet, and an empty cache.
LEMMA InitInv == ASSUME Init PROVE PipelineInv
BY IdleInv DEF Init, PipelineInv

----------------------------------------------------------------------------
(* Arrival and departure *)

\* A request as it arrives.
LEMMA CallsAreTurns == ASSUME NEW t \in Calls PROVE DOMAIN t = Fields /\ t.top_k \in Nat /\ t.cache = "disabled"
<1>1. CASE \E text \in Texts : t = [Idle EXCEPT !.path = "/chat", !.text = text]
  BY <1>1 DEF Idle, Fields
<1>2. CASE \E k \in TopKs : t = [Idle EXCEPT !.path = "/tools", !.tool = "knowledge.search", !.top_k = k]
  <2>1. PICK k \in TopKs : t = [Idle EXCEPT !.path = "/tools", !.tool = "knowledge.search", !.top_k = k]
    BY <1>2
  <2>2. k \in Nat
    BY TopKsAssumption
  <2>3. DOMAIN t = Fields /\ t.top_k = k /\ t.cache = "disabled"
    BY <2>1 DEF Idle, Fields
  <2> QED BY <2>2, <2>3
<1>3. CASE \E tool \in Tools \ {"knowledge.search"} : t = [Idle EXCEPT !.path = "/tools", !.tool = tool]
  BY <1>3 DEF Idle, Fields
<1>4. CASE t = [Idle EXCEPT !.path = "/health"]
  BY <1>4 DEF Idle, Fields
<1> QED BY <1>1, <1>2, <1>3, <1>4 DEF Calls

\* A request is turned away, or let in with a role.
LEMMA ArriveInv ==
  ASSUME PipelineInv, NEW r \in Requests, NEW t \in Calls, Arrive(r, t)
  PROVE  PipelineInv'
<1> DEFINE arrived == [t EXCEPT !.seen = IF t.path = "/health" THEN {} ELSE FeaturesOn]
<1>1. DOMAIN arrived = Fields /\ arrived.top_k \in Nat /\ arrived.path = t.path
  BY CallsAreTurns DEF Fields
<1>2. UNCHANGED entries
  BY DEF Arrive
<1>3. t.path \in Paths
  BY DEF Calls, Idle, Paths
<1> HIDE DEF arrived
<1>4. CASE \E outcome \in {"maintenance", "error", "forbidden"} : Go(r, Done(arrived, outcome, Nothing))
  BY <1>1, <1>2, <1>4, DoneInv, GoInv
<1>5. CASE Go(r, [arrived EXCEPT !.step = "postgresql"])
  <2>1. AnswerInv([arrived EXCEPT !.step = "postgresql"])
    BY <1>1 DEF AnswerInv, HasAnswer, Fields
  <2> QED BY <1>2, <1>5, <2>1, GoInv
<1>6. CASE t.path # "/health" /\ Go(r, [arrived EXCEPT !.step = IF t.path = "/chat" THEN "consider" ELSE "route", !.role = role])
  <2>1. AnswerInv([arrived EXCEPT !.step = IF t.path = "/chat" THEN "consider" ELSE "route", !.role = role])
    BY <1>1, <1>3, <1>6 DEF AnswerInv, HasAnswer, Fields, Paths
  <2> QED BY <1>2, <1>6, <2>1, GoInv
<1> QED BY <1>4, <1>5, <1>6 DEF Arrive, arrived

\* The response is sent.
LEMMA LeaveInv == ASSUME PipelineInv, NEW r \in Requests, Leave(r) PROVE PipelineInv'
BY IdleInv, GoInv DEF Leave

----------------------------------------------------------------------------
(* The chat up to the plan *)

\* Whether the cache may be asked.
LEMMA ConsiderInv == ASSUME PipelineInv, NEW r \in Requests, ConsiderCache(r) PROVE PipelineInv'
<1> DEFINE t == [turn[r] EXCEPT
          !.cache = IF ~CacheIsActive(r) THEN "disabled"
                    ELSE IF MayAskCache(turn[r].role, turn[r].text) THEN "eligible" ELSE "bypass",
          !.step = IF CacheIsActive(r) /\ MayAskCache(turn[r].role, turn[r].text) THEN "lookup" ELSE "plan"]
<1>1. Go(r, t) /\ UNCHANGED entries /\ turn[r].step = "consider" /\ AnswerInv(turn[r])
  BY DEF ConsiderCache, PipelineInv
<1>2. AnswerInv(t)
  BY <1>1 DEF AnswerInv, HasAnswer, Fields
<1> HIDE DEF t
<1> QED BY <1>1, <1>2, GoInv

\* A hit is an entry stored for the scope of this turn's role.
LEMMA ReadCacheInv == ASSUME PipelineInv, NEW r \in Requests, ReadCacheEntry(r) PROVE PipelineInv'
<1>1. UNCHANGED entries /\ turn[r].step = "lookup" /\ AnswerInv(turn[r])
  BY DEF ReadCacheEntry, PipelineInv
<1>2. CASE \E status \in {"unavailable", "miss"} : Go(r, [turn[r] EXCEPT !.cache = status, !.step = "plan"])
  <2>1. PICK status : Go(r, [turn[r] EXCEPT !.cache = status, !.step = "plan"])
    BY <1>2
  <2>2. AnswerInv([turn[r] EXCEPT !.cache = status, !.step = "plan"])
    BY <1>1 DEF AnswerInv, HasAnswer, Fields
  <2> QED BY <1>1, <2>1, <2>2, GoInv
<1>3. CASE \E e \in Cached(turn[r]) :
             Go(r, Done([turn[r] EXCEPT !.cache = "hit", !.results = e.results], "answered", e.found))
  <2>1. PICK e \in Cached(turn[r]) :
          Go(r, Done([turn[r] EXCEPT !.cache = "hit", !.results = e.results], "answered", e.found))
    BY <1>3
  <2>2. Authorized(e.found, Scope(turn[r].role)) /\ Cites("/chat", e.results, e.found)
    BY <2>1 DEF Cached, CacheKey, PipelineInv, EntryInv
  <2>3. AnswerInv(Done([turn[r] EXCEPT !.cache = "hit", !.results = e.results], "answered", e.found))
    BY <1>1, <2>2 DEF AnswerInv, HasAnswer, Done, Fields
  <2> QED BY <1>1, <2>1, <2>3, GoInv
<1> QED BY <1>2, <1>3 DEF ReadCacheEntry, Restored

\* A refusal cites nothing.
LEMMA RefuseInv == ASSUME PipelineInv, NEW r \in Requests, Refuse(r) PROVE PipelineInv'
<1>1. DOMAIN turn[r] = Fields /\ turn[r].top_k \in Nat
  BY DEF PipelineInv, AnswerInv
<1>2. AnswerInv(Done(turn[r], "refused", Nothing))
  BY <1>1, DoneInv
<1> QED BY <1>2, GoInv DEF Refuse

\* A plan is no answer yet.
LEMMA PlanInv == ASSUME PipelineInv, NEW r \in Requests, PlanTools(r) PROVE PipelineInv'
<1>1. turn[r].step = "plan" /\ AnswerInv(turn[r]) /\ UNCHANGED entries
  BY DEF PlanTools, PipelineInv
<1>2. PICK history, grounding, evidence, plan :
        Go(r, [turn[r] EXCEPT !.step = "invoke", !.history = history, !.grounding = grounding,
                              !.evidence = evidence, !.plan = plan])
  BY DEF PlanTools
<1>3. AnswerInv([turn[r] EXCEPT !.step = "invoke", !.history = history, !.grounding = grounding,
                                !.evidence = evidence, !.plan = plan])
  BY <1>1 DEF AnswerInv, HasAnswer, Fields
<1> QED BY <1>1, <1>2, <1>3, GoInv

----------------------------------------------------------------------------
(* The tools of a chat, and their answer *)

\* What is known of a knowledge search's result, whoever answered the call.
GoodSearch(result, scan, levels, k) ==
    /\ \A d \in result.citations : access_level[d] \in levels
    /\ result.citations # {} => result.result_status = "completed"
    /\ result.result_status \in {"completed", "empty"} => IsBestOf(result.citations, scan, levels, k)

\* A search's result, or that of a call that did not come to search.
LEMMA ResultsAreGood ==
  ASSUME index \in SUBSET Docs, NEW served, NEW x, NEW k \in Nat,
         NEW found \in FindsIn(served, Scope(x), k),
         NEW result \in {KnowledgeResult(found), PlainResult("blocked"), PlainResult("completed")}
  PROVE  GoodSearch(result, found.scanned, Scope(x), k)
<1>1. CASE result = KnowledgeResult(found)
  <2>1. result.citations = found.docs /\ result.result_status = found.status
    BY <1>1 DEF KnowledgeResult
  <2> QED BY <2>1, FindsAreBest DEF GoodSearch
<1>2. CASE result \in {PlainResult("blocked"), PlainResult("completed")}
  BY <1>2 DEF PlainResult, GoodSearch
<1> QED BY <1>1, <1>2

\* Of a good result, the validated answer cites what may be seen, and cites if
\* it says that it is grounded.
LEMMA ValidatedIsGood ==
  ASSUME NEW results, NEW claims, NEW scan, NEW levels, NEW k,
         "knowledge.search" \in DOMAIN results => GoodSearch(results["knowledge.search"], scan, levels, k)
  PROVE  /\ Authorized(Validated(results, claims), levels)
         /\ Cites("/chat", results, Validated(results, claims))
<1> DEFINE V == Validated(results, claims)
<1>1. V.citations = Cited(results)
      /\ ("knowledge.search" \in DOMAIN results => (V.grounded_claims <=> Cited(results) # {}))
  BY DEF Validated
<1>2. "knowledge.search" \in DOMAIN results =>
        /\ Cited(results) \subseteq results["knowledge.search"].citations
        /\ Cited(results) # {} => results["knowledge.search"].result_status = "completed"
  BY DEF Cited, GoodSearch
<1>3. "knowledge.search" \notin DOMAIN results => Cited(results) = {}
  BY DEF Cited
<1> HIDE DEF V
<1>4. Authorized(V, levels)
  BY <1>1, <1>2, <1>3 DEF Authorized, GoodSearch
<1>5. Cites("/chat", results, V)
  BY <1>1, <1>2 DEF Cites
<1> QED BY <1>4, <1>5 DEF V

\* Whatever the plan, and whichever of the calls the MCP server answers.
LEMMA InvokeInv == ASSUME PipelineInv, NEW r \in Requests, InvokeTools(r) PROVE PipelineInv'
<1> DEFINE s == turn[r]
           allowed == {tool \in s.plan.tools : Allowed(tool, s.role, config.approved, s.evidence)}
<1>1. s.step = "invoke" /\ AnswerInv(s) /\ UNCHANGED entries /\ index \in SUBSET Docs
  BY IndexesAssumption DEF InvokeTools, PipelineInv
<1>2. PICK served \in AnsweredByServer(allowed) :
      \E found \in IF "knowledge.search" \in allowed THEN FindsIn(served, Scope(s.role), 3)
                                                     ELSE {NothingRetrieved("empty")} :
        LET results == [tool \in s.plan.tools |->
                          IF tool \notin allowed THEN PlainResult("blocked")
                          ELSE IF tool \in served THEN SdkResult(tool, FALSE, found)
                          ELSE RegistryResult(tool, found)] IN
        Go(r, AfterInvocation([s EXCEPT !.history = <<>>, !.grounding = <<>>,
                                        !.results = results, !.searched = found.scanned], results))
  BY Zenon DEF InvokeTools
<1>3. PICK found \in IF "knowledge.search" \in allowed THEN FindsIn(served, Scope(s.role), 3)
                                                     ELSE {NothingRetrieved("empty")} :
        LET results == [tool \in s.plan.tools |->
                          IF tool \notin allowed THEN PlainResult("blocked")
                          ELSE IF tool \in served THEN SdkResult(tool, FALSE, found)
                          ELSE RegistryResult(tool, found)] IN
        Go(r, AfterInvocation([s EXCEPT !.history = <<>>, !.grounding = <<>>,
                                        !.results = results, !.searched = found.scanned], results))
  BY <1>2
<1> DEFINE results == [tool \in s.plan.tools |->
                          IF tool \notin allowed THEN PlainResult("blocked")
                          ELSE IF tool \in served THEN SdkResult(tool, FALSE, found)
                          ELSE RegistryResult(tool, found)]
           t == [s EXCEPT !.history = <<>>, !.grounding = <<>>, !.results = results, !.searched = found.scanned]
           V == Validated(results, ClaimsGrounding(t.plan, t.text))
<1>4. "knowledge.search" \in DOMAIN results => GoodSearch(results["knowledge.search"], found.scanned, Scope(s.role), 3)
  <2> SUFFICES ASSUME "knowledge.search" \in s.plan.tools
               PROVE  GoodSearch(results["knowledge.search"], found.scanned, Scope(s.role), 3)
    OBVIOUS
  <2>1. CASE "knowledge.search" \notin allowed
    <3>1. results["knowledge.search"] = PlainResult("blocked")
      BY <2>1
    <3> HIDE DEF results
    <3> QED BY <3>1 DEF PlainResult, GoodSearch
  <2>2. CASE "knowledge.search" \in allowed
    <3>1. found \in FindsIn(served, Scope(s.role), 3)
      BY <2>2, <1>3
    <3>2. results["knowledge.search"] \in {KnowledgeResult(found), PlainResult("completed")}
      BY <2>2 DEF SdkResult, RegistryResult, HandlerResult, Handled, CORE_MCP_TOOL_NAMES
    <3> HIDE DEF results
    <3> QED BY <1>1, <3>1, <3>2, ResultsAreGood
  <2> QED BY <2>1, <2>2
<1>5. ASSUME "ops.create_alert_or_action" \in DOMAIN results,
             results["ops.create_alert_or_action"].invocation # "blocked"
      PROVE  s.evidence /\ s.role \in ACTION_ENABLED_ROLES
  <2>1. "ops.create_alert_or_action" \in allowed
    BY <1>5 DEF PlainResult
  <2> QED BY <2>1 DEF Allowed, HIGH_IMPACT_TOOL_NAMES
<1>6. /\ DOMAIN t = Fields /\ t.top_k \in Nat /\ t.path = "/chat" /\ t.role = s.role
      /\ t.evidence = s.evidence /\ t.results = results /\ t.searched = found.scanned
  BY <1>1 DEF AnswerInv, Fields
<1>7. Go(r, IF t.cache = "miss" THEN [t EXCEPT !.step = "store", !.found = V] ELSE Done(t, "answered", V))
  BY <1>3 DEF AfterInvocation
<1> HIDE DEF results, t, V
<1>8. Authorized(V, Scope(t.role)) /\ Cites("/chat", t.results, V)
  BY <1>4, <1>6, ValidatedIsGood DEF V
<1>9. Evident(t) /\ Best(t)
  BY <1>4, <1>5, <1>6 DEF Evident, Best, GoodSearch
<1>10. AnswerInv([t EXCEPT !.step = "store", !.found = V])
  BY <1>6, <1>8, <1>9 DEF AnswerInv, HasAnswer, Fields, Evident, Best
<1>11. AnswerInv(Done(t, "answered", V))
  BY <1>6, <1>8, <1>9 DEF AnswerInv, HasAnswer, Done, Fields, Evident, Best
<1> QED BY <1>1, <1>7, <1>10, <1>11, GoInv

\* What is stored is what is sent, with the scope of the role in its key.
LEMMA StoreInv == ASSUME PipelineInv, NEW r \in Requests, StoreAnswer(r) PROVE PipelineInv'
<1> DEFINE s == turn[r]
           e == Entry(s)
           t == Done(s, "answered", s.found)
<1>1. s.step = "store" /\ AnswerInv(s) /\ Go(r, t) /\ entries' \subseteq entries \cup {e}
  BY DEF StoreAnswer, PipelineInv
<1>2. AnswerInv(t)
  BY <1>1 DEF AnswerInv, HasAnswer, Done, Fields, Evident, Best
<1>3. EntryInv(e)
  BY <1>1 DEF Entry, EntryInv, AnswerInv, HasAnswer, CacheKey
<1>4. \A d \in entries' : EntryInv(d)
  BY <1>1, <1>3 DEF PipelineInv
<1>5. /\ index' = index /\ DOMAIN turn' = Requests
      /\ \A q \in Requests : turn'[q] = IF q = r THEN t ELSE turn[q]
  BY <1>1 DEF Go, surroundings, PipelineInv
<1> HIDE DEF t
<1>6. \A q \in Requests : AnswerInv(turn'[q])
  BY <1>2, <1>5 DEF PipelineInv
<1>7. index' \in Indexes
  BY <1>5 DEF PipelineInv
<1> QED BY <1>4, <1>5, <1>6, <1>7 DEF PipelineInv

----------------------------------------------------------------------------
(* Direct calls and the readiness report *)

\* A direct call shows what its search found.
LEMMA RouteInv == ASSUME PipelineInv, NEW r \in Requests, InvokeRoute(r) PROVE PipelineInv'
<1> DEFINE s == turn[r]
           Res(found) == RegistryResult(s.tool, found)
           T(result, found) == Done([s EXCEPT !.results = [tool \in {s.tool} |-> result], !.searched = found.scanned],
                             "answered", [citations |-> result.citations, grounded_claims |-> FALSE])
<1>1. s.step = "route" /\ AnswerInv(s) /\ UNCHANGED entries /\ index \in SUBSET Docs
  BY IndexesAssumption DEF InvokeRoute, PipelineInv
<1>2. PICK served \in AnsweredByServer({s.tool}) :
        \E found \in IF s.tool = "knowledge.search" THEN FindsIn(served, Scope(s.role), s.top_k)
                                                    ELSE {NothingRetrieved("empty")} : Go(r, T(Res(found), found))
  BY DEF InvokeRoute, SdkResult
<1>3. PICK found \in IF s.tool = "knowledge.search" THEN FindsIn(served, Scope(s.role), s.top_k)
                                                   ELSE {NothingRetrieved("empty")} : Go(r, T(Res(found), found))
  BY <1>2
<1> DEFINE result == Res(found)
<1>4. s.tool = "knowledge.search" => GoodSearch(result, found.scanned, Scope(s.role), s.top_k)
  <2> SUFFICES ASSUME s.tool = "knowledge.search" PROVE GoodSearch(result, found.scanned, Scope(s.role), s.top_k)
    OBVIOUS
  <2>1. s.top_k \in Nat /\ found \in FindsIn(served, Scope(s.role), s.top_k) /\ result = KnowledgeResult(found)
    BY <1>1, <1>3 DEF AnswerInv, RegistryResult, HandlerResult, Handled, CORE_MCP_TOOL_NAMES
  <2> HIDE DEF result
  <2> QED BY <1>1, <2>1, ResultsAreGood
<1>5. s.tool # "knowledge.search" => result.citations = {}
  BY DEF RegistryResult, HandlerResult, PlainResult
<1> HIDE DEF result
<1>6. AnswerInv(T(result, found))
  <2> DEFINE t == T(result, found)
  <2>1. /\ DOMAIN t = Fields /\ t.top_k = s.top_k /\ t.path = s.path /\ t.role = s.role
        /\ t.step = "done" /\ t.results = [tool \in {s.tool} |-> result] /\ t.searched = found.scanned
        /\ t.found = [citations |-> result.citations, grounded_claims |-> FALSE]
    BY <1>1 DEF AnswerInv, Done, Fields
  <2>2. s.path = "/tools" /\ s.top_k \in Nat
    BY <1>1 DEF AnswerInv
  <2> HIDE DEF t
  <2>3. Authorized(t.found, Scope(t.role))
    BY <1>4, <1>5, <2>1 DEF Authorized, GoodSearch
  <2>4. Cites(t.path, t.results, t.found) /\ Evident(t)
    BY <2>1, <2>2 DEF Cites, Evident
  <2>5. Best(t)
    BY <1>4, <2>1, <2>2 DEF Best, GoodSearch
  <2>6. AnswerInv(t)
    BY <2>1, <2>2, <2>3, <2>4, <2>5 DEF AnswerInv
  <2> QED BY <2>6 DEF t
<1>7. Go(r, T(result, found))
  BY <1>3 DEF result
<1> HIDE DEF T
<1> QED BY <1>1, <1>6, <1>7, GoInv

\* The three checks of a report, which is no answer.
LEMMA HealthInv == ASSUME PipelineInv, NEW r \in Requests, Health(r) PROVE PipelineInv'
<1>1. DOMAIN turn[r] = Fields /\ turn[r].top_k \in Nat
  BY DEF PipelineInv, AnswerInv
<1>2. CASE CheckPostgres(r)
  <2>1. AnswerInv([turn[r] EXCEPT !.step = "redis", !.checks = [postgresql |-> Pinged("postgresql")]])
    BY <1>1 DEF AnswerInv, HasAnswer, Fields
  <2> QED BY <1>2, <2>1, GoInv DEF CheckPostgres
<1>3. CASE CheckRedis(r)
  <2>1. AnswerInv([turn[r] EXCEPT !.step = "report",
                     !.checks = [postgresql |-> @.postgresql, redis |-> Pinged("redis")]])
    BY <1>1 DEF AnswerInv, HasAnswer, Fields
  <2> QED BY <1>3, <2>1, GoInv DEF CheckRedis
<1>4. CASE Report(r)
  <2>1. PICK checks : Go(r, Done([turn[r] EXCEPT !.checks = checks], Overall(checks), Nothing)) /\ UNCHANGED entries
    BY <1>4 DEF Report
  <2>2. Overall(checks) # "answered"
    BY DEF Overall
  <2>3. DOMAIN [turn[r] EXCEPT !.checks = checks] = Fields /\ [turn[r] EXCEPT !.checks = checks].top_k \in Nat
    BY <1>1 DEF Fields
  <2>4. AnswerInv(Done([turn[r] EXCEPT !.checks = checks], Overall(checks), Nothing))
    BY <2>2, <2>3, DoneInv
  <2> QED BY <2>1, <2>4, GoInv
<1> QED BY <1>2, <1>3, <1>4 DEF Health

----------------------------------------------------------------------------
(* The surroundings, and every step *)

\* What changes around a turn does not change its answer.
LEMMA SurroundingsInv ==
  ASSUME PipelineInv, Observe \/ UNCHANGED turn, index' \in Indexes, entries' \subseteq entries
  PROVE  PipelineInv'
<1>1. ASSUME NEW t, AnswerInv(t), NEW seen
      PROVE  /\ AnswerInv([t EXCEPT !.undisturbed = FALSE])
             /\ AnswerInv([t EXCEPT !.undisturbed = FALSE, !.seen = seen])
  <2> DEFINE Same(u) == /\ DOMAIN u = Fields /\ u.top_k = t.top_k /\ u.step = t.step /\ u.path = t.path
                        /\ u.found = t.found /\ u.role = t.role /\ u.results = t.results /\ u.cache = t.cache
                        /\ u.evidence = t.evidence /\ u.searched = t.searched /\ u.outcome = t.outcome
  <2>1. ASSUME NEW u, Same(u) PROVE AnswerInv(u)
    BY <1>1, <2>1 DEF AnswerInv, HasAnswer, Evident, Best
  <2>2. Same([t EXCEPT !.undisturbed = FALSE])
    BY <1>1 DEF AnswerInv, Fields
  <2>3. Same([t EXCEPT !.undisturbed = FALSE, !.seen = seen])
    BY <1>1 DEF AnswerInv, Fields
  <2> HIDE DEF Same
  <2> QED BY <2>1, <2>2, <2>3
<1>2. DOMAIN turn' = Requests /\ \A r \in Requests : AnswerInv(turn'[r])
  <2>1. CASE Observe
    <3>1. PICK on : turn' = [r \in Requests |->
                 IF turn[r].step = "idle" THEN turn[r]
                 ELSE IF turn[r].step = "done" \/ turn[r].path = "/health"
                   THEN [turn[r] EXCEPT !.undisturbed = FALSE]
                 ELSE [turn[r] EXCEPT !.undisturbed = FALSE, !.seen = turn[r].seen \cup on]]
      BY <2>1 DEF Observe
    <3> SUFFICES ASSUME NEW r \in Requests PROVE AnswerInv(turn'[r])
      BY <3>1
    <3>2. \/ turn'[r] = turn[r]
          \/ turn'[r] = [turn[r] EXCEPT !.undisturbed = FALSE]
          \/ turn'[r] = [turn[r] EXCEPT !.undisturbed = FALSE, !.seen = turn[r].seen \cup on]
      BY <3>1
    <3>3. AnswerInv(turn[r])
      BY DEF PipelineInv
    <3>4. /\ AnswerInv([turn[r] EXCEPT !.undisturbed = FALSE])
          /\ AnswerInv([turn[r] EXCEPT !.undisturbed = FALSE, !.seen = turn[r].seen \cup on])
      BY <1>1, <3>3, Zenon
    <3> QED BY <3>2, <3>3, <3>4, Zenon
  <2>2. CASE UNCHANGED turn
    BY <2>2 DEF PipelineInv
  <2> QED BY <2>1, <2>2
<1>3. \A e \in entries' : EntryInv(e)
  BY DEF PipelineInv
<1> QED BY <1>2, <1>3 DEF PipelineInv

\* Every step.
LEMMA NextInv == PipelineInv /\ [Next]_vars => PipelineInv'
<1> SUFFICES ASSUME PipelineInv, [Next]_vars PROVE PipelineInv'
  OBVIOUS
<1>1. ASSUME NEW r \in Requests, NEW t \in Calls, Arrive(r, t) PROVE PipelineInv'
  BY <1>1, ArriveInv
<1>2. ASSUME NEW r \in Requests, Serve(r) PROVE PipelineInv'
  BY <1>2, ConsiderInv, ReadCacheInv, RefuseInv, PlanInv, InvokeInv, StoreInv, RouteInv, HealthInv
     DEF Serve, Chat
<1>3. ASSUME NEW r \in Requests, Leave(r) PROVE PipelineInv'
  BY <1>3, LeaveInv
<1>4. ASSUME NEW c \in Changes, RequestSwitch(c) \/ ContinueSwitch(c) PROVE PipelineInv'
  <2>1. UNCHANGED <<index, entries>> /\ (Observe \/ UNCHANGED turn)
    BY <1>4 DEF RequestSwitch, ContinueSwitch
  <2> QED BY <2>1, SurroundingsInv DEF PipelineInv
<1>5. ASSUME NEW dependency, Toggle(dependency) PROVE PipelineInv'
  <2>1. UNCHANGED <<index, entries>> /\ Observe
    BY <1>5 DEF Toggle
  <2> QED BY <2>1, SurroundingsInv DEF PipelineInv
<1>6. CASE Refresh \/ ReplaceRole \/ Expire
  <2>1. index' \in Indexes /\ entries' \subseteq entries /\ (Observe \/ UNCHANGED turn)
    BY <1>6 DEF Refresh, ReplaceRole, Expire, surroundings, PipelineInv
  <2> QED BY <2>1, SurroundingsInv
<1>7. CASE UNCHANGED vars
  <2>1. UNCHANGED <<index, entries, turn>>
    BY <1>7 DEF vars
  <2> QED BY <2>1, SurroundingsInv DEF PipelineInv
<1> QED BY <1>1, <1>2, <1>3, <1>4, <1>5, <1>6, <1>7 DEF Next

\* In every reachable state.
LEMMA AlwaysPipelineInv == Spec => []PipelineInv
BY InitInv, NextInv, PTL DEF Spec

----------------------------------------------------------------------------
(* The properties *)

\* For any documents, texts and models, an answer cites only documents of the
\* access levels of its role, also when the role has changed between the turn
\* that stored it and the one that repeats it (build_cache_key).
THEOREM CitationsAreAuthorized == Spec => []CitationsAuthorized
<1>1. PipelineInv => CitationsAuthorized
  BY DEF PipelineInv, AnswerInv, Authorized, CitationsAuthorized
<1> QED BY <1>1, AlwaysPipelineInv, PTL

\* A grounded answer cites what a completed search found (validate_evidence_bound_output).
THEOREM GroundedAnswersAlwaysCite == Spec => []GroundedAnswersCite
<1>1. PipelineInv => GroundedAnswersCite
  BY DEF PipelineInv, AnswerInv, HasAnswer, Cites, GroundedAnswersCite, Answered, Searched
<1> QED BY <1>1, AlwaysPipelineInv, PTL

\* Whatever a model plans, an action needs the turn's evidence and a role that
\* may act (enforce_tool_invocation).
THEOREM ActionsAlwaysHaveEvidence == Spec => []ActionsHaveEvidence
<1>1. PipelineInv => ActionsHaveEvidence
  BY DEF PipelineInv, AnswerInv, HasAnswer, Evident, ActionsHaveEvidence, Fresh, Answered
<1> QED BY <1>1, AlwaysPipelineInv, PTL

\* A search returns the best documents the user may see of those its scan of the
\* index has reached, however few, although the query cuts off by LIMIT before
\* the minimum similarity is applied (search_similar_chunks).
THEOREM ResultsAreBest == Spec => []BestResults
<1>1. PipelineInv => BestResults
  BY DEF PipelineInv, AnswerInv, HasAnswer, Best, BestResults, Fresh, Answered, Searched
<1> QED BY <1>1, AlwaysPipelineInv, PTL

\* In the middle of requests, outages and refreshes the switches take only the
\* steps of RuntimeSwitches (RuntimeSwitchRepository).
THEOREM SwitchesAmongRequests == Spec => SwitchSpec
<1>1. Init => SwitchInit
  BY DEF Init
<1>2. [Next]_vars => [SwitchNext]_switchVars
  <2> SUFFICES ASSUME [Next]_vars PROVE [SwitchNext]_switchVars
    OBVIOUS
  <2>1. ASSUME NEW r \in Requests, (\E t \in Calls : Arrive(r, t)) \/ Serve(r) \/ Leave(r)
        PROVE  UNCHANGED switchVars
    <3>1. ASSUME NEW t, Go(r, t) PROVE UNCHANGED switchVars
      BY <3>1 DEF Go, surroundings, switchVars
    <3>2. \E t : Go(r, t)
      <4>1. CASE \E t \in Calls : Arrive(r, t)
        BY <4>1 DEF Arrive
      <4>2. CASE Chat(r)
        BY <4>2 DEF Chat, ConsiderCache, ReadCacheEntry, Refuse, PlanTools, InvokeTools, StoreAnswer
      <4>3. CASE InvokeRoute(r) \/ Health(r) \/ Leave(r)
        BY <4>3 DEF InvokeRoute, Health, CheckPostgres, CheckRedis, Report, Leave
      <4> QED BY <2>1, <4>1, <4>2, <4>3 DEF Serve
    <3> QED BY <3>1, <3>2
  <2>2. ASSUME NEW c \in Changes, RequestSwitch(c) \/ ContinueSwitch(c) PROVE SwitchNext
    BY <2>2 DEF RequestSwitch, ContinueSwitch, SwitchNext, ProceedSwitch
  <2>3. CASE (\E dependency \in DOMAIN up : Toggle(dependency)) \/ Refresh \/ ReplaceRole \/ Expire
    BY <2>3 DEF Toggle, Refresh, ReplaceRole, Expire, surroundings, switchVars
  <2>4. CASE UNCHANGED vars
    BY <2>4 DEF vars, switchVars
  <2> QED BY <2>1, <2>2, <2>3, <2>4 DEF Next
<1> QED BY <1>1, <1>2, PTL DEF Spec, SwitchSpec

----------------------------------------------------------------------------
(* Types, switches, and the surroundings of a turn: what it has in its     *)
(* fields, which switches it has seen on, and, as long as nothing has      *)
(* changed, what it says of the dependencies.                              *)

World == [transport |-> config.mcp_transport_mode, on |-> FeaturesOn, up |-> up, runtime |-> Runtime]

CacheStatuses == {"disabled", "eligible", "bypass", "unavailable", "miss", "hit"}

Typed(t) ==
    /\ t.step \in TurnSteps /\ t.found \in Found /\ t.seen \subseteq Switches
    /\ t.cache \in CacheStatuses
    /\ t.step = "invoke" => /\ t.plan.tools \in (SUBSET Tools) \ {{}}
                            /\ t.history \in Seq(Messages) /\ t.grounding \in Seq(Passages)
    /\ \A tool \in DOMAIN t.results : t.results[tool] \in ToolResult

\* A turn that may still ask a switch.
Under(t) == t.step \notin {"idle", "done"} /\ t.path # "/health"

\* The cache is asked, and something retrieved, with a switch the turn has seen on.
SeenOn(t, w) ==
    /\ Under(t) => w.on \subseteq t.seen
    /\ t.step = "lookup" \/ t.cache # "disabled" => "response_cache_enabled" \in t.seen
    /\ t.evidence => "retrieval_enabled" \in t.seen
    /\ w.transport = "registry" /\ HasAnswer(t) /\ t.cache # "hit" /\ t.found.citations # {}
       => "retrieval_enabled" \in t.seen

\* In this process a search that may be stored has found what the answer cites.
Storable(t, w) ==
    /\ t.cache = "hit" => t.step = "done"
    /\ t.step = "store" /\ w.transport = "registry" /\ "knowledge.search" \in DOMAIN t.results
         /\ t.results["knowledge.search"].invocation = "completed"
         /\ t.results["knowledge.search"].result_status \notin NON_CACHEABLE_RETRIEVAL_STATUSES
       => t.found.citations # {}

\* Why a search in these surroundings has not come to anything.
Explained(status, w) ==
    /\ status = "disabled" => w.runtime = "disabled" \/ "retrieval_enabled" \notin w.on
    /\ status = "unavailable" => w.runtime = "error"

Reflects(t, w) ==
    /\ t.step = "done" /\ t.outcome = "error" => ~w.up.postgresql
    /\ t.cache = "unavailable" => ~w.up.redis
    /\ "knowledge.search" \in DOMAIN t.results /\ t.cache # "hit"
       => Explained(t.results["knowledge.search"].result_status, w)
    /\ t.step \in {"redis", "report"} /\ t.checks.postgresql # "unavailable" => w.up.postgresql
    /\ t.step = "report" /\ t.checks.redis # "unavailable" => w.up.redis
    /\ t.step = "done" /\ t.outcome = "ready"
       => w.up.postgresql /\ w.up.redis /\ w.runtime = "ready" /\ "retrieval_enabled" \in w.on

TurnInv(t, w) ==
    /\ Typed(t)
    /\ SeenOn(t, w)
    /\ Storable(t, w)
    /\ t.step # "idle" /\ t.undisturbed => Reflects(t, w)

\* CachedAnswersComplete, of an entry
Complete(e, transport) ==
    /\ DOMAIN e.results \subseteq CACHEABLE_READ_ONLY_TOOLS
    /\ \A tool \in DOMAIN e.results : e.results[tool] \in ToolResult /\ e.results[tool].invocation = "completed"
    /\ "knowledge.search" \in DOMAIN e.results /\ transport = "registry" => e.found.citations # {}

EntriesInv(es, transport) ==
    /\ \A e \in es : e.found \in Found /\ Complete(e, transport)
    /\ \A d, e \in es : d.key = e.key => d = e

SurroundingsOK ==
    /\ config \in Configurations /\ role \in UserRoles /\ index \in Indexes
    /\ up \in [{"postgresql", "redis"} -> BOOLEAN]
    /\ changes \in 0..MaxChanges

RequestsInv ==
    /\ SurroundingsOK
    /\ EntriesInv(entries, config.mcp_transport_mode)
    /\ \A r \in Requests : TurnInv(turn[r], World)

\* The parts of the surroundings.
LEMMA WorldParts ==
  /\ World.transport = config.mcp_transport_mode /\ World.up = up /\ World.runtime = Runtime
  /\ World.on = FeaturesOn
  /\ \A key \in {"response_cache_enabled", "retrieval_enabled"} : key \in World.on <=> On(key)
<1>1. /\ World.transport = config.mcp_transport_mode /\ World.up = up /\ World.runtime = Runtime
      /\ World.on = FeaturesOn
  BY DEF World
<1> QED BY <1>1 DEF FeaturesOn

\* They stay while the settings, the dependencies and the rows of the switches do.
LEMMA SameWorld == ASSUME UNCHANGED <<config, up, rows>> PROVE World' = World
<1>1. FeaturesOn' = FeaturesOn
  BY DEF FeaturesOn, On, IsEnabled, Stored
<1> QED BY <1>1 DEF World, Runtime

\* A step of one turn that may change the cache.
LEMMA TurnStep ==
  ASSUME PipelineInv, RequestsInv, NEW r \in Requests, NEW t, TurnInv(t, World), Go(r, t),
         EntriesInv(entries', config.mcp_transport_mode)
  PROVE  RequestsInv'
<1>1. UNCHANGED <<config, role, index, up, changes, rows, change, clock>> /\ turn' = [turn EXCEPT ![r] = t]
  BY DEF Go, surroundings
<1>2. World' = World
  BY <1>1, SameWorld
<1>3. \A q \in Requests : turn'[q] = IF q = r THEN t ELSE turn[q]
  BY <1>1 DEF PipelineInv
<1> DEFINE w == World
<1>4. \A q \in Requests : TurnInv(turn'[q], w)
  BY <1>3 DEF RequestsInv
<1> HIDE DEF w
<1>5. \A q \in Requests : TurnInv(turn'[q], World')
  BY <1>2, <1>4 DEF w
<1>6. SurroundingsOK'
  BY <1>1 DEF RequestsInv, SurroundingsOK
<1>7. EntriesInv(entries', config'.mcp_transport_mode)
  BY <1>1
<1> QED BY <1>5, <1>6, <1>7 DEF RequestsInv

\* A step of one turn that does not.
LEMMA QuietStep ==
  ASSUME PipelineInv, RequestsInv, NEW r \in Requests, NEW t, TurnInv(t, World), Go(r, t), UNCHANGED entries
  PROVE  RequestsInv'
<1>1. EntriesInv(entries', config.mcp_transport_mode)
  BY DEF RequestsInv
<1> QED BY <1>1, TurnStep

\* The end of a request without an answer.
LEMMA FinishInv ==
  ASSUME NEW s, DOMAIN s = Fields, NEW w, Typed(s), SeenOn(s, w), Storable(s, w),
         s.undisturbed => Reflects(s, w), NEW outcome, outcome \notin {"answered", "ready"},
         s.undisturbed /\ outcome = "error" => ~w.up.postgresql
  PROVE  TurnInv(Done(s, outcome, Nothing), w)
<1> DEFINE u == Done(s, outcome, Nothing)
<1>1. /\ u.step = "done" /\ u.outcome = outcome /\ u.found = Nothing /\ u.seen = s.seen /\ u.cache = s.cache
      /\ u.results = s.results /\ u.evidence = s.evidence /\ u.undisturbed = s.undisturbed
      /\ u.checks = s.checks /\ u.plan = s.plan /\ u.path = s.path
  BY DEF Done, Fields
<1> HIDE DEF u
<1>2. Nothing \in Found
  BY DEF Nothing, Found
<1>3. Typed(u)
  BY <1>1, <1>2 DEF Typed, TurnSteps
<1>4. SeenOn(u, w) /\ Storable(u, w)
  BY <1>1 DEF SeenOn, Under, Storable, HasAnswer
<1>5. u.undisturbed => Reflects(u, w)
  BY <1>1 DEF Reflects
<1> QED BY <1>3, <1>4, <1>5 DEF TurnInv, u

\* A request as it arrives: nothing done, nothing seen.
LEMMA CallsAreFresh ==
  ASSUME NEW t \in Calls
  PROVE  /\ DOMAIN t = Fields /\ t.step = "idle" /\ t.cache = "disabled" /\ t.results = <<>> /\ t.found = Nothing
         /\ t.evidence = FALSE /\ t.seen = {} /\ t.plan = None /\ t.path \in Paths
<1> USE DEF Idle, Fields, Paths
<1>1. CASE \E text \in Texts : t = [Idle EXCEPT !.path = "/chat", !.text = text]
  BY <1>1
<1>2. CASE \E k \in TopKs : t = [Idle EXCEPT !.path = "/tools", !.tool = "knowledge.search", !.top_k = k]
  BY <1>2
<1>3. CASE \E tool \in Tools \ {"knowledge.search"} : t = [Idle EXCEPT !.path = "/tools", !.tool = tool]
  BY <1>3
<1>4. CASE t = [Idle EXCEPT !.path = "/health"]
  BY <1>4
<1> QED BY <1>1, <1>2, <1>3, <1>4 DEF Calls

\* A free slot, in any surroundings.
LEMMA IdleState == ASSUME NEW w PROVE TurnInv(Idle, w)
<1>1. /\ Idle.step = "idle" /\ Idle.cache = "disabled" /\ Idle.results = <<>> /\ Idle.found = Nothing
      /\ Idle.evidence = FALSE /\ Idle.seen = {}
  BY DEF Idle
<1>2. Nothing \in Found
  BY DEF Nothing, Found
<1>3. Typed(Idle)
  BY <1>1, <1>2 DEF Typed, TurnSteps, CacheStatuses
<1> QED BY <1>1, <1>3 DEF TurnInv, SeenOn, Under, Storable, HasAnswer

\* What a request has seen on when it is let in.
LEMMA ArriveState ==
  ASSUME PipelineInv, RequestsInv, NEW r \in Requests, NEW t \in Calls, Arrive(r, t)
  PROVE  RequestsInv'
<1> DEFINE s == [t EXCEPT !.seen = IF t.path = "/health" THEN {} ELSE FeaturesOn]
           w == World
<1>1. /\ DOMAIN s = Fields /\ s.path = t.path /\ s.step = "idle" /\ s.cache = "disabled"
      /\ s.results = <<>> /\ s.found = Nothing /\ s.evidence = FALSE
      /\ s.seen = IF t.path = "/health" THEN {} ELSE FeaturesOn
  BY CallsAreFresh DEF Fields
<1>2. w.on = FeaturesOn /\ w.up = up
  BY WorldParts
<1>3. FeaturesOn \subseteq Switches
  BY DEF FeaturesOn, Switches
<1>4. \/ \E outcome \in {"maintenance", "forbidden"} : Go(r, Done(s, outcome, Nothing))
      \/ ~up.postgresql /\ Go(r, Done(s, "error", Nothing))
      \/ t.path = "/health" /\ Go(r, [s EXCEPT !.step = "postgresql"])
      \/ t.path # "/health" /\ Go(r, [s EXCEPT !.step = IF t.path = "/chat" THEN "consider" ELSE "route", !.role = role])
  BY DEF Arrive
<1>5. UNCHANGED entries
  BY DEF Arrive
<1> HIDE DEF s, w
<1>6. Nothing \in Found
  BY DEF Nothing, Found
<1>7. Typed(s) /\ SeenOn(s, w) /\ Storable(s, w) /\ Reflects(s, w)
  BY <1>1, <1>3, <1>6 DEF Typed, TurnSteps, CacheStatuses, SeenOn, Under, Storable, HasAnswer, Reflects
<1>8. CASE \E outcome \in {"maintenance", "forbidden"} : Go(r, Done(s, outcome, Nothing))
  <2>1. PICK outcome \in {"maintenance", "forbidden"} : Go(r, Done(s, outcome, Nothing))
    BY <1>8
  <2>2. TurnInv(Done(s, outcome, Nothing), w)
    BY <1>1, <1>7, FinishInv
  <2> QED BY <1>5, <2>1, <2>2, QuietStep DEF w
<1>9. CASE ~up.postgresql /\ Go(r, Done(s, "error", Nothing))
  <2>1. TurnInv(Done(s, "error", Nothing), w)
    BY <1>1, <1>2, <1>7, <1>9, FinishInv
  <2> QED BY <1>5, <1>9, <2>1, QuietStep DEF w
<1>10. ASSUME NEW step \in {"postgresql", "consider", "route"}, NEW x, NEW u, DOMAIN u = Fields,
              step = "postgresql" => t.path = "/health", step # "postgresql" => t.path # "/health",
              u.step = step /\ u.path = s.path /\ u.cache = s.cache /\ u.results = s.results
                /\ u.found = s.found /\ u.evidence = s.evidence /\ u.seen = s.seen /\ u.undisturbed = s.undisturbed
       PROVE  TurnInv(u, w)
  <2>1. Typed(u)
    BY <1>1, <1>7, <1>10 DEF Typed, TurnSteps
  <2>2. SeenOn(u, w) /\ Storable(u, w) /\ Reflects(u, w)
    BY <1>1, <1>2, <1>7, <1>10 DEF SeenOn, Under, Storable, HasAnswer, Reflects
  <2> QED BY <2>1, <2>2 DEF TurnInv
<1>11. CASE t.path = "/health" /\ Go(r, [s EXCEPT !.step = "postgresql"])
  <2> DEFINE u == [s EXCEPT !.step = "postgresql"]
  <2>1. DOMAIN u = Fields /\ u.step = "postgresql" /\ u.path = s.path /\ u.cache = s.cache /\ u.results = s.results
        /\ u.found = s.found /\ u.evidence = s.evidence /\ u.seen = s.seen /\ u.undisturbed = s.undisturbed
    BY <1>1 DEF Fields
  <2>2. Go(r, u)
    BY <1>11
  <2> HIDE DEF u
  <2>3. TurnInv(u, w)
    BY <1>10, <1>11, <2>1
  <2> QED BY <1>5, <2>2, <2>3, QuietStep DEF w
<1>12. CASE t.path # "/health" /\ Go(r, [s EXCEPT !.step = IF t.path = "/chat" THEN "consider" ELSE "route", !.role = role])
  <2> DEFINE step == IF t.path = "/chat" THEN "consider" ELSE "route"
             u == [s EXCEPT !.step = step, !.role = role]
  <2>1. DOMAIN u = Fields /\ u.step = step /\ u.path = s.path /\ u.cache = s.cache /\ u.results = s.results
        /\ u.found = s.found /\ u.evidence = s.evidence /\ u.seen = s.seen /\ u.undisturbed = s.undisturbed
    BY <1>1 DEF Fields
  <2>2. Go(r, u) /\ step \in {"consider", "route"}
    BY <1>12
  <2> HIDE DEF u, step
  <2>3. TurnInv(u, w)
    BY <1>10, <1>12, <2>1, <2>2
  <2> QED BY <1>5, <2>2, <2>3, QuietStep DEF w
<1> QED BY <1>4, <1>8, <1>9, <1>11, <1>12

\* The response is sent.
LEMMA LeaveState == ASSUME PipelineInv, RequestsInv, NEW r \in Requests, Leave(r) PROVE RequestsInv'
BY IdleState, QuietStep DEF Leave

----------------------------------------------------------------------------
(* Searches, plans and answers, whatever they are about *)

\* A search's result says which it was; on and runtime are what it went by.
FoundWell(found, runtime, on) ==
    /\ found.status \in RetrievalStatuses /\ found.docs \subseteq Docs
    /\ found.docs # {} => found.status = "completed"
    /\ found.status = "completed" => on /\ found.docs # {}
    /\ found.status = "disabled" => runtime = "disabled" \/ ~on
    /\ found.status = "unavailable" => runtime = "error"

\* A search finds documents when it completes, with its switch on, and a search
\* that is off or cannot run has a reason.
LEMMA RetrieveExplained ==
  ASSUME NEW runtime, NEW on \in BOOLEAN, NEW reachable, NEW ix \in SUBSET Docs, NEW levels, NEW k,
         NEW found \in Retrieve(runtime, on, reachable, ix, levels, k)
  PROVE  FoundWell(found, runtime, on)
<1>1. ASSUME NEW scan \in SUBSET Docs, NEW s \in Search(scan, levels, k) PROVE s \subseteq Docs
  BY DEF Search, Top, Accessible, Similar
<1>2. CASE \/ found = NothingRetrieved("disabled") /\ (runtime = "disabled" \/ ~on)
           \/ found = NothingRetrieved("unavailable") /\ runtime = "error"
           \/ found = NothingRetrieved("failed")
  BY <1>2 DEF NothingRetrieved, RetrievalStatuses, FoundWell
<1>3. CASE on /\ found \in SearchResults(ix, levels, k)
  <2>1. PICK scan \in SUBSET Docs : \E s \in Search(scan, levels, k) :
          found = [status |-> IF s = {} THEN "empty" ELSE "completed", docs |-> s, scanned |-> scan]
    BY <1>3, SearchResultsCases
  <2>2. PICK s \in Search(scan, levels, k) :
          found = [status |-> IF s = {} THEN "empty" ELSE "completed", docs |-> s, scanned |-> scan]
    BY <2>1
  <2>3. s \subseteq Docs
    BY <1>1
  <2>4. /\ found.docs = s /\ found.status = IF s = {} THEN "empty" ELSE "completed"
    BY <2>2
  <2> QED BY <1>3, <2>3, <2>4 DEF RetrievalStatuses, FoundWell
<1> QED BY <1>2, <1>3 DEF Retrieve

\* A search of this process asks the switch.
LEMMA FindsExplained ==
  ASSUME index \in SUBSET Docs, NEW levels, NEW k, NEW found \in Finds(levels, k)
  PROVE  FoundWell(found, Runtime, "retrieval_enabled" \in FeaturesOn)
<1> DEFINE on == "retrieval_enabled" \in FeaturesOn
<1>1. on \in BOOLEAN /\ found \in Retrieve(Runtime, on, up.postgresql, index, levels, k)
  BY WorldParts DEF Finds, Retrieve
<1> HIDE DEF on
<1>2. FoundWell(found, Runtime, on)
  BY <1>1, RetrieveExplained
<1> QED BY <1>2 DEF on

\* What a search for a tool call has found, wherever the call is answered.
Reported(found) == found.status \in RetrievalStatuses /\ found.docs \subseteq Docs /\ Explained(found.status, World)

\* A search for a tool call; without the MCP server, its switch was on.
LEMMA CallsExplained ==
  ASSUME index \in SUBSET Docs, NEW served, NEW levels, NEW k, NEW found \in FindsIn(served, levels, k)
  PROVE  /\ Reported(found)
         /\ "knowledge.search" \notin served =>
              FoundWell(found, Runtime, "retrieval_enabled" \in FeaturesOn)
<1>1. World.up = up /\ World.runtime = Runtime /\ World.on = FeaturesOn
  BY WorldParts
<1>2. CASE "knowledge.search" \notin served
  <2>1. found \in Finds(AuthorizedLevels(levels), k)
    BY <1>2 DEF FindsIn
  <2>2. FoundWell(found, Runtime, "retrieval_enabled" \in FeaturesOn)
    BY <2>1, FindsExplained
  <2>3. Reported(found)
    BY <1>1, <2>2 DEF FoundWell, Reported, Explained
  <2> QED BY <2>2, <2>3
<1>3. CASE "knowledge.search" \in served /\ found = NothingRetrieved("preview")
  BY <1>3 DEF NothingRetrieved, Reported, Explained, RetrievalStatuses
<1>4. CASE "knowledge.search" \in served /\ \E ls : found \in Retrieve(Runtime, TRUE, up.postgresql, index, ls, k)
  <2>1. PICK ls : found \in Retrieve(Runtime, TRUE, up.postgresql, index, ls, k)
    BY <1>4
  <2>2. FoundWell(found, Runtime, TRUE)
    BY <2>1, RetrieveExplained
  <2>3. Reported(found)
    BY <1>1, <2>2 DEF FoundWell, Reported, Explained
  <2> QED BY <1>4, <2>3
<1> QED BY <1>2, <1>3, <1>4 DEF FindsIn, ServerFinds

\* A plan names tools of the registry, and at least one.
LEMMA PlanTypes ==
  ASSUME NEW override \in PlannerOutput, NEW output \in PlannerOutput, NEW text
  PROVE  PlannerResult(override, output, text).tools \in (SUBSET Tools) \ {{}}
<1>1. TextSelection(override) \subseteq Tools /\ TextSelection(output) \subseteq Tools
      /\ StructuredSelection(output) \subseteq Tools
  BY DEF TextSelection, StructuredSelection
<1>2. PlanByRules(text) \in (SUBSET Tools) \ {{}}
  <2>1. Matched(text) \subseteq Tools
    BY DEF Matched
  <2> QED BY <2>1, ToolsAssumption DEF PlanByRules
<1>3. \A source, tools : Plan(source, tools).tools = tools
  BY DEF Plan
<1> DEFINE selected == StructuredSelection(output) \cup TextSelection(output)
<1>4. CASE TextSelection(override) # {}
  BY <1>1, <1>3, <1>4 DEF PlannerResult
<1>5. CASE TextSelection(override) = {} /\ selected # {}
  <2>1. PlannerResult(override, output, text) = Plan("langchain_model", selected)
    BY <1>5 DEF PlannerResult
  <2>2. selected \in (SUBSET Tools) \ {{}}
    BY <1>1, <1>5
  <2> HIDE DEF selected
  <2> QED BY <1>3, <2>1, <2>2
<1>6. CASE TextSelection(override) = {} /\ selected = {}
  <2>1. PlannerResult(override, output, text) = Plan("rule_fallback", PlanByRules(text))
    BY <1>6 DEF PlannerResult
  <2> QED BY <1>2, <1>3, <2>1
<1> QED BY <1>4, <1>5, <1>6

\* What a call reports of its search, if it does, is of the type.
LEMMA ResultTypes ==
  ASSUME NEW tool, NEW found, found.status \in RetrievalStatuses, found.docs \subseteq Docs
  PROVE  /\ RegistryResult(tool, found) \in ToolResult
         /\ \A has_query \in BOOLEAN : SdkResult(tool, has_query, found) \in ToolResult
         /\ PlainResult("blocked") \in ToolResult
<1>1. \A i \in {"completed", "failed", "blocked", "stubbed"} : PlainResult(i) \in ToolResult
  BY DEF PlainResult, ToolResult
<1>2. KnowledgeResult(found) \in ToolResult
  BY DEF KnowledgeResult, KnowledgeInvocation, ToolResult
<1>3. RegistryResult(tool, found) \in {KnowledgeResult(found), PlainResult("completed"), PlainResult("stubbed")}
  BY DEF RegistryResult, HandlerResult
<1>4. \A has_query \in BOOLEAN : SdkResult(tool, has_query, found)
        \in {RegistryResult(tool, found), PlainResult("completed"), PlainResult("failed")}
  BY DEF SdkResult
<1> QED BY <1>1, <1>2, <1>3, <1>4

\* A knowledge call reports its search, or has no status to report.
LEMMA KnowledgeReports ==
  ASSUME NEW found, NEW has_query \in BOOLEAN, NEW result, NEW w, Explained(found.status, w),
         result \in {PlainResult("blocked"), RegistryResult("knowledge.search", found),
                     SdkResult("knowledge.search", has_query, found)}
  PROVE  Explained(result.result_status, w)
<1>1. result = KnowledgeResult(found) \/ result \in {PlainResult("blocked"), PlainResult("completed")}
  BY DEF RegistryResult, HandlerResult, Handled, CORE_MCP_TOOL_NAMES, SdkResult
<1>2. KnowledgeResult(found).result_status = found.status
  BY DEF KnowledgeResult
<1>3. PlainResult("blocked").result_status = "none" /\ PlainResult("completed").result_status = "none"
  BY DEF PlainResult
<1>4. Explained("none", w)
  BY DEF Explained
<1> QED BY <1>1, <1>2, <1>3, <1>4

\* The citations of a validated answer are documents.
LEMMA ValidatedTypes ==
  ASSUME NEW results, \A tool \in DOMAIN results : results[tool] \in ToolResult, NEW claims \in BOOLEAN
  PROVE  Validated(results, claims) \in Found
<1>1. Cited(results) \subseteq Docs
  BY DEF Cited, ToolResult
<1>2. (Cited(results) # {}) \in BOOLEAN
  OBVIOUS
<1> QED BY <1>1, <1>2 DEF Validated, Found

----------------------------------------------------------------------------
(* The chat up to the plan *)

\* The cache is active only with its switch on.
LEMMA ConsiderState == ASSUME PipelineInv, RequestsInv, NEW r \in Requests, ConsiderCache(r) PROVE RequestsInv'
<1> DEFINE s == turn[r]
           w == World
           cache == IF ~CacheIsActive(r) THEN "disabled"
                    ELSE IF MayAskCache(s.role, s.text) THEN "eligible" ELSE "bypass"
           step == IF CacheIsActive(r) /\ MayAskCache(s.role, s.text) THEN "lookup" ELSE "plan"
           u == [s EXCEPT !.cache = cache, !.step = step]
<1>1. Go(r, u) /\ UNCHANGED entries /\ s.step = "consider" /\ DOMAIN s = Fields /\ s.path = "/chat"
  BY DEF ConsiderCache, PipelineInv, AnswerInv
<1>2. TurnInv(s, w)
  BY DEF RequestsInv
<1>3. /\ cache \in {"disabled", "eligible", "bypass"} /\ step \in {"lookup", "plan"}
      /\ cache # "disabled" \/ step = "lookup" => "response_cache_enabled" \in w.on
  BY WorldParts DEF CacheIsActive
<1>4. /\ u.step = step /\ u.cache = cache /\ u.path = s.path /\ u.found = s.found /\ u.seen = s.seen
      /\ u.results = s.results /\ u.evidence = s.evidence /\ u.undisturbed = s.undisturbed
  BY <1>1 DEF Fields
<1> HIDE DEF s, w, u, cache, step
<1>5. Typed(u)
  BY <1>1, <1>2, <1>3, <1>4 DEF TurnInv, Typed, TurnSteps, CacheStatuses
<1>6. SeenOn(u, w) /\ Storable(u, w)
  BY <1>1, <1>2, <1>3, <1>4 DEF TurnInv, SeenOn, Storable, Under, HasAnswer
<1>7. u.undisturbed => Reflects(u, w)
  BY <1>1, <1>2, <1>3, <1>4 DEF TurnInv, Reflects, Storable
<1>8. TurnInv(u, w)
  BY <1>5, <1>6, <1>7 DEF TurnInv
<1> QED BY <1>1, <1>8, QuietStep DEF w

\* A Redis that does not answer is down, and what a hit repeats is an entry's.
LEMMA ReadCacheState == ASSUME PipelineInv, RequestsInv, NEW r \in Requests, ReadCacheEntry(r) PROVE RequestsInv'
<1> DEFINE s == turn[r]
           w == World
<1>1. UNCHANGED entries /\ s.step = "lookup" /\ DOMAIN s = Fields /\ s.path = "/chat"
  BY DEF ReadCacheEntry, PipelineInv, AnswerInv
<1>2. TurnInv(s, w) /\ w.up = up
  BY WorldParts DEF RequestsInv
<1> HIDE DEF s, w
<1>3. ASSUME NEW status \in {"unavailable", "miss"}, status = "unavailable" => ~up.redis,
             Go(r, [s EXCEPT !.cache = status, !.step = "plan"])
      PROVE  RequestsInv'
  <2> DEFINE u == [s EXCEPT !.cache = status, !.step = "plan"]
  <2>1. /\ u.step = "plan" /\ u.cache = status /\ u.path = s.path /\ u.found = s.found /\ u.seen = s.seen
        /\ u.results = s.results /\ u.evidence = s.evidence /\ u.undisturbed = s.undisturbed
    BY <1>1 DEF Fields
  <2>2. Go(r, u)
    BY <1>3
  <2> HIDE DEF u
  <2>3. Typed(u)
    BY <1>1, <1>2, <1>3, <2>1 DEF TurnInv, Typed, TurnSteps, CacheStatuses
  <2>4. SeenOn(u, w) /\ Storable(u, w)
    BY <1>1, <1>2, <1>3, <2>1 DEF TurnInv, SeenOn, Storable, Under, HasAnswer
  <2>5. u.undisturbed => Reflects(u, w)
    BY <1>1, <1>2, <1>3, <2>1 DEF TurnInv, Reflects, Storable
  <2>6. TurnInv(u, w)
    BY <2>3, <2>4, <2>5 DEF TurnInv
  <2> QED BY <1>1, <2>2, <2>6, QuietStep DEF w
<1>4. ASSUME NEW e \in entries, Go(r, Restored(s, e)) PROVE RequestsInv'
  <2> DEFINE u == Restored(s, e)
  <2>1. /\ u.step = "done" /\ u.cache = "hit" /\ u.path = s.path /\ u.found = e.found /\ u.seen = s.seen
        /\ u.results = e.results /\ u.evidence = s.evidence /\ u.undisturbed = s.undisturbed
        /\ u.outcome = "answered"
    BY <1>1 DEF Fields, Restored, Done
  <2>2. Go(r, u)
    BY <1>4
  <2>3. e.found \in Found /\ \A tool \in DOMAIN e.results : e.results[tool] \in ToolResult
    BY DEF RequestsInv, EntriesInv, Complete
  <2> HIDE DEF u
  <2>4. Typed(u)
    BY <1>2, <2>1, <2>3 DEF TurnInv, Typed, TurnSteps, CacheStatuses
  <2>5. SeenOn(u, w) /\ Storable(u, w)
    BY <1>1, <1>2, <2>1 DEF TurnInv, SeenOn, Storable, Under, HasAnswer
  <2>6. Reflects(u, w)
    BY <2>1 DEF Reflects
  <2>7. TurnInv(u, w)
    BY <2>4, <2>5, <2>6 DEF TurnInv
  <2> QED BY <1>1, <2>2, <2>7, QuietStep DEF w
<1> QED BY <1>3, <1>4 DEF ReadCacheEntry, Cached, s

\* A refusal is the end.
LEMMA RefuseState == ASSUME PipelineInv, RequestsInv, NEW r \in Requests, Refuse(r) PROVE RequestsInv'
<1> DEFINE s == turn[r]
           w == World
<1>1. Go(r, Done(s, "refused", Nothing)) /\ UNCHANGED entries /\ s.step = "plan" /\ DOMAIN s = Fields
  BY DEF Refuse, PipelineInv, AnswerInv
<1>2. TurnInv(s, w)
  BY DEF RequestsInv
<1> HIDE DEF s, w
<1>3. TurnInv(Done(s, "refused", Nothing), w)
  BY <1>1, <1>2, FinishInv DEF TurnInv
<1> QED BY <1>1, <1>3, QuietStep DEF w

\* The passages of a prompt are a sequence of them.
LEMMA PassagesType == ASSUME NEW docs \in SUBSET Docs PROVE PassagesOf(docs) \subseteq Seq(Passages)
<1>1. Cardinality(docs) \in Nat
  BY DocsAssumption, FS_Subset, FS_CardinalityType
<1>2. ASSUME NEW order \in [1..Cardinality(docs) -> docs]
      PROVE  [i \in DOMAIN order |-> passage[order[i]]] \in Seq(Passages)
  <2>1. \A i \in 1..Cardinality(docs) : passage[order[i]] \in Passages
    BY PassageAssumption
  <2> QED BY <1>1, <2>1
<1> QED BY <1>2 DEF PassagesOf

\* Evidence is found with the switch of the retrieval on.
LEMMA PlanState == ASSUME PipelineInv, RequestsInv, NEW r \in Requests, PlanTools(r) PROVE RequestsInv'
<1> DEFINE s == turn[r]
           w == World
<1>1. UNCHANGED entries /\ s.step = "plan" /\ DOMAIN s = Fields /\ s.path = "/chat"
  BY DEF PlanTools, PipelineInv, AnswerInv
<1>2. TurnInv(s, w) /\ w.on = FeaturesOn
  BY WorldParts DEF RequestsInv
<1>3. PICK found, output, history, grounding, evidence :
        /\ found \in Finds({}, 2) /\ output \in ModelOutputs
        /\ evidence => found.status = "completed"
        /\ history \in Histories /\ grounding \in PassagesOf(found.docs)
        /\ Go(r, [s EXCEPT !.step = "invoke", !.history = history, !.grounding = grounding, !.evidence = evidence,
                           !.plan = PlannerResult(config.planner_override, output, s.text)])
  BY DEF PlanTools
<1> DEFINE plan == PlannerResult(config.planner_override, output, s.text)
           u == [s EXCEPT !.step = "invoke", !.history = history, !.grounding = grounding, !.evidence = evidence,
                          !.plan = plan]
<1>4. plan.tools \in (SUBSET Tools) \ {{}}
  <2>1. config.planner_override \in PlannerOutput /\ output \in PlannerOutput
    BY <1>3, ConfigurationsAssumption, OutputsAssumption DEF RequestsInv, SurroundingsOK, Settings
  <2> QED BY <2>1, PlanTypes
<1>5. (evidence => "retrieval_enabled" \in w.on) /\ history \in Seq(Messages) /\ grounding \in Seq(Passages)
  <2>1. index \in SUBSET Docs
    BY IndexesAssumption DEF PipelineInv
  <2>2. FoundWell(found, Runtime, "retrieval_enabled" \in FeaturesOn)
    BY <1>3, <2>1, FindsExplained
  <2>3. grounding \in Seq(Passages)
    BY <1>3, <2>2, PassagesType DEF FoundWell
  <2> QED BY <1>2, <1>3, <2>2, <2>3, TextsAssumption DEF FoundWell
<1>6. Go(r, u)
  BY <1>3
<1>7. /\ u.step = "invoke" /\ u.cache = s.cache /\ u.path = s.path /\ u.found = s.found /\ u.seen = s.seen
      /\ u.results = s.results /\ u.evidence = evidence /\ u.undisturbed = s.undisturbed /\ u.plan = plan
      /\ u.history = history /\ u.grounding = grounding
  BY <1>1 DEF Fields
<1> HIDE DEF s, w, u, plan
<1>8. Typed(u)
  BY <1>2, <1>4, <1>5, <1>7 DEF TurnInv, Typed, TurnSteps
<1>9. SeenOn(u, w) /\ Storable(u, w)
  BY <1>1, <1>2, <1>5, <1>7 DEF TurnInv, SeenOn, Storable, Under, HasAnswer
<1>10. u.undisturbed => Reflects(u, w)
  BY <1>1, <1>2, <1>7 DEF TurnInv, Reflects
<1>11. TurnInv(u, w)
  BY <1>8, <1>9, <1>10 DEF TurnInv
<1> QED BY <1>1, <1>6, <1>11, QuietStep DEF w

----------------------------------------------------------------------------
(* The tools of a chat, and their answer *)

\* In this process, a search that may be stored is cited, and what is cited was
\* found with the switch on.
LEMMA SearchesAreCited ==
  ASSUME NEW results, NEW found, NEW runtime, NEW on \in BOOLEAN,
         FoundWell(found, runtime, on),
         "knowledge.search" \in DOMAIN results, results["knowledge.search"] = KnowledgeResult(found)
  PROVE  /\ Cited(results) # {} => on
         /\ results["knowledge.search"].result_status \notin NON_CACHEABLE_RETRIEVAL_STATUSES => Cited(results) # {}
<1> DEFINE result == results["knowledge.search"]
<1>1. result.result_status = found.status /\ result.citations = found.docs
      /\ result.invocation = KnowledgeInvocation(found.status)
  BY DEF KnowledgeResult
<1>2. Cited(results) = IF Usable(result) THEN result.citations ELSE {}
  BY DEF Cited
<1> HIDE DEF result
<1>3. ASSUME found.docs # {} PROVE on
  BY <1>3 DEF FoundWell
<1>4. ASSUME found.status \notin NON_CACHEABLE_RETRIEVAL_STATUSES PROVE Cited(results) # {}
  <2>1. found.status = "completed"
    BY <1>4 DEF FoundWell, RetrievalStatuses, NON_CACHEABLE_RETRIEVAL_STATUSES
  <2>2. Usable(result)
    BY <1>1, <2>1 DEF Usable, KnowledgeInvocation
  <2> QED BY <1>1, <1>2, <2>1, <2>2 DEF FoundWell
<1> QED BY <1>1, <1>2, <1>3, <1>4 DEF result

\* A turn after its tools, of which the search has reported.
LEMMA AfterToolsState ==
  ASSUME NEW s, DOMAIN s = Fields, NEW w, TurnInv(s, w), s.step = "invoke", s.path = "/chat",
         NEW results, NEW ix, NEW V \in Found,
         \A tool \in DOMAIN results : results[tool] \in ToolResult,
         "knowledge.search" \in DOMAIN results => Explained(results["knowledge.search"].result_status, w),
         w.transport = "registry" /\ V.citations # {} => "retrieval_enabled" \in w.on,
         w.transport = "registry" /\ "knowledge.search" \in DOMAIN results
           /\ results["knowledge.search"].invocation = "completed"
           /\ results["knowledge.search"].result_status \notin NON_CACHEABLE_RETRIEVAL_STATUSES
         => V.citations # {},
         NEW u, DOMAIN u = Fields, u.step \in {"store", "done"}, u.step = "done" => u.outcome = "answered",
         u.found = V /\ u.seen = s.seen /\ u.cache = s.cache /\ u.results = results
           /\ u.evidence = s.evidence /\ u.undisturbed = s.undisturbed /\ u.path = s.path
  PROVE  TurnInv(u, w)
<1>1. Typed(u)
  BY DEF TurnInv, Typed, TurnSteps
<1>2. Storable(s, w) /\ SeenOn(s, w) /\ (s.undisturbed => Reflects(s, w))
  BY DEF TurnInv
<1>3. w.on \subseteq u.seen /\ u.cache # "hit"
  BY <1>2 DEF SeenOn, Storable, Under
<1>4. SeenOn(u, w)
  BY <1>2, <1>3 DEF SeenOn
<1>5. Storable(u, w)
  BY <1>3 DEF Storable
<1>6. u.undisturbed => Reflects(u, w)
  BY <1>2, <1>3 DEF Reflects
<1> QED BY <1>1, <1>4, <1>5, <1>6 DEF TurnInv

\* Whatever the plan, and wherever its calls are answered.
LEMMA InvokeState == ASSUME PipelineInv, RequestsInv, NEW r \in Requests, InvokeTools(r) PROVE RequestsInv'
<1> DEFINE s == turn[r]
           w == World
           ks == "knowledge.search"
           allowed == {tool \in s.plan.tools : Allowed(tool, s.role, config.approved, s.evidence)}
           Results(served, found) == [tool \in s.plan.tools |->
                          IF tool \notin allowed THEN PlainResult("blocked")
                          ELSE IF tool \in served THEN SdkResult(tool, FALSE, found)
                          ELSE RegistryResult(tool, found)]
           T(results, found) == [s EXCEPT !.history = <<>>, !.grounding = <<>>, !.results = results, !.searched = found.scanned]
<1>1. s.step = "invoke" /\ DOMAIN s = Fields /\ s.path = "/chat" /\ UNCHANGED entries /\ index \in SUBSET Docs
  BY IndexesAssumption DEF InvokeTools, PipelineInv, AnswerInv
<1>2. TurnInv(s, w)
  BY DEF RequestsInv
<1>3. PICK served \in AnsweredByServer(allowed) :
      \E found \in IF ks \in allowed THEN FindsIn(served, Scope(s.role), 3) ELSE {NothingRetrieved("empty")} :
        Go(r, AfterInvocation(T(Results(served, found), found), Results(served, found)))
  BY Zenon DEF InvokeTools
<1>4. PICK found \in IF ks \in allowed THEN FindsIn(served, Scope(s.role), 3) ELSE {NothingRetrieved("empty")} :
        Go(r, AfterInvocation(T(Results(served, found), found), Results(served, found)))
  BY <1>3
<1> DEFINE results == Results(served, found)
           t == T(results, found)
           V == Validated(results, ClaimsGrounding(t.plan, t.text))
           u == IF t.cache = "miss" THEN [t EXCEPT !.step = "store", !.found = V] ELSE Done(t, "answered", V)
           on == "retrieval_enabled" \in FeaturesOn
<1>5. Go(r, u)
  BY <1>4 DEF AfterInvocation
<1>6. Reported(found)
  <2>1. CASE ks \in allowed
    <3>1. found \in FindsIn(served, Scope(s.role), 3)
      BY <1>4, <2>1
    <3> QED BY <1>1, <3>1, CallsExplained
  <2>2. CASE ks \notin allowed
    <3>1. found = NothingRetrieved("empty")
      BY <1>4, <2>2
    <3> QED BY <3>1 DEF NothingRetrieved, Reported, Explained, RetrievalStatuses
  <2> QED BY <2>1, <2>2
<1>7. ASSUME w.transport = "registry", ks \in allowed PROVE FoundWell(found, Runtime, on)
  <2>1. ks \notin served
    BY <1>3, <1>7, WorldParts DEF AnsweredByServer
  <2>2. found \in FindsIn(served, Scope(s.role), 3)
    BY <1>4, <1>7
  <2> QED BY <1>1, <2>1, <2>2, CallsExplained
<1>8. ASSUME NEW tool \in DOMAIN results PROVE results[tool] \in ToolResult
  <2>1. results[tool] \in {PlainResult("blocked"), SdkResult(tool, FALSE, found), RegistryResult(tool, found)}
    OBVIOUS
  <2> HIDE DEF results
  <2> QED BY <1>6, <2>1, ResultTypes DEF Reported
<1>9. ASSUME ks \in DOMAIN results PROVE Explained(results[ks].result_status, w)
  <2>1. results[ks] \in {PlainResult("blocked"), SdkResult(ks, FALSE, found), RegistryResult(ks, found)}
    BY <1>9
  <2> HIDE DEF results
  <2> QED BY <1>6, <2>1, KnowledgeReports DEF Reported
<1>10. ASSUME w.transport = "registry", ks \in DOMAIN results
       PROVE  results[ks] = PlainResult("blocked") \/ (ks \in allowed /\ results[ks] = KnowledgeResult(found))
  <2>1. ks \notin served
    BY <1>3, <1>10, WorldParts DEF AnsweredByServer
  <2>2. RegistryResult(ks, found) = KnowledgeResult(found)
    BY DEF RegistryResult, HandlerResult, Handled, CORE_MCP_TOOL_NAMES
  <2> QED BY <1>10, <2>1, <2>2
<1>11. PlainResult("blocked").invocation = "blocked" /\ on \in BOOLEAN
       /\ ("retrieval_enabled" \in w.on <=> on)
  BY WorldParts DEF PlainResult
<1>12. /\ DOMAIN t = Fields /\ t.seen = s.seen /\ t.cache = s.cache /\ t.results = results
       /\ t.evidence = s.evidence /\ t.undisturbed = s.undisturbed /\ t.path = s.path
  BY <1>1 DEF Fields
<1>13. V.citations = Cited(results)
  BY DEF Validated
<1>14. V \in Found
  <2>1. ClaimsGrounding(t.plan, t.text) \in BOOLEAN
    BY DEF ClaimsGrounding
  <2> HIDE DEF results, t
  <2> QED BY <1>8, <2>1, ValidatedTypes
<1> HIDE DEF s, w, allowed, results, t, V, on
<1>15. ASSUME w.transport = "registry", ks \in DOMAIN results, results[ks].invocation # "blocked"
       PROVE  /\ Cited(results) # {} => on
              /\ results[ks].result_status \notin NON_CACHEABLE_RETRIEVAL_STATUSES => Cited(results) # {}
  <2>1. ks \in allowed /\ results[ks] = KnowledgeResult(found)
    BY <1>10, <1>11, <1>15
  <2>2. FoundWell(found, Runtime, on)
    BY <1>7, <1>15, <2>1
  <2> QED BY <1>11, <1>15, <2>1, <2>2, SearchesAreCited
<1>16. w.transport = "registry" /\ V.citations # {} => "retrieval_enabled" \in w.on
  <2> SUFFICES ASSUME w.transport = "registry", Cited(results) # {} PROVE on
    BY <1>11, <1>13
  <2>1. ks \in DOMAIN results /\ results[ks].invocation = "completed"
    BY DEF Cited, Usable
  <2> QED BY <1>15, <2>1
<1>17. w.transport = "registry" /\ ks \in DOMAIN results /\ results[ks].invocation = "completed"
         /\ results[ks].result_status \notin NON_CACHEABLE_RETRIEVAL_STATUSES
       => V.citations # {}
  BY <1>13, <1>15
<1>18. /\ DOMAIN u = Fields /\ u.step \in {"store", "done"} /\ (u.step = "done" => u.outcome = "answered")
       /\ u.found = V /\ u.seen = s.seen /\ u.cache = s.cache /\ u.results = results
       /\ u.evidence = s.evidence /\ u.undisturbed = s.undisturbed /\ u.path = s.path
  BY <1>12 DEF Fields, Done
<1> HIDE DEF u
<1>19. TurnInv(u, w)
  BY <1>1, <1>2, <1>8, <1>9, <1>14, <1>16, <1>17, <1>18, AfterToolsState
<1> QED BY <1>1, <1>5, <1>19, QuietStep DEF w

\* What is stored may be repeated.
LEMMA StoreState == ASSUME PipelineInv, RequestsInv, NEW r \in Requests, StoreAnswer(r) PROVE RequestsInv'
<1> DEFINE s == turn[r]
           w == World
           u == Done(s, "answered", s.found)
           e == Entry(s)
<1>1. s.step = "store" /\ DOMAIN s = Fields /\ Go(r, u)
  BY DEF StoreAnswer, PipelineInv, AnswerInv
<1>2. TurnInv(s, w) /\ w.transport = config.mcp_transport_mode
  BY WorldParts DEF RequestsInv
<1>3. /\ u.step = "done" /\ u.outcome = "answered" /\ u.found = s.found /\ u.seen = s.seen /\ u.cache = s.cache
      /\ u.results = s.results /\ u.evidence = s.evidence /\ u.undisturbed = s.undisturbed
  BY <1>1 DEF Fields, Done
<1>4. e.key = CacheKey(s) /\ e.found = s.found /\ e.results = s.results
  BY DEF Entry
<1>5. \/ entries' = entries
      \/ entries' = (entries \ Cached(s)) \cup {e} /\ MayStore(s.role, s.text, s.results)
  BY DEF StoreAnswer
<1> HIDE DEF s, w, u, e
<1>6. TurnInv(u, w)
  <2>1. Typed(u)
    BY <1>2, <1>3 DEF TurnInv, Typed, TurnSteps
  <2>2. SeenOn(u, w) /\ Storable(u, w)
    BY <1>1, <1>2, <1>3 DEF TurnInv, SeenOn, Storable, Under, HasAnswer
  <2>3. u.undisturbed => Reflects(u, w)
    BY <1>1, <1>2, <1>3 DEF TurnInv, Reflects
  <2> QED BY <2>1, <2>2, <2>3 DEF TurnInv
<1>7. ASSUME MayStore(s.role, s.text, s.results) PROVE e.found \in Found /\ Complete(e, w.transport)
  <2>1. /\ DOMAIN s.results \subseteq CACHEABLE_READ_ONLY_TOOLS
        /\ \A tool \in DOMAIN s.results : s.results[tool].invocation = "completed"
        /\ "knowledge.search" \in DOMAIN s.results =>
             s.results["knowledge.search"].result_status \notin NON_CACHEABLE_RETRIEVAL_STATUSES
    BY <1>7 DEF MayStore, CompletedReadOnly
  <2>2. Typed(s) /\ Storable(s, w)
    BY <1>2 DEF TurnInv
  <2>3. w.transport = "registry" /\ "knowledge.search" \in DOMAIN s.results => s.found.citations # {}
    BY <1>1, <2>1, <2>2 DEF Storable
  <2> QED BY <1>4, <2>1, <2>2, <2>3 DEF Typed, Complete
<1>8. EntriesInv(entries', w.transport)
  <2>1. EntriesInv(entries, w.transport)
    BY <1>2 DEF RequestsInv
  <2>2. CASE entries' = (entries \ Cached(s)) \cup {e} /\ MayStore(s.role, s.text, s.results)
    <3>1. \A d \in entries' : d = e \/ (d \in entries /\ d.key # e.key)
      BY <1>4, <2>2 DEF Cached
    <3> QED BY <1>7, <2>1, <2>2, <3>1 DEF EntriesInv
  <2> QED BY <1>5, <2>1, <2>2
<1> QED BY <1>1, <1>2, <1>6, <1>8, TurnStep DEF w

----------------------------------------------------------------------------
(* Direct calls and the readiness report *)

\* A direct call shows what its search found.
LEMMA RouteState == ASSUME PipelineInv, RequestsInv, NEW r \in Requests, InvokeRoute(r) PROVE RequestsInv'
<1> DEFINE s == turn[r]
           w == World
           ks == "knowledge.search"
           R(served, found) == IF served = {} THEN RegistryResult(s.tool, found) ELSE SdkResult(s.tool, TRUE, found)
           U(result, found) == Done([s EXCEPT !.results = [tool \in {s.tool} |-> result], !.searched = found.scanned],
                             "answered", [citations |-> result.citations, grounded_claims |-> FALSE])
<1>1. s.step = "route" /\ DOMAIN s = Fields /\ s.path = "/tools" /\ UNCHANGED entries /\ index \in SUBSET Docs
  BY IndexesAssumption DEF InvokeRoute, PipelineInv, AnswerInv
<1>2. TurnInv(s, w)
  BY DEF RequestsInv
<1>3. PICK served \in AnsweredByServer({s.tool}) :
        \E found \in IF s.tool = ks THEN FindsIn(served, Scope(s.role), s.top_k) ELSE {NothingRetrieved("empty")} :
          Go(r, U(R(served, found), found))
  BY DEF InvokeRoute
<1>4. PICK found \in IF s.tool = ks THEN FindsIn(served, Scope(s.role), s.top_k) ELSE {NothingRetrieved("empty")} :
        Go(r, U(R(served, found), found))
  BY <1>3
<1> DEFINE result == R(served, found)
           u == U(result, found)
           on == "retrieval_enabled" \in FeaturesOn
<1>5. Reported(found)
  <2>1. CASE s.tool = ks
    <3>1. found \in FindsIn(served, Scope(s.role), s.top_k)
      BY <1>4, <2>1
    <3> QED BY <1>1, <3>1, CallsExplained
  <2>2. CASE s.tool # ks
    <3>1. found = NothingRetrieved("empty")
      BY <1>4, <2>2
    <3> QED BY <3>1 DEF NothingRetrieved, Reported, Explained, RetrievalStatuses
  <2> QED BY <2>1, <2>2
<1>6. result \in ToolResult
  <2>1. result \in {SdkResult(s.tool, TRUE, found), RegistryResult(s.tool, found)}
    OBVIOUS
  <2> HIDE DEF result
  <2> QED BY <1>5, <2>1, ResultTypes DEF Reported
<1>7. ASSUME s.tool = ks PROVE Explained(result.result_status, w)
  <2>1. result \in {SdkResult(ks, TRUE, found), RegistryResult(ks, found)}
    BY <1>7
  <2> HIDE DEF result
  <2> QED BY <1>5, <2>1, KnowledgeReports DEF Reported
<1>8. ASSUME w.transport = "registry", result.citations # {} PROVE "retrieval_enabled" \in w.on
  <2>1. served = {}
    BY <1>3, <1>8, WorldParts DEF AnsweredByServer
  <2>2. result = RegistryResult(s.tool, found)
    BY <2>1
  <2> HIDE DEF result
  <2>3. s.tool = ks /\ result = KnowledgeResult(found)
    BY <1>8, <2>2 DEF RegistryResult, HandlerResult, PlainResult
  <2>4. found \in FindsIn(served, Scope(s.role), s.top_k) /\ ks \notin served
    BY <1>4, <2>1, <2>3
  <2>5. FoundWell(found, Runtime, on)
    BY <1>1, <2>4, CallsExplained
  <2>6. found.docs # {}
    BY <1>8, <2>3 DEF KnowledgeResult
  <2> QED BY <2>5, <2>6, WorldParts DEF FoundWell
<1>9. /\ u.step = "done" /\ u.outcome = "answered" /\ u.seen = s.seen /\ u.cache = s.cache
      /\ u.results = [tool \in {s.tool} |-> result] /\ u.evidence = s.evidence /\ u.undisturbed = s.undisturbed
      /\ u.found = [citations |-> result.citations, grounded_claims |-> FALSE]
  BY <1>1 DEF Fields, Done
<1>10. Go(r, u)
  BY <1>4
<1> HIDE DEF s, w, u, result
<1>11. u.found \in Found /\ u.found.citations = result.citations
  BY <1>6, <1>9 DEF Found, ToolResult
<1>12. Typed(s) /\ SeenOn(s, w) /\ Storable(s, w) /\ (s.undisturbed => Reflects(s, w))
  BY <1>1, <1>2 DEF TurnInv
<1>13. Typed(u)
  <2>1. \A tool \in DOMAIN u.results : u.results[tool] \in ToolResult
    BY <1>6, <1>9
  <2> QED BY <1>9, <1>11, <1>12, <2>1 DEF Typed, TurnSteps
<1>14. SeenOn(u, w) /\ Storable(u, w)
  <2>1. w.on \subseteq s.seen
    BY <1>1, <1>12 DEF SeenOn, Under
  <2> QED BY <1>8, <1>9, <1>11, <1>12, <2>1 DEF SeenOn, Storable, Under
<1>15. u.undisturbed => Reflects(u, w)
  <2>1. ks \in DOMAIN u.results => s.tool = ks /\ u.results[ks] = result
    BY <1>9
  <2> QED BY <1>1, <1>7, <1>9, <1>12, <2>1 DEF Reflects
<1>16. TurnInv(u, w)
  BY <1>13, <1>14, <1>15 DEF TurnInv
<1> QED BY <1>1, <1>10, <1>16, QuietStep DEF w

\* A check, and what it says of the database or the cache.
LEMMA CheckState ==
  ASSUME NEW s, DOMAIN s = Fields, NEW w, TurnInv(s, w), s.step \in {"postgresql", "redis"},
         NEW checks, NEW step \in {"redis", "report"},
         s.undisturbed /\ checks.postgresql # "unavailable" => w.up.postgresql,
         s.undisturbed /\ step = "report" /\ checks.redis # "unavailable" => w.up.redis
  PROVE  TurnInv([s EXCEPT !.step = step, !.checks = checks], w)
<1> DEFINE u == [s EXCEPT !.step = step, !.checks = checks]
<1>1. /\ u.step = step /\ u.checks = checks /\ u.path = s.path /\ u.found = s.found /\ u.seen = s.seen
      /\ u.cache = s.cache /\ u.results = s.results /\ u.evidence = s.evidence /\ u.undisturbed = s.undisturbed
  BY DEF Fields
<1> HIDE DEF u
<1>2. Typed(u)
  BY <1>1 DEF TurnInv, Typed, TurnSteps
<1>3. SeenOn(u, w) /\ Storable(u, w)
  BY <1>1 DEF TurnInv, SeenOn, Storable, Under, HasAnswer
<1>4. u.undisturbed => Reflects(u, w)
  BY <1>1 DEF TurnInv, Reflects
<1> QED BY <1>2, <1>3, <1>4 DEF TurnInv, u

\* A report is "ready" with everything up and the retrieval on.
LEMMA HealthState == ASSUME PipelineInv, RequestsInv, NEW r \in Requests, Health(r) PROVE RequestsInv'
<1> DEFINE s == turn[r]
           w == World
<1>1. DOMAIN s = Fields /\ AnswerInv(s)
  BY DEF PipelineInv, AnswerInv
<1>2. TurnInv(s, w) /\ w.up = up /\ w.on = FeaturesOn /\ w.runtime = Runtime
      /\ ("retrieval_enabled" \in w.on <=> On("retrieval_enabled"))
  BY WorldParts DEF RequestsInv
<1>3. \A d \in {"postgresql", "redis"} : Pinged(d) # "unavailable" => up[d]
  BY DEF Pinged
<1>4. UNCHANGED entries
  BY DEF Health, CheckPostgres, CheckRedis, Report
<1>5. CASE CheckPostgres(r)
  <2> DEFINE checks == [postgresql |-> Pinged("postgresql")]
             u == [s EXCEPT !.step = "redis", !.checks = checks]
  <2>1. Go(r, u) /\ s.step = "postgresql" /\ checks.postgresql = Pinged("postgresql")
    BY <1>5 DEF CheckPostgres
  <2> HIDE DEF s, w, checks
  <2>2. TurnInv(u, w)
    BY <1>1, <1>2, <1>3, <2>1, CheckState
  <2> QED BY <1>4, <2>1, <2>2, QuietStep DEF w
<1>6. CASE CheckRedis(r)
  <2> DEFINE checks == [postgresql |-> s.checks.postgresql, redis |-> Pinged("redis")]
             u == [s EXCEPT !.step = "report", !.checks = checks]
  <2>1. Go(r, u) /\ s.step = "redis"
    BY <1>6 DEF CheckRedis
  <2>2. checks.postgresql = s.checks.postgresql /\ checks.redis = Pinged("redis")
    OBVIOUS
  <2> HIDE DEF s, w, checks
  <2>3. s.undisturbed /\ checks.postgresql # "unavailable" => w.up.postgresql
    BY <1>2, <2>1, <2>2 DEF TurnInv, Reflects
  <2>4. TurnInv(u, w)
    BY <1>1, <1>2, <1>3, <2>1, <2>2, <2>3, CheckState
  <2> QED BY <1>4, <2>1, <2>4, QuietStep DEF w
<1>7. CASE Report(r)
  <2>1. PICK checks :
          /\ checks.postgresql = s.checks.postgresql /\ checks.redis = s.checks.redis
          /\ checks.retrieval = RuntimeState(Runtime, On("retrieval_enabled"))
          /\ Go(r, Done([s EXCEPT !.checks = checks], Overall(checks), Nothing)) /\ s.step = "report"
    <3> DEFINE checks ==
          [postgresql |-> s.checks.postgresql, redis |-> s.checks.redis,
           retrieval |-> RuntimeState(Runtime, On("retrieval_enabled")),
           response_cache |-> IF ~config.response_cache_enabled THEN "disabled"
                              ELSE IF s.checks.redis = "ready" THEN "ready" ELSE "degraded"]
    <3>1. Go(r, Done([s EXCEPT !.checks = checks], Overall(checks), Nothing)) /\ s.step = "report"
      BY <1>7 DEF Report
    <3>2. /\ checks.postgresql = s.checks.postgresql /\ checks.redis = s.checks.redis
          /\ checks.retrieval = RuntimeState(Runtime, On("retrieval_enabled"))
      OBVIOUS
    <3> HIDE DEF checks, s
    <3> QED BY <3>1, <3>2
  <2> DEFINE u == Done([s EXCEPT !.checks = checks], Overall(checks), Nothing)
  <2>2. /\ u.step = "done" /\ u.outcome = Overall(checks) /\ u.found = Nothing /\ u.seen = s.seen
        /\ u.cache = s.cache /\ u.results = s.results /\ u.evidence = s.evidence /\ u.undisturbed = s.undisturbed
    BY <1>1 DEF Fields, Done
  <2>3. Overall(checks) \in {"unavailable", "degraded", "ready"}
    BY DEF Overall
  <2>4. ASSUME Overall(checks) = "ready"
        PROVE  /\ checks.postgresql # "unavailable" /\ checks.redis # "unavailable"
               /\ w.runtime = "ready" /\ "retrieval_enabled" \in w.on
    <3>1. /\ checks.postgresql # "unavailable" /\ checks.redis # "unavailable"
          /\ checks.retrieval \notin {"degraded", "unavailable", "disabled"}
      BY <2>4 DEF Overall
    <3>2. Runtime \in {"disabled", "ready", "error"}
      BY DEF Runtime, RetrievalRuntime
    <3>3. Runtime = "ready" /\ On("retrieval_enabled")
      BY <2>1, <3>1, <3>2 DEF RuntimeState
    <3> QED BY <1>2, <3>1, <3>3
  <2> HIDE DEF s, w, u
  <2>5. Typed(u)
    <3>1. Nothing \in Found
      BY DEF Nothing, Found
    <3> QED BY <1>2, <2>2, <3>1 DEF TurnInv, Typed, TurnSteps
  <2>6. SeenOn(u, w) /\ Storable(u, w)
    BY <1>2, <2>1, <2>2, <2>3 DEF TurnInv, SeenOn, Storable, Under, HasAnswer
  <2>7. u.undisturbed => Reflects(u, w)
    BY <1>2, <2>1, <2>2, <2>3, <2>4 DEF TurnInv, Reflects
  <2>8. TurnInv(u, w)
    BY <2>5, <2>6, <2>7 DEF TurnInv
  <2>9. Go(r, u)
    BY <2>1 DEF u
  <2> QED BY <1>4, <2>8, <2>9, QuietStep DEF w
<1> QED BY <1>5, <1>6, <1>7 DEF Health

----------------------------------------------------------------------------
(* The surroundings, and every step *)

\* A turn that changes have been noted in: it has seen the switches of the new
\* surroundings, and no longer says anything of the dependencies.
LEMMA ObservedInv ==
  ASSUME NEW s, DOMAIN s = Fields, NEW w, NEW v, v.transport = w.transport, TurnInv(s, w),
         NEW u,
         \/ u = [s EXCEPT !.undisturbed = FALSE] /\ ~Under(s)
         \/ u = [s EXCEPT !.undisturbed = FALSE, !.seen = s.seen \cup v.on] /\ v.on \subseteq Switches
  PROVE  TurnInv(u, v)
<1>1. PICK seen \in SUBSET Switches :
        /\ s.seen \subseteq seen /\ (Under(s) => v.on \subseteq seen)
        /\ u.step = s.step /\ u.path = s.path /\ u.found = s.found /\ u.seen = seen /\ u.plan = s.plan
        /\ u.cache = s.cache /\ u.results = s.results /\ u.evidence = s.evidence /\ u.undisturbed = FALSE
        /\ u.outcome = s.outcome /\ u.history = s.history /\ u.grounding = s.grounding
  <2>1. s.seen \subseteq Switches
    BY DEF TurnInv, Typed
  <2>2. CASE u = [s EXCEPT !.undisturbed = FALSE] /\ ~Under(s)
    <3>1. /\ u.step = s.step /\ u.path = s.path /\ u.found = s.found /\ u.seen = s.seen /\ u.plan = s.plan
          /\ u.cache = s.cache /\ u.results = s.results /\ u.evidence = s.evidence /\ u.undisturbed = FALSE
          /\ u.outcome = s.outcome /\ u.history = s.history /\ u.grounding = s.grounding
      BY <2>2 DEF Fields
    <3> QED BY <2>1, <2>2, <3>1
  <2>3. CASE u = [s EXCEPT !.undisturbed = FALSE, !.seen = s.seen \cup v.on] /\ v.on \subseteq Switches
    <3>1. /\ u.step = s.step /\ u.path = s.path /\ u.found = s.found /\ u.seen = s.seen \cup v.on /\ u.plan = s.plan
          /\ u.cache = s.cache /\ u.results = s.results /\ u.evidence = s.evidence /\ u.undisturbed = FALSE
          /\ u.outcome = s.outcome /\ u.history = s.history /\ u.grounding = s.grounding
      BY <2>3 DEF Fields
    <3> QED BY <2>1, <2>3, <3>1
  <2> QED BY <2>2, <2>3
<1>2. Typed(u)
  BY <1>1 DEF TurnInv, Typed
<1>3. SeenOn(u, v)
  BY <1>1 DEF TurnInv, SeenOn, Under, HasAnswer
<1>4. Storable(u, v)
  BY <1>1 DEF TurnInv, Storable
<1> QED BY <1>1, <1>2, <1>3, <1>4 DEF TurnInv

\* A turn that is not under way, in any surroundings of the same process.
LEMMA IdleObserved ==
  ASSUME NEW s, s.step = "idle", NEW w, NEW v, v.transport = w.transport, TurnInv(s, w) PROVE TurnInv(s, v)
BY DEF TurnInv, SeenOn, Under, HasAnswer, Storable

\* What changes around the turns is noted in all of them.
LEMMA SurroundingsState ==
  ASSUME PipelineInv, RequestsInv, UNCHANGED config, SurroundingsOK', entries' \subseteq entries,
         Observe \/ (UNCHANGED turn /\ World' = World)
  PROVE  RequestsInv'
<1> DEFINE w == World
           v == World'
<1>1. v.transport = w.transport /\ v.on = FeaturesOn'
  BY WorldParts DEF World
<1>2. FeaturesOn' \subseteq Switches
  BY DEF FeaturesOn, Switches
<1>3. \A r \in Requests : TurnInv(turn'[r], v)
  <2> SUFFICES ASSUME NEW r \in Requests PROVE TurnInv(turn'[r], v)
    OBVIOUS
  <2>1. TurnInv(turn[r], w) /\ DOMAIN turn[r] = Fields
    BY DEF RequestsInv, PipelineInv, AnswerInv
  <2>2. CASE Observe
    <3>1. turn'[r] = IF turn[r].step = "idle" THEN turn[r]
                     ELSE IF turn[r].step = "done" \/ turn[r].path = "/health"
                       THEN [turn[r] EXCEPT !.undisturbed = FALSE]
                     ELSE [turn[r] EXCEPT !.undisturbed = FALSE, !.seen = turn[r].seen \cup v.on]
      BY <1>1, <2>2 DEF Observe
    <3> DEFINE s == turn[r]
               u == turn'[r]
    <3>2. CASE s.step = "idle"
      BY <1>1, <2>1, <3>1, <3>2, IdleObserved
    <3>3. CASE s.step # "idle"
      <4>1. \/ u = [s EXCEPT !.undisturbed = FALSE] /\ ~Under(s)
            \/ u = [s EXCEPT !.undisturbed = FALSE, !.seen = s.seen \cup v.on] /\ v.on \subseteq Switches
        BY <1>1, <1>2, <3>1, <3>3 DEF Under
      <4>2. TurnInv(s, w) /\ DOMAIN s = Fields /\ v.transport = w.transport
        BY <1>1, <2>1
      <4> HIDE DEF s, u, v, w
      <4>3. TurnInv(u, v)
        BY <4>1, <4>2, ObservedInv
      <4> QED BY <4>3 DEF u
    <3> QED BY <3>2, <3>3
  <2>3. CASE UNCHANGED turn /\ World' = World
    BY <2>1, <2>3
  <2> QED BY <2>2, <2>3
<1>4. EntriesInv(entries', config'.mcp_transport_mode)
  BY DEF RequestsInv, EntriesInv
<1> QED BY <1>3, <1>4 DEF RequestsInv

\* No request, no entry, nothing changed.
LEMMA InitState == ASSUME Init PROVE RequestsInv
<1>1. \A r \in Requests : TurnInv(turn[r], World)
  BY IdleState DEF Init
<1>2. SurroundingsOK
  <2>1. up \in [{"postgresql", "redis"} -> BOOLEAN]
    <3>1. up = [postgresql |-> TRUE, redis |-> TRUE]
      BY DEF Init
    <3>2. [postgresql |-> TRUE, redis |-> TRUE] \in [postgresql : BOOLEAN, redis : BOOLEAN]
      OBVIOUS
    <3> QED BY <3>1, <3>2
  <2> QED BY <2>1, TopKsAssumption DEF Init, SurroundingsOK
<1>3. EntriesInv(entries, config.mcp_transport_mode)
  BY DEF Init, EntriesInv
<1> QED BY <1>1, <1>2, <1>3 DEF RequestsInv

\* A change of a dependency, the index or the role is one of the bounded many.
LEMMA ChangesBounded ==
  ASSUME changes \in 0..MaxChanges, Changed PROVE changes' \in 0..MaxChanges
BY TopKsAssumption DEF Changed

\* Every step.
LEMMA NextState == PipelineInv /\ RequestsInv /\ [Next]_vars => RequestsInv'
<1> SUFFICES ASSUME PipelineInv, RequestsInv, [Next]_vars PROVE RequestsInv'
  OBVIOUS
<1>1. ASSUME NEW r \in Requests, NEW t \in Calls, Arrive(r, t) PROVE RequestsInv'
  BY <1>1, ArriveState
<1>2. ASSUME NEW r \in Requests, Serve(r) PROVE RequestsInv'
  BY <1>2, ConsiderState, ReadCacheState, RefuseState, PlanState, InvokeState, StoreState, RouteState, HealthState
     DEF Serve, Chat
<1>3. ASSUME NEW r \in Requests, Leave(r) PROVE RequestsInv'
  BY <1>3, LeaveState
<1>4. SurroundingsOK
  BY DEF RequestsInv
<1>5. ASSUME NEW c \in Changes, RequestSwitch(c) \/ ContinueSwitch(c) PROVE RequestsInv'
  <2>1. UNCHANGED <<config, role, index, up, entries, changes>>
        /\ (Observe \/ (UNCHANGED turn /\ rows' = rows))
    BY <1>5 DEF RequestSwitch, ContinueSwitch, SetEnabled
  <2>2. SurroundingsOK'
    BY <1>4, <2>1 DEF SurroundingsOK
  <2>3. Observe \/ (UNCHANGED turn /\ World' = World)
    BY <2>1, SameWorld
  <2> QED BY <2>1, <2>2, <2>3, SurroundingsState
<1>6. ASSUME NEW dependency \in DOMAIN up, Toggle(dependency) PROVE RequestsInv'
  <2>1. up' = [up EXCEPT ![dependency] = ~@] /\ UNCHANGED <<config, role, index, entries>> /\ Observe /\ Changed
    BY <1>6 DEF Toggle
  <2>2. up' \in [{"postgresql", "redis"} -> BOOLEAN]
    BY <1>4, <2>1 DEF SurroundingsOK
  <2>3. SurroundingsOK'
    BY <1>4, <2>1, <2>2, ChangesBounded DEF SurroundingsOK
  <2> QED BY <2>1, <2>3, SurroundingsState
<1>7. CASE Refresh \/ ReplaceRole
  <2>1. UNCHANGED <<config, up, entries>> /\ Observe /\ Changed
        /\ (index' \in Indexes \/ index' = index) /\ (role' \in UserRoles \/ role' = role)
    BY <1>7 DEF Refresh, ReplaceRole
  <2>2. SurroundingsOK'
    BY <1>4, <2>1, ChangesBounded DEF SurroundingsOK
  <2> QED BY <2>1, <2>2, SurroundingsState
<1>8. CASE Expire \/ UNCHANGED vars
  <2>1. UNCHANGED <<config, role, index, up, changes, rows, turn>> /\ entries' \subseteq entries
    BY <1>8 DEF Expire, surroundings, vars
  <2>2. SurroundingsOK' /\ World' = World
    BY <1>4, <2>1, SameWorld DEF SurroundingsOK
  <2> QED BY <2>1, <2>2, SurroundingsState
<1> QED BY <1>1, <1>2, <1>3, <1>5, <1>6, <1>7, <1>8 DEF Next

\* In every reachable state.
LEMMA AlwaysRequestsInv == Spec => []RequestsInv
<1>1. Init => RequestsInv
  BY InitState
<1>2. Spec => []PipelineInv
  BY AlwaysPipelineInv
<1> QED BY <1>1, <1>2, NextState, PTL DEF Spec

\* Requests, the cache and the surroundings keep their types, and a plan names at
\* least one tool, all of the registry (registry.invoke).
THEOREM TypeCorrectness == Spec => []TypeOK
<1>1. RequestsInv /\ SwitchTypeOK => TypeOK
  <2> SUFFICES ASSUME RequestsInv, SwitchTypeOK PROVE TypeOK
    OBVIOUS
  <2>1. \A e \in entries : e.found \in Found /\ \A d \in entries : d.key = e.key => d = e
    BY DEF RequestsInv, EntriesInv
  <2>2. \A r \in Requests : Typed(turn[r])
    BY DEF RequestsInv, TurnInv
  <2> QED BY <2>1, <2>2 DEF TypeOK, RequestsInv, SurroundingsOK, Typed, CacheStatuses
<1>2. SwitchSpec => []SwitchTypeOK
  <2>1. SwitchInv => SwitchTypeOK
    BY DEF SwitchInv
  <2> QED BY <2>1, SwitchInitInv, SwitchNextInv, PTL DEF SwitchSpec
<1> QED BY <1>1, <1>2, SwitchesAmongRequests, AlwaysRequestsInv, PTL

\* Whatever is planned, searched and stored, an entry has only completed reads,
\* and cites what its answer rests on (CacheEligibilityPolicy.evaluate).
THEOREM CachedAnswersAlwaysComplete == Spec => []CachedAnswersComplete
<1>1. RequestsInv => CachedAnswersComplete
  BY DEF RequestsInv, EntriesInv, Complete, CachedAnswersComplete
<1> QED BY <1>1, AlwaysRequestsInv, PTL

\* However the switches change around a turn, one that was off and readable all
\* the time keeps the cache and the retrieval out of it (_cache_is_active, retrieve).
THEOREM OffAlwaysMeansOff == Spec => []SwitchedOffMeansOff
<1>1. RequestsInv => SwitchedOffMeansOff
  <2> SUFFICES ASSUME RequestsInv PROVE SwitchedOffMeansOff
    OBVIOUS
  <2>1. \A r \in Requests : SeenOn(turn[r], World)
    BY DEF RequestsInv, TurnInv
  <2>2. World.transport = config.mcp_transport_mode
    BY WorldParts
  <2>3. ASSUME NEW r \in Requests, Fresh(r), config.mcp_transport_mode = "registry",
               "retrieval_enabled" \notin turn[r].seen
        PROVE  ~turn[r].evidence /\ turn[r].found.citations = {}
    BY <2>1, <2>2, <2>3 DEF SeenOn, HasAnswer, Fresh, Answered
  <2>4. ASSUME NEW r \in Requests, "response_cache_enabled" \notin turn[r].seen
        PROVE  turn[r].cache = "disabled"
    BY <2>1, <2>4 DEF SeenOn
  <2> QED BY <2>3, <2>4 DEF SwitchedOffMeansOff
<1> QED BY <1>1, AlwaysRequestsInv, PTL

\* What a readiness report says of the dependencies holds of every request
\* that was answered in the same surroundings (RuntimeReadinessService.check).
THEOREM ReportsAlwaysPredict == Spec => []ReportPredicts
<1>1. RequestsInv => ReportPredicts
  <2> SUFFICES ASSUME RequestsInv, NEW h \in Requests, NEW r \in Requests,
                      turn[h].step = "done", turn[h].outcome = "ready", turn[r].step = "done",
                      turn[h].undisturbed, turn[r].undisturbed
               PROVE  /\ turn[r].outcome # "error"
                      /\ turn[r].cache # "unavailable"
                      /\ Searched(r) /\ turn[r].cache # "hit" =>
                           turn[r].results["knowledge.search"].result_status
                             \notin {"disabled", "unavailable"}
    BY DEF ReportPredicts
  <2>1. Reflects(turn[h], World) /\ Reflects(turn[r], World)
    BY DEF RequestsInv, TurnInv
  <2>2. World.up.postgresql /\ World.up.redis /\ World.runtime = "ready" /\ "retrieval_enabled" \in World.on
    BY <2>1 DEF Reflects
  <2> QED BY <2>1, <2>2 DEF Reflects, Explained, Searched
<1> QED BY <1>1, AlwaysRequestsInv, PTL

\* What the planner is told is the newest part of any conversation and the most
\* similar part of any passages, in any limits; the payload says when something
\* is missing, and the prompt, grounded a second time, never does
\* (normalize_history_messages, build_grounding_context).
THEOREM ContextsAreHonest == Spec => []ContextIsHonest
<1>1. RequestsInv => ContextIsHonest
  <2> SUFFICES ASSUME RequestsInv, NEW r \in Requests, turn[r].step = "invoke"
               PROVE  /\ IsNewestOf(BoundHistory(turn[r].history), turn[r].history)
                      /\ IsHonestGrounding(Ground(turn[r].grounding), turn[r].grounding)
    BY DEF ContextIsHonest
  <2>1. turn[r].history \in Seq(Messages) /\ turn[r].grounding \in Seq(Passages)
    BY DEF RequestsInv, TurnInv, Typed
  <2> QED BY <2>1, BoundedHistoryIsNewest, GroundingIsHonest
<1> QED BY <1>1, AlwaysRequestsInv, PTL
=============================================================================
