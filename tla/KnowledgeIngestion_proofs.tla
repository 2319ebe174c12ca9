--------------------- MODULE KnowledgeIngestion_proofs ---------------------
(***************************************************************************)
(* Type correctness of the knowledge refresh; that refreshes exclude each  *)
(* other; that the outcome of a run is final and its audit event true;     *)
(* that ledger and index explain each other; that a text is stored under   *)
(* its own fingerprint; and that writing the tables statement by statement *)
(* implements it and leaves the index whole, every text cut as well as can *)
(* be: for any sources, contents, sizes, settings, manifests and any       *)
(* number of refresh requests.                                             *)
(***************************************************************************)
EXTENDS KnowledgeIndex, NaturalRecursion, SequenceTheorems, FiniteSetTheorems, TLAPS

----------------------------------------------------------------------------
(* The inductive invariant *)

\* What the status of a run says while its handler is at work: the unique index
\* admits one running run, and a handler inside the try block owns it.
RunsOwned ==
    /\ \A r \in Runs : pc[r] \in Try => runs[r].status = "running"
    /\ \A r \in Runs : pc[r] \in {"idle", "create"} => runs[r].status = "none"
    /\ \A r, q \in Runs : runs[r].status = "running" /\ runs[q].status = "running" => r = q

\* What is written to the index has a fingerprint, and a text once it is loaded.
PlanGrounded ==
    \A r \in Runs :
      /\ pc[r] \in {"load", "persist"} =>
           \A s \in work[r].reindex : work[r].sources[s] \in FingerprintType
      /\ pc[r] = "persist" => \A s \in work[r].reindex : work[r].texts[s] \in Contents

Inv == TypeOK /\ RunsOwned /\ PlanGrounded

WorkType == [sources : [Sources -> FingerprintType \cup {None}],
             reindex : SUBSET Sources, removed : SUBSET Sources,
             texts : [Sources -> Contents \cup {None}], edited : SUBSET Sources]
RunType == [status : {"none", "running", "succeeded", "failed"},
            config : Configs \cup {None}, dimensions : BOOLEAN]

\* A process that has seen no source yet.
LEMMA NoSourcesType == NoSources \in [Sources -> FingerprintType \cup {None}]
                       /\ NoSources \in [Sources -> Contents \cup {None}]
BY DEF NoSources

\* A process that has done nothing yet.
LEMMA NoWorkType == NoWork \in WorkType
BY NoSourcesType DEF NoWork, WorkType

\* What a crashed process forgets leaves a well-typed rest.
LEMMA ForgottenType == ASSUME NEW w \in WorkType PROVE Forgotten(w) \in WorkType
<1>1. Forgotten(w) = [sources |-> NoSources, reindex |-> {}, removed |-> {}, texts |-> NoSources,
                      edited |-> w.edited]
  BY DEF Forgotten, NoWork
<1> QED BY <1>1, NoSourcesType DEF WorkType

\* EXCEPT on a handler's work, field by field.
LEMMA WorkWith ==
  ASSUME NEW w \in WorkType, NEW x
  PROVE  /\ [w EXCEPT !.sources = x] = [sources |-> x, reindex |-> w.reindex, removed |-> w.removed,
                                        texts |-> w.texts, edited |-> w.edited]
         /\ [w EXCEPT !.texts = x] = [sources |-> w.sources, reindex |-> w.reindex,
                                      removed |-> w.removed, texts |-> x, edited |-> w.edited]
<1>1. [w EXCEPT !.sources = x] = [sources |-> x, reindex |-> w.reindex, removed |-> w.removed,
                                  texts |-> w.texts, edited |-> w.edited]
  BY DEF WorkType
<1>2. [w EXCEPT !.texts = x] = [sources |-> w.sources, reindex |-> w.reindex,
                                removed |-> w.removed, texts |-> x, edited |-> w.edited]
  BY DEF WorkType
<1> QED BY <1>1, <1>2

\* A fingerprint of what a process has read.
LEMMA FingerprintIsTyped ==
  ASSUME TypeOK, NEW content \in Contents PROVE Fingerprint(content) \in FingerprintType
BY DEF TypeOK, Fingerprint, FingerprintType

\* Before any refresh.
LEMMA InitInv == Init => Inv
<1> SUFFICES ASSUME Init PROVE Inv
  OBVIOUS
<1>1. NoRun \in RunType
  BY DEF NoRun, RunType
<1>2. TypeOK
  <2>1. documents \in [Sources -> [fingerprint : FingerprintType, text : Contents, by : Runs] \cup {None}]
    BY DEF Init, NoSources
  <2> QED BY <1>1, <2>1, NoWorkType, NoSourcesType DEF Init, TypeOK, RunType, WorkType
<1>3. RunsOwned
  BY DEF Init, RunsOwned, NoRun, Try
<1>4. PlanGrounded
  BY DEF Init, PlanGrounded
<1> QED BY <1>2, <1>3, <1>4 DEF Inv

(* One lemma per group of actions *)

\* An edit of the manifest or of a file.
LEMMA EditInv ==
  ASSUME Inv, NEW t \in Sources, NEW content \in Contents, EditFile(t, content) PROVE Inv'
<1>1. \A r \in Runs : work[r] \in WorkType
  BY DEF Inv, TypeOK, WorkType
<1>2. \A r \in Runs : work'[r] \in WorkType
                      /\ work'[r].reindex = work[r].reindex
                      /\ work'[r].sources = work[r].sources /\ work'[r].texts = work[r].texts
  <2> TAKE r \in Runs
  <2>1. CASE pc[r] \in {"sources", "plan", "load"}
    <3>1. work'[r] = [work[r] EXCEPT !.edited = @ \cup {t}]
      BY <2>1 DEF EditFile
    <3>2. work'[r] = [sources |-> work[r].sources, reindex |-> work[r].reindex,
                      removed |-> work[r].removed, texts |-> work[r].texts,
                      edited |-> work[r].edited \cup {t}]
      BY <3>1, <1>1 DEF WorkType
    <3> QED BY <3>2, <1>1 DEF WorkType
  <2>2. CASE pc[r] \notin {"sources", "plan", "load"}
    BY <2>2, <1>1 DEF EditFile
  <2> QED BY <2>1, <2>2
<1>3. work' \in [Runs -> WorkType]
  BY <1>2 DEF EditFile
<1>4. TypeOK'
  BY <1>3 DEF Inv, TypeOK, WorkType, EditFile, ledger
<1>5. RunsOwned'
  BY DEF Inv, RunsOwned, EditFile, ledger
<1>6. PlanGrounded'
  BY <1>2 DEF Inv, PlanGrounded, EditFile
<1> QED BY <1>4, <1>5, <1>6 DEF Inv

\* A restart of the process, with the settings it then finds.
LEMMA RestartInv ==
  ASSUME Inv, NEW m \in Manifests, NEW c \in Configs, Restart(m, c) PROVE Inv'
<1>1. \A r \in Runs : work[r] \in WorkType
  BY DEF Inv, TypeOK, WorkType
<1>2. work' \in [Runs -> WorkType]
  BY <1>1, ForgottenType DEF Restart
<1>3. TypeOK'
  BY <1>2 DEF Inv, TypeOK, WorkType, Restart, ledger
<1>4. RunsOwned'
  BY DEF Inv, TypeOK, RunsOwned, Restart, ledger, Body, Try
<1>5. PlanGrounded'
  BY DEF Inv, TypeOK, PlanGrounded, Restart, Body, Try
<1> QED BY <1>3, <1>4, <1>5 DEF Inv

\* The steps that write the ledger.
LEMMA LedgerStepInv ==
  ASSUME Inv, NEW r \in Runs,
         CheckRunning(r) \/ CreateRun(r) \/ CreateSource(r) \/ MarkFailed(r) \/ WriteAudit(r)
  PROVE Inv'
<1>1. runs \in [Runs -> RunType] /\ pc \in [Runs -> Body \cup {"idle", "create", "done", "lost"}]
  BY DEF Inv, TypeOK, RunType
<1>2. CASE CheckRunning(r)
  <2>1. TypeOK'
    BY <1>2 DEF Inv, TypeOK, CheckRunning, world, ledger, Goto
  <2>2. RunsOwned'
    BY <1>1, <1>2 DEF Inv, RunsOwned, CheckRunning, ledger, Goto, Try
  <2>3. PlanGrounded'
    BY <1>1, <1>2 DEF Inv, PlanGrounded, CheckRunning, Goto
  <2> QED BY <2>1, <2>2, <2>3 DEF Inv
<1>3. CASE CreateRun(r)
  <2>1. /\ pc[r] = "create"
        /\ \/ pc' = [pc EXCEPT ![r] = "manifest"]
           \/ pc' = [pc EXCEPT ![r] = "done"]
        /\ \/ Running = {} /\ runs' = [runs EXCEPT ![r] = StartedRun]
           \/ pc' = [pc EXCEPT ![r] = "done"] /\ runs' = runs
    BY <1>3 DEF CreateRun, Goto
  <2>3. runs' \in [Runs -> RunType]
    <3>1. StartedRun \in RunType
      BY DEF RunType, StartedRun
    <3> QED BY <2>1, <3>1, <1>1
  <2>4. TypeOK'
    BY <1>3, <2>1, <2>3 DEF Inv, TypeOK, RunType, CreateRun, world, Body, Try
  <2>5. ASSUME Running = {}, runs' = [runs EXCEPT ![r] = StartedRun]
        PROVE RunsOwned'
    <3>1. runs'[r].status = "running" /\ \A q \in Runs \ {r} : runs'[q] = runs[q]
      BY <2>5, <1>1 DEF StartedRun
    <3>2. \A q \in Runs : runs[q].status # "running"
      BY <2>5 DEF Running
    <3>3. \A q \in Runs \ {r} : pc'[q] = pc[q]
      BY <2>1, <1>1
    <3>4. pc'[r] \in {"manifest", "done"}
      BY <2>1, <1>1
    <3> QED BY <3>1, <3>2, <3>3, <3>4 DEF Inv, RunsOwned
  <2>6. ASSUME pc' = [pc EXCEPT ![r] = "done"], runs' = runs PROVE RunsOwned'
    BY <2>6, <1>1 DEF Inv, RunsOwned, Try
  <2>7. PlanGrounded'
    BY <2>1, <1>1, <1>3 DEF Inv, PlanGrounded, CreateRun
  <2> QED BY <2>1, <2>4, <2>5, <2>6, <2>7 DEF Inv
<1>4. CASE CreateSource(r)
  <2>1. /\ pc[r] = "sources"
        /\ pc' = pc \/ pc' = [pc EXCEPT ![r] = "plan"]
        /\ runs' = runs /\ work' = work
    BY <1>4 DEF CreateSource, Goto
  <2>2. runSources' \in [Runs -> [Sources -> FingerprintType \cup {None}]]
    <3>1. runSources \in [Runs -> [Sources -> FingerprintType \cup {None}]]
      BY DEF Inv, TypeOK
    <3>2. CASE runSources' = runSources
      BY <3>1, <3>2
    <3>3. ASSUME NEW s \in Sources,
                 runSources' = [runSources EXCEPT ![r][s] = work[r].sources[s]]
          PROVE runSources' \in [Runs -> [Sources -> FingerprintType \cup {None}]]
      <4>1. work[r].sources[s] \in FingerprintType \cup {None}
        BY DEF Inv, TypeOK
      <4> QED BY <3>1, <3>3, <4>1
    <3> QED BY <1>4, <3>2, <3>3 DEF CreateSource, Listed
  <2>3. TypeOK'
    BY <1>4, <2>1, <2>2 DEF Inv, TypeOK, CreateSource, world, Body, Try
  <2>4. RunsOwned'
    BY <1>1, <2>1 DEF Inv, RunsOwned, Try
  <2>5. PlanGrounded'
    BY <1>1, <2>1 DEF Inv, PlanGrounded
  <2> QED BY <2>3, <2>4, <2>5 DEF Inv
<1>5. CASE MarkFailed(r)
  <2>1. /\ pc[r] = "mark_failed" /\ work' = work
        /\ pc' = [pc EXCEPT ![r] = "audit_failed"] \/ pc' = [pc EXCEPT ![r] = "done"]
    BY <1>5 DEF MarkFailed, Goto
  <2>2. runs' \in [Runs -> RunType]
        /\ \A q \in Runs :
             \/ runs'[q].status = runs[q].status
             \/ (q = r /\ runs[q].status = "running" /\ runs'[q].status = "failed")
    <3>1. CASE runs' = runs
      BY <3>1, <1>1
    <3>2. CASE runs' = [runs EXCEPT ![r].status = IF @ = "running" THEN "failed" ELSE @]
      <4> DEFINE new == [status |-> IF runs[r].status = "running" THEN "failed" ELSE runs[r].status,
                         config |-> runs[r].config, dimensions |-> runs[r].dimensions]
      <4>1. runs' = [runs EXCEPT ![r] = new]
        <5>1. [runs[r] EXCEPT !.status = IF runs[r].status = "running" THEN "failed" ELSE runs[r].status] = new
          BY <1>1 DEF RunType
        <5> QED BY <3>2, <5>1
      <4>2. new \in RunType
        BY <1>1 DEF RunType
      <4>3. new.status = runs[r].status \/ (runs[r].status = "running" /\ new.status = "failed")
        OBVIOUS
      <4> HIDE DEF new
      <4> QED BY <4>1, <4>2, <4>3, <1>1
    <3> QED BY <1>5, <3>1, <3>2 DEF MarkFailed
  <2>3. TypeOK'
    BY <1>5, <2>1, <2>2 DEF Inv, TypeOK, RunType, MarkFailed, world, Body
  <2>4. RunsOwned'
    BY <1>1, <2>1, <2>2 DEF Inv, RunsOwned, Try
  <2>5. PlanGrounded'
    BY <1>1, <2>1 DEF Inv, PlanGrounded
  <2> QED BY <2>3, <2>4, <2>5 DEF Inv
<1>6. CASE WriteAudit(r)
  <2>1. audit' \subseteq [run : Runs, type : {"succeeded", "failed"}]
    BY <1>6 DEF Inv, TypeOK, WriteAudit
  <2>2. TypeOK'
    BY <1>6, <2>1 DEF Inv, TypeOK, WriteAudit, world, Goto
  <2>3. RunsOwned'
    BY <1>1, <1>6 DEF Inv, RunsOwned, WriteAudit, Goto, Try
  <2>4. PlanGrounded'
    BY <1>1, <1>6 DEF Inv, PlanGrounded, WriteAudit, Goto
  <2> QED BY <2>2, <2>3, <2>4 DEF Inv
<1> QED BY <1>2, <1>3, <1>4, <1>5, <1>6

\* The steps that only read sources and index.
LEMMA WorkStepInv ==
  ASSUME Inv, NEW r \in Runs, BuildManifest(r) \/ PlanRefresh(r) \/ LoadTexts(r) PROVE Inv'
<1>1. work \in [Runs -> WorkType] /\ pc \in [Runs -> Body \cup {"idle", "create", "done", "lost"}]
  BY DEF Inv, TypeOK, WorkType
<1>2. /\ pc[r] \in {"manifest", "plan", "load"}
      /\ \/ pc[r] = "manifest" /\ pc' = [pc EXCEPT ![r] = "sources"]
         \/ pc[r] = "plan" /\ pc' = [pc EXCEPT ![r] = "load"]
         \/ pc[r] = "load" /\ pc' = [pc EXCEPT ![r] = "persist"]
      /\ UNCHANGED <<world, ledger, documents, unrecorded>>
  BY DEF BuildManifest, PlanRefresh, LoadTexts, Goto
<1>3. PICK w \in WorkType :
        /\ work' = [work EXCEPT ![r] = w]
        /\ pc[r] = "plan" => \A s \in w.reindex : w.sources[s] \in FingerprintType
        /\ pc[r] = "load" => /\ w.reindex = work[r].reindex /\ w.sources = work[r].sources
                             /\ \A s \in w.reindex : w.texts[s] \in Contents
  <2>1. CASE BuildManifest(r)
    <3> DEFINE sources == [s \in Sources |-> IF s \in manifest THEN Fingerprint(files[s]) ELSE None]
               w == [sources |-> sources, reindex |-> work[r].reindex, removed |-> work[r].removed,
                     texts |-> work[r].texts, edited |-> work[r].edited]
    <3>1. sources \in [Sources -> FingerprintType \cup {None}]
      BY FingerprintIsTyped DEF Inv, TypeOK
    <3>2. [work[r] EXCEPT !.sources = sources] = w
      BY <1>1, WorkWith
    <3>3. work' = [work EXCEPT ![r] = w]
      BY <2>1, <3>2 DEF BuildManifest
    <3>4. w \in WorkType
      BY <1>1, <3>1 DEF WorkType
    <3>5. pc[r] = "manifest"
      BY <2>1 DEF BuildManifest
    <3> QED BY <3>3, <3>4, <3>5
  <2>2. CASE PlanRefresh(r)
    <3>1. PICK reindex \in SUBSET Listed(r), removed \in SUBSET Sources :
            work' = [work EXCEPT ![r] = [@ EXCEPT !.reindex = reindex, !.removed = removed]]
      BY <2>2 DEF PlanRefresh
    <3> DEFINE w == [sources |-> work[r].sources, reindex |-> reindex, removed |-> removed,
                     texts |-> work[r].texts, edited |-> work[r].edited]
    <3>2. [work[r] EXCEPT !.reindex = reindex, !.removed = removed] = w
      <4> DEFINE v == [sources |-> work[r].sources, reindex |-> reindex,
                       removed |-> work[r].removed, texts |-> work[r].texts,
                       edited |-> work[r].edited]
      <4>1. [work[r] EXCEPT !.reindex = reindex] = v
        BY <1>1 DEF WorkType
      <4>2. [v EXCEPT !.removed = removed] = w
        OBVIOUS
      <4> QED BY <4>1, <4>2
    <3>3. work' = [work EXCEPT ![r] = w]
      BY <1>1, <3>1, <3>2
    <3>4. \A s \in reindex : s \in Sources /\ work[r].sources[s] \in FingerprintType
      BY <1>1 DEF Listed, WorkType
    <3>5. w \in WorkType
      BY <1>1, <3>4 DEF WorkType
    <3>6. pc[r] = "plan"
      BY <2>2 DEF PlanRefresh
    <3> QED BY <3>3, <3>4, <3>5, <3>6
  <2>3. CASE LoadTexts(r)
    <3> DEFINE texts == [s \in Sources |-> IF s \in work[r].reindex THEN files[s] ELSE None]
               w == [sources |-> work[r].sources, reindex |-> work[r].reindex,
                     removed |-> work[r].removed, texts |-> texts, edited |-> work[r].edited]
    <3>1. files \in [Sources -> Contents]
      BY DEF Inv, TypeOK
    <3>2. [work[r] EXCEPT !.texts = texts] = w
      BY <1>1, WorkWith
    <3>3. work' = [work EXCEPT ![r] = w]
      BY <2>3, <3>2 DEF LoadTexts
    <3>4. w \in WorkType /\ \A s \in w.reindex : w.texts[s] \in Contents
      BY <1>1, <3>1 DEF WorkType
    <3>5. pc[r] = "load"
      BY <2>3 DEF LoadTexts
    <3> QED BY <3>3, <3>4, <3>5
  <2> QED BY <2>1, <2>2, <2>3
<1>4. TypeOK'
  <2>1. work' \in [Runs -> WorkType] /\ pc' \in [Runs -> Body \cup {"idle", "create", "done", "lost"}]
    BY <1>1, <1>2, <1>3 DEF Body, Try
  <2> QED BY <1>2, <2>1 DEF Inv, TypeOK, WorkType, world, ledger
<1>5. RunsOwned'
  BY <1>1, <1>2 DEF Inv, RunsOwned, ledger, Try
<1>6. PlanGrounded'
  BY <1>1, <1>2, <1>3 DEF Inv, PlanGrounded
<1> QED BY <1>4, <1>5, <1>6 DEF Inv

\* The handler leaves the try block: by an exception, or because the run is marked.
LEMMA LeaveInv ==
  ASSUME Inv, NEW r \in Runs, PersistIndex(r) \/ MarkSucceeded(r) \/ RaiseInTry(r) PROVE Inv'
<1>1. /\ work \in [Runs -> WorkType] /\ runs \in [Runs -> RunType]
      /\ pc \in [Runs -> Body \cup {"idle", "create", "done", "lost"}]
  BY DEF Inv, TypeOK, WorkType, RunType
<1>2. /\ pc[r] \in Try
      /\ \/ pc' = [pc EXCEPT ![r] = "mark_succeeded"] /\ work' = work
         \/ /\ pc' = [pc EXCEPT ![r] = "mark_failed"] \/ pc' = [pc EXCEPT ![r] = "audit_succeeded"]
            /\ work' = [work EXCEPT ![r] = Forgotten(work[r])]
  BY DEF PersistIndex, MarkSucceeded, RaiseInTry, Goto, Leave, Try
<1>3. work' \in [Runs -> WorkType]
  BY <1>1, <1>2, ForgottenType
<1>4. pc' \in [Runs -> Body \cup {"idle", "create", "done", "lost"}]
  BY <1>1, <1>2 DEF Body, Try
<1>5. documents' \in [Sources ->
         [fingerprint : FingerprintType, text : Contents, by : Runs] \cup {None}]
  <2>1. CASE PersistIndex(r)
    <3>1. \A s \in work[r].reindex :
            work[r].sources[s] \in FingerprintType /\ work[r].texts[s] \in Contents
      BY <2>1 DEF PersistIndex, Inv, PlanGrounded
    <3> QED BY <2>1, <3>1 DEF PersistIndex, Inv, TypeOK
  <2>2. CASE MarkSucceeded(r) \/ RaiseInTry(r)
    BY <2>2 DEF MarkSucceeded, RaiseInTry, Inv, TypeOK
  <2> QED BY <2>1, <2>2
<1>6. /\ runs' \in [Runs -> RunType]
      /\ \A q \in Runs \ {r} : runs'[q] = runs[q]
      /\ runs'[r] = runs[r] \/ (pc'[r] # "mark_succeeded" /\ runs'[r].status = "succeeded")
  <2>1. CASE MarkSucceeded(r)
    <3>1. PICK dimensions \in BOOLEAN :
            runs' = [runs EXCEPT ![r] =
                       [status |-> "succeeded", config |-> config, dimensions |-> dimensions]]
      BY <2>1 DEF MarkSucceeded
    <3>2. config \in Configs
      BY DEF Inv, TypeOK
    <3>3. pc'[r] # "mark_succeeded"
      BY <1>1, <2>1 DEF MarkSucceeded, Leave, Goto
    <3> QED BY <1>1, <3>1, <3>2, <3>3 DEF RunType
  <2>2. CASE PersistIndex(r) \/ RaiseInTry(r)
    BY <1>1, <2>2 DEF PersistIndex, RaiseInTry, ledger
  <2> QED BY <2>1, <2>2
<1>7. /\ world' = world /\ runSources' = runSources /\ audit' = audit
      /\ latest' \in Runs \cup {None} /\ unrecorded' \in SUBSET Sources
  BY <1>1 DEF PersistIndex, MarkSucceeded, RaiseInTry, ledger, Inv, TypeOK, WorkType
<1>8. TypeOK'
  BY <1>3, <1>4, <1>5, <1>6, <1>7 DEF Inv, TypeOK, WorkType, RunType, world
<1>9. RunsOwned'
  BY <1>1, <1>2, <1>6 DEF Inv, RunsOwned, Try
<1>10. PlanGrounded'
  BY <1>1, <1>2 DEF Inv, PlanGrounded
<1> QED BY <1>8, <1>9, <1>10 DEF Inv

\* Every step.
LEMMA NextInv == Inv /\ [Next]_vars => Inv'
<1> SUFFICES ASSUME Inv, [Next]_vars PROVE Inv'
  OBVIOUS
<1>1. CASE \E s \in Sources, content \in Contents : EditFile(s, content)
  BY <1>1, EditInv
<1>2. CASE \E m \in Manifests, c \in Configs : Restart(m, c)
  BY <1>2, RestartInv
<1>3. ASSUME NEW r \in Runs, CheckRunning(r) \/ Proceed(r) \/ RaiseInTry(r) PROVE Inv'
  BY <1>3, LedgerStepInv, WorkStepInv, LeaveInv DEF Proceed
<1>4. CASE Idle \/ UNCHANGED vars
  BY <1>4 DEF Idle, vars, Inv, TypeOK, RunsOwned, PlanGrounded
<1> QED BY <1>1, <1>2, <1>3, <1>4 DEF Next

\* In every reachable state.
LEMMA Invariance == Spec => []Inv
BY InitInv, NextInv, PTL DEF Spec

\* Only the handler of a running run writes its status.
LEMMA OutcomeStep ==
  ASSUME Inv, [Next]_vars
  PROVE  \A r \in Runs : runs[r].status \in {"succeeded", "failed"}
                            => runs'[r].status = runs[r].status
<1> SUFFICES ASSUME NEW r \in Runs, runs[r].status \in {"succeeded", "failed"}
             PROVE runs'[r].status = runs[r].status
  OBVIOUS
<1>1. runs \in [Runs -> RunType] /\ pc[r] \notin Try /\ pc[r] \notin {"idle", "create"}
  BY DEF Inv, TypeOK, RunType, RunsOwned
<1>2. ASSUME NEW q \in Runs, CreateRun(q) PROVE runs'[r].status = runs[r].status
  BY <1>1, <1>2 DEF CreateRun
<1>3. ASSUME NEW q \in Runs, MarkSucceeded(q) PROVE runs'[r].status = runs[r].status
  BY <1>1, <1>3 DEF MarkSucceeded, Try
<1>4. ASSUME NEW q \in Runs, MarkFailed(q) PROVE runs'[r].status = runs[r].status
  <2>1. CASE runs' = runs
    BY <2>1
  <2>2. CASE runs' = [runs EXCEPT ![q].status = IF @ = "running" THEN "failed" ELSE @]
    <3>1. CASE q = r
      <4>1. runs'[r] = [runs[r] EXCEPT !.status = runs[r].status]
        BY <1>1, <2>2, <3>1
      <4> QED BY <1>1, <4>1 DEF RunType
    <3>2. CASE q # r
      BY <1>1, <2>2, <3>2
    <3> QED BY <3>1, <3>2
  <2> QED BY <1>4, <2>1, <2>2 DEF MarkFailed
<1>5. CASE UNCHANGED runs
  BY <1>5
<1>6. ASSUME NEW q \in Runs,
             \/ CheckRunning(q) \/ BuildManifest(q) \/ CreateSource(q) \/ PlanRefresh(q)
             \/ LoadTexts(q) \/ PersistIndex(q) \/ WriteAudit(q) \/ RaiseInTry(q)
      PROVE UNCHANGED runs
  BY <1>6 DEF CheckRunning, BuildManifest, CreateSource, PlanRefresh, LoadTexts, PersistIndex,
       WriteAudit, RaiseInTry, ledger
<1>7. ASSUME \/ \E s \in Sources, content \in Contents : EditFile(s, content)
             \/ \E m \in Manifests, c \in Configs : Restart(m, c)
             \/ Idle \/ UNCHANGED vars
      PROVE UNCHANGED runs
  BY <1>7 DEF EditFile, Restart, Idle, vars, ledger
<1> QED BY <1>2, <1>3, <1>4, <1>5, <1>6, <1>7 DEF Next, Proceed

(* The results *)

\* Everything the refresh writes has the type the tables and their check
\* constraints give it (TypeOK).
THEOREM TypeCorrectness == Spec => []TypeOK
<1>1. Inv => TypeOK
  BY DEF Inv
<1> QED BY Invariance, <1>1, PTL

\* Two handlers are never inside the try block of run_manual_refresh at the
\* same time, although has_running_run and create_run are separate statements.
THEOREM RefreshesExclude == Spec => []OneRefreshAtATime
<1>1. Inv => OneRefreshAtATime
  BY DEF Inv, RunsOwned, OneRefreshAtATime
<1> QED BY Invariance, <1>1, PTL

\* A run that has succeeded or failed keeps that outcome, also when
\* mark_succeeded was committed and mark_failed follows it.
THEOREM OutcomesStay == Spec => OutcomeIsFinal
<1>1. Inv /\ [Next]_vars
        => [\A r \in Runs : runs[r].status \in {"succeeded", "failed"}
                               => runs'[r].status = runs[r].status]_vars
  BY OutcomeStep
<1> QED BY <1>1, Invariance, PTL DEF Spec, OutcomeIsFinal

\* What makes the audit trail true: a handler that is about to audit a success
\* has marked it, and one that has written its event is over.
AuditTrail ==
    /\ \A r \in Runs : pc[r] = "audit_succeeded" => runs[r].status = "succeeded"
    /\ \A e \in audit : pc[e.run] \in {"done", "lost"}
    /\ AuditedSuccessIsReal

\* Every step keeps the audit trail.
LEMMA AuditStep == ASSUME Inv, AuditTrail, [Next]_vars PROVE AuditTrail'
<1>1. /\ pc \in [Runs -> Body \cup {"idle", "create", "done", "lost"}]
      /\ runs \in [Runs -> RunType]
      /\ audit \subseteq [run : Runs, type : {"succeeded", "failed"}]
  BY DEF Inv, TypeOK, RunType
<1>2. /\ \A r \in Runs : pc'[r] = "audit_succeeded" => runs'[r].status = "succeeded"
      /\ \A r \in Runs : pc[r] \in {"done", "lost"} => pc'[r] = pc[r]
  <2>1. ASSUME NEW q \in Runs, MarkSucceeded(q)
        PROVE  /\ runs'[q].status = "succeeded"
               /\ \A r \in Runs \ {q} : pc'[r] = pc[r] /\ runs'[r] = runs[r]
               /\ pc[q] = "mark_succeeded"
    BY <1>1, <2>1 DEF MarkSucceeded, Leave, Goto
  <2>2. ASSUME NEW q \in Runs,
               \/ CheckRunning(q) \/ CreateRun(q) \/ BuildManifest(q) \/ CreateSource(q)
               \/ PlanRefresh(q) \/ LoadTexts(q) \/ PersistIndex(q) \/ MarkFailed(q)
               \/ WriteAudit(q) \/ RaiseInTry(q)
        PROVE  /\ \A r \in Runs \ {q} : pc'[r] = pc[r]
               /\ pc'[q] # "audit_succeeded" /\ pc[q] \notin {"done", "lost"}
    BY <1>1, <2>2 DEF CheckRunning, CreateRun, BuildManifest, CreateSource, PlanRefresh, LoadTexts,
       PersistIndex, MarkFailed, WriteAudit, RaiseInTry, Leave, Goto, Try
  <2>3. ASSUME NEW m \in Manifests, NEW c \in Configs, Restart(m, c)
        PROVE  \A r \in Runs : pc'[r] # "audit_succeeded"
                               /\ (pc[r] \in {"done", "lost"} => pc'[r] = pc[r])
    BY <1>1, <2>3 DEF Restart, Body, Try
  <2>4. CASE \/ \E s \in Sources, content \in Contents : EditFile(s, content)
             \/ Idle \/ UNCHANGED vars
    BY <2>4 DEF EditFile, Idle, vars, ledger, AuditTrail
  <2>5. \A r \in Runs : runs[r].status = "succeeded" => runs'[r].status = "succeeded"
    BY OutcomeStep
  <2> QED BY <2>1, <2>2, <2>3, <2>4, <2>5 DEF Next, Proceed, AuditTrail
<1>3. \A r \in Runs : runs[r].status = "succeeded" => runs'[r].status = "succeeded"
  BY OutcomeStep
<1>4. CASE audit' = audit
  BY <1>1, <1>2, <1>3, <1>4 DEF AuditTrail, AuditedSuccessIsReal
<1>5. ASSUME NEW q \in Runs, WriteAudit(q) PROVE AuditTrail'
  <2> DEFINE event == [run |-> q, type |-> IF pc[q] = "audit_succeeded" THEN "succeeded" ELSE "failed"]
  <2>1. /\ pc[q] \in {"audit_succeeded", "audit_failed"} /\ pc'[q] = "done"
        /\ audit' = audit \/ audit' = audit \cup {event}
    BY <1>1, <1>5 DEF WriteAudit, Goto
  <2>2. \A e \in audit : e.run # q
    BY <2>1 DEF AuditTrail
  <2>3. event.type = "succeeded" => runs'[q].status = "succeeded"
    BY <1>3, <2>1 DEF AuditTrail
  <2>4. event.run = q
    OBVIOUS
  <2> HIDE DEF event
  <2>5. AuditedSuccessIsReal'
    BY <1>1, <1>3, <2>1, <2>2, <2>3, <2>4 DEF AuditTrail, AuditedSuccessIsReal
  <2> QED BY <1>1, <1>2, <2>1, <2>4, <2>5 DEF AuditTrail
<1>6. audit' = audit \/ \E q \in Runs : WriteAudit(q)
  BY DEF Next, Proceed, vars, ledger, EditFile, Restart, CheckRunning, CreateRun, BuildManifest,
     CreateSource, PlanRefresh, LoadTexts, PersistIndex, MarkSucceeded, MarkFailed, RaiseInTry, Idle
<1> QED BY <1>4, <1>5, <1>6

\* The audit trail reports a success only of a run that has it, and one outcome
\* per run, whatever fails or dies between marking and auditing.
THEOREM AuditsAreReal == Spec => []AuditedSuccessIsReal
<1>1. Init => AuditTrail
  BY DEF Init, AuditTrail, AuditedSuccessIsReal
<1>2. AuditTrail => AuditedSuccessIsReal
  BY DEF AuditTrail
<1> QED BY <1>1, <1>2, AuditStep, Invariance, PTL DEF Spec

(* The ledger and the index *)

\* What a handler has recorded, planned and written, by the place it is at: a
\* source that it neither indexes nor removes is recorded as it was before.
HandlerLedger(r) ==
    /\ pc[r] \in {"idle", "create", "manifest"} => runSources[r] = NoSources
    /\ pc[r] = "sources" => \A s \in Sources : runSources[r][s] \in {None, work[r].sources[s]}
    /\ pc[r] \in {"plan", "load", "persist", "mark_succeeded"} => runSources[r] = work[r].sources
    /\ pc[r] \in {"load", "persist", "mark_succeeded"} =>
         /\ \A s \in work[r].reindex : work[r].sources[s] # None
         /\ \A s \in work[r].removed : work[r].sources[s] = None
         /\ \A s \in Sources \ (work[r].reindex \cup work[r].removed) :
              work[r].sources[s] = Before[s]
    /\ pc[r] = "mark_succeeded" =>
         /\ \A s \in work[r].reindex :
              documents[s] # None /\ documents[s].fingerprint = work[r].sources[s]
         /\ \A s \in work[r].removed : documents[s] = None

LedgerInv ==
    /\ latest # None => runs[latest].status = "succeeded"
    /\ \A r \in Runs : HandlerLedger(r)
    /\ LedgerExplainsIndex

\* Steps outside a handler, and those of a handler that write neither what it
\* recorded nor what it planned.
LEMMA LedgerAtRest ==
  ASSUME Inv, LedgerInv, [Next]_vars,
         UNCHANGED <<runSources, latest, documents, unrecorded>>,
         \A r \in Runs :
           \/ /\ pc'[r] = pc[r] \/ (pc[r] \in {"idle", "create"} /\ pc'[r] = "create")
                                \/ (pc[r] = "create" /\ pc'[r] = "manifest")
                                \/ (pc[r] = "load" /\ pc'[r] = "persist")
              /\ work'[r].sources = work[r].sources
              /\ work'[r].reindex = work[r].reindex /\ work'[r].removed = work[r].removed
           \/ pc'[r] \in {"audit_succeeded", "mark_failed", "audit_failed", "done", "lost"}
  PROVE  LedgerInv'
<1>1. latest' # None => runs'[latest'].status = "succeeded"
  <2> SUFFICES ASSUME latest # None PROVE runs'[latest].status = "succeeded"
    OBVIOUS
  <2>1. latest \in Runs /\ runs[latest].status = "succeeded"
    BY DEF LedgerInv, Inv, TypeOK
  <2> QED BY <2>1, OutcomeStep
<1>2. \A r \in Runs : HandlerLedger(r)'
  <2> TAKE r \in Runs
  <2>1. HandlerLedger(r) /\ Before' = Before
    BY DEF LedgerInv, Before, NoSources
  <2> QED BY <2>1 DEF HandlerLedger, NoSources
<1>3. LedgerExplainsIndex'
  BY DEF LedgerInv, LedgerExplainsIndex
<1> QED BY <1>1, <1>2, <1>3 DEF LedgerInv

\* Every step keeps the ledger.
LEMMA LedgerStep == ASSUME Inv, LedgerInv, [Next]_vars PROVE LedgerInv'
<1>1. /\ pc \in [Runs -> Body \cup {"idle", "create", "done", "lost"}]
      /\ work \in [Runs -> WorkType] /\ runs \in [Runs -> RunType]
      /\ runSources \in [Runs -> [Sources -> FingerprintType \cup {None}]]
      /\ latest \in Runs \cup {None}
  BY DEF Inv, TypeOK, RunType, WorkType
<1>2. CASE \E s \in Sources, content \in Contents : EditFile(s, content)
  <2>1. PICK t \in Sources, content \in Contents : EditFile(t, content)
    BY <1>2
  <2>2. \A r \in Runs : /\ pc'[r] = pc[r] /\ work'[r].sources = work[r].sources
                        /\ work'[r].reindex = work[r].reindex /\ work'[r].removed = work[r].removed
    <3> TAKE r \in Runs
    <3>1. work'[r] = work[r] \/ work'[r] = [work[r] EXCEPT !.edited = @ \cup {t}]
      BY <2>1 DEF EditFile
    <3> QED BY <1>1, <2>1, <3>1 DEF WorkType, EditFile
  <2> QED BY <2>1, <2>2, LedgerAtRest DEF EditFile, ledger
<1>3. CASE \E m \in Manifests, c \in Configs : Restart(m, c)
  <2>1. /\ UNCHANGED <<runSources, latest, documents, unrecorded>>
        /\ \A r \in Runs : pc'[r] = "lost" \/ (pc'[r] = pc[r] /\ work'[r] = work[r])
    BY <1>1, <1>3 DEF Restart, ledger
  <2> QED BY <2>1, LedgerAtRest
<1>4. CASE Idle \/ UNCHANGED vars
  BY <1>4, LedgerAtRest DEF Idle, vars
<1>5. ASSUME NEW r \in Runs,
             \/ CheckRunning(r) \/ CreateRun(r) \/ LoadTexts(r) \/ MarkFailed(r)
             \/ WriteAudit(r) \/ RaiseInTry(r)
      PROVE LedgerInv'
  <2>1. /\ UNCHANGED <<runSources, latest, documents, unrecorded>>
        /\ \A q \in Runs \ {r} : pc'[q] = pc[q] /\ work'[q] = work[q]
        /\ \/ pc[r] = "idle" /\ pc'[r] \in {"create", "done"} /\ work'[r] = work[r]
           \/ pc[r] = "create" /\ pc'[r] \in {"manifest", "done"} /\ work'[r] = work[r]
           \/ /\ pc[r] = "load" /\ pc'[r] = "persist"
              /\ work'[r].sources = work[r].sources
              /\ work'[r].reindex = work[r].reindex /\ work'[r].removed = work[r].removed
           \/ pc'[r] \in {"mark_failed", "audit_failed", "done"}
    <3>1. CASE LoadTexts(r)
      <4> DEFINE texts == [s \in Sources |-> IF s \in work[r].reindex THEN files[s] ELSE None]
      <4>1. work'[r] = [work[r] EXCEPT !.texts = texts]
        BY <1>1, <3>1 DEF LoadTexts
      <4> HIDE DEF texts
      <4>2. /\ work'[r].sources = work[r].sources
            /\ work'[r].reindex = work[r].reindex /\ work'[r].removed = work[r].removed
        BY <1>1, <4>1 DEF WorkType
      <4> QED BY <1>1, <3>1, <4>2 DEF LoadTexts, Goto, ledger
    <3>2. CASE CheckRunning(r) \/ CreateRun(r) \/ MarkFailed(r) \/ WriteAudit(r)
      BY <1>1, <3>2 DEF CheckRunning, CreateRun, MarkFailed, WriteAudit, Goto, ledger
    <3>3. CASE RaiseInTry(r)
      BY <1>1, <3>3 DEF RaiseInTry, Leave, Goto, ledger
    <3> QED BY <1>5, <3>1, <3>2, <3>3
  <2> QED BY <2>1, LedgerAtRest
<1>6. ASSUME NEW r \in Runs, BuildManifest(r) PROVE LedgerInv'
  <2>1. /\ UNCHANGED <<ledger, documents, unrecorded>>
        /\ \A q \in Runs \ {r} : pc'[q] = pc[q] /\ work'[q] = work[q]
        /\ pc[r] = "manifest" /\ pc'[r] = "sources"
    BY <1>1, <1>6 DEF BuildManifest, Goto
  <2>2. Before' = Before
    BY <2>1 DEF Before, NoSources, ledger
  <2>3. \A q \in Runs : HandlerLedger(q)'
    BY <2>1, <2>2 DEF LedgerInv, HandlerLedger, NoSources, ledger
  <2> QED BY <2>1, <2>3 DEF LedgerInv, LedgerExplainsIndex, ledger
<1>7. ASSUME NEW r \in Runs, CreateSource(r) PROVE LedgerInv'
  <2>1. /\ UNCHANGED <<runs, latest, documents, work, unrecorded>>
        /\ pc[r] = "sources" /\ latest # r
        /\ \A q \in Runs \ {r} : pc'[q] = pc[q] /\ runSources'[q] = runSources[q]
    <3>1. UNCHANGED <<runs, latest, documents, work, unrecorded>> /\ pc[r] = "sources"
      BY <1>7 DEF CreateSource
    <3>2. runs[r].status = "running"
      BY <3>1 DEF Inv, RunsOwned, Try
    <3>3. \A q \in Runs \ {r} : pc'[q] = pc[q] /\ runSources'[q] = runSources[q]
      BY <1>1, <1>7 DEF CreateSource, Goto
    <3> QED BY NoneAssumption, <3>1, <3>2, <3>3 DEF LedgerInv
  <2>2. Before' = Before
    BY <1>1, <2>1 DEF Before, NoSources
  <2>3. HandlerLedger(r)
    BY DEF LedgerInv
  <2>4. HandlerLedger(r)'
    <3>1. ASSUME NEW s \in Listed(r), runSources' = [runSources EXCEPT ![r][s] = work[r].sources[s]],
                 UNCHANGED pc
          PROVE  HandlerLedger(r)'
      <4>1. \A u \in Sources : runSources'[r][u] \in {None, work[r].sources[u]}
        BY <1>1, <2>1, <2>3, <3>1 DEF HandlerLedger, Listed
      <4> QED BY <2>1, <3>1, <4>1 DEF HandlerLedger
    <3>2. ASSUME Listed(r) = Recorded(r), Goto(r, "plan"), UNCHANGED runSources
          PROVE  HandlerLedger(r)'
      <4>1. \A u \in Sources : runSources[r][u] = work[r].sources[u]
        BY <2>1, <2>3, <3>2 DEF HandlerLedger, Listed, Recorded
      <4>2. runSources[r] = work[r].sources
        BY <1>1, <4>1 DEF WorkType
      <4>3. pc'[r] = "plan"
        BY <1>1, <3>2 DEF Goto
      <4> QED BY <2>1, <3>2, <4>2, <4>3 DEF HandlerLedger
    <3> QED BY <1>7, <3>1, <3>2 DEF CreateSource
  <2>5. \A q \in Runs \ {r} : HandlerLedger(q)'
    BY <2>1, <2>2 DEF LedgerInv, HandlerLedger, NoSources
  <2>6. LedgerExplainsIndex'
    BY <1>1, <2>1 DEF LedgerInv, LedgerExplainsIndex
  <2> QED BY <2>1, <2>4, <2>5, <2>6 DEF LedgerInv
<1>8. ASSUME NEW r \in Runs, PlanRefresh(r) PROVE LedgerInv'
  <2>1. /\ UNCHANGED <<ledger, documents, unrecorded>>
        /\ \A q \in Runs \ {r} : pc'[q] = pc[q] /\ work'[q] = work[q]
        /\ pc[r] = "plan" /\ pc'[r] = "load"
    BY <1>1, <1>8 DEF PlanRefresh, Goto
  <2>2. Before' = Before
    BY <2>1 DEF Before, NoSources, ledger
  <2>3. PICK reindex \in SUBSET Listed(r), removed \in SUBSET Sources :
          /\ work' = [work EXCEPT ![r] = [@ EXCEPT !.reindex = reindex, !.removed = removed]]
          /\ \A s \in Listed(r) \ reindex : work[r].sources[s] = Before[s]
          /\ removed = {s \in Sources : Before[s] # None} \ Listed(r)
    <3> DEFINE changed == {s \in Listed(r) : work[r].sources[s] # Before[s]}
               gone == {s \in Sources : Before[s] # None} \ Listed(r)
    <3>1. \/ work' = [work EXCEPT ![r] = [@ EXCEPT !.reindex = Listed(r), !.removed = gone]]
          \/ work' = [work EXCEPT ![r] = [@ EXCEPT !.reindex = changed, !.removed = gone]]
      BY <1>8, Zenon DEF PlanRefresh, Before
    <3>2. changed \subseteq Listed(r) /\ gone \subseteq Sources
      OBVIOUS
    <3>3. \A s \in Listed(r) \ changed : work[r].sources[s] = Before[s]
      OBVIOUS
    <3> HIDE DEF changed
    <3> QED BY <3>1, <3>2, <3>3
  <2>4. /\ work'[r].sources = work[r].sources
        /\ work'[r].reindex = reindex /\ work'[r].removed = removed
    <3>1. work'[r] = [work[r] EXCEPT !.reindex = reindex, !.removed = removed]
      BY <1>1, <2>3
    <3>2. work[r] \in WorkType
      BY <1>1
    <3> QED BY <3>1, <3>2 DEF WorkType
  <2>5. HandlerLedger(r)'
    <3>1. runSources[r] = work[r].sources
      BY <2>1 DEF LedgerInv, HandlerLedger
    <3>2. \A s \in Sources \ (reindex \cup removed) : work[r].sources[s] = Before[s]
      BY <2>3 DEF Listed
    <3>3. /\ \A s \in reindex : work[r].sources[s] # None
          /\ \A s \in removed : work[r].sources[s] = None
      BY <2>3 DEF Listed
    <3> QED BY <2>1, <2>2, <2>4, <3>1, <3>2, <3>3 DEF HandlerLedger, ledger
  <2>6. \A q \in Runs \ {r} : HandlerLedger(q)'
    BY <2>1, <2>2 DEF LedgerInv, HandlerLedger, NoSources, ledger
  <2> QED BY <2>1, <2>5, <2>6 DEF LedgerInv, LedgerExplainsIndex, ledger
<1>9. ASSUME NEW r \in Runs, PersistIndex(r) PROVE LedgerInv'
  <2>1. /\ UNCHANGED ledger /\ pc[r] = "persist"
        /\ \/ pc'[r] = "mark_succeeded" /\ UNCHANGED work
           \/ pc'[r] = "mark_failed"
        /\ \A q \in Runs \ {r} : pc'[q] = pc[q] /\ work'[q] = work[q]
        /\ unrecorded' = unrecorded \cup work[r].reindex \cup work[r].removed
    BY <1>1, <1>9 DEF PersistIndex, Goto, Leave
  <2>2. Before' = Before
    BY <2>1 DEF Before, NoSources, ledger
  <2>3. \A q \in Runs \ {r} : pc[q] \notin Try
    BY <2>1 DEF Inv, RunsOwned, Try
  <2>4. HandlerLedger(r)
    BY DEF LedgerInv
  <2>5. /\ \A s \in work[r].reindex :
             documents'[s] # None /\ documents'[s].fingerprint = work[r].sources[s]
        /\ \A s \in work[r].removed : documents'[s] = None
        /\ \A s \in Sources \ unrecorded' : documents'[s] = documents[s]
    <3>1. work[r].reindex \subseteq Sources /\ work[r].removed \subseteq Sources
      BY <1>1 DEF WorkType
    <3>2. \A s \in work[r].reindex :
            [fingerprint |-> work[r].sources[s], text |-> work[r].texts[s], by |-> r] # None
      BY <2>1, NoDocumentAssumption DEF Inv, PlanGrounded, FingerprintType
    <3>3. \A s \in work[r].removed : s \notin work[r].reindex
      BY <2>1, <2>4 DEF HandlerLedger
    <3>4. documents' = [s \in Sources |->
              IF s \in work[r].reindex
                THEN [fingerprint |-> work[r].sources[s], text |-> work[r].texts[s], by |-> r]
              ELSE IF s \in work[r].removed THEN None ELSE documents[s]]
      BY <1>9 DEF PersistIndex
    <3>5. ASSUME NEW s \in work[r].reindex
          PROVE  documents'[s] # None /\ documents'[s].fingerprint = work[r].sources[s]
      <4>1. documents'[s] =
              [fingerprint |-> work[r].sources[s], text |-> work[r].texts[s], by |-> r]
        BY <3>1, <3>4
      <4> QED BY <3>2, <4>1
    <3>6. ASSUME NEW s \in work[r].removed PROVE documents'[s] = None
      BY <3>1, <3>3, <3>4
    <3>7. ASSUME NEW s \in Sources \ unrecorded' PROVE documents'[s] = documents[s]
      BY <2>1, <3>4
    <3> QED BY <3>5, <3>6, <3>7
  <2>6. HandlerLedger(r)'
    BY <2>1, <2>2, <2>4, <2>5 DEF HandlerLedger, ledger
  <2>7. \A q \in Runs \ {r} : HandlerLedger(q)'
    BY <2>1, <2>2, <2>3 DEF LedgerInv, HandlerLedger, NoSources, ledger, Try
  <2>8. LedgerExplainsIndex'
    BY <2>1, <2>5 DEF LedgerInv, LedgerExplainsIndex, ledger
  <2> QED BY <2>1, <2>6, <2>7, <2>8 DEF LedgerInv, ledger
<1>10. ASSUME NEW r \in Runs, MarkSucceeded(r) PROVE LedgerInv'
  <2>1. /\ UNCHANGED <<runSources, documents>> /\ pc[r] = "mark_succeeded"
        /\ latest' = r /\ runs'[r].status = "succeeded"
        /\ pc'[r] \in {"audit_succeeded", "mark_failed"}
        /\ \A q \in Runs \ {r} : pc'[q] = pc[q]
        /\ unrecorded' = unrecorded \ (work[r].reindex \cup work[r].removed)
    BY <1>1, <1>10 DEF MarkSucceeded, Goto, Leave
  <2>2. \A q \in Runs \ {r} : pc[q] \notin Try
    BY <2>1 DEF Inv, RunsOwned, Try
  <2>3. \A q \in Runs : HandlerLedger(q)'
    BY <2>1, <2>2 DEF LedgerInv, HandlerLedger, NoSources, Try
  <2>4. HandlerLedger(r) /\ LedgerExplainsIndex /\ r # None
    BY NoneAssumption DEF LedgerInv
  <2>5. LedgerExplainsIndex'
    <3> SUFFICES ASSUME NEW s \in Sources \ unrecorded'
                 PROVE  LedgerExplainsIndex!(s)'
      BY DEF LedgerExplainsIndex
    <3>1. runSources'[latest'][s] = work[r].sources[s]
      BY <2>1, <2>4 DEF HandlerLedger
    <3>2. CASE s \in work[r].reindex \cup work[r].removed
      BY <2>1, <2>4, <3>1, <3>2 DEF HandlerLedger
    <3>3. CASE s \notin work[r].reindex \cup work[r].removed
      <4>1. s \in Sources \ unrecorded /\ work[r].sources[s] = Before[s]
        BY <2>1, <2>4, <3>3 DEF HandlerLedger
      <4>2. Before[s] = IF latest = None THEN None ELSE runSources[latest][s]
        BY DEF Before, NoSources
      <4>3. IF Before[s] = None THEN documents[s] = None
            ELSE documents[s] # None /\ documents[s].fingerprint = Before[s]
        BY <2>4, <4>1, <4>2 DEF LedgerExplainsIndex
      <4> QED BY <2>1, <2>4, <3>1, <4>1, <4>3
    <3> QED BY <3>2, <3>3
  <2> QED BY <2>1, <2>3, <2>5 DEF LedgerInv
<1> QED BY <1>2, <1>3, <1>4, <1>5, <1>6, <1>7, <1>8, <1>9, <1>10 DEF Next, Proceed

\* A source has a document exactly if the last succeeded run lists it, and with
\* the fingerprint it recorded, except where an index transaction was not
\* followed by the marking of its run (mark_succeeded).
THEOREM LedgerExplains == Spec => []LedgerExplainsIndex
<1>1. Init => LedgerInv
  BY DEF Init, LedgerInv, HandlerLedger, LedgerExplainsIndex, NoSources
<1>2. LedgerInv => LedgerExplainsIndex
  BY DEF LedgerInv
<1> QED BY <1>1, <1>2, LedgerStep, Invariance, PTL DEF Spec

-----------------------------------------------------------------------------
(* Texts and fingerprints *)

\* The fingerprint this handler computed for a source is of the text the file
\* still has, unless somebody edited it since.
Fresh(r, s) == work[r].sources[s].content = files[s] \/ s \in work[r].edited

\* What a handler knows of the files it has read, before and after it read them
\* the second time.
HandlerText(r) ==
    /\ pc[r] \in {"sources", "plan"} => \A s \in Listed(r) : Fresh(r, s)
    /\ pc[r] = "load" => \A s \in work[r].reindex : Fresh(r, s)
    /\ pc[r] = "persist" => \A s \in work[r].reindex :
         work[r].texts[s] = work[r].sources[s].content \/ s \in work[r].edited

TextInv == TextMatchesFingerprint /\ \A r \in Runs : HandlerText(r)

\* Edits during a run are never forgotten, and what a document was written with
\* does not change while it stays.
LEMMA OldTexts ==
    ASSUME TypeOK, TextMatchesFingerprint, \A r \in Runs : work[r].edited \subseteq work'[r].edited,
           NEW s \in Sources, documents'[s] = documents[s], documents'[s] # None
    PROVE  documents'[s].text # documents'[s].fingerprint.content
             => s \in work'[documents'[s].by].edited
<1>1. documents[s].by \in Runs
  BY DEF TypeOK
<1> QED
  BY <1>1 DEF TextMatchesFingerprint

\* An edit is noted by every handler that has read the file once only.
LEMMA EditText ==
    ASSUME Inv, TextInv, NEW t \in Sources, NEW content \in Contents, EditFile(t, content)
    PROVE  TextInv'
<1>t. TypeOK /\ DOMAIN files = Sources
  BY DEF Inv, TypeOK
<1>1. /\ UNCHANGED <<pc, documents>> /\ files' = [files EXCEPT ![t] = content]
      /\ \A r \in Runs : work'[r] = IF pc[r] \in {"sources", "plan", "load"}
                                      THEN [work[r] EXCEPT !.edited = @ \cup {t}] ELSE work[r]
  BY DEF EditFile
<1>2. ASSUME NEW r \in Runs
      PROVE  /\ work'[r].sources = work[r].sources /\ work'[r].reindex = work[r].reindex
             /\ work'[r].texts = work[r].texts
             /\ work'[r].edited = IF pc[r] \in {"sources", "plan", "load"}
                                    THEN work[r].edited \cup {t} ELSE work[r].edited
  <2>1. work[r] \in WorkType
    BY <1>t DEF TypeOK, WorkType
  <2> QED
    BY <1>1, <2>1 DEF WorkType
<1>3. ASSUME NEW r \in Runs PROVE HandlerText(r)'
  <2>1. HandlerText(r) /\ Listed(r)' = Listed(r)
    BY <1>2 DEF TextInv, Listed
  <2>2. \A s \in Sources : Fresh(r, s) /\ pc[r] \in {"sources", "plan", "load"} => Fresh(r, s)'
    BY <1>t, <1>1, <1>2 DEF Fresh
  <2>3. work[r].reindex \subseteq Sources /\ Listed(r) \subseteq Sources
    BY <1>t DEF TypeOK, Listed
  <2>4. pc[r] = "persist" => work'[r] = work[r]
    BY <1>1
  <2> QED
    BY <1>1, <1>2, <2>1, <2>2, <2>3, <2>4 DEF HandlerText
<1>4. TextMatchesFingerprint'
  BY <1>t, <1>1, <1>2, OldTexts DEF TextInv, TextMatchesFingerprint
<1> QED
  BY <1>3, <1>4 DEF TextInv

\* A handler that is gone keeps the edits it has met.
LEMMA ForgottenEdits == ASSUME NEW w \in WorkType PROVE Forgotten(w).edited = w.edited
BY DEF Forgotten, NoWork, WorkType

\* A restart.
LEMMA RestartText ==
    ASSUME Inv, TextInv, NEW m \in Manifests, NEW c \in Configs, Restart(m, c) PROVE TextInv'
<1>t. TypeOK /\ \A r \in Runs : work[r] \in WorkType
  BY DEF Inv, TypeOK, WorkType
<1>1. UNCHANGED <<files, documents>>
  BY DEF Restart
<1>2. ASSUME NEW r \in Runs
      PROVE  \/ pc'[r] = "lost" /\ work'[r].edited = work[r].edited
             \/ pc'[r] = pc[r] /\ work'[r] = work[r]
  BY <1>t, ForgottenEdits DEF Restart
<1>3. ASSUME NEW r \in Runs PROVE HandlerText(r)'
  BY <1>1, <1>2 DEF TextInv, HandlerText, Fresh, Listed
<1>4. TextMatchesFingerprint'
  BY <1>t, <1>1, <1>2, OldTexts DEF TextInv, TextMatchesFingerprint
<1> QED
  BY <1>3, <1>4 DEF TextInv

\* A statement of one handler.
LEMMA StatementText ==
    ASSUME Inv, TextInv, NEW r \in Runs, CheckRunning(r) \/ Proceed(r) \/ RaiseInTry(r)
    PROVE  TextInv'
<1> DEFINE w == work[r]
<1>t. /\ TypeOK /\ w \in WorkType /\ DOMAIN work = Runs /\ DOMAIN pc = Runs /\ files \in [Sources -> Contents]
  BY DEF Inv, TypeOK, WorkType
<1>f. UNCHANGED files
  BY DEF CheckRunning, Proceed, CreateRun, BuildManifest, CreateSource, PlanRefresh, LoadTexts,
     PersistIndex, MarkSucceeded, MarkFailed, WriteAudit, RaiseInTry, world
<1> USE DEF Goto, Leave
\* the others go on as before
<1>o. \A q \in Runs : q # r => pc'[q] = pc[q] /\ work'[q] = work[q]
  BY <1>t DEF CheckRunning, Proceed, CreateRun, BuildManifest, CreateSource, PlanRefresh, LoadTexts,
     PersistIndex, MarkSucceeded, MarkFailed, WriteAudit, RaiseInTry
<1>q. \A q \in Runs : q # r => HandlerText(q)'
  BY <1>f, <1>o DEF TextInv, HandlerText, Fresh, Listed
\* what is left to show: this handler's part
<1>h. ASSUME HandlerText(r)', w.edited \subseteq work'[r].edited,
             \A s \in Sources :
               \/ documents'[s] = documents[s]
               \/ documents'[s] = None
               \/ documents'[s].by = r /\ (documents'[s].text # documents'[s].fingerprint.content
                                             => s \in work'[r].edited)
      PROVE  TextInv'
  <2>1. \A q \in Runs : work[q].edited \subseteq work'[q].edited
    BY <1>h, <1>o
  <2>2. TextMatchesFingerprint'
    BY <1>h, <1>t, <2>1, OldTexts DEF TextInv, TextMatchesFingerprint
  <2> QED
    BY <1>h, <1>q, <2>2 DEF TextInv
\* at the other labels nothing is known of the files
<1>a. ASSUME pc'[r] \notin {"sources", "plan", "load", "persist"},
             work' = work \/ work' = [work EXCEPT ![r] = Forgotten(w)], documents' = documents
      PROVE  TextInv'
  <2>1. HandlerText(r)' /\ w.edited \subseteq work'[r].edited
    BY <1>a, <1>t, ForgottenEdits DEF HandlerText
  <2> QED
    BY <1>a, <1>h, <2>1
<1>1. CASE CheckRunning(r) \/ CreateRun(r) \/ MarkSucceeded(r) \/ MarkFailed(r) \/ WriteAudit(r) \/ RaiseInTry(r)
  BY <1>1, <1>a, <1>t DEF CheckRunning, CreateRun, MarkSucceeded, MarkFailed, WriteAudit, RaiseInTry, ledger
<1>2. CASE BuildManifest(r)
  <2> DEFINE read == [s \in Sources |-> IF s \in manifest THEN Fingerprint(files[s]) ELSE None]
  <2>1. work' = [work EXCEPT ![r].sources = read] /\ documents' = documents /\ pc'[r] = "sources"
    BY <1>2, <1>t DEF BuildManifest
  <2> HIDE DEF read
  <2>2. work'[r].sources = read /\ work'[r].edited = w.edited
    <3>1. work'[r] = [w EXCEPT !.sources = read]
      BY <1>t, <2>1
    <3> QED
      BY <1>t, <3>1, WorkWith
  <2>3. \A s \in Sources : read[s] # None => read[s].content = files[s]
    BY DEF read, Fingerprint
  <2>4. HandlerText(r)'
    BY <1>f, <2>1, <2>2, <2>3 DEF HandlerText, Fresh, Listed
  <2> QED
    BY <1>h, <2>1, <2>2, <2>4
<1>3. CASE CreateSource(r)
  <2>1. /\ pc[r] = "sources" /\ pc'[r] \in {"sources", "plan"} /\ UNCHANGED <<work, documents>>
    BY <1>3, <1>t DEF CreateSource
  <2>2. HandlerText(r)'
    BY <1>f, <2>1 DEF TextInv, HandlerText, Fresh, Listed
  <2> QED
    BY <1>h, <2>1, <2>2
<1>4. CASE PlanRefresh(r)
  <2>1. /\ pc[r] = "plan" /\ pc'[r] = "load" /\ documents' = documents
    BY <1>4, <1>t DEF PlanRefresh
  <2>2. PICK again, gone :
          /\ again \in SUBSET Listed(r)
          /\ work' = [work EXCEPT ![r] = [w EXCEPT !.reindex = again, !.removed = gone]]
    BY <1>4 DEF PlanRefresh
  <2>3. /\ work'[r].reindex = again /\ work'[r].sources = w.sources /\ work'[r].edited = w.edited
    <3> HIDE DEF w
    <3> QED
      BY <1>t, <2>2 DEF WorkType
  <2>4. HandlerText(r)'
    BY <1>f, <2>1, <2>2, <2>3 DEF TextInv, HandlerText, Fresh
  <2> QED
    BY <1>h, <2>1, <2>3, <2>4
<1>5. CASE LoadTexts(r)
  <2> DEFINE read == [s \in Sources |-> IF s \in w.reindex THEN files[s] ELSE None]
  <2>1. /\ pc[r] = "load" /\ pc'[r] = "persist" /\ documents' = documents
        /\ work' = [work EXCEPT ![r].texts = read]
    BY <1>5, <1>t DEF LoadTexts
  <2> HIDE DEF read
  <2>2. /\ work'[r].texts = read /\ work'[r].edited = w.edited /\ work'[r].reindex = w.reindex
        /\ work'[r].sources = w.sources
    <3>1. work'[r] = [w EXCEPT !.texts = read]
      BY <1>t, <2>1
    <3> QED
      BY <1>t, <3>1, WorkWith
  <2>3. \A s \in w.reindex : read[s] = files[s]
    BY <1>t DEF read, WorkType
  <2>4. HandlerText(r)'
    BY <2>1, <2>2, <2>3 DEF TextInv, HandlerText, Fresh
  <2> QED
    BY <1>h, <2>1, <2>2, <2>4
<1>6. CASE PersistIndex(r)
  <2>1. /\ pc[r] = "persist" /\ pc'[r] \in {"mark_succeeded", "mark_failed"}
        /\ work' = work \/ work' = [work EXCEPT ![r] = Forgotten(w)]
    BY <1>6, <1>t DEF PersistIndex
  <2>2. HandlerText(r)' /\ work'[r].edited = w.edited
    BY <1>t, <2>1, ForgottenEdits DEF HandlerText
  <2>3. ASSUME NEW s \in Sources
        PROVE  \/ documents'[s] = documents[s]
               \/ documents'[s] = None
               \/ s \in w.reindex /\ documents'[s] = [fingerprint |-> w.sources[s], text |-> w.texts[s], by |-> r]
    BY <1>6 DEF PersistIndex
  <2>4. \A s \in w.reindex : w.texts[s] = w.sources[s].content \/ s \in w.edited
    BY <2>1 DEF TextInv, HandlerText
  <2>5. ASSUME NEW s \in Sources
        PROVE  \/ documents'[s] = documents[s]
               \/ documents'[s] = None
               \/ documents'[s].by = r /\ (documents'[s].text # documents'[s].fingerprint.content
                                             => s \in work'[r].edited)
    <3>1. CASE s \in w.reindex /\ documents'[s] = [fingerprint |-> w.sources[s], text |-> w.texts[s], by |-> r]
      <4>1. /\ documents'[s].by = r /\ documents'[s].text = w.texts[s]
            /\ documents'[s].fingerprint = w.sources[s]
        BY <3>1
      <4> QED
        BY <2>2, <2>4, <3>1, <4>1
    <3> QED
      BY <2>3, <3>1
  <2> QED
    BY <1>h, <2>2, <2>5
<1> QED
  BY <1>1, <1>2, <1>3, <1>4, <1>5, <1>6 DEF Proceed

\* Every step.
LEMMA TextStep == Inv /\ TextInv /\ [Next]_vars => TextInv'
<1> SUFFICES ASSUME Inv, TextInv, [Next]_vars PROVE TextInv'
  OBVIOUS
<1>1. CASE UNCHANGED vars
  BY <1>1 DEF vars, TextInv, TextMatchesFingerprint, HandlerText, Fresh, Listed
<1> QED
  BY <1>1, EditText, RestartText, StatementText DEF Next, Idle

\* The text under a fingerprint is the text it was computed from, unless the
\* file was edited between the two times the run read it.
THEOREM TextsMatch == Spec => []TextMatchesFingerprint
<1>1. Init => TextInv
  BY DEF Init, TextInv, TextMatchesFingerprint, HandlerText, NoSources
<1>2. TextInv => TextMatchesFingerprint
  BY DEF TextInv
<1> QED
  BY <1>1, <1>2, InitInv, NextInv, TextStep, PTL DEF Spec

----------------------------------------------------------------------------
(* KnowledgeIndex implements KnowledgeIngestion *)

\* Every step of the statements, outside of the index transaction and inside of it.
LEMMA StepIsStep == ASSUME IndexNext PROVE Next
<1>1. CASE \E r \in Runs : PersistTables(r)
  <2>1. PICK r \in Runs : PersistTables(r)
    BY <1>1
  <2>2. PersistIndex(r)
    BY <2>1 DEF PersistTables
  <2> QED BY <2>2 DEF Next, Proceed
<1>2. CASE \E s \in Sources, content \in Contents : EditFile(s, content)
  BY <1>2 DEF Next
<1>3. CASE \E m \in Manifests, c \in Configs : Restart(m, c)
  BY <1>3 DEF Next
<1>4. ASSUME NEW r \in Runs,
             \/ CheckRunning(r) \/ CreateRun(r) \/ BuildManifest(r) \/ CreateSource(r)
             \/ PlanRefresh(r) \/ LoadTexts(r) \/ MarkSucceeded(r) \/ MarkFailed(r)
             \/ WriteAudit(r) \/ RaiseInTry(r)
      PROVE Next
  BY <1>4 DEF Next, Proceed
<1>5. CASE Idle
  BY <1>5 DEF Next
<1> QED BY <1>1, <1>2, <1>3, <1>4, <1>5 DEF IndexNext

\* A refresh that writes its tables statement by statement does what the
\* refresh of KnowledgeIngestion does, so what is proved of that one holds.
THEOREM IndexImplements == IndexSpec => Spec
<1>1. IndexInit => Init
  BY DEF IndexInit
<1>2. [IndexNext]_indexVars => [Next]_vars
  <2>1. IndexNext => Next
    BY StepIsStep
  <2>2. UNCHANGED indexVars => UNCHANGED vars
    BY DEF indexVars
  <2> QED BY <2>1, <2>2
<1> QED BY <1>1, <1>2, PTL DEF IndexSpec, Spec

----------------------------------------------------------------------------
(* The chunks of a text: how long a chunk is *)

Paragraphs == Nat \ {0}

\* The sums of the first paragraphs.
AreSums(sum, chunk) ==
    sum = [n \in 0..Len(chunk) |-> IF n = 0 THEN 0 ELSE sum[n - 1] + chunk[n]]

\* Length adds them up.
LEMMA LengthIsSum ==
  ASSUME NEW chunk \in Seq(Paragraphs)
  PROVE  \E sum \in [0..Len(chunk) -> Nat] :
           AreSums(sum, chunk) /\ Length(chunk) = sum[Len(chunk)] + 2 * (Len(chunk) - 1)
<1> DEFINE N == Len(chunk)
           step == [n \in 1..N |-> [x \in Nat |-> x + chunk[n]]]
           P(f) == f = [n \in 0..N |-> IF n = 0 THEN 0 ELSE f[n - 1] + chunk[n]]
<1>1. N \in Nat /\ \A n \in 1..N : chunk[n] \in Nat
  BY DEF Paragraphs
<1>2. step \in [1..N -> [Nat -> Nat]]
  BY <1>1
<1>3. PICK f \in [0..N -> Nat] : Follows(f, 0, step, N)
  <2> HIDE DEF step, N
  <2> QED BY <1>1, <1>2, Recursion
<1>4. \A n \in 1..N : step[n][f[n - 1]] = f[n - 1] + chunk[n]
  <2> TAKE n \in 1..N
  <2>1. n - 1 \in 0..N
    BY <1>1
  <2>2. f[n - 1] \in Nat
    <3> HIDE DEF N
    <3> QED BY <2>1
  <2> QED BY <2>2
<1>5. P(f)
  <2> HIDE DEF step
  <2>1. [n \in 0..N |-> IF n = 0 THEN 0 ELSE step[n][f[n - 1]]]
          = [n \in 0..N |-> IF n = 0 THEN 0 ELSE f[n - 1] + chunk[n]]
    BY <1>1, <1>4
  <2> QED BY <1>3, <2>1 DEF Follows
<1> DEFINE sum == CHOOSE g : P(g)
<1>6. Length(chunk) = sum[Len(chunk)] + 2 * (Len(chunk) - 1)
  BY DEF Length
<1>7. P(sum)
  <2> HIDE DEF P
  <2> QED BY <1>5
<1>8. AreSums(sum, chunk)
  BY <1>7 DEF AreSums
<1> HIDE DEF sum
<1>9. sum \in [0..N -> Nat]
  <2>1. \A n \in 0..N : n \in {k \in 0..N : sum[k] \in Nat}
    <3> DEFINE good == {k \in 0..N : sum[k] \in Nat}
    <3>1. 0 \in good
      BY <1>1, <1>7
    <3>2. ASSUME NEW n \in 0..N - 1, n \in good PROVE n + 1 \in good
      <4>1. n + 1 \in 1..N /\ (n + 1) - 1 = n
        BY <1>1
      <4>2. sum[n + 1] = sum[n] + chunk[n + 1]
        BY <1>7, <4>1
      <4> QED BY <1>1, <3>2, <4>1, <4>2
    <3> HIDE DEF good, N
    <3>3. \A n \in 0..N - 1 : n \in good => n + 1 \in good
      BY <3>2
    <3> QED BY <1>1, <3>1, <3>3, Induction DEF good
  <2> QED BY <1>7, <2>1
<1> QED BY <1>6, <1>8, <1>9

\* The paragraphs of a text from b + 1 to e.
Piece(text, b, e) == SubSeq(text, b + 1, e)

\* A piece has its paragraphs, in their order.
LEMMA PieceProperties ==
  ASSUME NEW text \in Seq(Paragraphs), NEW b \in 0..Len(text), NEW e \in b..Len(text)
  PROVE  /\ Piece(text, b, e) \in Seq(Paragraphs)
         /\ Len(Piece(text, b, e)) = e - b
         /\ \A n \in 1..e - b : Piece(text, b, e)[n] = text[b + n]
<1>1. Len(text) \in Nat /\ b + 1 \in 1..Len(text) + 1 /\ e \in b..Len(text)
  OBVIOUS
<1>2. /\ SubSeq(text, b + 1, e) \in Seq(Paragraphs)
      /\ Len(SubSeq(text, b + 1, e)) = IF b + 1 <= e THEN e - (b + 1) + 1 ELSE 0
      /\ \A i \in 1..e - (b + 1) + 1 : SubSeq(text, b + 1, e)[i] = text[b + 1 + i - 1]
  BY <1>1, SubSeqProperties
<1>3. \A n \in 1..e - b : n \in 1..e - (b + 1) + 1 /\ b + 1 + n - 1 = b + n
  BY <1>1
<1>4. Len(Piece(text, b, e)) = e - b
  BY <1>1, <1>2 DEF Piece
<1> QED BY <1>2, <1>3, <1>4 DEF Piece

\* The sums of a text say how long its pieces are.
LEMMA PieceLength ==
  ASSUME NEW text \in Seq(Paragraphs), NEW total \in [0..Len(text) -> Nat], AreSums(total, text),
         NEW b \in 0..Len(text), NEW e \in b..Len(text)
  PROVE  Length(Piece(text, b, e)) = (total[e] - total[b]) + 2 * ((e - b) - 1)
<1> DEFINE c == Piece(text, b, e)
           L == e - b
<1>0. L \in Nat /\ b \in Nat /\ e \in Nat /\ Len(text) \in Nat /\ b + L = e
  OBVIOUS
<1>1. c \in Seq(Paragraphs) /\ Len(c) = L /\ \A n \in 1..L : c[n] = text[b + n]
  BY PieceProperties
<1>2. PICK sum \in [0..Len(c) -> Nat] :
        AreSums(sum, c) /\ Length(c) = sum[Len(c)] + 2 * (Len(c) - 1)
  <2> HIDE DEF c
  <2> QED BY <1>1, LengthIsSum
<1> DEFINE good == {n \in 0..L : sum[n] = total[b + n] - total[b]}
<1> HIDE DEF c, L
<1>3. 0 \in good
  <2>1. sum[0] = 0
    BY <1>0, <1>1, <1>2 DEF AreSums
  <2>2. b + 0 = b /\ total[b] \in Nat /\ 0 \in 0..L
    BY <1>0
  <2> QED BY <2>1, <2>2
<1>4. ASSUME NEW n \in 0..L - 1, n \in good PROVE n + 1 \in good
  <2>1. /\ n + 1 \in 1..L /\ (n + 1) - 1 = n /\ b + n + 1 \in 1..Len(text) /\ (b + n + 1) - 1 = b + n
        /\ b + (n + 1) = b + n + 1 /\ b + n \in 0..Len(text) /\ n \in 0..L
    BY <1>0, <1>1
  <2>2. sum[n + 1] = sum[n] + c[n + 1]
    BY <1>0, <1>1, <1>2, <2>1 DEF AreSums
  <2>3. total[b + n + 1] = total[b + n] + text[b + n + 1]
    BY <1>0, <1>1, <2>1 DEF AreSums
  <2>4. c[n + 1] = text[b + n + 1] /\ text[b + n + 1] \in Nat
    <3>1. c[n + 1] = text[b + (n + 1)]
      BY <1>0, <1>1, <2>1
    <3> QED BY <2>1, <3>1 DEF Paragraphs
  <2>5. sum[n] = total[b + n] - total[b]
    BY <1>4
  <2>6. total[b + n] \in Nat /\ total[b] \in Nat
    BY <1>0, <1>1, <2>1
  <2>7. sum[n + 1] = total[b + n + 1] - total[b]
    BY <2>2, <2>3, <2>4, <2>5, <2>6
  <2> QED BY <2>1, <2>7
<1>5. L \in good
  <2> HIDE DEF good
  <2>1. \A n \in 0..L - 1 : n \in good => n + 1 \in good
    BY <1>4
  <2>2. \A n \in 0..L : n \in good
    BY <1>0, <1>1, <1>3, <2>1, Induction
  <2> QED BY <1>0, <1>1, <2>2
<1>6. sum[L] = total[e] - total[b]
  BY <1>0, <1>1, <1>5
<1> QED BY <1>0, <1>1, <1>2, <1>6 DEF c, L

\* The sums of a text grow.
LEMMA SumsGrow ==
  ASSUME NEW text \in Seq(Paragraphs), NEW total \in [0..Len(text) -> Nat], AreSums(total, text),
         NEW b \in 0..Len(text), NEW e \in b..Len(text)
  PROVE  total[b] <= total[e]
<1> DEFINE L == e - b
           good == {n \in 0..L : total[b] <= total[b + n]}
<1>1. L \in Nat /\ b \in Nat /\ e \in Nat /\ Len(text) \in Nat /\ b + L = e /\ total[b] \in Nat
  OBVIOUS
<1> HIDE DEF L
<1>2. 0 \in good
  <2>1. b + 0 = b /\ 0 \in 0..L
    BY <1>1
  <2> QED BY <1>1, <2>1
<1>3. ASSUME NEW n \in 0..L - 1, n \in good PROVE n + 1 \in good
  <2>1. /\ n + 1 \in 0..L /\ b + n + 1 \in 1..Len(text) /\ (b + n + 1) - 1 = b + n
        /\ b + (n + 1) = b + n + 1 /\ b + n \in 0..Len(text)
    BY <1>1
  <2>2. total[b + n + 1] = total[b + n] + text[b + n + 1]
    BY <1>1, <2>1 DEF AreSums
  <2>3. text[b + n + 1] \in Nat
    BY <2>1 DEF Paragraphs
  <2>4. total[b] <= total[b + n] /\ total[b + n] \in Nat
    BY <1>3, <2>1
  <2>5. total[b] <= total[b + (n + 1)]
    BY <1>1, <2>1, <2>2, <2>3, <2>4
  <2> QED BY <2>1, <2>5
<1>4. L \in good
  <2> HIDE DEF good
  <2>1. \A n \in 0..L - 1 : n \in good => n + 1 \in good
    BY <1>3
  <2>2. \A n \in 0..L : n \in good
    BY <1>1, <1>2, <2>1, Induction
  <2> QED BY <1>1, <2>2
<1> QED BY <1>1, <1>4

\* Within a chunk that fits every smaller one fits.
LEMMA FitsInside ==
  ASSUME NEW text \in Seq(Paragraphs), NEW b \in 0..Len(text), NEW e \in b..Len(text),
         NEW i \in b..e, NEW j \in i + 1..e, Fits(Piece(text, b, e))
  PROVE  Fits(Piece(text, i, j))
<1>1. PICK total \in [0..Len(text) -> Nat] : AreSums(total, text)
  BY LengthIsSum
<1>2. /\ i \in 0..Len(text) /\ j \in i..Len(text) /\ j \in 0..Len(text) /\ e \in j..Len(text)
      /\ i \in b..Len(text) /\ e \in 0..Len(text) /\ Len(text) \in Nat
      /\ b \in Nat /\ i \in Nat /\ j \in Nat /\ e \in Nat
      /\ b <= i /\ i < j /\ j <= e
  OBVIOUS
<1>3. Len(Piece(text, b, e)) = e - b /\ Len(Piece(text, i, j)) = j - i
  BY <1>2, PieceProperties
<1>4. /\ Length(Piece(text, b, e)) = (total[e] - total[b]) + 2 * ((e - b) - 1)
      /\ Length(Piece(text, i, j)) = (total[j] - total[i]) + 2 * ((j - i) - 1)
  BY <1>1, <1>2, PieceLength
<1>5. total[j] <= total[e] /\ total[b] <= total[i]
  BY <1>1, <1>2, SumsGrow
<1>6. total[j] \in Nat /\ total[e] \in Nat /\ total[b] \in Nat /\ total[i] \in Nat
  BY <1>2
<1>7. Length(Piece(text, i, j)) <= Length(Piece(text, b, e))
  BY <1>2, <1>4, <1>5, <1>6
<1>8. Length(Piece(text, i, j)) \in Int /\ Length(Piece(text, b, e)) \in Int
  BY <1>2, <1>4, <1>6
<1>9. CASE e - b = 1
  BY <1>2, <1>3, <1>9 DEF Fits
<1>10. CASE Length(Piece(text, b, e)) <= chunk_size
  BY <1>7, <1>8, <1>10, ChunkSizeAssumption DEF Fits
<1> QED BY <1>3, <1>9, <1>10 DEF Fits

----------------------------------------------------------------------------
(* The chunks of a text: how it is cut *)

Chunks == Seq(Seq(Paragraphs))

\* A chunk with the next paragraph is the longer piece.
LEMMA LongerPiece ==
  ASSUME NEW text \in Seq(Paragraphs), NEW b \in 0..Len(text), NEW e \in b..Len(text), e # Len(text)
  PROVE  Append(Piece(text, b, e), text[e + 1]) = Piece(text, b, e + 1)
<1>1. /\ Len(text) \in Nat /\ b \in Nat /\ e \in Nat /\ e + 1 \in b..Len(text) /\ e + 1 \in 1..Len(text)
      /\ b <= e
  OBVIOUS
<1>2. text[e + 1] \in Paragraphs
  BY <1>1, ElementOfSeq
<1> DEFINE s == Piece(text, b, e)
           t == Piece(text, b, e + 1)
           u == Append(s, text[e + 1])
<1>3. s \in Seq(Paragraphs) /\ Len(s) = e - b /\ \A n \in 1..e - b : s[n] = text[b + n]
  BY PieceProperties
<1>4. t \in Seq(Paragraphs) /\ Len(t) = (e + 1) - b /\ \A n \in 1..(e + 1) - b : t[n] = text[b + n]
  BY <1>1, PieceProperties
<1> HIDE DEF s, t
<1>5. /\ u \in Seq(Paragraphs) /\ Len(u) = Len(s) + 1
      /\ \A i \in 1..Len(s) : u[i] = s[i]
      /\ u[Len(s) + 1] = text[e + 1]
  BY <1>2, <1>3, AppendProperties
<1> HIDE DEF u
<1>6. Len(u) = Len(t)
  BY <1>1, <1>3, <1>4, <1>5
<1>7. ASSUME NEW i \in 1..Len(u) PROVE u[i] = t[i]
  <2>1. CASE i \in 1..e - b
    <3>1. i \in 1..(e + 1) - b /\ i \in 1..Len(s)
      BY <1>1, <1>3, <2>1
    <3> QED BY <1>3, <1>4, <1>5, <2>1, <3>1
  <2>2. CASE i = (e - b) + 1
    <3>1. i \in 1..(e + 1) - b /\ b + i = e + 1 /\ i = Len(s) + 1
      BY <1>1, <1>3, <2>2
    <3> QED BY <1>4, <1>5, <3>1
  <2>3. i \in 1..(e - b) + 1
    BY <1>1, <1>3, <1>5
  <2> QED BY <1>1, <2>1, <2>2, <2>3
<1>8. u = t
  BY <1>4, <1>5, <1>6, <1>7, SeqEqual
<1> QED BY <1>8 DEF s, t, u

\* The chunks of the first n paragraphs end at the places g: each fits, and none
\* but the last has room for the paragraph that follows.
CutAt(g, chunks, text, n) ==
    LET k == Len(chunks) IN
    /\ g \in [0..k -> 0..n] /\ g[0] = 0 /\ g[k] = n
    /\ \A i, j \in 0..k : i < j => g[i] < g[j]
    /\ \A i \in 1..k : chunks[i] = Piece(text, g[i - 1], g[i]) /\ Fits(chunks[i])
    /\ \A i \in 1..k - 1 : ~Fits(Piece(text, g[i - 1], g[i] + 1))

\* A paragraph that joins the last chunk.
LEMMA ParagraphJoins ==
  ASSUME NEW text \in Seq(Paragraphs), NEW n \in 0..Len(text) - 1, NEW chunks \in Chunks, NEW g,
         CutAt(g, chunks, text, n), chunks # <<>>,
         Length(Append(chunks[Len(chunks)], text[n + 1])) <= chunk_size
  PROVE  \E h : CutAt(h, [chunks EXCEPT ![Len(chunks)] = Append(@, text[n + 1])], text, n + 1)
<1> DEFINE k == Len(chunks)
           c == chunks[k]
           d == Append(c, text[n + 1])
           more == [chunks EXCEPT ![k] = d]
           h == [i \in 0..k |-> IF i = k THEN n + 1 ELSE g[i]]
<1>1. /\ Len(text) \in Nat /\ n \in Nat /\ n \in 0..Len(text) /\ n # Len(text) /\ k \in Nat \ {0}
      /\ k - 1 \in 0..k /\ k \in 1..k /\ k \in 0..k /\ 0 \in 0..k /\ k - 1 < k
  BY EmptySeq DEF Chunks
<1>2. /\ g \in [0..k -> 0..n] /\ g[0] = 0 /\ g[k] = n
      /\ \A i, j \in 0..k : i < j => g[i] < g[j]
      /\ \A i \in 1..k : chunks[i] = Piece(text, g[i - 1], g[i]) /\ Fits(chunks[i])
      /\ \A i \in 1..k - 1 : ~Fits(Piece(text, g[i - 1], g[i] + 1))
  BY DEF CutAt
<1> HIDE DEF k
<1>3. g[k - 1] \in 0..Len(text) /\ n \in g[k - 1]..Len(text)
  BY <1>1, <1>2
<1>4. d = Piece(text, g[k - 1], n + 1)
  BY <1>1, <1>2, <1>3, LongerPiece
<1>5. c \in Seq(Paragraphs) /\ text[n + 1] \in Paragraphs
  <2>1. k \in 1..Len(chunks) /\ n + 1 \in 1..Len(text)
    BY <1>1 DEF k
  <2> QED BY <2>1, ElementOfSeq DEF Chunks
<1>6. d \in Seq(Paragraphs)
  BY <1>5, AppendProperties
<1>7. Fits(d)
  BY DEF Fits, k
<1> HIDE DEF c, d
<1>8. Len(more) = k /\ \A i \in 1..k : more[i] = IF i = k THEN d ELSE chunks[i]
  <2>1. k \in 1..Len(chunks)
    BY <1>1 DEF k
  <2> QED BY <1>6, <2>1, ExceptSeq DEF k, Chunks
<1> HIDE DEF more
<1>9. h[k] = n + 1 /\ \A i \in 0..k - 1 : i \in 0..k /\ h[i] = g[i]
  BY <1>1
<1>10. h \in [0..k -> 0..n + 1]
  BY <1>1, <1>2
<1> HIDE DEF h
<1>11. h[0] = 0
  BY <1>1, <1>2, <1>9
<1>12. ASSUME NEW i \in 0..k, NEW j \in 0..k, i < j PROVE h[i] < h[j]
  <2>1. i \in 0..k - 1 /\ g[i] < g[j] /\ g[j] \in 0..n /\ g[i] \in 0..n
    BY <1>1, <1>2, <1>12
  <2>2. h[i] = g[i]
    BY <1>9, <2>1
  <2>3. CASE j = k
    BY <1>1, <1>2, <1>9, <2>1, <2>2, <2>3
  <2>4. CASE j # k
    <3>1. j \in 0..k - 1
      BY <1>1, <2>4
    <3> QED BY <1>9, <2>1, <2>2, <3>1
  <2> QED BY <2>3, <2>4
<1>13. ASSUME NEW i \in 1..k PROVE more[i] = Piece(text, h[i - 1], h[i]) /\ Fits(more[i])
  <2>1. i - 1 \in 0..k - 1
    BY <1>1
  <2>2. CASE i = k
    BY <1>4, <1>7, <1>8, <1>9, <2>1, <2>2
  <2>3. CASE i # k
    <3>1. i \in 0..k - 1
      BY <1>1, <2>3
    <3> QED BY <1>2, <1>8, <1>9, <2>1, <2>3, <3>1
  <2> QED BY <2>2, <2>3
<1>14. ASSUME NEW i \in 1..k - 1 PROVE ~Fits(Piece(text, h[i - 1], h[i] + 1))
  <2>1. i - 1 \in 0..k - 1 /\ i \in 0..k - 1
    BY <1>1
  <2> QED BY <1>2, <1>9, <2>1
<1>15. CutAt(h, more, text, n + 1)
  BY <1>8, <1>9, <1>10, <1>11, <1>12, <1>13, <1>14 DEF CutAt
<1> QED BY <1>15 DEF more, d, c, k

\* A paragraph that begins a chunk, since the last one has no room for it.
LEMMA ParagraphBegins ==
  ASSUME NEW text \in Seq(Paragraphs), NEW n \in 0..Len(text) - 1, NEW chunks \in Chunks, NEW g,
         CutAt(g, chunks, text, n),
         chunks # <<>> => ~(Length(Append(chunks[Len(chunks)], text[n + 1])) <= chunk_size)
  PROVE  \E h : CutAt(h, Append(chunks, <<text[n + 1]>>), text, n + 1)
<1> DEFINE k == Len(chunks)
           d == <<text[n + 1]>>
           more == Append(chunks, d)
           h == [i \in 0..k + 1 |-> IF i = k + 1 THEN n + 1 ELSE g[i]]
<1>1. /\ Len(text) \in Nat /\ n \in Nat /\ n \in 0..Len(text) /\ n # Len(text) /\ k \in Nat
      /\ k \in 0..k /\ 0 \in 0..k
  BY DEF Chunks
<1>2. /\ g \in [0..k -> 0..n] /\ g[0] = 0 /\ g[k] = n
      /\ \A i, j \in 0..k : i < j => g[i] < g[j]
      /\ \A i \in 1..k : chunks[i] = Piece(text, g[i - 1], g[i]) /\ Fits(chunks[i])
      /\ \A i \in 1..k - 1 : ~Fits(Piece(text, g[i - 1], g[i] + 1))
  BY DEF CutAt
<1>3. d \in Seq(Paragraphs) /\ Len(d) = 1 /\ d[1] = text[n + 1]
  <2>1. n + 1 \in 1..Len(text)
    BY <1>1
  <2> QED BY <2>1, ElementOfSeq
<1>4. d = Piece(text, n, n + 1)
  <2> DEFINE t == Piece(text, n, n + 1)
  <2>1. n + 1 \in n..Len(text) /\ (n + 1) - n = 1
    BY <1>1
  <2>2. t \in Seq(Paragraphs) /\ Len(t) = 1 /\ \A i \in 1..1 : t[i] = text[n + i]
    BY <1>1, <2>1, PieceProperties
  <2> HIDE DEF t, d
  <2>3. \A i \in 1..1 : i = 1
    OBVIOUS
  <2>4. d = t
    BY <1>3, <2>2, <2>3, SeqEqual
  <2> QED BY <2>4 DEF t
<1>5. Fits(d)
  BY <1>3 DEF Fits
<1>6. /\ Len(more) = k + 1 /\ more[k + 1] = d
      /\ \A i \in 1..k : more[i] = chunks[i]
  BY <1>3, AppendProperties DEF Chunks
<1>7. k # 0 => ~Fits(Piece(text, g[k - 1], n + 1))
  <2> HAVE k # 0
  <2>1. k - 1 \in 0..k /\ k \in 1..k /\ k - 1 < k /\ chunks # <<>>
    BY <1>1, EmptySeq DEF Chunks
  <2>2. chunks[k] = Piece(text, g[k - 1], n)
    BY <1>2, <2>1
  <2>3. g[k - 1] \in 0..Len(text) /\ n \in g[k - 1]..Len(text) /\ g[k - 1] \in 0..n /\ g[k - 1] < n
    <3> HIDE DEF k
    <3>1. g[k - 1] \in 0..n /\ g[k - 1] < n
      BY <1>1, <1>2, <2>1
    <3> QED BY <1>1, <3>1
  <2>4. Append(chunks[k], text[n + 1]) = Piece(text, g[k - 1], n + 1)
    BY <1>1, <2>2, <2>3, LongerPiece
  <2>5. Len(Piece(text, g[k - 1], n + 1)) # 1
    <3>1. n + 1 \in g[k - 1]..Len(text)
      BY <1>1, <2>3
    <3>2. Len(Piece(text, g[k - 1], n + 1)) = (n + 1) - g[k - 1]
      BY <2>3, <3>1, PieceProperties
    <3> HIDE DEF k
    <3>3. g[k - 1] \in Nat /\ n - g[k - 1] >= 1 /\ (n + 1) - g[k - 1] # 1
      BY <1>1, <2>3
    <3> QED BY <3>2, <3>3
  <2> QED BY <2>1, <2>4, <2>5 DEF Fits
<1> HIDE DEF d, more, k
<1>8. h[k + 1] = n + 1 /\ \A i \in 0..k : i \in 0..k + 1 /\ h[i] = g[i]
  BY <1>1
<1>9. h \in [0..k + 1 -> 0..n + 1]
  BY <1>1, <1>2
<1> HIDE DEF h
<1>10. h[0] = 0
  BY <1>1, <1>2, <1>8
<1>11. ASSUME NEW i \in 0..k + 1, NEW j \in 0..k + 1, i < j PROVE h[i] < h[j]
  <2>1. i \in 0..k
    BY <1>1, <1>11
  <2>2. h[i] = g[i] /\ g[i] \in 0..n
    BY <1>2, <1>8, <2>1
  <2>3. CASE j = k + 1
    BY <1>1, <1>8, <2>2, <2>3
  <2>4. CASE j # k + 1
    <3>1. j \in 0..k
      BY <1>1, <2>4
    <3> QED BY <1>2, <1>8, <1>11, <2>1, <2>2, <3>1
  <2> QED BY <2>3, <2>4
<1>12. ASSUME NEW i \in 1..k + 1 PROVE more[i] = Piece(text, h[i - 1], h[i]) /\ Fits(more[i])
  <2>1. i - 1 \in 0..k
    BY <1>1
  <2>2. CASE i = k + 1
    <3>1. i - 1 = k
      BY <1>1, <2>2
    <3> QED BY <1>1, <1>2, <1>4, <1>5, <1>6, <1>8, <2>2, <3>1
  <2>3. CASE i # k + 1
    <3>1. i \in 0..k /\ i \in 1..k
      BY <1>1, <2>3
    <3> QED BY <1>2, <1>6, <1>8, <2>1, <3>1
  <2> QED BY <2>2, <2>3
<1>13. ASSUME NEW i \in 1..(k + 1) - 1 PROVE ~Fits(Piece(text, h[i - 1], h[i] + 1))
  <2>1. i - 1 \in 0..k /\ i \in 0..k /\ i \in 1..k
    BY <1>1
  <2>2. CASE i = k
    BY <1>1, <1>2, <1>7, <1>8, <2>1, <2>2
  <2>3. CASE i # k
    <3>1. i \in 1..k - 1
      BY <1>1, <2>1, <2>3
    <3> QED BY <1>2, <1>8, <2>1, <3>1
  <2> QED BY <2>2, <2>3
<1>14. CutAt(h, more, text, n + 1)
  BY <1>6, <1>8, <1>9, <1>10, <1>11, <1>12, <1>13 DEF CutAt
<1> QED BY <1>14 DEF more, d

\* The chunks after each of the paragraphs.
AreChunks(chunks, text) ==
    chunks = [n \in 0..Len(text) |-> IF n = 0 THEN <<>> ELSE Extend(chunks[n - 1], text[n])]

\* The next paragraph.
LEMMA ExtendType ==
  ASSUME NEW chunks \in Chunks, NEW p \in Paragraphs PROVE Extend(chunks, p) \in Chunks
<1> DEFINE k == Len(chunks)
<1>1. CASE chunks # <<>> /\ Length(Append(chunks[k], p)) <= chunk_size
  <2>1. k \in 1..Len(chunks)
    BY <1>1, EmptySeq DEF Chunks
  <2>2. chunks[k] \in Seq(Paragraphs)
    BY <2>1, ElementOfSeq DEF Chunks
  <2>3. Append(chunks[k], p) \in Seq(Paragraphs)
    BY <2>2, AppendProperties
  <2>4. [chunks EXCEPT ![k] = Append(chunks[k], p)] \in Chunks
    BY <2>1, <2>3, ExceptSeq DEF Chunks
  <2> QED BY <1>1, <2>4 DEF Extend
<1>2. CASE ~(chunks # <<>> /\ Length(Append(chunks[k], p)) <= chunk_size)
  <2>1. <<p>> \in Seq(Paragraphs)
    OBVIOUS
  <2>2. Append(chunks, <<p>>) \in Chunks
    BY <2>1, AppendProperties DEF Chunks
  <2> QED BY <1>2, <2>2 DEF Extend
<1> QED BY <1>1, <1>2

\* chunk_text is the last of the lists of chunks of its loop.
LEMMA ChunkTextIsLast ==
  ASSUME NEW text \in Seq(Paragraphs)
  PROVE  \E chunks \in [0..Len(text) -> Chunks] :
           AreChunks(chunks, text) /\ chunk_text(text) = chunks[Len(text)]
<1> DEFINE N == Len(text)
           step == [n \in 1..N |-> [c \in Chunks |-> Extend(c, text[n])]]
           P(f) == f = [n \in 0..N |-> IF n = 0 THEN <<>> ELSE Extend(f[n - 1], text[n])]
<1>1. N \in Nat /\ <<>> \in Chunks /\ \A n \in 1..N : text[n] \in Paragraphs
  BY ElementOfSeq DEF Chunks
<1>2. step \in [1..N -> [Chunks -> Chunks]]
  BY <1>1, ExtendType
<1>3. PICK f \in [0..N -> Chunks] : Follows(f, <<>>, step, N)
  <2> HIDE DEF step, N
  <2> QED BY <1>1, <1>2, Recursion
<1>4. \A n \in 1..N : step[n][f[n - 1]] = Extend(f[n - 1], text[n])
  <2> TAKE n \in 1..N
  <2>1. n - 1 \in 0..N
    BY <1>1
  <2>2. f[n - 1] \in Chunks
    <3> HIDE DEF N
    <3> QED BY <2>1
  <2> QED BY <2>2
<1>5. P(f)
  <2> HIDE DEF step
  <2>1. [n \in 0..N |-> IF n = 0 THEN <<>> ELSE step[n][f[n - 1]]]
          = [n \in 0..N |-> IF n = 0 THEN <<>> ELSE Extend(f[n - 1], text[n])]
    BY <1>1, <1>4
  <2> QED BY <1>3, <2>1 DEF Follows
<1> DEFINE chunks == CHOOSE g : P(g)
<1>6. chunk_text(text) = chunks[Len(text)]
  BY DEF chunk_text
<1>7. P(chunks)
  <2> HIDE DEF P
  <2> QED BY <1>5
<1>8. AreChunks(chunks, text)
  BY <1>7 DEF AreChunks
<1> HIDE DEF chunks
<1> DEFINE good == {k \in 0..N : chunks[k] \in Chunks}
<1>9. \A n \in 0..N : n \in good
  <2>1. 0 \in good
    BY <1>1, <1>7
  <2>2. ASSUME NEW n \in 0..N - 1, n \in good PROVE n + 1 \in good
    <3>1. n + 1 \in 1..N /\ (n + 1) - 1 = n
      BY <1>1
    <3>2. chunks[n + 1] = Extend(chunks[n], text[n + 1])
      BY <1>7, <3>1
    <3> QED BY <1>1, <2>2, <3>1, <3>2, ExtendType
  <2> HIDE DEF good, N
  <2>3. \A n \in 0..N - 1 : n \in good => n + 1 \in good
    BY <2>2
  <2> QED BY <1>1, <2>1, <2>3, Induction
<1>10. chunks \in [0..N -> Chunks]
  BY <1>7, <1>9
<1> QED BY <1>6, <1>8, <1>10

\* chunk_text cuts its text, and fills each chunk before it begins the next.
LEMMA ChunkTextCuts ==
  ASSUME NEW text \in Seq(Paragraphs)
  PROVE  chunk_text(text) \in Chunks /\ \E g : CutAt(g, chunk_text(text), text, Len(text))
<1> DEFINE N == Len(text)
<1>1. N \in Nat /\ \A n \in 1..N : text[n] \in Paragraphs
  BY ElementOfSeq
<1>2. PICK chunks \in [0..N -> Chunks] : AreChunks(chunks, text) /\ chunk_text(text) = chunks[N]
  BY ChunkTextIsLast
<1> DEFINE good == {n \in 0..N : \E g : CutAt(g, chunks[n], text, n)}
<1>3. 0 \in good
  <2>1. chunks[0] = <<>>
    BY <1>1, <1>2 DEF AreChunks
  <2>2. CutAt([i \in 0..0 |-> 0], <<>>, text, 0)
    BY DEF CutAt
  <2> QED BY <1>1, <2>1, <2>2
<1>4. ASSUME NEW n \in 0..N - 1, n \in good PROVE n + 1 \in good
  <2>1. n \in 0..N /\ n + 1 \in 0..N /\ n + 1 # 0 /\ (n + 1) - 1 = n /\ n \in 0..Len(text) - 1
    BY <1>1
  <2> DEFINE old == chunks[n]
  <2>2. old \in Chunks
    BY <2>1
  <2>3. PICK g : CutAt(g, old, text, n)
    BY <1>4
  <2>4. chunks[n + 1] = Extend(old, text[n + 1])
    BY <1>2, <2>1 DEF AreChunks
  <2> HIDE DEF old
  <2>5. \E h : CutAt(h, Extend(old, text[n + 1]), text, n + 1)
    <3>1. CASE old # <<>> /\ Length(Append(old[Len(old)], text[n + 1])) <= chunk_size
      BY <2>1, <2>2, <2>3, <3>1, ParagraphJoins DEF Extend
    <3>2. CASE ~(old # <<>> /\ Length(Append(old[Len(old)], text[n + 1])) <= chunk_size)
      BY <2>1, <2>2, <2>3, <3>2, ParagraphBegins DEF Extend
    <3> QED BY <3>1, <3>2
  <2> QED BY <2>1, <2>4, <2>5
<1>5. N \in good
  <2> HIDE DEF good, N
  <2>1. \A n \in 0..N - 1 : n \in good => n + 1 \in good
    BY <1>4
  <2>2. \A n \in 0..N : n \in good
    BY <1>1, <1>3, <2>1, Induction
  <2> QED BY <1>1, <2>2
<1>6. chunks[N] \in Chunks
  BY <1>1
<1> QED BY <1>2, <1>5, <1>6

\* Such a cut is one in the words of IsCut.
LEMMA CutIsCut ==
  ASSUME NEW text \in Seq(Paragraphs), NEW chunks \in Chunks, NEW g, CutAt(g, chunks, text, Len(text))
  PROVE  IsCut(chunks, text)
<1> DEFINE k == Len(chunks)
           N == Len(text)
           P(f) == f = [i \in 0..k |-> IF i = 0 THEN 0 ELSE f[i - 1] + Len(chunks[i])]
<1>1. k \in Nat /\ N \in Nat /\ k \in 0..k
  BY DEF Chunks
<1>2. /\ g \in [0..k -> 0..N] /\ g[0] = 0 /\ g[k] = N
      /\ \A i, j \in 0..k : i < j => g[i] < g[j]
      /\ \A i \in 1..k : chunks[i] = Piece(text, g[i - 1], g[i])
  BY DEF CutAt
<1> HIDE DEF k, N
<1>3. ASSUME NEW i \in 1..k
      PROVE  /\ i - 1 \in 0..k /\ g[i - 1] \in 0..N /\ g[i] \in g[i - 1]..N
             /\ Len(chunks[i]) = g[i] - g[i - 1] /\ chunks[i] # <<>>
             /\ g[i] = g[i - 1] + Len(chunks[i])
  <2>1. i - 1 \in 0..k /\ i \in 0..k /\ i - 1 < i
    BY <1>1
  <2>2. g[i - 1] < g[i] /\ g[i - 1] \in 0..N /\ g[i] \in 0..N
    BY <1>2, <2>1
  <2>3. g[i] \in g[i - 1]..N
    BY <1>1, <2>2
  <2>4. Len(chunks[i]) = g[i] - g[i - 1]
    <3>1. chunks[i] = Piece(text, g[i - 1], g[i])
      BY <1>2
    <3>2. Len(Piece(text, g[i - 1], g[i])) = g[i] - g[i - 1]
      BY <2>2, <2>3, PieceProperties DEF N
    <3> QED BY <3>1, <3>2
  <2>5. g[i] - g[i - 1] # 0 /\ g[i] = g[i - 1] + (g[i] - g[i - 1])
    BY <1>1, <2>2
  <2> QED BY <2>1, <2>2, <2>3, <2>4, <2>5, EmptySeq
<1>4. P(g)
  <2>1. \A i \in 0..k : g[i] = IF i = 0 THEN 0 ELSE g[i - 1] + Len(chunks[i])
    <3> TAKE i \in 0..k
    <3>1. CASE i = 0
      BY <1>2, <3>1
    <3>2. CASE i # 0
      <4>1. i \in 1..k
        BY <1>1, <3>2
      <4> QED BY <1>3, <3>2, <4>1
    <3> QED BY <3>1, <3>2
  <2> QED BY <1>2, <2>1
<1> DEFINE end == CHOOSE f : P(f)
<1>5. P(end)
  <2> HIDE DEF P
  <2> QED BY <1>4
<1> HIDE DEF end
<1> DEFINE good == {i \in 0..k : end[i] = g[i]}
<1>6. \A i \in 0..k : i \in good
  <2>1. 0 \in good
    BY <1>1, <1>2, <1>5
  <2>2. ASSUME NEW i \in 0..k - 1, i \in good PROVE i + 1 \in good
    <3>1. i + 1 \in 1..k /\ i + 1 \in 0..k /\ (i + 1) - 1 = i /\ i + 1 # 0
      BY <1>1
    <3>2. end[i + 1] = end[i] + Len(chunks[i + 1])
      BY <1>5, <3>1
    <3>3. g[i + 1] = g[i] + Len(chunks[i + 1])
      BY <1>3, <3>1
    <3> QED BY <2>2, <3>1, <3>2, <3>3
  <2> HIDE DEF good
  <2>3. \A i \in 0..k - 1 : i \in good => i + 1 \in good
    BY <2>2
  <2> QED BY <1>1, <2>1, <2>3, Induction
<1>7. end[k] = N
  BY <1>1, <1>2, <1>6
<1>8. ASSUME NEW i \in 1..k
      PROVE  chunks[i] # <<>> /\ chunks[i] = SubSeq(text, end[i - 1] + 1, end[i])
  <2>1. i \in 0..k /\ i - 1 \in 0..k
    BY <1>1
  <2>2. end[i - 1] = g[i - 1] /\ end[i] = g[i]
    BY <1>6, <2>1
  <2> QED BY <1>2, <1>3, <2>2 DEF Piece
<1> QED BY <1>7, <1>8 DEF IsCut, end, k, N

\* Every cut whose chunks fit has an end in each of these chunks.
LEMMA EndInEveryChunk ==
  ASSUME NEW text \in Seq(Paragraphs), NEW chunks \in Chunks, NEW g, CutAt(g, chunks, text, Len(text)),
         NEW ends \in FittingEnds(text), NEW i \in 1..Len(chunks)
  PROVE  \E x \in ends : g[i - 1] < x /\ x <= g[i]
<1> DEFINE k == Len(chunks)
           N == Len(text)
<1>1. k \in Nat /\ N \in Nat /\ i \in 1..k
  BY DEF Chunks
<1>2. /\ g \in [0..k -> 0..N] /\ g[k] = N
      /\ \A p, q \in 0..k : p < q => g[p] < g[q]
      /\ \A j \in 1..k - 1 : ~Fits(Piece(text, g[j - 1], g[j] + 1))
  BY DEF CutAt
<1>3. /\ ends \subseteq 1..N /\ N \in ends
      /\ \A b \in ends \cup {0}, e \in ends :
           b < e /\ (\A d \in ends : d <= b \/ e <= d) => Fits(Piece(text, b, e))
  BY DEF FittingEnds, Piece
<1> HIDE DEF k, N
<1>4. i - 1 \in 0..k /\ i \in 0..k /\ g[i - 1] \in 0..N /\ g[i] \in 0..N /\ g[i - 1] < g[i]
  <2>1. i - 1 \in 0..k /\ i \in 0..k /\ i - 1 < i
    BY <1>1
  <2> QED BY <1>2, <2>1
<1> SUFFICES ASSUME \A x \in ends : ~(g[i - 1] < x /\ x <= g[i]) PROVE FALSE
  OBVIOUS
\* the last end before the chunk, and the first one after it
<1>5. PICK b \in ends \cup {0} : b <= g[i - 1] /\ \A d \in ends : d <= g[i - 1] => d <= b
  <2> DEFINE before == {d \in ends \cup {0} : d <= g[i - 1]}
             back == {N - d : d \in before}
  <2>1. 0 \in before /\ before \subseteq 0..N
    <3>1. 0 <= g[i - 1] /\ 0 \in 0..N /\ 1..N \subseteq 0..N
      BY <1>1, <1>4
    <3> QED BY <1>3, <3>1
  <2>2. back \in SUBSET Nat /\ back # {}
    BY <1>1, <2>1
  <2>3. PICK m \in back : \A x \in back : m <= x
    <3> HIDE DEF back
    <3> QED BY <2>2, LeastNumber
  <2>4. PICK b \in before : m = N - b
    BY <2>3
  <2>5. \A d \in before : d <= b
    <3> TAKE d \in before
    <3>1. N - d \in back
      OBVIOUS
    <3>2. N - b <= N - d
      BY <2>3, <2>4, <3>1
    <3>3. d \in Nat /\ b \in Nat
      BY <1>1, <2>1, <2>4
    <3> QED BY <1>1, <3>2, <3>3
  <2>6. \A d \in ends : d <= g[i - 1] => d <= b
    BY <2>5
  <2> QED BY <2>4, <2>6
<1>6. PICK e \in ends : g[i - 1] < e /\ \A d \in ends : g[i - 1] < d => e <= d
  <2> DEFINE after == {d \in ends : g[i - 1] < d}
  <2>1. N \in after /\ after \in SUBSET Nat
    <3>1. g[i - 1] < N /\ 1..N \subseteq Nat
      BY <1>1, <1>4
    <3> QED BY <1>3, <3>1
  <2>2. PICK m \in after : \A x \in after : m <= x
    <3> HIDE DEF after
    <3> QED BY <2>1, LeastNumber
  <2> QED BY <2>2
<1>7. b \in 0..N /\ e \in 0..N /\ ends \subseteq Nat
  BY <1>1, <1>3
<1>8. g[i] < e
  BY <1>4, <1>6, <1>7
<1>9. i \in 1..k - 1
  <2>1. CASE i = k
    BY <1>1, <1>2, <1>7, <1>8, <2>1
  <2> QED BY <1>1, <2>1
<1>10. Fits(Piece(text, b, e))
  <2>1. b < e
    BY <1>4, <1>5, <1>6, <1>7
  <2>2. \A d \in ends : d <= b \/ e <= d
    BY <1>4, <1>5, <1>6, <1>7
  <2> QED BY <1>3, <2>1, <2>2
<1>11. Fits(Piece(text, g[i - 1], g[i] + 1))
  <2>1. /\ e \in b..N /\ g[i - 1] \in b..e /\ g[i] + 1 \in g[i - 1] + 1..e
    BY <1>4, <1>5, <1>6, <1>7, <1>8
  <2> QED BY <1>7, <1>10, <2>1, FitsInside DEF N
<1> QED BY <1>2, <1>9, <1>11

\* So no such cut has fewer chunks.
LEMMA NoCutHasFewer ==
  ASSUME NEW text \in Seq(Paragraphs), NEW chunks \in Chunks, NEW g, CutAt(g, chunks, text, Len(text)),
         NEW ends \in FittingEnds(text)
  PROVE  Len(chunks) <= Cardinality(ends)
<1> DEFINE k == Len(chunks)
           N == Len(text)
           h == [i \in 1..k |-> CHOOSE x \in ends : g[i - 1] < x /\ x <= g[i]]
<1>1. k \in Nat /\ N \in Nat
  BY DEF Chunks
<1>2. /\ g \in [0..k -> 0..N] /\ \A p, q \in 0..k : p < q => g[p] < g[q]
  BY DEF CutAt
<1>3. \A i \in 1..k : h[i] \in ends /\ g[i - 1] < h[i] /\ h[i] <= g[i]
  BY EndInEveryChunk
<1>4. ends \subseteq 1..N
  BY DEF FittingEnds
<1> HIDE DEF k, N, h
<1>n. \A i \in 1..k : h[i] \in Nat
  <2>1. 1..N \subseteq Nat
    OBVIOUS
  <2> QED BY <1>3, <1>4, <2>1
<1>5. ASSUME NEW i \in 1..k, NEW j \in 1..k, i < j PROVE h[i] < h[j]
  <2>1. i \in 0..k /\ j - 1 \in 0..k /\ (i = j - 1 \/ i < j - 1)
    BY <1>1, <1>5
  <2>2. g[i] \in Nat /\ g[j - 1] \in Nat /\ g[i] <= g[j - 1]
    <3>1. g[i] \in Nat /\ g[j - 1] \in Nat
      BY <1>1, <1>2, <2>1
    <3>2. g[i] = g[j - 1] \/ g[i] < g[j - 1]
      BY <1>2, <2>1
    <3> QED BY <3>1, <3>2
  <2>3. h[i] <= g[i] /\ g[j - 1] < h[j] /\ h[i] \in Nat /\ h[j] \in Nat
    BY <1>3, <1>n
  <2> QED BY <2>2, <2>3
<1>6. h \in Injection(1..k, ends)
  <2>1. h \in [1..k -> ends]
    BY <1>3 DEF h
  <2>2. ASSUME NEW i \in 1..k, NEW j \in 1..k, h[i] = h[j] PROVE i = j
    <3>1. h[i] \in Nat /\ h[j] \in Nat
      BY <1>n
    <3>2. ~(i < j) /\ ~(j < i)
      BY <1>5, <2>2, <3>1
    <3> QED BY <1>1, <3>2
  <2> QED BY <2>1, <2>2 DEF Injection, IsInjective
<1>7. IsFiniteSet(ends)
  <2>1. IsFiniteSet(1..N)
    BY <1>1, FS_Interval
  <2> QED BY <1>4, <2>1, FS_Subset
<1>8. Cardinality(1..k) = k
  BY <1>1, FS_Interval
<1>9. Cardinality(1..k) <= Cardinality(ends)
  BY <1>6, <1>7, FS_Injection
<1> QED BY <1>8, <1>9 DEF k

\* Every text is cut as well as can be, whatever it is and whatever the size of a chunk.
LEMMA CutsAreAlwaysBest == CutsAreBest
<1> SUFFICES ASSUME NEW text \in Texts \cup {paragraphs[content] : content \in Contents}
             PROVE  LET chunks == chunk_text(text) IN
                    /\ IsCut(chunks, text)
                    /\ \A i \in 1..Len(chunks) : Fits(chunks[i])
                    /\ \A ends \in FittingEnds(text) : Len(chunks) <= Cardinality(ends)
  BY DEF CutsAreBest
<1>1. text \in Seq(Paragraphs)
  BY ParagraphsAssumption DEF Paragraphs
<1> DEFINE chunks == chunk_text(text)
<1>2. chunks \in Chunks
  BY <1>1, ChunkTextCuts
<1>3. PICK g : CutAt(g, chunks, text, Len(text))
  BY <1>1, ChunkTextCuts
<1> HIDE DEF chunks
<1>4. IsCut(chunks, text)
  BY <1>1, <1>2, <1>3, CutIsCut
<1>5. \A i \in 1..Len(chunks) : Fits(chunks[i])
  BY <1>3 DEF CutAt
<1>6. \A ends \in FittingEnds(text) : Len(chunks) <= Cardinality(ends)
  BY <1>1, <1>2, <1>3, NoCutHasFewer
<1> QED BY <1>4, <1>5, <1>6 DEF chunks

----------------------------------------------------------------------------
(* The tables of some documents *)

DocumentType == [fingerprint : FingerprintType, text : Contents, by : Runs]
Documents == [Sources -> DocumentType \cup {None}]

Rows(s, content) == {ChunkRecords[s][content][i] : i \in DOMAIN ChunkRecords[s][content]}
Vectors(s, content, c) == {EmbeddingRecord(row, c) : row \in Rows(s, content)}

Present(docs) == {s \in Sources : docs[s] # None}
Prints(docs) == [s \in Sources |-> IF s \in Present(docs) THEN docs[s].fingerprint ELSE None]
AllRows(docs) == UNION {Rows(s, docs[s].text) : s \in Present(docs)}
AllVectors(docs) == UNION {Vectors(s, docs[s].text, docs[s].fingerprint.config) : s \in Present(docs)}

Table(prints, rows, vectors) ==
    [documents |-> prints, chunks |-> rows, embeddings |-> vectors, refused |-> {}]

\* TablesOf, part by part.
LEMMA TablesOfDocuments ==
  ASSUME NEW docs PROVE TablesOf(docs) = Table(Prints(docs), AllRows(docs), AllVectors(docs))
BY DEF TablesOf, Table, Prints, AllRows, AllVectors, Present, Rows, Vectors

\* The rows of a source bear its name, and are told apart by their places.
LEMMA RowsOfSource ==
  ASSUME NEW s \in Sources, NEW content \in Contents
  PROVE  \E m \in Nat :
           /\ DOMAIN ChunkRecords[s][content] = 1..m /\ Len(ChunkRecords[s][content]) = m
           /\ \A i \in 1..m : /\ ChunkRecords[s][content][i].chunk_id = <<s, i>>
                              /\ ChunkRecords[s][content][i].document_id = s
<1> DEFINE chunks == chunk_text(paragraphs[content])
           m == Len(chunks)
           records == [i \in 1..m |-> [chunk_id |-> <<s, i>>, document_id |-> s, chunk_text |-> chunks[i]]]
<1>1. paragraphs[content] \in Seq(Paragraphs)
  BY ParagraphsAssumption DEF Paragraphs
<1>2. chunks \in Chunks
  BY <1>1, ChunkTextCuts
<1>3. m \in Nat
  <2> HIDE DEF chunks
  <2> QED BY <1>2 DEF Chunks
<1>4. ChunkRecords[s][content] = records
  BY DEF ChunkRecords
<1> HIDE DEF chunks, m
<1>5. DOMAIN records = 1..m /\ Len(records) = m
  BY <1>3
<1>6. \A i \in 1..m : records[i].chunk_id = <<s, i>> /\ records[i].document_id = s
  OBVIOUS
<1> HIDE DEF records
<1> QED BY <1>3, <1>4, <1>5, <1>6

\* The name of a row says whose it is.
LEMMA RowNames ==
  ASSUME NEW s \in Sources, NEW content \in Contents, NEW row \in Rows(s, content)
  PROVE  row.document_id = s /\ \E i \in Nat : row.chunk_id = <<s, i>>
<1>1. PICK m \in Nat :
        /\ DOMAIN ChunkRecords[s][content] = 1..m
        /\ \A i \in 1..m : /\ ChunkRecords[s][content][i].chunk_id = <<s, i>>
                           /\ ChunkRecords[s][content][i].document_id = s
  BY RowsOfSource
<1>2. PICK i \in 1..m : row = ChunkRecords[s][content][i]
  BY <1>1 DEF Rows
<1>3. i \in Nat
  OBVIOUS
<1> QED BY <1>1, <1>2, <1>3

\* Whose a row of some documents is.
LEMMA RowsAreNamed ==
  ASSUME NEW docs \in Documents, NEW row
  PROVE  /\ row \in AllRows(docs) <=> \E s \in Present(docs) : row \in Rows(s, docs[s].text)
         /\ \A s \in Present(docs) : row \in Rows(s, docs[s].text) =>
              row.document_id = s /\ \E i \in Nat : row.chunk_id = <<s, i>>
<1>1. \A s \in Present(docs) : s \in Sources /\ docs[s].text \in Contents
  BY DEF Present, Documents, DocumentType
<1> QED BY <1>1, RowNames DEF AllRows

\* And a vector has the name of its row.
LEMMA VectorsAreNamed ==
  ASSUME NEW docs \in Documents, NEW vector
  PROVE  /\ vector \in AllVectors(docs) <=>
              \E s \in Present(docs) : vector \in Vectors(s, docs[s].text, docs[s].fingerprint.config)
         /\ \A s \in Present(docs) : vector \in Vectors(s, docs[s].text, docs[s].fingerprint.config) =>
              \E row \in Rows(s, docs[s].text), i \in Nat :
                row.document_id = s /\ row.chunk_id = <<s, i>> /\ vector.chunk_id = <<s, i>>
<1>1. \A s \in Present(docs) : s \in Sources /\ docs[s].text \in Contents
  BY DEF Present, Documents, DocumentType
<1>2. ASSUME NEW s \in Present(docs), NEW row \in Rows(s, docs[s].text)
      PROVE  /\ row.document_id = s
             /\ \E i \in Nat : row.chunk_id = <<s, i>> /\ EmbeddingRecord(row, docs[s].fingerprint.config).chunk_id = <<s, i>>
  <2>1. row.document_id = s /\ \E i \in Nat : row.chunk_id = <<s, i>>
    BY <1>1, RowNames
  <2>2. EmbeddingRecord(row, docs[s].fingerprint.config).chunk_id = row.chunk_id
    BY DEF EmbeddingRecord
  <2> QED BY <2>1, <2>2
<1>3. ASSUME NEW s \in Present(docs), vector \in Vectors(s, docs[s].text, docs[s].fingerprint.config)
      PROVE  \E row \in Rows(s, docs[s].text), i \in Nat :
               row.document_id = s /\ row.chunk_id = <<s, i>> /\ vector.chunk_id = <<s, i>>
  <2>1. PICK row \in Rows(s, docs[s].text) : vector = EmbeddingRecord(row, docs[s].fingerprint.config)
    BY <1>3 DEF Vectors
  <2>2. PICK i \in Nat :
          row.chunk_id = <<s, i>> /\ EmbeddingRecord(row, docs[s].fingerprint.config).chunk_id = <<s, i>>
    BY <1>2
  <2> QED BY <1>2, <2>1, <2>2
<1>4. vector \in AllVectors(docs) <=>
        \E s \in Present(docs) : vector \in Vectors(s, docs[s].text, docs[s].fingerprint.config)
  BY DEF AllVectors
<1> QED BY <1>3, <1>4

\* Of a document whose chunks are deleted no chunk and no vector is left, and of the others all.
LEMMA ChunksDeleted ==
  ASSUME NEW docs \in Documents, NEW s \in Sources, NEW prints
  PROVE  LET gone == [docs EXCEPT ![s] = None] IN
         delete_chunks_for_document(Table(prints, AllRows(docs), AllVectors(docs)), s)
           = Table(prints, AllRows(gone), AllVectors(gone))
<1> DEFINE gone == [docs EXCEPT ![s] = None]
           chunks == {c \in AllRows(docs) : c.document_id # s}
           embeddings == {e \in AllVectors(docs) :
                            \A c \in AllRows(docs) : c.document_id = s => c.chunk_id # e.chunk_id}
<1>1. gone \in Documents /\ gone[s] = None /\ \A q \in Sources : q # s => gone[q] = docs[q]
  BY DEF Documents
<1> HIDE DEF gone
<1>2. Present(gone) = Present(docs) \ {s} /\ \A q \in Present(gone) : q \in Present(docs) /\ gone[q] = docs[q]
  BY <1>1 DEF Present
<1>3. chunks = AllRows(gone)
  <2>1. ASSUME NEW c PROVE c \in chunks <=> c \in AllRows(gone)
    <3>1. c \in AllRows(docs) <=> \E q \in Present(docs) : c \in Rows(q, docs[q].text)
      BY RowsAreNamed
    <3>2. \A q \in Present(docs) : c \in Rows(q, docs[q].text) => c.document_id = q
      BY RowsAreNamed
    <3>3. c \in AllRows(gone) <=> \E q \in Present(gone) : c \in Rows(q, gone[q].text)
      BY <1>1, RowsAreNamed
    <3> QED BY <1>2, <3>1, <3>2, <3>3
  <2> HIDE DEF chunks
  <2> QED BY <2>1
<1>4. embeddings = AllVectors(gone)
  <2>1. ASSUME NEW e PROVE e \in embeddings <=> e \in AllVectors(gone)
    <3> DEFINE of(q) == Vectors(q, docs[q].text, docs[q].fingerprint.config)
    <3>1. e \in AllVectors(docs) <=> \E q \in Present(docs) : e \in of(q)
      BY VectorsAreNamed
    <3>2. \A q \in Present(docs) : e \in of(q) =>
            \E row \in Rows(q, docs[q].text), i \in Nat :
              row.document_id = q /\ row.chunk_id = <<q, i>> /\ e.chunk_id = <<q, i>>
      BY VectorsAreNamed
    <3>3. e \in AllVectors(gone) <=> \E q \in Present(docs) \ {s} : e \in of(q)
      <4>1. e \in AllVectors(gone) <=>
              \E q \in Present(gone) : e \in Vectors(q, gone[q].text, gone[q].fingerprint.config)
        BY <1>1, VectorsAreNamed
      <4> QED BY <1>2, <4>1
    <3>4. ASSUME NEW q \in Present(docs), e \in of(q), q # s,
                 NEW c \in AllRows(docs), c.document_id = s
          PROVE  c.chunk_id # e.chunk_id
      <4>1. PICK i \in Nat : e.chunk_id = <<q, i>>
        BY <3>2, <3>4
      <4>2. PICK p \in Present(docs) : c \in Rows(p, docs[p].text)
        BY RowsAreNamed
      <4>3. c.document_id = p /\ \E j \in Nat : c.chunk_id = <<p, j>>
        BY <4>2, RowsAreNamed
      <4> QED BY <3>4, <4>1, <4>3
    <3>5. ASSUME s \in Present(docs), e \in of(s)
          PROVE  \E c \in AllRows(docs) : c.document_id = s /\ c.chunk_id = e.chunk_id
      <4>1. PICK row \in Rows(s, docs[s].text), i \in Nat :
              row.document_id = s /\ row.chunk_id = <<s, i>> /\ e.chunk_id = <<s, i>>
        BY <3>2, <3>5
      <4>2. row \in AllRows(docs)
        BY <3>5, RowsAreNamed
      <4> QED BY <4>1, <4>2
    <3> HIDE DEF of
    <3>6. ASSUME e \in embeddings PROVE e \in AllVectors(gone)
      <4>1. PICK q \in Present(docs) : e \in of(q)
        BY <3>1, <3>6
      <4>2. q # s
        BY <3>5, <3>6, <4>1
      <4> QED BY <3>3, <4>1, <4>2
    <3>7. ASSUME e \in AllVectors(gone) PROVE e \in embeddings
      BY <3>1, <3>3, <3>4, <3>7
    <3> QED BY <3>6, <3>7
  <2> HIDE DEF embeddings
  <2> QED BY <2>1
<1>5. delete_chunks_for_document(Table(prints, AllRows(docs), AllVectors(docs)), s)
        = Table(prints, chunks, embeddings)
  <2> DEFINE t == Table(prints, AllRows(docs), AllVectors(docs))
  <2>1. t.chunks = AllRows(docs) /\ t.embeddings = AllVectors(docs)
    BY DEF Table
  <2>2. delete_chunks_for_document(t, s) = [[t EXCEPT !.chunks = chunks] EXCEPT !.embeddings = embeddings]
    <3> HIDE DEF t
    <3> QED BY <2>1 DEF delete_chunks_for_document
  <2> HIDE DEF chunks, embeddings
  <2> QED BY <2>2 DEF Table
<1> QED BY <1>3, <1>4, <1>5 DEF gone

\* A chunk that is new is added, and so is its vector; neither is refused.
LEMMA ChunkWritten ==
  ASSUME NEW prints, NEW rows, NEW vectors, NEW row, prints[row.document_id] # None,
         \A x \in rows : x.chunk_id # row.chunk_id, \A x \in vectors : x.chunk_id # row.chunk_id
  PROVE  WriteChunk(Table(prints, rows, vectors), row)
           = Table(prints, rows \cup {row}, vectors \cup {EmbeddingRecord(row, config)})
<1> DEFINE vector == EmbeddingRecord(row, config)
<1>1. Upsert(rows, row) = rows \cup {row}
  BY DEF Upsert
<1>2. vector.chunk_id = row.chunk_id
  BY DEF EmbeddingRecord
<1> HIDE DEF vector
<1>3. Upsert(vectors, vector) = vectors \cup {vector}
  BY <1>2 DEF Upsert
<1>4. create_chunk(Table(prints, rows, vectors), row) = Table(prints, rows \cup {row}, vectors)
  <2> DEFINE t == [documents |-> prints, chunks |-> rows, embeddings |-> vectors, refused |-> {}]
             more == rows \cup {row}
  <2>1. create_chunk(t, row) = [[t EXCEPT !.chunks = more] EXCEPT !.refused = {}]
    BY <1>1 DEF create_chunk
  <2> QED BY <2>1 DEF Table
<1>5. \E c \in rows \cup {row} : c.chunk_id = vector.chunk_id
  BY <1>2
<1>6. create_embedding(Table(prints, rows \cup {row}, vectors), vector)
        = Table(prints, rows \cup {row}, vectors \cup {vector})
  <2> DEFINE more == rows \cup {row}
             t == [documents |-> prints, chunks |-> more, embeddings |-> vectors, refused |-> {}]
             all == vectors \cup {vector}
  <2>1. create_embedding(t, vector) = [[t EXCEPT !.embeddings = all] EXCEPT !.refused = {}]
    BY <1>3, <1>5 DEF create_embedding
  <2> QED BY <2>1 DEF Table
<1> QED BY <1>4, <1>6 DEF WriteChunk, vector

\* The rows of a source without a document are all written.
LEMMA ChunksWritten ==
  ASSUME NEW docs \in Documents, NEW s \in Sources, docs[s] = None, NEW content \in Contents,
         NEW prints, prints[s] # None
  PROVE  WriteChunks(Table(prints, AllRows(docs), AllVectors(docs)), ChunkRecords[s][content])
           = Table(prints, AllRows(docs) \cup Rows(s, content), AllVectors(docs) \cup Vectors(s, content, config))
<1> DEFINE rows == ChunkRecords[s][content]
           t == Table(prints, AllRows(docs), AllVectors(docs))
<1>1. PICK m \in Nat :
        /\ DOMAIN rows = 1..m /\ Len(rows) = m
        /\ \A i \in 1..m : rows[i].chunk_id = <<s, i>> /\ rows[i].document_id = s
  BY RowsOfSource
<1> HIDE DEF rows
<1> DEFINE first(n) == {rows[i] : i \in 1..n}
           firstVectors(n) == {EmbeddingRecord(rows[i], config) : i \in 1..n}
           written(n) == Table(prints, AllRows(docs) \cup first(n), AllVectors(docs) \cup firstVectors(n))
           P(f) == f = [n \in 0..m |-> IF n = 0 THEN t ELSE WriteChunk(f[n - 1], rows[n])]
<1>2. s \notin Present(docs)
  BY DEF Present
<1>3. ASSUME NEW n \in 1..m PROVE WriteChunk(written(n - 1), rows[n]) = written(n)
  <2> DEFINE old == AllRows(docs) \cup first(n - 1)
             oldVectors == AllVectors(docs) \cup firstVectors(n - 1)
  <2>1. n - 1 \in Nat /\ 1..n = (1..n - 1) \cup {n} /\ n \notin 1..n - 1 /\ 1..n - 1 \subseteq 1..m
    OBVIOUS
  <2>2. rows[n].chunk_id = <<s, n>> /\ rows[n].document_id = s
    BY <1>1
  <2>3. ASSUME NEW x \in old PROVE x.chunk_id # rows[n].chunk_id
    <3>1. CASE x \in AllRows(docs)
      <4>1. PICK q \in Present(docs) : x \in Rows(q, docs[q].text)
        BY <3>1, RowsAreNamed
      <4>2. \E i \in Nat : x.chunk_id = <<q, i>>
        BY <4>1, RowsAreNamed
      <4> QED BY <1>2, <2>2, <4>2
    <3>2. CASE x \in first(n - 1)
      <4>1. PICK i \in 1..n - 1 : x = rows[i]
        BY <3>2
      <4>2. x.chunk_id = <<s, i>> /\ i # n
        BY <1>1, <2>1, <4>1
      <4> QED BY <2>2, <4>2
    <3> QED BY <3>1, <3>2
  <2>4. ASSUME NEW x \in oldVectors PROVE x.chunk_id # rows[n].chunk_id
    <3>1. CASE x \in AllVectors(docs)
      <4>1. PICK q \in Present(docs) : x \in Vectors(q, docs[q].text, docs[q].fingerprint.config)
        BY <3>1, VectorsAreNamed
      <4>2. \E i \in Nat : x.chunk_id = <<q, i>>
        BY <4>1, VectorsAreNamed
      <4> QED BY <1>2, <2>2, <4>2
    <3>2. CASE x \in firstVectors(n - 1)
      <4>1. PICK i \in 1..n - 1 : x = EmbeddingRecord(rows[i], config)
        BY <3>2
      <4>2. x.chunk_id = rows[i].chunk_id
        BY <4>1 DEF EmbeddingRecord
      <4>3. rows[i].chunk_id = <<s, i>> /\ i # n
        BY <1>1, <2>1
      <4> QED BY <2>2, <4>2, <4>3
    <3> QED BY <3>1, <3>2
  <2>5. first(n) = first(n - 1) \cup {rows[n]}
    BY <2>1
  <2>6. firstVectors(n) = firstVectors(n - 1) \cup {EmbeddingRecord(rows[n], config)}
    BY <2>1
  <2> HIDE DEF first, firstVectors
  <2>7. WriteChunk(Table(prints, old, oldVectors), rows[n])
          = Table(prints, old \cup {rows[n]}, oldVectors \cup {EmbeddingRecord(rows[n], config)})
    <3> HIDE DEF old, oldVectors
    <3> QED BY <2>2, <2>3, <2>4, ChunkWritten
  <2>8. /\ old \cup {rows[n]} = AllRows(docs) \cup first(n)
        /\ oldVectors \cup {EmbeddingRecord(rows[n], config)} = AllVectors(docs) \cup firstVectors(n)
    BY <2>5, <2>6
  <2> QED BY <2>7, <2>8
<1>4. written(0) = t
  <2>1. first(0) = {} /\ firstVectors(0) = {}
    OBVIOUS
  <2> QED BY <2>1
<1>5. /\ first(m) = Rows(s, content) /\ firstVectors(m) = Vectors(s, content, config)
  <2>1. first(m) = Rows(s, content)
    BY <1>1 DEF Rows, rows
  <2>2. firstVectors(m) = {EmbeddingRecord(row, config) : row \in first(m)}
    OBVIOUS
  <2> QED BY <2>1, <2>2 DEF Vectors
<1> HIDE DEF written, t
<1>6. P([n \in 0..m |-> written(n)])
  <2> DEFINE f == [n \in 0..m |-> written(n)]
  <2>1. \A n \in 0..m : f[n] = IF n = 0 THEN t ELSE WriteChunk(f[n - 1], rows[n])
    <3> TAKE n \in 0..m
    <3>1. CASE n = 0
      BY <1>4, <3>1
    <3>2. CASE n # 0
      <4>1. n \in 1..m /\ n - 1 \in 0..m
        BY <3>2
      <4> QED BY <1>3, <3>2, <4>1
    <3> QED BY <3>1, <3>2
  <2> QED BY <2>1
<1> DEFINE after == CHOOSE f : P(f)
<1>7. P(after)
  <2> HIDE DEF P
  <2> QED BY <1>6
<1>8. WriteChunks(t, rows) = after[m]
  BY <1>1 DEF WriteChunks
<1> HIDE DEF after
<1> DEFINE good == {n \in 0..m : after[n] = written(n)}
<1>9. m \in good
  <2>1. 0 \in good
    BY <1>4, <1>7
  <2>2. ASSUME NEW n \in 0..m - 1, n \in good PROVE n + 1 \in good
    <3>1. n + 1 \in 1..m /\ n + 1 \in 0..m /\ (n + 1) - 1 = n /\ n + 1 # 0
      OBVIOUS
    <3>2. after[n + 1] = WriteChunk(after[n], rows[n + 1])
      BY <1>7, <3>1
    <3> QED BY <1>3, <2>2, <3>1, <3>2
  <2> HIDE DEF good
  <2>3. \A n \in 0..m - 1 : n \in good => n + 1 \in good
    BY <2>2
  <2> QED BY <2>1, <2>3, Induction
<1>10. WriteChunks(t, rows) = written(m)
  BY <1>8, <1>9
<1> QED BY <1>5, <1>10 DEF written, t, rows

\* A document that is deleted takes its chunks and their vectors with it.
LEMMA DocumentDeleted ==
  ASSUME NEW docs \in Documents, NEW s \in Sources
  PROVE  delete_document(TablesOf(docs), s) = TablesOf([docs EXCEPT ![s] = None])
<1> DEFINE gone == [docs EXCEPT ![s] = None]
           prints == [Prints(docs) EXCEPT ![s] = None]
<1>1. gone \in Documents /\ gone[s] = None /\ \A q \in Sources : q # s => gone[q] = docs[q]
  BY DEF Documents
<1> HIDE DEF gone
<1>2. prints = Prints(gone)
  BY <1>1 DEF Prints, Present
<1> HIDE DEF prints
<1>3. [Table(Prints(docs), AllRows(docs), AllVectors(docs)) EXCEPT !.documents[s] = None]
        = Table(prints, AllRows(docs), AllVectors(docs))
  BY DEF Table, prints
<1>4. delete_document(TablesOf(docs), s) = Table(prints, AllRows(gone), AllVectors(gone))
  BY <1>3, TablesOfDocuments, ChunksDeleted DEF delete_document, gone
<1> QED BY <1>2, <1>4, TablesOfDocuments DEF gone

\* A source that is indexed again has the rows and the vectors of its new text, and no others.
LEMMA SourceReindexed ==
  ASSUME NEW docs \in Documents, NEW s \in Sources, NEW d \in DocumentType, d.fingerprint.config = config
  PROVE  Reindex(TablesOf(docs), s, d.fingerprint, d.text) = TablesOf([docs EXCEPT ![s] = d])
<1> DEFINE gone == [docs EXCEPT ![s] = None]
           new == [docs EXCEPT ![s] = d]
           prints == [Prints(docs) EXCEPT ![s] = d.fingerprint]
<1>1. gone \in Documents /\ gone[s] = None /\ \A q \in Sources : q # s => gone[q] = docs[q]
  BY DEF Documents
<1>2. new \in Documents /\ new[s] = d /\ \A q \in Sources : q # s => new[q] = docs[q]
  BY DEF Documents
<1>3. d # None /\ d.fingerprint # None /\ d.text \in Contents
  BY NoDocumentAssumption DEF DocumentType, FingerprintType
<1>4. prints = Prints(new) /\ prints[s] = d.fingerprint
  BY <1>2, <1>3 DEF Prints, Present
<1> HIDE DEF prints
<1>5. create_document(TablesOf(docs), s, d.fingerprint) = Table(prints, AllRows(docs), AllVectors(docs))
  <2>1. [Table(Prints(docs), AllRows(docs), AllVectors(docs)) EXCEPT !.documents[s] = d.fingerprint]
          = Table(prints, AllRows(docs), AllVectors(docs))
    BY DEF Table, prints
  <2> QED BY <2>1, TablesOfDocuments DEF create_document
<1>6. delete_chunks_for_document(create_document(TablesOf(docs), s, d.fingerprint), s)
        = Table(prints, AllRows(gone), AllVectors(gone))
  BY <1>5, ChunksDeleted
<1>7. Reindex(TablesOf(docs), s, d.fingerprint, d.text)
        = Table(prints, AllRows(gone) \cup Rows(s, d.text), AllVectors(gone) \cup Vectors(s, d.text, config))
  <2> HIDE DEF gone
  <2> QED BY <1>1, <1>3, <1>4, <1>6, ChunksWritten DEF Reindex
<1> HIDE DEF gone, new
<1>8. Present(new) = Present(gone) \cup {s} /\ s \notin Present(gone)
      /\ \A q \in Present(gone) : new[q] = gone[q]
  BY <1>1, <1>2, <1>3 DEF Present
<1>9. AllRows(new) = AllRows(gone) \cup Rows(s, d.text)
  BY <1>2, <1>8 DEF AllRows
<1>10. AllVectors(new) = AllVectors(gone) \cup Vectors(s, d.text, config)
  BY <1>2, <1>8 DEF AllVectors
<1> QED BY <1>4, <1>7, <1>9, <1>10, TablesOfDocuments DEF new

\* An order of some sources names each of them.
LEMMA OrderOfSources ==
  ASSUME NEW S \in SUBSET Sources, NEW order \in Orders(S)
  PROVE  Len(order) \in Nat /\ {order[i] : i \in 1..Len(order)} = S
<1> DEFINE m == Cardinality(S)
<1>1. m \in Nat
  BY SourcesAssumption, FS_Subset, FS_CardinalityType
<1>2. order \in [1..m -> S] /\ \A s \in S : \E i \in DOMAIN order : order[i] = s
  BY DEF Orders
<1> HIDE DEF m
<1>3. order \in Seq(S)
  BY <1>1, <1>2, SeqDef
<1>4. Len(order) \in Nat /\ DOMAIN order = 1..Len(order) /\ order \in [1..Len(order) -> S]
  BY <1>3, LenProperties
<1> QED BY <1>2, <1>4

\* Deleting documents one after the other.
LEMMA AllDeleted ==
  ASSUME NEW docs \in Documents, NEW S \in SUBSET Sources, NEW order \in Orders(S)
  PROVE  DeleteAll(TablesOf(docs), order) = TablesOf([s \in Sources |-> IF s \in S THEN None ELSE docs[s]])
<1> DEFINE m == Len(order)
           first(n) == {order[i] : i \in 1..n}
           left(n) == [s \in Sources |-> IF s \in first(n) THEN None ELSE docs[s]]
           P(f) == f = [n \in 0..m |-> IF n = 0 THEN TablesOf(docs) ELSE delete_document(f[n - 1], order[n])]
<1>1. m \in Nat /\ first(m) = S
  BY OrderOfSources
<1>2. \A n \in 0..m : left(n) \in Documents
  BY DEF Documents
<1>3. ASSUME NEW n \in 1..m PROVE delete_document(TablesOf(left(n - 1)), order[n]) = TablesOf(left(n))
  <2>1. n - 1 \in 0..m /\ 1..n = (1..n - 1) \cup {n}
    BY <1>1
  <2>2. first(n) = first(n - 1) \cup {order[n]}
    BY <2>1
  <2>3. order[n] \in Sources
    BY <1>1
  <2> HIDE DEF first
  <2>4. left(n) = [left(n - 1) EXCEPT ![order[n]] = None]
    BY <2>2, <2>3
  <2> HIDE DEF left
  <2> QED BY <1>2, <2>1, <2>3, <2>4, DocumentDeleted
<1>4. left(0) = docs
  <2>1. first(0) = {}
    OBVIOUS
  <2> HIDE DEF first
  <2> QED BY <2>1 DEF Documents
<1>5. left(m) = [s \in Sources |-> IF s \in S THEN None ELSE docs[s]]
  BY <1>1
<1> HIDE DEF m, left
<1>6. P([n \in 0..m |-> TablesOf(left(n))])
  <2> DEFINE f == [n \in 0..m |-> TablesOf(left(n))]
  <2>1. \A n \in 0..m : f[n] = IF n = 0 THEN TablesOf(docs) ELSE delete_document(f[n - 1], order[n])
    <3> TAKE n \in 0..m
    <3>1. CASE n = 0
      BY <1>4, <3>1
    <3>2. CASE n # 0
      <4>1. n \in 1..m /\ n - 1 \in 0..m
        BY <1>1, <3>2
      <4> QED BY <1>3, <3>2, <4>1
    <3> QED BY <3>1, <3>2
  <2> QED BY <2>1
<1> DEFINE after == CHOOSE f : P(f)
<1>7. P(after)
  <2> HIDE DEF P
  <2> QED BY <1>6
<1>8. DeleteAll(TablesOf(docs), order) = after[m]
  BY DEF DeleteAll, m
<1> HIDE DEF after
<1> DEFINE good == {n \in 0..m : after[n] = TablesOf(left(n))}
<1>9. m \in good
  <2>1. 0 \in good
    BY <1>1, <1>4, <1>7
  <2>2. ASSUME NEW n \in 0..m - 1, n \in good PROVE n + 1 \in good
    <3>1. n + 1 \in 1..m /\ n + 1 \in 0..m /\ (n + 1) - 1 = n /\ n + 1 # 0
      BY <1>1
    <3>2. after[n + 1] = delete_document(after[n], order[n + 1])
      BY <1>7, <3>1
    <3> QED BY <1>3, <2>2, <3>1, <3>2
  <2> HIDE DEF good
  <2>3. \A n \in 0..m - 1 : n \in good => n + 1 \in good
    BY <2>2
  <2>4. \A n \in 0..m : n \in good
    BY <1>1, <2>1, <2>3, Induction
  <2> QED BY <1>1, <2>4
<1> QED BY <1>5, <1>8, <1>9

\* Indexing sources one after the other.
LEMMA AllReindexed ==
  ASSUME NEW docs \in Documents, NEW S \in SUBSET Sources, NEW order \in Orders(S), NEW sources, NEW texts,
         NEW r \in Runs,
         \A s \in S : sources[s] \in FingerprintType /\ sources[s].config = config /\ texts[s] \in Contents
  PROVE  ReindexAll(TablesOf(docs), order, sources, texts)
           = TablesOf([s \in Sources |->
                         IF s \in S THEN [fingerprint |-> sources[s], text |-> texts[s], by |-> r] ELSE docs[s]])
<1> DEFINE m == Len(order)
           first(n) == {order[i] : i \in 1..n}
           new(s) == [fingerprint |-> sources[s], text |-> texts[s], by |-> r]
           made(n) == [s \in Sources |-> IF s \in first(n) THEN new(s) ELSE docs[s]]
           step(t, s) == Reindex(t, s, sources[s], texts[s])
           P(f) == f = [n \in 0..m |-> IF n = 0 THEN TablesOf(docs) ELSE step(f[n - 1], order[n])]
<1>1. m \in Nat /\ first(m) = S
  BY OrderOfSources
<1>2. \A s \in S : new(s) \in DocumentType /\ new(s).fingerprint = sources[s] /\ new(s).text = texts[s]
  BY DEF DocumentType
<1>a. \A n \in 0..m : \A i \in 1..n : order[i] \in S
  BY <1>1
<1> HIDE DEF new
<1>3. ASSUME NEW n \in 0..m PROVE made(n) \in Documents
  BY <1>2, <1>a DEF Documents
<1>4. ASSUME NEW n \in 1..m PROVE step(TablesOf(made(n - 1)), order[n]) = TablesOf(made(n))
  <2> DEFINE s == order[n]
  <2>1. n - 1 \in 0..m /\ 1..n = (1..n - 1) \cup {n} /\ n \in 0..m /\ n \in 1..n
    BY <1>1
  <2>2. first(n) = first(n - 1) \cup {s}
    BY <2>1
  <2>3. s \in S /\ s \in Sources
    BY <1>a, <2>1
  <2> HIDE DEF first, s
  <2>4. made(n) = [made(n - 1) EXCEPT ![s] = new(s)]
    BY <2>2, <2>3
  <2>5. made(n - 1) \in Documents
    BY <1>3, <2>1
  <2> HIDE DEF made
  <2>6. Reindex(TablesOf(made(n - 1)), s, new(s).fingerprint, new(s).text) = TablesOf(made(n))
    <3>1. new(s) \in DocumentType /\ new(s).fingerprint.config = config
      BY <1>2, <2>3
    <3> QED BY <2>3, <2>4, <2>5, <3>1, SourceReindexed
  <2> QED BY <1>2, <2>3, <2>6 DEF s
<1>5. made(0) = docs
  <2>1. first(0) = {}
    OBVIOUS
  <2> HIDE DEF first
  <2> QED BY <2>1 DEF Documents
<1>6. made(m) = [s \in Sources |->
                   IF s \in S THEN [fingerprint |-> sources[s], text |-> texts[s], by |-> r] ELSE docs[s]]
  BY <1>1 DEF new
<1>b. ReindexAll(TablesOf(docs), order, sources, texts) = (CHOOSE f : P(f))[m]
  BY DEF ReindexAll
<1> HIDE DEF m, made, step
<1>7. P([n \in 0..m |-> TablesOf(made(n))])
  <2> DEFINE f == [n \in 0..m |-> TablesOf(made(n))]
  <2>1. \A n \in 0..m : f[n] = IF n = 0 THEN TablesOf(docs) ELSE step(f[n - 1], order[n])
    <3> TAKE n \in 0..m
    <3>1. CASE n = 0
      BY <1>5, <3>1
    <3>2. CASE n # 0
      <4>1. n \in 1..m /\ n - 1 \in 0..m
        BY <1>1, <3>2
      <4> QED BY <1>4, <3>2, <4>1
    <3> QED BY <3>1, <3>2
  <2> QED BY <2>1
<1> DEFINE after == CHOOSE f : P(f)
<1>8. P(after)
  <2> HIDE DEF P
  <2> QED BY <1>7
<1>9. ReindexAll(TablesOf(docs), order, sources, texts) = after[m]
  BY <1>b
<1> HIDE DEF after
<1> DEFINE good == {n \in 0..m : after[n] = TablesOf(made(n))}
<1>10. m \in good
  <2>1. 0 \in good
    BY <1>1, <1>5, <1>8
  <2>2. ASSUME NEW n \in 0..m - 1, n \in good PROVE n + 1 \in good
    <3>1. n + 1 \in 1..m /\ n + 1 \in 0..m /\ (n + 1) - 1 = n /\ n + 1 # 0
      BY <1>1
    <3>2. after[n + 1] = step(after[n], order[n + 1])
      BY <1>8, <3>1
    <3> QED BY <1>4, <2>2, <3>1, <3>2
  <2> HIDE DEF good
  <2>3. \A n \in 0..m - 1 : n \in good => n + 1 \in good
    BY <2>2
  <2>4. \A n \in 0..m : n \in good
    BY <1>1, <2>1, <2>3, Induction
  <2> QED BY <1>1, <2>4
<1> QED BY <1>6, <1>9, <1>10

-----------------------------------------------------------------------------
(* The tables of a refresh *)

\* While the settings may still be written with a source, they are those of the
\* running version: a restart, which changes them, ends the handler.
SettingsAreCurrent ==
    \A r \in Runs : pc[r] \in {"sources", "plan", "load", "persist"} =>
      \A s \in Listed(r) : work[r].sources[s].config = config

IndexInv == tables = TablesOf(documents) /\ SettingsAreCurrent

\* A step of one handler that leaves its sources, or its labels, alone.
LEMMA SettingsStep ==
  ASSUME Inv, SettingsAreCurrent, Next PROVE SettingsAreCurrent'
<1>t. work \in [Runs -> WorkType] /\ DOMAIN pc = Runs
  BY DEF Inv, TypeOK, WorkType
<1> USE DEF Goto, Leave
<1>1. ASSUME NEW t \in Sources, NEW content \in Contents, EditFile(t, content) PROVE SettingsAreCurrent'
  <2>1. \A r \in Runs : work'[r].sources = work[r].sources
    BY <1>t, <1>1 DEF EditFile, WorkType
  <2> QED BY <1>1, <2>1 DEF EditFile, SettingsAreCurrent, Listed
<1>2. ASSUME NEW m \in Manifests, NEW c \in Configs, Restart(m, c) PROVE SettingsAreCurrent'
  <2>1. \A r \in Runs : pc'[r] \notin {"sources", "plan", "load", "persist"}
    BY <1>2 DEF Restart, Body, Try
  <2> QED BY <2>1 DEF SettingsAreCurrent
<1>3. ASSUME NEW r \in Runs, config' = config, \A q \in Runs : q # r => pc'[q] = pc[q] /\ work'[q] = work[q],
             pc'[r] \in {"sources", "plan", "load", "persist"} =>
               \A s \in Sources : work'[r].sources[s] # None => work'[r].sources[s].config = config
      PROVE  SettingsAreCurrent'
  BY <1>3 DEF SettingsAreCurrent, Listed
<1>4. ASSUME NEW r \in Runs, BuildManifest(r) PROVE SettingsAreCurrent'
  <2> DEFINE read == [s \in Sources |-> IF s \in manifest THEN Fingerprint(files[s]) ELSE None]
  <2>1. work' = [work EXCEPT ![r].sources = read] /\ config' = config
        /\ pc' = [pc EXCEPT ![r] = "sources"]
    BY <1>4 DEF BuildManifest, world
  <2>2. \A s \in Sources : read[s] # None => read[s].config = config
    BY DEF Fingerprint
  <2> HIDE DEF read
  <2>3. work'[r].sources = read
    <3>1. work'[r] = [work[r] EXCEPT !.sources = read]
      BY <1>t, <2>1
    <3> QED BY <1>t, <3>1, WorkWith
  <2>4. \A q \in Runs : q # r => pc'[q] = pc[q] /\ work'[q] = work[q]
    BY <1>t, <2>1
  <2> QED BY <1>3, <2>1, <2>2, <2>3, <2>4
<1>5. ASSUME NEW r \in Runs, CreateSource(r) \/ PlanRefresh(r) \/ LoadTexts(r) PROVE SettingsAreCurrent'
  <2>1. config' = config /\ pc[r] \in {"sources", "plan", "load"}
        /\ \A q \in Runs : q # r => pc'[q] = pc[q] /\ work'[q] = work[q]
    BY <1>5, <1>t DEF CreateSource, PlanRefresh, LoadTexts, world
  <2>2. work'[r].sources = work[r].sources
    <3>1. CASE CreateSource(r)
      BY <3>1 DEF CreateSource
    <3>2. CASE PlanRefresh(r)
      <4>1. PICK again, gone : work'[r] = [work[r] EXCEPT !.reindex = again, !.removed = gone]
        BY <1>t, <3>2 DEF PlanRefresh
      <4> QED BY <1>t, <4>1 DEF WorkType
    <3>3. CASE LoadTexts(r)
      <4>1. PICK read : work'[r] = [work[r] EXCEPT !.texts = read]
        BY <1>t, <3>3 DEF LoadTexts
      <4> QED BY <1>t, <4>1 DEF WorkType
    <3> QED BY <1>5, <3>1, <3>2, <3>3
  <2> QED BY <1>3, <2>1, <2>2 DEF SettingsAreCurrent, Listed
<1>6. ASSUME NEW r \in Runs,
             \/ CheckRunning(r) \/ CreateRun(r) \/ PersistIndex(r) \/ MarkSucceeded(r)
             \/ MarkFailed(r) \/ WriteAudit(r) \/ RaiseInTry(r)
      PROVE  SettingsAreCurrent'
  <2>1. config' = config /\ pc'[r] \notin {"sources", "plan", "load", "persist"}
        /\ \A q \in Runs : q # r => pc'[q] = pc[q] /\ work'[q] = work[q]
    BY <1>6, <1>t DEF CheckRunning, CreateRun, PersistIndex, MarkSucceeded, MarkFailed, WriteAudit, RaiseInTry, world
  <2> QED BY <1>3, <2>1
<1>7. CASE Idle
  BY <1>7 DEF Idle, vars, SettingsAreCurrent, Listed
<1> QED BY <1>1, <1>2, <1>4, <1>5, <1>6, <1>7 DEF Next, Proceed

\* The statements of one transaction do what its one assignment does.
LEMMA TablesPersisted ==
  ASSUME Inv, IndexInv, NEW r \in Runs, PersistTables(r) PROVE tables' = TablesOf(documents')
<1> DEFINE w == work[r]
           d(s) == [fingerprint |-> w.sources[s], text |-> w.texts[s], by |-> r]
           without == [s \in Sources |-> IF s \in w.removed THEN None ELSE documents[s]]
<1>1. /\ documents \in Documents /\ w.removed \in SUBSET Sources /\ w.reindex \in SUBSET Sources
      /\ work \in [Runs -> WorkType]
  BY DEF Inv, TypeOK, Documents, DocumentType, WorkType
<1>2. /\ pc[r] = "persist"
      /\ documents' = [s \in Sources |-> IF s \in w.reindex THEN d(s)
                                         ELSE IF s \in w.removed THEN None ELSE documents[s]]
  BY DEF PersistTables, PersistIndex
<1>3. PICK removed \in Orders(w.removed), reindexed \in Orders(w.reindex) :
        tables' = ReindexAll(DeleteAll(tables, removed), reindexed, w.sources, w.texts)
  BY DEF PersistTables
<1>4. \A s \in w.reindex : /\ w.sources[s] \in FingerprintType /\ w.texts[s] \in Contents
                           /\ w.sources[s].config = config
  <2>1. \A s \in w.reindex : w.sources[s] \in FingerprintType /\ w.texts[s] \in Contents
    BY <1>2 DEF Inv, PlanGrounded
  <2>2. None \notin FingerprintType
    BY NoDocumentAssumption DEF FingerprintType
  <2>3. w.reindex \subseteq Listed(r)
    BY <1>1, <2>1, <2>2 DEF Listed
  <2> QED BY <1>2, <2>1, <2>3 DEF IndexInv, SettingsAreCurrent
<1> HIDE DEF w, d
<1>5. DeleteAll(tables, removed) = TablesOf(without)
  BY <1>1, <1>3, AllDeleted DEF IndexInv
<1>6. without \in Documents
  BY <1>1 DEF Documents
<1> HIDE DEF without
<1>7. ReindexAll(TablesOf(without), reindexed, w.sources, w.texts)
        = TablesOf([s \in Sources |-> IF s \in w.reindex THEN d(s) ELSE without[s]])
  BY <1>1, <1>3, <1>4, <1>6, AllReindexed DEF d
<1>8. documents' = [s \in Sources |-> IF s \in w.reindex THEN d(s) ELSE without[s]]
  BY <1>2 DEF without
<1> QED BY <1>3, <1>5, <1>7, <1>8

\* Every step.
LEMMA TablesStep == Inv /\ IndexInv /\ [IndexNext]_indexVars => IndexInv'
<1> SUFFICES ASSUME Inv, IndexInv, [IndexNext]_indexVars PROVE IndexInv'
  OBVIOUS
<1>1. CASE UNCHANGED indexVars
  BY <1>1 DEF indexVars, vars, IndexInv, SettingsAreCurrent, Listed
<1>2. CASE IndexNext
  <2>1. SettingsAreCurrent'
    BY <1>2, StepIsStep, SettingsStep DEF IndexInv
  <2>2. tables' = TablesOf(documents')
    <3>1. CASE \E r \in Runs : PersistTables(r)
      BY <3>1, TablesPersisted
    <3>2. CASE ~ \E r \in Runs : PersistTables(r)
      <4>1. UNCHANGED <<tables, documents>>
        BY <1>2, <3>2 DEF IndexNext, EditFile, Restart, CheckRunning, CreateRun, BuildManifest, CreateSource,
           PlanRefresh, LoadTexts, MarkSucceeded, MarkFailed, WriteAudit, RaiseInTry, Idle, vars
      <4> QED BY <4>1 DEF IndexInv
    <3> QED BY <3>1, <3>2
  <2> QED BY <2>1, <2>2 DEF IndexInv
<1> QED BY <1>1, <1>2

\* The statements of a refresh, in whatever order its sources come and under the
\* cascades and keys of the tables, leave what its one assignment promises; and
\* every text is cut as well as can be.
THEOREM IndexStaysWhole == IndexSpec => []IndexIsWhole
<1>1. IndexInit => IndexInv
  <2> SUFFICES ASSUME IndexInit PROVE IndexInv
    OBVIOUS
  <2>1. documents = NoSources /\ \A r \in Runs : pc[r] = "idle"
    BY DEF IndexInit, Init
  <2>2. Present(documents) = {}
    BY <2>1 DEF Present, NoSources
  <2>3. /\ Prints(documents) = NoSources /\ AllRows(documents) = {} /\ AllVectors(documents) = {}
    BY <2>2 DEF Prints, NoSources, AllRows, AllVectors
  <2>4. tables = TablesOf(documents)
    BY <2>3, TablesOfDocuments DEF IndexInit, Table
  <2> QED BY <2>1, <2>4 DEF IndexInv, SettingsAreCurrent
<1>2. IndexInv => IndexIsWhole
  BY CutsAreAlwaysBest DEF IndexInv, IndexIsWhole
<1>3. IndexInit => Init
  BY DEF IndexInit
<1>4. [IndexNext]_indexVars => [Next]_vars
  BY StepIsStep DEF indexVars
<1> QED BY <1>1, <1>2, <1>3, <1>4, InitInv, NextInv, TablesStep, PTL DEF IndexSpec

=============================================================================
