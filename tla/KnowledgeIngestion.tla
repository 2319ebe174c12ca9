------------------------- MODULE KnowledgeIngestion -------------------------
(***************************************************************************)
(* The refresh of the knowledge index: POST /admin/knowledge/ingestion-runs*)
(* (KnowledgeIngestionService.run_manual_refresh).                         *)
(*                                                                         *)
(* A refresh records a run, reads every file of the manifest for its       *)
(* checksum, compares it with the last succeeded run, reads the files to   *)
(* index again, replaces their documents in one transaction, and only then *)
(* marks the run succeeded.  Each repository call outside that transaction *)
(* commits on its own, so a failure or a crash between any two of them     *)
(* leaves the ledger (runs and their sources) and the index (documents and *)
(* chunks) as the calls before it left them.                               *)
(***************************************************************************)
EXTENDS Integers, FiniteSets

CONSTANTS Sources,    \* source ids
          Contents,   \* what a source file may hold
          Blank,      \* a content without a paragraph, hence without a chunk
          Configs,    \* embedding settings: provider, model and dimensions
          Manifests,  \* sets of sources a deployed version may list
          Runs,       \* refresh requests; also the run ids they draw
          None

ASSUME NoneAssumption == None \notin Contents \cup Configs \cup Runs
ASSUME NoDocumentAssumption ==
    None \notin [content : Contents, config : Configs]
           \cup [fingerprint : [content : Contents, config : Configs], text : Contents, by : Runs]
ASSUME ManifestsAssumption == Manifests # {} /\ Manifests \subseteq SUBSET Sources

VARIABLES
    \* outside the database
    files,        \* the content of every source file
    manifest,     \* DEFAULT_INGESTION_DOCUMENTS of the running version
    config,       \* embedding settings of the running version
    \* the ledger: knowledge.ingestion_runs, ingestion_run_sources, audit events
    runs, runSources, latest, audit,
    \* the index: knowledge_documents with the text of their chunks
    documents,
    \* handlers
    pc, work,
    \* history: sources whose index write no succeeded run has recorded
    unrecorded

ledger == <<runs, runSources, latest, audit>>
world == <<files, manifest, config>>
vars == <<files, manifest, config, runs, runSources, latest, audit, documents,
          pc, work, unrecorded>>

\* build_index_fingerprint: a key for the content and the embedding settings
Fingerprint(content) == [content |-> content, config |-> config]

NoRun == [status |-> "none", config |-> None, dimensions |-> FALSE]
StartedRun == [status |-> "running", config |-> None, dimensions |-> FALSE]
NoSources == [s \in Sources |-> None]
NoWork == [sources |-> NoSources, reindex |-> {}, removed |-> {}, texts |-> NoSources, edited |-> {}]

\* Labels between which the exception handler of run_manual_refresh applies
Try == {"manifest", "sources", "plan", "load", "persist", "mark_succeeded"}
Body == Try \cup {"audit_succeeded", "mark_failed", "audit_failed"}

Running == {r \in Runs : runs[r].status = "running"}
Recorded(r) == {s \in Sources : runSources[r][s] # None}

Init ==
    /\ files \in [Sources -> Contents]
    /\ manifest \in Manifests
    /\ config \in Configs
    /\ runs = [r \in Runs |-> NoRun]
    /\ runSources = [r \in Runs |-> NoSources]
    /\ latest = None
    /\ audit = {}
    /\ documents = NoSources
    /\ pc = [r \in Runs |-> "idle"]
    /\ work = [r \in Runs |-> NoWork]
    /\ unrecorded = {}

Goto(r, label) == pc' = [pc EXCEPT ![r] = label]

\* What is left of a handler's variables once they are out of use: the edits
\* during the run are kept as history.
Forgotten(w) == [NoWork EXCEPT !.edited = w.edited]
Leave(r, label) ==
    /\ Goto(r, label)
    /\ work' = [work EXCEPT ![r] = Forgotten(@)]

----------------------------------------------------------------------------
(* Outside the handler *)

\* Somebody edits a source file.
EditFile(s, content) ==
    /\ files[s] # content
    /\ files' = [files EXCEPT ![s] = content]
    /\ work' = [r \in Runs |-> IF pc[r] \in {"sources", "plan", "load"}
                                 THEN [work[r] EXCEPT !.edited = @ \cup {s}] ELSE work[r]]
    /\ UNCHANGED <<manifest, config, ledger, documents, pc, unrecorded>>

\* The API process stops, by a crash or for a new version, and starts again.
Restart(m, c) ==
    /\ manifest' = m
    /\ config' = c
    /\ pc' = [r \in Runs |-> IF pc[r] \in Body \cup {"create"} THEN "lost" ELSE pc[r]]
    /\ work' = [r \in Runs |-> IF pc[r] \in Body \cup {"create"} THEN Forgotten(work[r]) ELSE work[r]]
    /\ <<m, c>> # <<manifest, config>> \/ \E r \in Runs : pc[r] \in Body \cup {"create"}
    /\ UNCHANGED <<files, ledger, documents, unrecorded>>

----------------------------------------------------------------------------
(* run_manual_refresh *)

\* has_running_run; the refusal is answered with 409
CheckRunning(r) ==
    /\ pc[r] = "idle"
    /\ Goto(r, IF Running # {} THEN "done" ELSE "create")
    /\ UNCHANGED <<world, ledger, documents, work, unrecorded>>

\* bug: no unique index on the running status
CreateRunUnchecked(r) ==
    /\ pc[r] = "create"
    /\ runs' = [runs EXCEPT ![r] = StartedRun]
    /\ Goto(r, "manifest")
    /\ UNCHANGED <<world, runSources, latest, audit, documents, work, unrecorded>>

\* create_run, outside the try block.  The unique index admits one running run;
\* when the insert is committed but not acknowledged the exception leaves it behind.
CreateRun(r) ==
    /\ pc[r] = "create"
    /\ \/ /\ Running = {}
          /\ runs' = [runs EXCEPT ![r] = StartedRun]
          /\ Goto(r, "manifest") \/ Goto(r, "done")
       \/ Goto(r, "done") /\ UNCHANGED runs
    /\ UNCHANGED <<world, runSources, latest, audit, documents, work, unrecorded>>

\* build_source_manifest reads every file of the manifest
BuildManifest(r) ==
    /\ pc[r] = "manifest"
    /\ work' = [work EXCEPT ![r].sources =
                  [s \in Sources |-> IF s \in manifest THEN Fingerprint(files[s]) ELSE None]]
    /\ Goto(r, "sources")
    /\ UNCHANGED <<world, ledger, documents, unrecorded>>

Listed(r) == {s \in Sources : work[r].sources[s] # None}

CreateSource(r) ==
    /\ pc[r] = "sources"
    /\ \/ \E s \in Listed(r) \ Recorded(r) :
            /\ runSources' = [runSources EXCEPT ![r][s] = work[r].sources[s]]
            /\ UNCHANGED pc
       \/ /\ Listed(r) = Recorded(r)
          /\ Goto(r, "plan")
          /\ UNCHANGED runSources
    /\ UNCHANGED <<world, runs, latest, audit, documents, work, unrecorded>>

\* build_refresh_plan_from_sources: what the last succeeded run recorded
Before == IF latest = None THEN NoSources ELSE runSources[latest]

\* bug: the checksums are compared, not the fingerprints, and the settings are not
PlanByContent(r) ==
    LET now == work[r].sources
        before == Before
        same(s) == before[s] # None /\ before[s].content = now[s].content IN
    /\ pc[r] = "plan"
    /\ work' = [work EXCEPT ![r] = [@ EXCEPT
                  !.reindex = {s \in Listed(r) : ~same(s)},
                  !.removed = {s \in Sources : before[s] # None} \ Listed(r)]]
    /\ Goto(r, "load")
    /\ UNCHANGED <<world, ledger, documents, unrecorded>>

\* build_knowledge_ingestion_change_plan: compare with the last succeeded run
PlanRefresh(r) ==
    LET now == work[r].sources
        before == Before
        configChanged == latest # None /\ (runs[latest].config # config \/ ~runs[latest].dimensions)
        changed == {s \in Listed(r) : now[s] # before[s]} IN
    /\ pc[r] = "plan"
    /\ work' = [work EXCEPT ![r] = [@ EXCEPT
                  !.reindex = IF configChanged THEN Listed(r) ELSE changed,
                  !.removed = {s \in Sources : before[s] # None} \ Listed(r)]]
    /\ Goto(r, "load")
    /\ UNCHANGED <<world, ledger, documents, unrecorded>>

\* The files to index are read again, cut into chunks and embedded.
LoadTexts(r) ==
    /\ pc[r] = "load"
    /\ work' = [work EXCEPT ![r].texts =
                  [s \in Sources |-> IF s \in work[r].reindex THEN files[s] ELSE None]]
    /\ Goto(r, "persist")
    /\ UNCHANGED <<world, ledger, documents, unrecorded>>

\* bug: the document is updated, its chunks are not replaced
KeepChunks(r) ==
    LET text(s) == IF documents[s] = None THEN work[r].texts[s] ELSE documents[s].text IN
    /\ pc[r] = "persist"
    /\ documents' = [s \in Sources |->
          IF s \in work[r].reindex
            THEN [fingerprint |-> work[r].sources[s], text |-> text(s), by |-> r]
          ELSE IF s \in work[r].removed THEN None ELSE documents[s]]
    /\ unrecorded' = unrecorded \cup work[r].reindex \cup work[r].removed
    /\ Goto(r, "mark_succeeded")
    /\ UNCHANGED <<world, ledger, work>>

\* bug: the documents of removed sources stay
KeepRemoved(r) ==
    /\ pc[r] = "persist"
    /\ documents' = [s \in Sources |->
          IF s \in work[r].reindex
            THEN [fingerprint |-> work[r].sources[s], text |-> work[r].texts[s], by |-> r]
          ELSE documents[s]]
    /\ unrecorded' = unrecorded \cup work[r].reindex \cup work[r].removed
    /\ Goto(r, "mark_succeeded")
    /\ UNCHANGED <<world, ledger, work>>

\* persist_refresh_batch_in_transaction.  The commit may be lost on its way back.
PersistIndex(r) ==
    /\ pc[r] = "persist"
    /\ documents' = [s \in Sources |->
          IF s \in work[r].reindex
            THEN [fingerprint |-> work[r].sources[s], text |-> work[r].texts[s], by |-> r]
          ELSE IF s \in work[r].removed THEN None ELSE documents[s]]
    /\ unrecorded' = unrecorded \cup work[r].reindex \cup work[r].removed
    /\ \/ Goto(r, "mark_succeeded") /\ UNCHANGED work
       \/ Leave(r, "mark_failed")
    /\ UNCHANGED <<world, ledger>>

\* bug: the audit event is written although the run was not marked
SkipMark(r) ==
    /\ pc[r] = "mark_succeeded"
    /\ Goto(r, "audit_succeeded")
    /\ UNCHANGED <<world, ledger, documents, work, unrecorded>>

\* mark_succeeded; the dimensions are those of the first vector, if there is one
MarkSucceeded(r) ==
    /\ pc[r] = "mark_succeeded"
    /\ runs' = [runs EXCEPT ![r] =
                  [status |-> "succeeded", config |-> config,
                   dimensions |-> \E s \in work[r].reindex : work[r].texts[s] # Blank]]
    /\ latest' = r
    /\ unrecorded' = unrecorded \ (work[r].reindex \cup work[r].removed)
    /\ Leave(r, "audit_succeeded") \/ Leave(r, "mark_failed")
    /\ UNCHANGED <<world, runSources, audit, documents>>

\* Any call of the try block raises without having had its effect.
RaiseInTry(r) ==
    /\ pc[r] \in Try
    /\ Leave(r, "mark_failed")
    /\ UNCHANGED <<world, ledger, documents, unrecorded>>

\* bug: the UPDATE does not ask whether the run is still running
MarkFailedUnguarded(r) ==
    /\ pc[r] = "mark_failed"
    /\ runs' = [runs EXCEPT ![r].status = "failed"]
    /\ Goto(r, "audit_failed")
    /\ UNCHANGED <<world, runSources, latest, audit, documents, work, unrecorded>>

\* mark_failed, WHERE status = 'running'.  It may raise too, with or without
\* its effect; nothing catches that.
MarkFailed(r) ==
    /\ pc[r] = "mark_failed"
    /\ \/ /\ runs' = [runs EXCEPT ![r].status = IF @ = "running" THEN "failed" ELSE @]
          /\ Goto(r, "audit_failed") \/ Goto(r, "done")
       \/ Goto(r, "done") /\ UNCHANGED runs
    /\ UNCHANGED <<world, runSources, latest, audit, documents, work, unrecorded>>

\* _write_audit_event swallows every exception.
WriteAudit(r) ==
    /\ pc[r] \in {"audit_succeeded", "audit_failed"}
    /\ LET event == [run |-> r, type |-> IF pc[r] = "audit_succeeded" THEN "succeeded" ELSE "failed"]
       IN audit' \in {audit, audit \cup {event}}
    /\ Goto(r, "done")
    /\ UNCHANGED <<world, runs, runSources, latest, documents, work, unrecorded>>

Proceed(r) ==
    \/ CreateRun(r) \/ BuildManifest(r) \/ CreateSource(r) \/ PlanRefresh(r) \/ LoadTexts(r)
    \/ PersistIndex(r) \/ MarkSucceeded(r) \/ MarkFailed(r) \/ WriteAudit(r)

Idle == (\A r \in Runs : pc[r] \in {"done", "lost"}) /\ UNCHANGED vars

Next ==
    \/ \E s \in Sources, content \in Contents : EditFile(s, content)
    \/ \E m \in Manifests, c \in Configs : Restart(m, c)
    \/ \E r \in Runs : CheckRunning(r) \/ Proceed(r) \/ RaiseInTry(r)
    \/ Idle

Spec == Init /\ [][Next]_vars

\* The thread pool keeps running a handler it has started.
FairSpec == Spec /\ \A r \in Runs : WF_vars(Proceed(r))

----------------------------------------------------------------------------
(* Properties *)

FingerprintType == [content : Contents, config : Configs]

\* Type invariant; the statuses are those of ingestion_runs_status_check.
TypeOK ==
    /\ files \in [Sources -> Contents] /\ manifest \in Manifests /\ config \in Configs
    /\ runs \in [Runs -> [status : {"none", "running", "succeeded", "failed"},
                          config : Configs \cup {None}, dimensions : BOOLEAN]]
    /\ runSources \in [Runs -> [Sources -> FingerprintType \cup {None}]]
    /\ latest \in Runs \cup {None}
    /\ audit \subseteq [run : Runs, type : {"succeeded", "failed"}]
    /\ documents \in [Sources ->
          [fingerprint : FingerprintType, text : Contents, by : Runs] \cup {None}]
    /\ pc \in [Runs -> Body \cup {"idle", "create", "done", "lost"}]
    /\ work \in [Runs -> [sources : [Sources -> FingerprintType \cup {None}],
                          reindex : SUBSET Sources, removed : SUBSET Sources,
                          texts : [Sources -> Contents \cup {None}], edited : SUBSET Sources]]
    /\ unrecorded \in SUBSET Sources

\* Two refreshes never work at the same time, although has_running_run and
\* create_run are separate statements: no two handlers are past create_run and
\* not yet marked.
OneRefreshAtATime ==
    \A r, q \in Runs : pc[r] \in Try /\ pc[q] \in Try => r = q

\* The ledger explains the index: a source has a document exactly if the last
\* succeeded run lists it, and with the fingerprint that run recorded, except
\* where the index transaction of a run that is not marked succeeded got in between.
LedgerExplainsIndex ==
    \A s \in Sources \ unrecorded :
      LET recorded == IF latest = None THEN None ELSE runSources[latest][s] IN
      IF recorded = None THEN documents[s] = None
                         ELSE documents[s] # None /\ documents[s].fingerprint = recorded

\* The text under a fingerprint is the text it was computed from, unless the
\* file was edited between the two times the run read it (build_source_manifest
\* and load_source_text).
TextMatchesFingerprint ==
    \A s \in Sources :
      LET d == documents[s] IN
      d # None /\ d.text # d.fingerprint.content => s \in work[d.by].edited

\* The audit trail never reports a success that the run does not have, and
\* reports one outcome per run.
AuditedSuccessIsReal ==
    /\ \A e \in audit : e.type = "succeeded" => runs[e.run].status = "succeeded"
    /\ \A e, f \in audit : e.run = f.run => e = f

\* A finished run keeps its outcome, even when mark_succeeded was committed and
\* its acknowledgement lost, so that mark_failed follows (WHERE status = 'running').
OutcomeIsFinal ==
    [][\A r \in Runs : runs[r].status \in {"succeeded", "failed"}
                         => runs'[r].status = runs[r].status]_vars

\* Documented, and not what happens after a crash: a refresh can be run again.
RefreshCanBeRerun == Running # {} ~> Running = {}

\* Expected by the refresh verification script, and not so after a refresh that
\* wrote no vector: a refresh of unchanged sources under unchanged settings is a no-op.
UnchangedIsNoOp ==
    \A r \in Runs :
      /\ pc[r] = "load" /\ latest # None
      /\ runs[latest].config = config /\ runSources[latest] = work[r].sources
      => work[r].reindex = {}
=============================================================================
