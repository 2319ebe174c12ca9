----------------------------- MODULE LocalState -----------------------------
(***************************************************************************)
(* The schema and the demonstration data of a local database: the          *)
(* bootstrap script, the reset script, and the migration check of the      *)
(* admin status, with RiskBatch as one of the users of the tables.         *)
(*                                                                         *)
(* apply_local_sql_plan runs in one transaction: it looks each script up   *)
(* in the ledger public.local_sql_scripts, executes it if it is not there, *)
(* and enters it.  A reset applies the scripts and then empties its tables *)
(* with a TRUNCATE each, in a second transaction.                          *)
(***************************************************************************)
EXTENDS RiskBatch

CONSTANTS Jobs,               \* processes, each for one of the two scripts
          Checks,             \* requests for the migration check
          Migrations, Seeds,  \* the files under sql/ of the newest release
          released,           \* [Scripts -> Nat]: the release a file came with
          name,               \* [Scripts -> Nat]: its place in the order of the names
          Releases,           \* the newest release
          Creates,            \* [Scripts -> SUBSET Tables]
          Discards,           \* [Scripts -> SUBSET Tables]: where it undoes what users did
          Takes,              \* [Scripts -> Seq(Lock)]: the locks of its statements, in their order
          None

Scripts == Migrations \cup Seeds

\* Both scopes begin with them.
RUNTIME_RESET_TABLES ==
    <<"risk.risk_alert_approvals", "risk.risk_alert_status_events", "risk.risk_alerts",
      "risk.batch_score_results", "risk.batch_score_runs", "audit.tool_call_logs",
      "audit.audit_events", "convo.chat_messages", "convo.chat_sessions", "iam.auth_sessions",
      "iam.api_tokens", "knowledge.ingestion_run_sources", "knowledge.ingestion_runs">>

\* Of the other tables, those in which a script may undo something.
Tables == {RUNTIME_RESET_TABLES[i] : i \in DOMAIN RUNTIME_RESET_TABLES}
            \cup {"knowledge.chunk_embeddings", "iam.users"}

\* The foreign keys of the migrations between these tables.
ReferencedBy(table) ==
    CASE table = "risk.risk_alerts" -> {"risk.risk_alert_approvals", "risk.risk_alert_status_events"}
      [] table = "risk.batch_score_runs" -> {"risk.batch_score_results"}
      [] table = "convo.chat_messages" -> {"risk.risk_alerts", "audit.tool_call_logs"}
      [] table = "convo.chat_sessions" -> {"convo.chat_messages", "risk.risk_alerts", "audit.tool_call_logs"}
      [] table = "knowledge.ingestion_runs" -> {"knowledge.ingestion_run_sources"}
      [] table = "iam.users" -> Tables \ {"iam.users", "knowledge.chunk_embeddings", "convo.chat_messages",
                                          "risk.batch_score_results", "knowledge.ingestion_run_sources"}
      [] OTHER -> {}

\* A script stands for the rows and the entries of the catalog that it adds.
Lock == [on : SUBSET (Tables \cup Scripts),
         mode : {"share", "row exclusive", "share row exclusive", "access exclusive"}]

Conflict(a, b) ==
    a.on \cap b.on # {} /\ ~(a.mode = b.mode /\ a.mode \in {"share", "row exclusive"})

ASSUME ScriptsAssumption ==
    /\ Migrations \cap Seeds = {} /\ None \notin Scripts \cup {"ready"} /\ IsFiniteSet(Scripts)
    /\ Releases \in Nat \ {0}
    /\ released \in [Scripts -> 1..Releases] /\ name \in [Scripts -> Nat]
    /\ \A s, t \in Migrations : name[s] = name[t] => s = t
    /\ \A s, t \in Seeds : name[s] = name[t] => s = t
    /\ Creates \in [Scripts -> SUBSET Tables] /\ Discards \in [Scripts -> SUBSET Tables]
    /\ Takes \in [Scripts -> Seq(Lock)]

VARIABLES
    release,     \* the release that is checked out
    prepared,    \* the table of the ledger exists
    ledger,      \* public.local_sql_scripts
    applied,     \* per script: how often its effects were committed (history)
    work,        \* tables that hold something users did
    job,         \* per process: where it is
    check        \* per migration check: where it is

stateVars == <<release, prepared, ledger, applied, work>>
vars == <<stateVars, job, check, batchVars>>

\* build_local_sql_plan
PlanOf(r) == {s \in Scripts : released[s] <= r}

NoJob == [kind |-> None, step |-> "idle", plan |-> {}, passed |-> {}, created |-> FALSE,
          script |-> None, taken |-> 0, executed |-> {}, truncated |-> 0, outcome |-> None]

\* An empty database, or one of a release.
Init ==
    /\ release \in 1..Releases
    /\ \E r \in 0..release : ledger = PlanOf(r) /\ prepared = (r > 0)
    /\ applied = [s \in Scripts |-> IF s \in ledger THEN 1 ELSE 0]
    /\ work = {}
    /\ job = [j \in Jobs |-> NoJob]
    /\ check = [c \in Checks |-> [step |-> "idle", expected |-> {}, state |-> None]]
    /\ BatchInit

Exists(table) == \E s \in Scripts : applied[s] > 0 /\ table \in Creates[s]

TruncatedBy(j) == {RUNTIME_RESET_TABLES[i] : i \in 1..job[j].truncated}

LocksOf(s) == {Takes[s][i] : i \in DOMAIN Takes[s]}

Emptying(table) == [on |-> {table}, mode |-> "access exclusive"]

\* A process keeps its locks until its transaction ends.
Locks(j) ==
    {Takes[job[j].script][i] : i \in 1..job[j].taken}
      \cup {Emptying(table) : table \in TruncatedBy(j)}
      \cup UNION {LocksOf(s) : s \in job[j].executed}

Others(j) == Jobs \ {j}

Go(j, state) ==
    /\ job' = [job EXCEPT ![j] = state]
    /\ UNCHANGED <<check, batchVars>>

\* The connection is closed, and with it whatever is not committed is undone.
Ended(j, outcome) == [NoJob EXCEPT !.kind = job[j].kind, !.step = "ended", !.outcome = outcome]

Raise(j) == Go(j, Ended(j, "failed"))

----------------------------------------------------------------------------
(* apply_local_sql_plan *)

\* main of either script; a reset refuses a target that is not local, and
\* without --confirm only prints its plan.
Start(j) ==
    /\ job[j].step = "idle"
    /\ \/ \E kind \in {"bootstrap", "reset"} :
            Go(j, [job[j] EXCEPT !.kind = kind, !.step = "create", !.plan = PlanOf(release)])
       \/ \E outcome \in {"refused", "dry_run"} :
            Go(j, [Ended(j, outcome) EXCEPT !.kind = "reset"])
    /\ UNCHANGED stateVars

\* CREATE TABLE IF NOT EXISTS waits for another that is creating it.
CreateLedger(j) ==
    /\ job[j].step = "create"
    /\ ~prepared => \A k \in Others(j) : ~job[k].created
    /\ Go(j, [job[j] EXCEPT !.step = "select", !.created = ~prepared])
    /\ UNCHANGED stateVars

\* Migrations before seeds, each sorted by name.
Precedes(s, t) ==
    \/ s \in Migrations /\ t \in Seeds
    \/ {s, t} \subseteq Migrations /\ name[s] < name[t]
    \/ {s, t} \subseteq Seeds /\ name[s] < name[t]

\* bug: those that are missing, as the directory lists them, forwards or backwards
NextListed(j) ==
    LET rest == job[j].plan \ (job[j].passed \cup ledger)
    IN {s \in rest : (\A t \in rest : ~Precedes(t, s)) \/ (\A t \in rest : ~Precedes(s, t))}

NextScripts(j) ==
    {s \in job[j].plan \ job[j].passed : \A t \in job[j].plan \ job[j].passed : ~Precedes(t, s)}

SelectScript(j) ==
    /\ job[j].step = "select"
    /\ \/ /\ NextScripts(j) = {}
          /\ Go(j, [job[j] EXCEPT !.step = "commit"])
       \/ \E s \in NextScripts(j) :
            Go(j, IF s \in ledger THEN [job[j] EXCEPT !.passed = @ \cup {s}]
                                  ELSE [job[j] EXCEPT !.script = s, !.step = "execute"])
    /\ UNCHANGED stateVars

\* The next lock that the script or the reset asks for; after the script's last, none.
NextLock(j) ==
    IF job[j].step = "truncate"
      THEN {Emptying(RUNTIME_RESET_TABLES[job[j].truncated + 1])}
    ELSE IF job[j].step = "execute"
      THEN {Takes[job[j].script][i] : i \in DOMAIN Takes[job[j].script] \cap {job[j].taken + 1}}
    ELSE {}

\* Whom the next statement waits for: for a lock, or for an entry of the same
\* script in the ledger.
WaitsFor(j) ==
    {k \in Others(j) :
       \/ \E mine \in NextLock(j), theirs \in Locks(k) : Conflict(mine, theirs)
       \/ job[j].step = "insert" /\ job[j].script \in job[k].executed}

\* The script, lock by lock.  What was committed meanwhile is found (IF NOT
\* EXISTS, ON CONFLICT), or raises (Fail).
Execute(j) ==
    /\ job[j].step = "execute" /\ WaitsFor(j) = {}
    /\ Go(j, IF NextLock(j) = {} THEN [job[j] EXCEPT !.step = "insert"] ELSE [job[j] EXCEPT !.taken = @ + 1])
    /\ UNCHANGED stateVars

Entered(j) ==
    [job[j] EXCEPT !.step = "select", !.passed = @ \cup {job[j].script},
                   !.executed = @ \cup {job[j].script}, !.script = None, !.taken = 0]

\* bug: ON CONFLICT DO NOTHING
InsertUnlessThere(j) ==
    /\ job[j].step = "insert" /\ WaitsFor(j) = {}
    /\ Go(j, Entered(j))
    /\ UNCHANGED stateVars

\* The primary key of the ledger.
InsertLedger(j) ==
    /\ job[j].step = "insert" /\ WaitsFor(j) = {}
    /\ IF job[j].script \in ledger THEN Raise(j) ELSE Go(j, Entered(j))
    /\ UNCHANGED stateVars

\* The commit, whose acknowledgement may be lost; a reset goes on.
CommitScripts(j) ==
    /\ job[j].step = "commit"
    /\ prepared' = TRUE
    /\ ledger' = ledger \cup job[j].executed
    /\ applied' = [s \in Scripts |-> IF s \in job[j].executed THEN applied[s] + 1 ELSE applied[s]]
    /\ work' = work \ UNION {Discards[s] : s \in job[j].executed}
    /\ \/ Raise(j)
       \/ job[j].kind = "bootstrap" /\ Go(j, Ended(j, "succeeded"))
       \/ job[j].kind = "reset" /\ Go(j, [Ended(j, None) EXCEPT !.step = "truncate"])
    /\ UNCHANGED release

----------------------------------------------------------------------------
(* LocalResetService.execute *)

\* SELECT COUNT(*) and TRUNCATE of the next table, which PostgreSQL refuses for
\* a table that others refer to.  The third is one, so what follows the loop,
\* the seeds and the keys of Redis, is never reached.
TruncateNext(j) ==
    LET table == RUNTIME_RESET_TABLES[job[j].truncated + 1] IN
    /\ job[j].step = "truncate" /\ WaitsFor(j) = {}
    /\ IF Exists(table) /\ \A t \in ReferencedBy(table) : ~Exists(t)
         THEN Go(j, [job[j] EXCEPT !.truncated = @ + 1])
         ELSE Raise(j)
    /\ UNCHANGED stateVars

\* Any call raises, or the process dies.
Fail(j) ==
    /\ job[j].step \notin {"idle", "ended"}
    /\ Raise(j)
    /\ UNCHANGED stateVars

----------------------------------------------------------------------------
(* AdminRuntimeStatusService._migration_status *)

\* The files are counted first, and then the ledger.
StartCheck(c) ==
    /\ check[c].step = "idle"
    /\ check' = [check EXCEPT ![c].step = "count", ![c].expected = PlanOf(release) \cap Migrations]
    /\ UNCHANGED <<stateVars, job, batchVars>>

\* bug: without WHERE script_type = 'migration'
EntriesOfAnyType == Cardinality(ledger)

MigrationEntries == Cardinality(ledger \cap Migrations)

FinishCheck(c) ==
    /\ check[c].step = "count"
    /\ \E state \in {"unavailable",
                     IF ~prepared THEN "unavailable"
                     ELSE IF MigrationEntries < Cardinality(check[c].expected) THEN "degraded" ELSE "ready"} :
         check' = [check EXCEPT ![c].step = "ended", ![c].state = state]
    /\ UNCHANGED <<stateVars, job, batchVars>>

----------------------------------------------------------------------------
(* Surroundings *)

\* A newer release is checked out.
Upgrade ==
    /\ release < Releases
    /\ release' = release + 1
    /\ UNCHANGED <<prepared, ledger, applied, work, job, check, batchVars>>

\* The other modules' handlers write to a table.
Work(table) ==
    /\ Exists(table) /\ table \notin work
    /\ \A j \in Jobs : \A lock \in Locks(j) : table \notin lock.on
    /\ work' = work \cup {table}
    /\ UNCHANGED <<release, prepared, ledger, applied, job, check, batchVars>>

\* A batch finds its tables, or its first statement raises.
Batch(b) ==
    /\ \/ ScoreBatch(b)
       \/ Exists("risk.batch_score_runs") /\ InsertRun(b)
       \/ InsertResult(b) \/ CommitBatch(b) \/ FailBatch(b)
    /\ UNCHANGED <<stateVars, job, check>>

Proceed(j) ==
    CreateLedger(j) \/ SelectScript(j) \/ Execute(j) \/ InsertLedger(j) \/ CommitScripts(j) \/ TruncateNext(j)

Next ==
    \/ \E j \in Jobs : Start(j) \/ Proceed(j) \/ Fail(j)
    \/ \E c \in Checks : StartCheck(c) \/ FinishCheck(c)
    \/ \E b \in Batches : Batch(b)
    \/ \E table \in Tables : Work(table)
    \/ Upgrade

Spec == Init /\ [][Next]_vars

----------------------------------------------------------------------------
(* Properties *)

Steps == {"idle", "create", "select", "execute", "insert", "commit", "truncate", "ended"}
JobState == [kind : {"bootstrap", "reset", None}, step : Steps, plan : SUBSET Scripts, passed : SUBSET Scripts,
             created : BOOLEAN, script : Scripts \cup {None}, taken : Nat, executed : SUBSET Scripts,
             truncated : 0..2, outcome : {"succeeded", "failed", "refused", "dry_run", None}]

\* Type invariant; a reset gets to its third table at most.
TypeOK ==
    /\ release \in 1..Releases /\ prepared \in BOOLEAN
    /\ ledger \subseteq Scripts /\ applied \in [Scripts -> Nat] /\ work \subseteq Tables
    /\ job \in [Jobs -> JobState]
    /\ check \in [Checks -> [step : {"idle", "count", "ended"}, expected : SUBSET Migrations,
                             state : {"unavailable", "degraded", "ready", None}]]

\* However many processes apply the scripts, at once or again, and wherever one
\* stops, the effects of a script are there exactly once if the ledger has it,
\* and not at all otherwise (apply_local_sql_plan's one transaction).
AppliedOnce ==
    \A s \in Scripts : applied[s] = IF s \in ledger THEN 1 ELSE 0

\* The commit of a bootstrap, or of the scripts a reset begins with, undoes what
\* users did only where it applies a script for the first time: a script that
\* several processes run, because none found it in the ledger, counts once.
WorkSurvives ==
    [][\A j \in Jobs : CommitScripts(j) =>
         \A table \in work \ work' : \E s \in ledger' \ ledger : table \in Discards[s]]_vars

\* What a script holds when another process, running it too, still gets as far:
\* its locks before the first that keeps the other out.
Shared(s) ==
    {i \in DOMAIN Takes[s] : \A n \in 1..i : ~Conflict(Takes[s][n], Takes[s][n])}

\* Neither the rest of the script nor a later one of the plan needs those locks
\* for itself.  006 does: it deletes from the table it then alters.
KeepsOrder(s, plan) ==
    \A t \in plan : ~Precedes(t, s) =>
        \A i \in Shared(s), n \in DOMAIN Takes[t] : ~Conflict(Takes[s][i], Takes[t][n])

\* Any number of processes of one release, at scripts that nobody has committed
\* meanwhile, never wait for each other in a circle, and resets never do: one of
\* them waits for none of the rest (sorted(), and one order of the tables).
NoCircle ==
    \A S \in SUBSET Jobs :
        /\ S # {}
        /\ \/ \A j \in S : job[j].step = "truncate"
           \/ \A j, k \in S :
                /\ job[j].step \in {"execute", "insert"} /\ job[j].plan = job[k].plan
                /\ job[j].script \notin ledger /\ KeepsOrder(job[j].script, job[j].plan)
        => \E j \in S : WaitsFor(j) \cap S = {}

\* "ready" means that every migration of the release that was checked out when
\* the check began is in the database.
ReadyMeansMigrated ==
    \A c \in Checks : check[c].state = "ready" => check[c].expected \subseteq ledger

\* What the command, the runbook and a test say of a confirmed reset: it clears
\* the tables that it lists.  PostgreSQL refuses the third one.
ResetClears ==
    [][\A j \in Jobs : TruncateNext(j) => job'[j].step = "truncate"]_vars
=============================================================================
