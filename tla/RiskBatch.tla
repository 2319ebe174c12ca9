----------------------------- MODULE RiskBatch -----------------------------
(***************************************************************************)
(* POST /risk/batch-score: RiskBatchScoreService scores the accounts asked *)
(* for and stores the run with its results in one transaction.  Whatever   *)
(* raises there, the caller gets the scores with the note that they were   *)
(* not stored.                                                             *)
(***************************************************************************)
EXTENDS Integers, Sequences, FiniteSets

CONSTANTS Batches,       \* requests
          Accounts,
          Profiled,      \* the accounts RiskService has a profile of
          MaxAccounts    \* bound: accounts in a request

ASSUME AccountsAssumption == Profiled \subseteq Accounts /\ IsFiniteSet(Accounts)
ASSUME MaxAccountsAssumption == MaxAccounts \in Nat

\* account_ids has at least one element, and may name an account twice.
AccountIds == UNION {[1..n -> Accounts] : n \in 1..MaxAccounts}

VARIABLES batch,         \* per request: its handler
          stored         \* per request: its row of batch_score_runs and the results

batchVars == <<batch, stored>>

NoRun == [run |-> FALSE, scored |-> 0, missing |-> 0, results |-> {}]

BatchInit ==
    /\ batch = [b \in Batches |-> [step |-> "idle", account_ids |-> <<>>, tx |-> NoRun,
                                   status |-> "none", acknowledged |-> TRUE]]
    /\ stored = [b \in Batches |-> NoRun]

\* RiskService.score_accounts_batch: the places of the accounts whose profile was found
Profiles(b) == {i \in DOMAIN batch[b].account_ids : batch[b].account_ids[i] \in Profiled}

InTransaction(b) == batch[b].step \in {"run", "results"}

Answer(b, status, acknowledged) ==
    batch' = [batch EXCEPT ![b].step = "ended", ![b].tx = NoRun,
                           ![b].status = status, ![b].acknowledged = acknowledged]

ScoreBatch(b) ==
    /\ batch[b].step = "idle"
    /\ \E account_ids \in AccountIds :
         batch' = [batch EXCEPT ![b].step = "run", ![b].account_ids = account_ids]
    /\ UNCHANGED stored

\* build_run_statement
RunRow(b) == [run |-> TRUE, scored |-> Cardinality(Profiles(b)),
              missing |-> Len(batch[b].account_ids) - Cardinality(Profiles(b)), results |-> {}]

\* bug: create_run, which commits
InsertRunAtOnce(b) ==
    /\ batch[b].step = "run"
    /\ batch' = [batch EXCEPT ![b].step = "results", ![b].tx = RunRow(b)]
    /\ stored' = [stored EXCEPT ![b] = RunRow(b)]

InsertRun(b) ==
    /\ batch[b].step = "run"
    /\ batch' = [batch EXCEPT ![b].step = "results", ![b].tx = RunRow(b)]
    /\ UNCHANGED stored

\* The result at place i is the next one, after as many as there are.
IsNext(i, b) == Cardinality({k \in Profiles(b) : k < i}) = Cardinality(batch[b].tx.results)

\* The next result; UNIQUE (run_id, account_id) refuses an account's second one.
InsertResult(b) ==
    /\ batch[b].step = "results"
    /\ \E i \in Profiles(b) :
         LET account_id == batch[b].account_ids[i] IN
         /\ IsNext(i, b)
         /\ IF account_id \in batch[b].tx.results
              THEN Answer(b, "degraded", TRUE)
              ELSE batch' = [batch EXCEPT ![b].tx.results = @ \cup {account_id}]
    /\ UNCHANGED stored

\* The commit, whose acknowledgement may be lost.
CommitBatch(b) ==
    /\ batch[b].step = "results" /\ Cardinality(batch[b].tx.results) = Cardinality(Profiles(b))
    /\ stored' = [stored EXCEPT ![b] = batch[b].tx]
    /\ Answer(b, "completed", TRUE) \/ Answer(b, "degraded", FALSE)

\* bug: what was inserted is committed
FailWithoutRollback(b) ==
    /\ InTransaction(b)
    /\ Answer(b, "degraded", TRUE)
    /\ stored' = [stored EXCEPT ![b] = batch[b].tx]

\* Connecting, a statement or the commit raises; or the process dies, without an answer.
FailBatch(b) ==
    /\ InTransaction(b)
    /\ Answer(b, "degraded", TRUE) \/ Answer(b, "none", TRUE)
    /\ UNCHANGED stored

----------------------------------------------------------------------------
(* Properties *)

\* A stored run is whole, with a result for each account of the request that has
\* a profile, no more and no fewer than its counts say; and what the caller is
\* told is true: "completed" of a run that is stored, and "degraded" of one that
\* is not, unless the acknowledgement was lost (the transaction, and the unique
\* constraint on the results).
BatchesAreTrue ==
    \A b \in Batches :
        /\ stored[b].run =>
             /\ stored[b].results = {batch[b].account_ids[i] : i \in DOMAIN batch[b].account_ids} \cap Profiled
             /\ stored[b].scored = Cardinality(stored[b].results)
             /\ stored[b].scored + stored[b].missing = Len(batch[b].account_ids)
        /\ ~stored[b].run => stored[b] = NoRun
        /\ batch[b].status = "completed" => stored[b].run
        /\ batch[b].status = "degraded" /\ batch[b].acknowledged => ~stored[b].run
=============================================================================
