------------------------- MODULE LocalState_proofs -------------------------
(***************************************************************************)
(* Proofs about LocalState, for any scripts, releases, processes, checks   *)
(* and batches.  Inv gives the types, with the table at which every reset  *)
(* stops; that the effects of a script are there once; and that what users *)
(* did survives.  PlansInv, on top of it, says that the ledger is always   *)
(* the plan of one release, so that the counts of a migration check can be *)
(* trusted; LocksAgree that locks are respected, from which and from the   *)
(* one order of the scripts it follows who may wait for whom; BatchesInv   *)
(* what a batch has inserted at each of its statements.                    *)
(***************************************************************************)
EXTENDS LocalState, NaturalRecursion, FiniteSetTheorems, TLAPS

\* Who has entered a script into the ledger keeps others from it, so it is not
\* committed meanwhile.
Uncommitted(j) == job[j].executed \cap ledger = {}

Exclusive == \A j, k \in Jobs : j # k => job[j].executed \cap job[k].executed = {}

\* A reset that has truncated a table has found it.
TruncatedExists == \A j \in Jobs : job[j].truncated > 0 => Exists(RUNTIME_RESET_TABLES[1])

\* What a process has handled comes first in the order, and what it executes is next.
Orderly(j) ==
    /\ job[j].passed \subseteq Scripts
    /\ \A s \in job[j].passed, t \in job[j].plan : Precedes(t, s) => t \in job[j].passed
    /\ job[j].step \in {"execute", "insert"} =>
         /\ job[j].script \in job[j].plan \ job[j].passed
         /\ \A t \in job[j].plan \ job[j].passed : ~Precedes(t, job[j].script)
    /\ job[j].executed \subseteq job[j].passed
    /\ job[j].step = "execute" => job[j].taken <= Len(Takes[job[j].script])
    /\ job[j].step = "insert" => job[j].taken = Len(Takes[job[j].script])
    /\ job[j].step \notin {"execute", "insert"} => job[j].taken = 0
    /\ job[j].step \in {"idle", "create", "truncate", "ended"} => job[j].executed = {} /\ job[j].passed = {}
    /\ job[j].step # "truncate" => job[j].truncated = 0

Inv ==
    /\ TypeOK
    /\ AppliedOnce
    /\ \A j \in Jobs : Uncommitted(j)
    /\ Exclusive
    /\ TruncatedExists
    /\ \A j \in Jobs : Orderly(j)

----------------------------------------------------------------------------
(* The steps, seen from a process: j goes on, all the others stay *)

\* An empty database, or one of a release, and no process.
LEMMA InitInv == Init => Inv
  <1> SUFFICES ASSUME Init PROVE Inv
    OBVIOUS
  <1> USE ScriptsAssumption
  <1>1. TypeOK
    BY DEF Init, NoJob, TypeOK, JobState, Steps, PlanOf
  <1>2. AppliedOnce
    BY DEF Init, AppliedOnce
  <1>3. /\ \A j \in Jobs : Uncommitted(j) /\ Orderly(j)
        /\ Exclusive /\ TruncatedExists
    BY DEF Init, NoJob, Uncommitted, Orderly, Exclusive, TruncatedExists
  <1> QED
    BY <1>1, <1>2, <1>3 DEF Inv

\* A step of process j that writes to no table but the job's own state.
JobStep(j, state) ==
    /\ job' = [job EXCEPT ![j] = state]
    /\ UNCHANGED <<stateVars, check>>

\* A step that changes one process only keeps the invariant, if what it says of that process holds afterwards.
LEMMA LocalInv ==
  ASSUME Inv, NEW j \in Jobs, NEW state, JobStep(j, state), state \in JobState,
         state.executed \cap ledger = {},
         \A k \in Jobs : k # j => state.executed \cap job[k].executed = {},
         state.truncated > 0 => Exists(RUNTIME_RESET_TABLES[1]),
         \A s \in state.passed, t \in state.plan : Precedes(t, s) => t \in state.passed,
         state.step \in {"execute", "insert"} =>
             /\ state.script \in state.plan \ state.passed
             /\ \A t \in state.plan \ state.passed : ~Precedes(t, state.script),
         state.executed \subseteq state.passed,
         state.step = "execute" => state.taken <= Len(Takes[state.script]),
         state.step = "insert" => state.taken = Len(Takes[state.script]),
         state.step \notin {"execute", "insert"} => state.taken = 0,
         state.step \in {"idle", "create", "truncate", "ended"} => state.executed = {} /\ state.passed = {},
         state.step # "truncate" => state.truncated = 0
  PROVE  Inv'
  <1>1. job \in [Jobs -> JobState] /\ job' \in [Jobs -> JobState]
    BY DEF Inv, TypeOK, JobStep
  <1>2. job'[j] = state /\ \A k \in Jobs : k # j => job'[k] = job[k]
    BY <1>1 DEF JobStep
  <1>3. /\ ledger' = ledger /\ applied' = applied /\ release' = release /\ prepared' = prepared
        /\ work' = work /\ check' = check
    BY DEF JobStep, stateVars
  <1>4. TypeOK'
    BY <1>1, <1>3 DEF Inv, TypeOK
  <1>5. AppliedOnce'
    BY <1>3 DEF Inv, AppliedOnce
  <1>6. \A k \in Jobs : Uncommitted(k)'
    BY <1>2, <1>3 DEF Inv, Uncommitted
  <1>7. Exclusive'
    BY <1>2 DEF Inv, Exclusive
  <1>8. TruncatedExists'
    BY <1>2, <1>3 DEF Inv, TruncatedExists, Exists
  <1>9. \A k \in Jobs : Orderly(k)'
    <2> TAKE k \in Jobs
    <2>1. CASE k = j
      BY <2>1, <1>2, <1>1 DEF Orderly, JobState
    <2>2. CASE k # j
      BY <2>2, <1>2 DEF Inv, Orderly
    <2> QED
      BY <2>1, <2>2
  <1> QED
    BY <1>4, <1>5, <1>6, <1>7, <1>8, <1>9 DEF Inv

\* A process that has ended holds nothing.
LEMMA EndedState ==
  ASSUME Inv, NEW j \in Jobs, NEW outcome \in {"failed", "succeeded", "refused", "dry_run", None},
         NEW state, state = Ended(j, outcome)
  PROVE  /\ state \in JobState /\ state.step = "ended" /\ state.kind = job[j].kind
         /\ state.plan = {} /\ state.passed = {} /\ state.executed = {}
         /\ state.truncated = 0 /\ state.taken = 0
  <1>1. job[j].kind \in {"bootstrap", "reset", None}
    BY DEF Inv, TypeOK, JobState
  <1>2. state = [kind |-> job[j].kind, step |-> "ended", plan |-> {}, passed |-> {}, created |-> FALSE,
                 script |-> None, taken |-> 0, executed |-> {}, truncated |-> 0, outcome |-> outcome]
    BY DEF Ended, NoJob
  <1> QED
    BY <1>1, <1>2 DEF JobState, Steps

\* Whatever ends a process without a commit.
LEMMA EndedInv ==
  ASSUME Inv, NEW j \in Jobs, NEW outcome \in {"failed", "succeeded", "refused", "dry_run"},
         NEW kind \in {"bootstrap", "reset", None},
         JobStep(j, [Ended(j, outcome) EXCEPT !.kind = kind])
  PROVE  Inv'
  <1> DEFINE state == [Ended(j, outcome) EXCEPT !.kind = kind]
  <1>1. job[j] \in JobState
    BY DEF Inv, TypeOK
  <1>2. /\ state \in JobState /\ state.executed = {} /\ state.truncated = 0 /\ state.passed = {}
        /\ state.step = "ended" /\ state.taken = 0
    BY <1>1, EndedState DEF JobState, Steps
  <1>3. JobStep(j, state)
    OBVIOUS
  <1> HIDE DEF state
  <1> QED
    BY <1>2, <1>3, LocalInv

\* An exception or a crash.
LEMMA FailedInv ==
  ASSUME Inv, NEW j \in Jobs, Raise(j), UNCHANGED stateVars
  PROVE  Inv'
  <1>1. job[j] \in JobState
    BY DEF Inv, TypeOK
  <1>2. Ended(j, "failed") = [Ended(j, "failed") EXCEPT !.kind = job[j].kind]
    BY EndedState DEF JobState
  <1>3. JobStep(j, [Ended(j, "failed") EXCEPT !.kind = job[j].kind])
    BY <1>2 DEF Raise, Go, JobStep
  <1> QED
    BY <1>1, <1>3, EndedInv DEF JobState

\* The start of either script.
LEMMA StartInv == ASSUME Inv, NEW j \in Jobs, Start(j) PROVE Inv'
  <1>1. job[j] \in JobState /\ Orderly(j) /\ job[j].step = "idle"
    BY DEF Inv, TypeOK, Start
  <1>2. TruncatedExists
    BY DEF Inv
  <1>3. ASSUME NEW kind \in {"bootstrap", "reset"},
               JobStep(j, [job[j] EXCEPT !.kind = kind, !.step = "create", !.plan = PlanOf(release)])
        PROVE  Inv'
    <2> DEFINE state == [job[j] EXCEPT !.kind = kind, !.step = "create", !.plan = PlanOf(release)]
    <2>1. /\ state \in JobState /\ state.executed = {} /\ state.passed = {} /\ state.taken = job[j].taken
          /\ state.truncated = job[j].truncated /\ state.step = "create"
      BY <1>1 DEF JobState, Steps, PlanOf, Orderly
    <2>2. JobStep(j, state)
      BY <1>3
    <2>3. state.truncated = 0 /\ state.taken = 0
      BY <1>1, <2>1 DEF Orderly
    <2> HIDE DEF state
    <2> QED
      BY <2>1, <2>2, <2>3, LocalInv
  <1> QED
    BY <1>3, EndedInv DEF Start, Go, JobStep

\* CREATE TABLE IF NOT EXISTS.
LEMMA CreateLedgerInv == ASSUME Inv, NEW j \in Jobs, CreateLedger(j) PROVE Inv'
  <1>1. job[j] \in JobState /\ Orderly(j) /\ job[j].step = "create"
    BY DEF Inv, TypeOK, CreateLedger
  <1>2. TruncatedExists /\ prepared \in BOOLEAN
    BY DEF Inv, TypeOK
  <1> DEFINE state == [job[j] EXCEPT !.step = "select", !.created = ~prepared]
  <1>3. /\ state \in JobState /\ state.executed = {} /\ state.passed = {} /\ state.taken = job[j].taken
        /\ state.truncated = job[j].truncated /\ state.step = "select"
    BY <1>1, <1>2 DEF JobState, Steps, Orderly
  <1>4. JobStep(j, state)
    BY DEF CreateLedger, Go, JobStep
  <1>5. state.truncated = 0 /\ state.taken = 0
    BY <1>1, <1>3 DEF Orderly
  <1> HIDE DEF state
  <1> QED
    BY <1>3, <1>4, <1>5, LocalInv

\* The next script of the plan, already in the ledger or not.
LEMMA SelectScriptInv == ASSUME Inv, NEW j \in Jobs, SelectScript(j) PROVE Inv'
  <1>1. job[j] \in JobState /\ Orderly(j) /\ job[j].step = "select"
    BY DEF Inv, TypeOK, SelectScript
  <1>2. TruncatedExists /\ Exclusive /\ Uncommitted(j)
    BY DEF Inv
  <1>3. job[j].truncated = 0
    BY <1>1 DEF Orderly
  <1>4. CASE JobStep(j, [job[j] EXCEPT !.step = "commit"])
    <2> DEFINE state == [job[j] EXCEPT !.step = "commit"]
    <2>1. /\ state \in JobState /\ state.executed = job[j].executed /\ state.passed = job[j].passed
          /\ state.plan = job[j].plan /\ state.truncated = job[j].truncated /\ state.step = "commit"
          /\ state.taken = job[j].taken
      BY <1>1 DEF JobState, Steps
    <2>2. JobStep(j, state)
      BY <1>4
    <2> HIDE DEF state
    <2> QED
      BY <1>1, <1>2, <1>3, <2>1, <2>2, LocalInv DEF Orderly, Exclusive, Uncommitted
  <1>5. ASSUME NEW s \in NextScripts(j), JobStep(j, [job[j] EXCEPT !.passed = @ \cup {s}])
        PROVE  Inv'
    <2> DEFINE state == [job[j] EXCEPT !.passed = @ \cup {s}]
    <2>0. s \in job[j].plan /\ \A t \in job[j].plan \ job[j].passed : ~Precedes(t, s)
      BY <1>5 DEF NextScripts
    <2>1. /\ state \in JobState /\ state.executed = job[j].executed /\ state.passed = job[j].passed \cup {s}
          /\ state.plan = job[j].plan /\ state.truncated = job[j].truncated /\ state.step = "select"
          /\ state.taken = job[j].taken
      BY <1>1, <2>0 DEF JobState, Steps
    <2>2. JobStep(j, state)
      BY <1>5
    <2>3. \A u \in state.passed, t \in state.plan : Precedes(t, u) => t \in state.passed
      BY <1>1, <2>0, <2>1 DEF Orderly
    <2>4. state.executed \subseteq state.passed /\ state.taken = 0
      BY <1>1, <2>1 DEF Orderly
    <2>5. /\ state.executed \cap ledger = {}
          /\ \A k \in Jobs : k # j => state.executed \cap job[k].executed = {}
      BY <1>2, <2>1 DEF Uncommitted, Exclusive
    <2> HIDE DEF state
    <2> QED
      BY <1>2, <1>3, <2>1, <2>2, <2>3, <2>4, <2>5, LocalInv
  <1>6. ASSUME NEW s \in NextScripts(j), JobStep(j, [job[j] EXCEPT !.script = s, !.step = "execute"])
        PROVE  Inv'
    <2> DEFINE state == [job[j] EXCEPT !.script = s, !.step = "execute"]
    <2>0. s \in job[j].plan \ job[j].passed /\ \A t \in job[j].plan \ job[j].passed : ~Precedes(t, s)
      BY <1>6 DEF NextScripts
    <2>1. /\ state \in JobState /\ state.executed = job[j].executed /\ state.passed = job[j].passed
          /\ state.plan = job[j].plan /\ state.truncated = job[j].truncated /\ state.step = "execute"
          /\ state.script = s /\ state.taken = job[j].taken
      BY <1>1, <2>0 DEF JobState, Steps
    <2>3. state.taken = 0 /\ Len(Takes[s]) \in Nat
      BY <1>1, <2>0, <2>1, ScriptsAssumption DEF Orderly, JobState
    <2>2. JobStep(j, state)
      BY <1>6
    <2> HIDE DEF state
    <2> QED
      BY <1>1, <1>2, <1>3, <2>0, <2>1, <2>2, <2>3, LocalInv DEF Orderly, Exclusive, Uncommitted
  <1> QED
    BY <1>4, <1>5, <1>6 DEF SelectScript, Go, JobStep

\* A script goes on, lock by lock.
LEMMA ExecuteInv == ASSUME Inv, NEW j \in Jobs, Execute(j) PROVE Inv'
  <1>1. job[j] \in JobState /\ Orderly(j) /\ Uncommitted(j) /\ job[j].step = "execute"
    BY DEF Inv, TypeOK, Execute
  <1>2. TruncatedExists /\ Exclusive
    BY DEF Inv
  <1>3. job[j].script \in Scripts /\ Takes[job[j].script] \in Seq(Lock) /\ job[j].truncated = 0
    BY <1>1, ScriptsAssumption DEF Orderly, JobState
  <1>4. ASSUME NEW step \in {"execute", "insert"}, NEW taken \in 0..Len(Takes[job[j].script]),
               step = "insert" => taken = Len(Takes[job[j].script]),
               JobStep(j, [job[j] EXCEPT !.step = step, !.taken = taken])
        PROVE  Inv'
    <2> DEFINE state == [job[j] EXCEPT !.step = step, !.taken = taken]
    <2>0. taken \in Nat
      BY <1>3
    <2>1. /\ state \in JobState /\ state.executed = job[j].executed /\ state.passed = job[j].passed
          /\ state.plan = job[j].plan /\ state.truncated = job[j].truncated /\ state.step = step
          /\ state.script = job[j].script /\ state.taken = taken
      BY <1>1, <2>0 DEF JobState, Steps
    <2>2. JobStep(j, state)
      BY <1>4
    <2>3. /\ state.taken <= Len(Takes[state.script])
          /\ state.step = "insert" => state.taken = Len(Takes[state.script])
      BY <1>3, <1>4, <2>1
    <2> HIDE DEF state
    <2> QED
      BY <1>1, <1>2, <1>3, <2>1, <2>2, <2>3, LocalInv DEF Orderly, Exclusive, Uncommitted
  <1>5. CASE NextLock(j) = {}
    <2>1. job[j].taken = Len(Takes[job[j].script]) /\ Len(Takes[job[j].script]) \in Nat
      <3>1. job[j].taken \in Nat /\ job[j].taken <= Len(Takes[job[j].script])
        BY <1>1 DEF Orderly, JobState
      <3>2. job[j].taken + 1 \notin DOMAIN Takes[job[j].script]
        BY <1>1, <1>5 DEF NextLock
      <3> QED
        BY <1>3, <3>1, <3>2
    <2>2. [job[j] EXCEPT !.step = "insert"] = [job[j] EXCEPT !.step = "insert", !.taken = job[j].taken]
      BY <1>1 DEF JobState
    <2>3. JobStep(j, [job[j] EXCEPT !.step = "insert", !.taken = job[j].taken])
      BY <1>5, <2>2 DEF Execute, Go, JobStep
    <2>4. job[j].taken \in 0..Len(Takes[job[j].script]) /\ "insert" \in {"execute", "insert"}
      BY <2>1
    <2> QED
      BY <1>4, <2>1, <2>3, <2>4
  <1>6. CASE NextLock(j) # {}
    <2>1. job[j].taken + 1 \in DOMAIN Takes[job[j].script]
      BY <1>1, <1>6 DEF NextLock
    <2>2. job[j].taken + 1 \in 0..Len(Takes[job[j].script])
      BY <1>3, <2>1
    <2>3. [job[j] EXCEPT !.taken = @ + 1] = [job[j] EXCEPT !.step = "execute", !.taken = job[j].taken + 1]
      BY <1>1 DEF JobState
    <2>4. JobStep(j, [job[j] EXCEPT !.step = "execute", !.taken = job[j].taken + 1])
      BY <1>6, <2>3 DEF Execute, Go, JobStep
    <2> QED
      BY <1>4, <2>2, <2>4
  <1> QED
    BY <1>5, <1>6

\* A process that enters its script into the ledger.
LEMMA EnteredState ==
  ASSUME Inv, NEW j \in Jobs, job[j].step = "insert", NEW state, state = Entered(j)
  PROVE  /\ state \in JobState /\ state.step = "select" /\ state.plan = job[j].plan
         /\ state.passed = job[j].passed \cup {job[j].script} /\ job[j].script \in job[j].plan
         /\ state.executed = job[j].executed \cup {job[j].script}
         /\ state.truncated = 0 /\ state.taken = 0
  <1>1. job[j] \in JobState /\ Orderly(j)
    BY DEF Inv, TypeOK
  <1>2. job[j].script \in job[j].plan /\ job[j].script \in Scripts /\ job[j].truncated = 0
    BY <1>1 DEF Orderly, JobState
  <1> QED
    BY <1>1, <1>2 DEF Entered, JobState, Steps

\* Its entry, which waits for another one of the same script, or the primary key.
LEMMA InsertLedgerInv == ASSUME Inv, NEW j \in Jobs, InsertLedger(j) PROVE Inv'
  <1>1. job[j] \in JobState /\ Orderly(j) /\ Uncommitted(j) /\ job[j].step = "insert"
    BY DEF Inv, TypeOK, InsertLedger
  <1>2. TruncatedExists /\ Exclusive
    BY DEF Inv
  <1>3. CASE job[j].script \in ledger
    BY <1>3, FailedInv DEF InsertLedger
  <1>4. CASE job[j].script \notin ledger
    <2> DEFINE state == Entered(j)
    <2>1. /\ state \in JobState /\ state.step = "select" /\ state.plan = job[j].plan
          /\ state.passed = job[j].passed \cup {job[j].script}
          /\ state.executed = job[j].executed \cup {job[j].script}
          /\ state.truncated = 0 /\ state.taken = 0
      BY <1>1, EnteredState
    <2>2. JobStep(j, state)
      BY <1>4 DEF InsertLedger, Go, JobStep
    <2> HIDE DEF state
    <2>3. \A k \in Jobs : k # j => job[j].script \notin job[k].executed
      BY <1>1 DEF InsertLedger, WaitsFor, Others
    <2>4. \A k \in Jobs : k # j => state.executed \cap job[k].executed = {}
      BY <1>2, <2>1, <2>3 DEF Exclusive
    <2>5. state.executed \cap ledger = {}
      BY <1>1, <1>4, <2>1 DEF Uncommitted
    <2>6. state.executed \subseteq state.passed
      BY <1>1, <2>1 DEF Orderly
    <2>7. \A s \in state.passed, t \in state.plan : Precedes(t, s) => t \in state.passed
      BY <1>1, <2>1 DEF Orderly
    <2> QED
      BY <2>1, <2>2, <2>4, <2>5, <2>6, <2>7, LocalInv
  <1> QED
    BY <1>3, <1>4

\* The first table may exist alone; the third one never.
LEMMA TruncateNextInv == ASSUME Inv, NEW j \in Jobs, TruncateNext(j) PROVE Inv'
  <1>1. job[j] \in JobState /\ Orderly(j) /\ job[j].step = "truncate"
    BY DEF Inv, TypeOK, TruncateNext
  <1>2. TruncatedExists /\ job[j].truncated \in 0..2
    BY <1>1 DEF Inv, JobState
  <1> DEFINE table == RUNTIME_RESET_TABLES[job[j].truncated + 1]
             empties == Exists(table) /\ \A t \in ReferencedBy(table) : ~Exists(t)
  <1>3. CASE ~empties
    BY <1>3, FailedInv DEF TruncateNext
  <1>4. CASE empties
    <2> DEFINE state == [job[j] EXCEPT !.truncated = @ + 1]
    <2>1. job[j].truncated # 2
      <3> SUFFICES ASSUME job[j].truncated = 2 PROVE FALSE
        OBVIOUS
      <3>1. RUNTIME_RESET_TABLES[1] \in ReferencedBy(table)
        BY DEF RUNTIME_RESET_TABLES, ReferencedBy
      <3> QED
        BY <1>2, <1>4, <3>1 DEF TruncatedExists
    <2>2. Exists(RUNTIME_RESET_TABLES[1])
      <3>1. CASE job[j].truncated = 0
        BY <3>1, <1>4
      <3>2. CASE job[j].truncated > 0
        BY <3>2, <1>2 DEF TruncatedExists
      <3> QED
        BY <1>2, <3>1, <3>2
    <2>3. /\ state \in JobState /\ state.executed = {} /\ state.passed = {} /\ state.step = "truncate"
          /\ state.taken = 0
      BY <1>1, <1>2, <2>1 DEF JobState, Orderly
    <2>4. JobStep(j, state)
      BY <1>4 DEF TruncateNext, Go, JobStep
    <2> HIDE DEF state
    <2> QED
      BY <2>2, <2>3, <2>4, LocalInv
  <1> QED
    BY <1>3, <1>4

\* The commit: what the process executed is in no one else's transaction and
\* not in the ledger.
LEMMA CommitScriptsInv == ASSUME Inv, NEW j \in Jobs, CommitScripts(j) PROVE Inv'
  <1>1. job[j] \in JobState /\ Uncommitted(j) /\ job[j].step = "commit"
    BY DEF Inv, TypeOK, CommitScripts
  <1>2. \A s \in job[j].executed : s \in Scripts /\ s \notin ledger
    BY <1>1 DEF Uncommitted, JobState
  <1>3. PICK state \in JobState :
          /\ job' = [job EXCEPT ![j] = state]
          /\ state.executed = {} /\ state.passed = {} /\ state.truncated = 0 /\ state.plan = {}
          /\ state.step \in {"truncate", "ended"} /\ state.taken = 0
    <2>1. CASE Raise(j) \/ Go(j, Ended(j, "succeeded"))
      <3>1. PICK outcome \in {"failed", "succeeded"} : job' = [job EXCEPT ![j] = Ended(j, outcome)]
        BY <2>1 DEF Raise, Go
      <3> QED
        BY <3>1, EndedState
    <2>2. CASE Go(j, [Ended(j, None) EXCEPT !.step = "truncate"])
      <3> DEFINE state == [Ended(j, None) EXCEPT !.step = "truncate"]
      <3>1. /\ state \in JobState /\ state.step = "truncate"
            /\ state.plan = {} /\ state.passed = {} /\ state.executed = {} /\ state.truncated = 0
            /\ state.taken = 0
        BY EndedState DEF JobState, Steps
      <3>2. job' = [job EXCEPT ![j] = state]
        BY <2>2 DEF Go
      <3> HIDE DEF state
      <3> QED
        BY <3>1, <3>2
    <2> QED
      BY <2>1, <2>2 DEF CommitScripts
  <1>4. /\ job' \in [Jobs -> JobState] /\ job'[j] = state
        /\ \A k \in Jobs : k # j => job'[k] = job[k]
    BY <1>3 DEF Inv, TypeOK
  <1>5. /\ ledger' = ledger \cup job[j].executed /\ prepared' = TRUE /\ release' = release
        /\ applied' = [s \in Scripts |-> IF s \in job[j].executed THEN applied[s] + 1 ELSE applied[s]]
        /\ work' \subseteq work /\ check' = check
    BY DEF CommitScripts, Raise, Go
  <1>6. TypeOK'
    <2>1. applied \in [Scripts -> Nat] /\ applied' \in [Scripts -> Nat]
      BY <1>5 DEF Inv, TypeOK
    <2> QED
      BY <2>1, <1>2, <1>4, <1>5 DEF Inv, TypeOK
  <1>7. AppliedOnce'
    BY <1>2, <1>5 DEF Inv, AppliedOnce
  <1>8. \A k \in Jobs : Uncommitted(k)'
    <2> TAKE k \in Jobs
    <2>1. CASE k = j
      BY <2>1, <1>3, <1>4 DEF Uncommitted
    <2>2. CASE k # j
      <3>1. job[k].executed \cap job[j].executed = {} /\ job'[k] = job[k] /\ Uncommitted(k)
        BY <2>2, <1>4 DEF Inv, Exclusive
      <3> QED
        BY <3>1, <1>5 DEF Uncommitted
    <2> QED
      BY <2>1, <2>2
  <1>9. Exclusive'
    BY <1>3, <1>4 DEF Inv, Exclusive
  <1>10. TruncatedExists'
    <2>1. \A s \in Scripts : applied[s] > 0 => applied'[s] > 0
      BY <1>5 DEF Inv, TypeOK
    <2>2. \A t : Exists(t) => Exists(t)'
      BY <2>1 DEF Exists
    <2> QED
      BY <2>2, <1>3, <1>4 DEF Inv, TruncatedExists
  <1>11. \A k \in Jobs : Orderly(k)'
    <2> TAKE k \in Jobs
    <2>1. CASE k = j
      BY <2>1, <1>3, <1>4 DEF Orderly
    <2>2. CASE k # j
      BY <2>2, <1>4 DEF Inv, Orderly
    <2> QED
      BY <2>1, <2>2
  <1> QED
    BY <1>6, <1>7, <1>8, <1>9, <1>10, <1>11 DEF Inv

\* Steps of the others leave processes, ledger and scripts alone.
LEMMA OutsideInv ==
  ASSUME Inv, UNCHANGED <<job, ledger, applied, prepared>>,
         release' \in 1..Releases, work' \subseteq Tables,
         check' \in [Checks -> [step : {"idle", "count", "ended"}, expected : SUBSET Migrations,
                               state : {"unavailable", "degraded", "ready", None}]]
  PROVE  Inv'
  <1>1. TypeOK' /\ AppliedOnce' /\ Exclusive'
    BY DEF Inv, TypeOK, AppliedOnce, Exclusive
  <1>2. TruncatedExists' /\ \A j \in Jobs : Uncommitted(j)' /\ Orderly(j)'
    BY DEF Inv, TruncatedExists, Exists, Uncommitted, Orderly
  <1> QED
    BY <1>1, <1>2 DEF Inv

\* Every step.
LEMMA NextInv == Inv /\ [Next]_vars => Inv'
  <1> SUFFICES ASSUME Inv, [Next]_vars PROVE Inv'
    OBVIOUS
  <1>0. /\ release \in 1..Releases /\ work \subseteq Tables
        /\ check \in [Checks -> [step : {"idle", "count", "ended"}, expected : SUBSET Migrations,
                                 state : {"unavailable", "degraded", "ready", None}]]
    BY DEF Inv, TypeOK
  <1>1. ASSUME NEW j \in Jobs, Start(j) \/ Proceed(j) \/ Fail(j) PROVE Inv'
    BY <1>1, StartInv, CreateLedgerInv, SelectScriptInv, ExecuteInv, InsertLedgerInv, CommitScriptsInv,
       TruncateNextInv, FailedInv DEF Proceed, Fail
  <1>2. ASSUME NEW c \in Checks, StartCheck(c) PROVE Inv'
    <2>1. PlanOf(release) \cap Migrations \subseteq Migrations
      OBVIOUS
    <2>2. /\ UNCHANGED <<stateVars, job>>
          /\ check' = [check EXCEPT ![c].step = "count", ![c].expected = PlanOf(release) \cap Migrations]
      BY <1>2 DEF StartCheck
    <2> QED
      BY <1>0, <2>1, <2>2, OutsideInv DEF stateVars
  <1>3. ASSUME NEW c \in Checks, FinishCheck(c) PROVE Inv'
    <2>1. PICK state \in {"unavailable", "degraded", "ready"} :
            check' = [check EXCEPT ![c].step = "ended", ![c].state = state]
      BY <1>3 DEF FinishCheck
    <2>2. UNCHANGED <<stateVars, job>>
      BY <1>3 DEF FinishCheck
    <2> QED
      BY <1>0, <2>1, <2>2, OutsideInv DEF stateVars
  <1>4. ASSUME NEW b \in Batches, Batch(b) PROVE Inv'
    BY <1>0, <1>4, OutsideInv DEF Batch, stateVars
  <1>5. ASSUME NEW table \in Tables, Work(table) PROVE Inv'
    BY <1>0, <1>5, OutsideInv DEF Work
  <1>6. CASE Upgrade
    <2>1. release' \in 1..Releases
      BY <1>0, <1>6, ScriptsAssumption DEF Upgrade
    <2> QED
      BY <1>0, <1>6, <2>1, OutsideInv DEF Upgrade
  <1>7. CASE UNCHANGED vars
    BY <1>0, <1>7, OutsideInv DEF vars, stateVars
  <1> QED
    BY <1>1, <1>2, <1>3, <1>4, <1>5, <1>6, <1>7 DEF Next

\* Inv holds in every state the scripts, checks, batches and users can reach.
THEOREM Invariance == Spec => []Inv
  BY InitInv, NextInv, PTL DEF Spec

----------------------------------------------------------------------------
(* The results *)

\* Type correctness; with it, no reset empties more than two tables, whatever
\* the migrations create: the third has a foreign key from the first.
THEOREM TypeCorrectness == Spec => []TypeOK
  <1>1. Inv => TypeOK
    BY DEF Inv
  <1> QED
    BY <1>1, Invariance, PTL

\* The effects of a script are in the database exactly once if the ledger has
\* it and not at all otherwise, for any number of processes and crashes.
THEOREM ScriptsOnce == Spec => []AppliedOnce
  <1>1. Inv => AppliedOnce
    BY DEF Inv
  <1> QED
    BY <1>1, Invariance, PTL

\* Only the first application of a script undoes what users did, since what a
\* process commits is not in the ledger before.
THEOREM WorkIsKept == Spec => WorkSurvives
  <1>1. Inv /\ [Next]_vars
          => [\A j \in Jobs : CommitScripts(j) =>
                \A table \in work \ work' : \E s \in ledger' \ ledger : table \in Discards[s]]_vars
    <2> SUFFICES ASSUME Inv, NEW j \in Jobs, CommitScripts(j), NEW table \in work, table \notin work'
                 PROVE  \E s \in ledger' \ ledger : table \in Discards[s]
      OBVIOUS
    <2>1. PICK s \in job[j].executed : table \in Discards[s]
      BY DEF CommitScripts
    <2>2. s \notin ledger /\ s \in ledger'
      BY <2>1 DEF Inv, Uncommitted, CommitScripts
    <2> QED
      BY <2>1, <2>2
  <1> QED
    BY <1>1, Invariance, PTL DEF Spec, WorkSurvives

----------------------------------------------------------------------------
(* The migration check *)

\* The order of the scripts has a first one wherever any is left, so that a
\* process comes to its commit only when it has passed its whole plan.
LEMMA SomethingIsNext ==
  ASSUME NEW rest \in SUBSET Scripts, rest # {}
  PROVE  \E s \in rest : \A t \in rest : ~Precedes(t, s)
  <1> USE ScriptsAssumption
  <1> DEFINE Names(scope) == {name[s] : s \in rest \cap scope}
  <1>1. ASSUME NEW scope \in {Migrations, Seeds}, rest \cap scope # {}
        PROVE  \E s \in rest \cap scope : \A t \in rest \cap scope : name[s] <= name[t]
    <2>1. Names(scope) \in SUBSET Nat /\ Names(scope) # {}
      BY <1>1
    <2>2. PICK m \in Names(scope) : \A k \in Names(scope) : m <= k
      BY <2>1, LeastNumber
    <2> QED
      BY <2>2
  <1>2. CASE rest \cap Migrations # {}
    <2>1. PICK s \in rest \cap Migrations : \A t \in rest \cap Migrations : name[s] <= name[t]
      BY <1>1, <1>2
    <2> QED
      BY <2>1 DEF Precedes, Scripts
  <1>3. CASE rest \cap Migrations = {}
    <2>1. rest \cap Seeds # {}
      BY <1>3 DEF Scripts
    <2>2. PICK s \in rest \cap Seeds : \A t \in rest \cap Seeds : name[s] <= name[t]
      BY <1>1, <2>1
    <2> QED
      BY <1>3, <2>2 DEF Precedes, Scripts
  <1> QED
    BY <1>2, <1>3

IsPlan(scripts) == \E r \in 0..release : scripts = PlanOf(r)

\* What a process has passed is in the ledger or will be with its commit, and
\* at the commit that is its whole plan.
Planned(j) ==
    /\ IsPlan(job[j].plan)
    /\ job[j].passed \subseteq ledger \cup job[j].executed
    /\ job[j].passed \subseteq job[j].plan
    /\ job[j].step = "commit" => job[j].plan \subseteq job[j].passed

Counted(c) ==
    /\ check[c].step # "ended" => check[c].state # "ready"
    /\ check[c].step # "idle" => \E r \in 0..release : check[c].expected = PlanOf(r) \cap Migrations
    /\ check[c].state = "ready" => check[c].expected \subseteq ledger

\* The ledger is at every moment the plan of one release, so that of two of its
\* counts the larger one stands for the larger set.
PlansInv ==
    /\ IsPlan(ledger)
    /\ \A j \in Jobs : Planned(j)
    /\ \A c \in Checks : Counted(c)

\* Of two plans, one is in the other.
LEMMA PlansAreNested ==
  ASSUME NEW r \in Nat, NEW q \in Nat
  PROVE  /\ r <= q => PlanOf(r) \subseteq PlanOf(q)
         /\ PlanOf(r) \in SUBSET Scripts
  BY ScriptsAssumption DEF PlanOf

\* There is a release.
LEMMA SomeRelease == Releases \in Nat \ {0}
  BY ScriptsAssumption

\* Nothing is released before the first release.
LEMMA EmptyPlan == PlanOf(0) = {}
  BY ScriptsAssumption DEF PlanOf

\* An empty database, or one of a release.
LEMMA InitPlans == Init => PlansInv
  <1> SUFFICES ASSUME Init PROVE PlansInv
    OBVIOUS
  <1>1. release \in 1..Releases /\ 0 \in 0..release
    BY ScriptsAssumption DEF Init
  <1>2. IsPlan(ledger)
    BY DEF Init, IsPlan
  <1>3. \A j \in Jobs : Planned(j)
    BY <1>1, EmptyPlan DEF Init, NoJob, Planned, IsPlan
  <1>4. \A c \in Checks : Counted(c)
    BY ScriptsAssumption DEF Init, Counted
  <1> QED
    BY <1>2, <1>3, <1>4 DEF PlansInv

\* A step of process j that leaves the ledger alone, if what is said of that process holds afterwards.
LEMMA LocalPlans ==
  ASSUME Inv, PlansInv, NEW j \in Jobs, NEW state, JobStep(j, state),
         IsPlan(state.plan),
         state.passed \subseteq ledger \cup state.executed,
         state.passed \subseteq state.plan,
         state.step = "commit" => state.plan \subseteq state.passed
  PROVE  PlansInv'
  <1>1. job'[j] = state /\ \A k \in Jobs : k # j => job'[k] = job[k]
    BY DEF Inv, TypeOK, JobStep
  <1>2. ledger' = ledger /\ release' = release /\ check' = check
    BY DEF JobStep, stateVars
  <1>3. \A k \in Jobs : Planned(k)'
    BY <1>1, <1>2 DEF PlansInv, Planned, IsPlan
  <1>4. IsPlan(ledger)' /\ \A c \in Checks : Counted(c)'
    BY <1>2 DEF PlansInv, IsPlan, Counted
  <1> QED
    BY <1>3, <1>4 DEF PlansInv

\* Whatever ends a process without a commit.
LEMMA EndedPlans ==
  ASSUME Inv, PlansInv, NEW j \in Jobs, NEW outcome \in {"failed", "succeeded", "refused", "dry_run"},
         NEW kind \in {"bootstrap", "reset", None},
         JobStep(j, [Ended(j, outcome) EXCEPT !.kind = kind])
  PROVE  PlansInv'
  <1> DEFINE state == [Ended(j, outcome) EXCEPT !.kind = kind]
  <1>1. state.plan = {} /\ state.passed = {} /\ state.executed = {} /\ state.step = "ended"
    BY EndedState DEF JobState
  <1>2. release \in 1..Releases /\ IsPlan({})
    BY EmptyPlan, SomeRelease DEF Inv, TypeOK, IsPlan
  <1>3. JobStep(j, state)
    OBVIOUS
  <1> HIDE DEF state
  <1> QED
    BY <1>1, <1>2, <1>3, LocalPlans

\* An exception or a crash.
LEMMA FailedPlans ==
  ASSUME Inv, PlansInv, NEW j \in Jobs, Raise(j), UNCHANGED stateVars
  PROVE  PlansInv'
  <1>1. job[j] \in JobState
    BY DEF Inv, TypeOK
  <1>2. Ended(j, "failed") = [Ended(j, "failed") EXCEPT !.kind = job[j].kind]
    BY EndedState DEF JobState
  <1>3. JobStep(j, [Ended(j, "failed") EXCEPT !.kind = job[j].kind])
    BY <1>2 DEF Raise, Go, JobStep
  <1> QED
    BY <1>1, <1>3, EndedPlans DEF JobState

\* The plan of a process is that of the release that is checked out.
LEMMA StartPlans == ASSUME Inv, PlansInv, NEW j \in Jobs, Start(j) PROVE PlansInv'
  <1>1. ASSUME NEW kind \in {"bootstrap", "reset"},
               Go(j, [job[j] EXCEPT !.kind = kind, !.step = "create", !.plan = PlanOf(release)])
        PROVE  PlansInv'
    <2> DEFINE state == [job[j] EXCEPT !.kind = kind, !.step = "create", !.plan = PlanOf(release)]
    <2>1. job[j] \in JobState /\ job[j].step = "idle" /\ Orderly(j) /\ release \in 1..Releases
      BY DEF Inv, TypeOK, Start
    <2>2. /\ state.plan = PlanOf(release) /\ state.step = "create"
          /\ state.passed = {} /\ state.executed = {}
      BY <2>1 DEF JobState, Orderly
    <2>3. IsPlan(PlanOf(release))
      BY <2>1 DEF IsPlan
    <2>4. JobStep(j, state)
      BY <1>1 DEF Go, Start, JobStep
    <2> HIDE DEF state
    <2> QED
      BY <2>2, <2>3, <2>4, LocalPlans
  <1>2. ASSUME NEW outcome \in {"refused", "dry_run"}, Go(j, [Ended(j, outcome) EXCEPT !.kind = "reset"])
        PROVE  PlansInv'
    <2>1. JobStep(j, [Ended(j, outcome) EXCEPT !.kind = "reset"])
      BY <1>2 DEF Go, Start, JobStep
    <2> QED
      BY <2>1, EndedPlans
  <1> QED
    BY <1>1, <1>2 DEF Start

\* A script is passed when the ledger has it, and the commit comes when none is left.
LEMMA SelectScriptPlans == ASSUME Inv, PlansInv, NEW j \in Jobs, SelectScript(j) PROVE PlansInv'
  <1>0. job[j] \in JobState /\ Planned(j)
    BY DEF Inv, TypeOK, PlansInv
  <1>1. CASE NextScripts(j) = {} /\ Go(j, [job[j] EXCEPT !.step = "commit"])
    <2> DEFINE state == [job[j] EXCEPT !.step = "commit"]
    <2>1. /\ state.plan = job[j].plan /\ state.passed = job[j].passed
          /\ state.executed = job[j].executed /\ state.step = "commit"
      BY <1>0 DEF JobState
    <2>2. job[j].plan \subseteq job[j].passed
      <3>1. job[j].plan \ job[j].passed \in SUBSET Scripts
        BY <1>0 DEF JobState
      <3> QED
        BY <1>1, <3>1, SomethingIsNext DEF NextScripts
    <2>3. JobStep(j, state)
      BY <1>1 DEF Go, SelectScript, JobStep
    <2> HIDE DEF state
    <2> QED
      BY <1>0, <2>1, <2>2, <2>3, LocalPlans DEF Planned
  <1>2. ASSUME NEW s \in NextScripts(j), s \in ledger, Go(j, [job[j] EXCEPT !.passed = @ \cup {s}])
        PROVE  PlansInv'
    <2> DEFINE state == [job[j] EXCEPT !.passed = @ \cup {s}]
    <2>1. /\ state.plan = job[j].plan /\ state.passed = job[j].passed \cup {s}
          /\ state.executed = job[j].executed /\ state.step = "select"
      BY <1>0 DEF JobState, SelectScript
    <2>2. s \in job[j].plan
      BY DEF NextScripts
    <2>3. JobStep(j, state)
      BY <1>2 DEF Go, SelectScript, JobStep
    <2> HIDE DEF state
    <2> QED
      BY <1>0, <1>2, <2>1, <2>2, <2>3, LocalPlans DEF Planned
  <1>3. ASSUME NEW s \in NextScripts(j), Go(j, [job[j] EXCEPT !.script = s, !.step = "execute"])
        PROVE  PlansInv'
    <2> DEFINE state == [job[j] EXCEPT !.script = s, !.step = "execute"]
    <2>1. /\ state.plan = job[j].plan /\ state.passed = job[j].passed
          /\ state.executed = job[j].executed /\ state.step = "execute"
      BY <1>0 DEF JobState
    <2>2. JobStep(j, state)
      BY <1>3 DEF Go, SelectScript, JobStep
    <2> HIDE DEF state
    <2> QED
      BY <1>0, <2>1, <2>2, LocalPlans DEF Planned
  <1> QED
    BY <1>1, <1>2, <1>3 DEF SelectScript

\* The other steps of a transaction: what is executed belongs to the plan, and
\* what is entered into the ledger has been executed or was there.
LEMMA TransactionPlans ==
  ASSUME Inv, PlansInv, NEW j \in Jobs, CreateLedger(j) \/ Execute(j) \/ InsertLedger(j) \/ TruncateNext(j)
  PROVE  PlansInv'
  <1>0. job[j] \in JobState /\ Planned(j) /\ Orderly(j)
    BY DEF Inv, TypeOK, PlansInv
  <1>1. CASE CreateLedger(j)
    <2> DEFINE state == [job[j] EXCEPT !.step = "select", !.created = ~prepared]
    <2>1. /\ state.plan = job[j].plan /\ state.passed = job[j].passed
          /\ state.executed = job[j].executed /\ state.step = "select"
      BY <1>0 DEF JobState
    <2>2. JobStep(j, state)
      BY <1>1 DEF Go, CreateLedger, JobStep
    <2> HIDE DEF state
    <2> QED
      BY <1>0, <2>1, <2>2, LocalPlans DEF Planned
  <1>2. CASE Execute(j)
    <2>1. PICK state \in {[job[j] EXCEPT !.step = "insert"], [job[j] EXCEPT !.taken = @ + 1]} : JobStep(j, state)
      BY <1>2 DEF Go, Execute, JobStep
    <2>2. /\ state.plan = job[j].plan /\ state.passed = job[j].passed
          /\ state.executed = job[j].executed /\ state.step \in {"execute", "insert"}
      BY <1>0, <1>2 DEF Execute, JobState
    <2> QED
      BY <1>0, <2>1, <2>2, LocalPlans DEF Planned
  <1>3. CASE InsertLedger(j) /\ Raise(j)
    BY <1>3, FailedPlans DEF InsertLedger
  <1>4. CASE InsertLedger(j) /\ ~Raise(j)
    <2> DEFINE state == Entered(j)
    <2>1. /\ state.plan = job[j].plan /\ state.passed = job[j].passed \cup {job[j].script}
          /\ state.executed = job[j].executed \cup {job[j].script} /\ state.step = "select"
          /\ job[j].script \in job[j].plan
      BY <1>4, EnteredState DEF InsertLedger
    <2>2. JobStep(j, state)
      BY <1>4 DEF Go, InsertLedger, JobStep
    <2> HIDE DEF state
    <2> QED
      BY <1>0, <2>1, <2>2, LocalPlans DEF Planned
  <1>5. CASE TruncateNext(j)
    <2> DEFINE state == [job[j] EXCEPT !.truncated = @ + 1]
    <2>1. /\ state.plan = job[j].plan /\ state.passed = job[j].passed
          /\ state.executed = job[j].executed /\ state.step = "truncate"
      BY <1>0, <1>5 DEF JobState, TruncateNext
    <2>2. CASE Go(j, state)
      <3>1. JobStep(j, state)
        BY <1>5, <2>2 DEF Go, TruncateNext, JobStep
      <3> HIDE DEF state
      <3> QED
        BY <1>0, <2>1, <3>1, LocalPlans DEF Planned
    <2>3. CASE Raise(j)
      BY <1>5, <2>3, FailedPlans DEF TruncateNext
    <2> QED
      BY <1>5, <2>2, <2>3 DEF TruncateNext
  <1> QED
    BY <1>1, <1>2, <1>3, <1>4, <1>5

\* A commit: what the ledger and the plan have between them is one of the two plans.
LEMMA CommittedPlan ==
  ASSUME Inv, PlansInv, NEW j \in Jobs, job[j].step = "commit"
  PROVE  IsPlan(ledger \cup job[j].executed)
  <1>1. PICK r \in 0..release : ledger = PlanOf(r)
    BY DEF PlansInv, IsPlan
  <1>2. PICK q \in 0..release : job[j].plan = PlanOf(q)
    BY DEF PlansInv, Planned, IsPlan
  <1>3. ledger \cup job[j].executed = ledger \cup job[j].plan
    BY DEF Inv, Orderly, PlansInv, Planned
  <1>4. release \in Nat /\ r \in Nat /\ q \in Nat
    BY ScriptsAssumption DEF Inv, TypeOK
  <1>5. CASE r <= q
    <2>1. ledger \cup job[j].executed = PlanOf(q)
      BY <1>1, <1>2, <1>3, <1>4, <1>5, PlansAreNested
    <2> QED
      BY <1>2, <2>1 DEF IsPlan
  <1>6. CASE q <= r
    <2>1. ledger \cup job[j].executed = PlanOf(r)
      BY <1>1, <1>2, <1>3, <1>4, <1>6, PlansAreNested
    <2> QED
      BY <1>1, <2>1 DEF IsPlan
  <1> QED
    BY <1>4, <1>5, <1>6

\* A commit leaves one release's plan in the ledger, and nobody's commit takes anything out.
LEMMA CommitScriptsPlans == ASSUME Inv, PlansInv, NEW j \in Jobs, CommitScripts(j) PROVE PlansInv'
  <1>0. job[j] \in JobState /\ release \in 1..Releases
    BY DEF Inv, TypeOK
  <1>1. ledger' = ledger \cup job[j].executed /\ release' = release /\ check' = check
    BY DEF CommitScripts, Go, Raise
  <1>2. PICK state : /\ job' = [job EXCEPT ![j] = state]
                     /\ state.plan = {} /\ state.passed = {} /\ state.executed = {}
                     /\ state.step \in {"ended", "truncate"}
    <2>1. ASSUME NEW outcome \in {"failed", "succeeded", None}, Go(j, Ended(j, outcome))
          PROVE  \E state : /\ job' = [job EXCEPT ![j] = state]
                            /\ state.plan = {} /\ state.passed = {} /\ state.executed = {}
                            /\ state.step \in {"ended", "truncate"}
      BY <2>1, EndedState DEF Go
    <2>2. ASSUME Go(j, [Ended(j, None) EXCEPT !.step = "truncate"])
          PROVE  \E state : /\ job' = [job EXCEPT ![j] = state]
                            /\ state.plan = {} /\ state.passed = {} /\ state.executed = {}
                            /\ state.step \in {"ended", "truncate"}
      <3> DEFINE new == [Ended(j, None) EXCEPT !.step = "truncate"]
      <3>1. new.plan = {} /\ new.passed = {} /\ new.executed = {} /\ new.step = "truncate"
        BY EndedState DEF JobState
      <3>2. job' = [job EXCEPT ![j] = new]
        BY <2>2 DEF Go
      <3> HIDE DEF new
      <3> QED
        BY <3>1, <3>2
    <2> QED
      BY <2>1, <2>2 DEF CommitScripts, Raise
  <1>3. job'[j] = state /\ \A k \in Jobs : k # j => job'[k] = job[k]
    BY <1>2 DEF Inv, TypeOK
  <1>4. Planned(j)'
    <2>1. 0 \in 0..release' /\ job'[j].plan = PlanOf(0)
      BY <1>0, <1>1, <1>2, <1>3, EmptyPlan, SomeRelease
    <2>2. IsPlan(job[j].plan)'
      BY <2>1 DEF IsPlan
    <2> QED
      BY <1>2, <1>3, <2>2 DEF Planned
  <1>5. ASSUME NEW k \in Jobs, k # j PROVE Planned(k)'
    BY <1>1, <1>3, <1>5 DEF PlansInv, Planned, IsPlan
  <1>6. IsPlan(ledger)'
    <2>1. IsPlan(ledger \cup job[j].executed)
      BY CommittedPlan DEF CommitScripts
    <2> QED
      BY <1>1, <2>1 DEF IsPlan
  <1>7. \A c \in Checks : Counted(c)'
    BY <1>1 DEF PlansInv, Counted
  <1> QED
    BY <1>4, <1>5, <1>6, <1>7 DEF PlansInv

\* The two counts: if the ledger has at least as many migrations as the release
\* had files, it has these.
LEMMA FinishCheckPlans == ASSUME Inv, PlansInv, NEW c \in Checks, FinishCheck(c) PROVE PlansInv'
  <1>1. PICK state \in {"unavailable", "degraded", "ready"} :
          /\ check' = [check EXCEPT ![c].step = "ended", ![c].state = state]
          /\ state = "ready" => ~(MigrationEntries < Cardinality(check[c].expected))
    BY DEF FinishCheck
  <1>2. PICK q \in 0..release : check[c].expected = PlanOf(q) \cap Migrations
    BY DEF PlansInv, Counted, FinishCheck
  <1>3. PICK r \in 0..release : ledger = PlanOf(r)
    BY DEF PlansInv, IsPlan
  <1>4. release \in Nat /\ q \in Nat /\ r \in Nat
    BY ScriptsAssumption DEF Inv, TypeOK
  <1>5. ASSUME state = "ready" PROVE check[c].expected \subseteq ledger
    <2>1. CASE q <= r
      BY <1>2, <1>3, <1>4, <2>1, PlansAreNested
    <2>2. CASE r <= q
      <3> DEFINE found == ledger \cap Migrations
      <3>1. found \subseteq check[c].expected
        BY <1>2, <1>3, <1>4, <2>2, PlansAreNested
      <3>2. IsFiniteSet(check[c].expected)
        <4>1. check[c].expected \subseteq Scripts
          BY <1>2, <1>4, PlansAreNested
        <4> QED
          BY <4>1, ScriptsAssumption, FS_Subset
      <3>3. /\ IsFiniteSet(found) /\ Cardinality(found) <= Cardinality(check[c].expected)
            /\ Cardinality(found) = Cardinality(check[c].expected) => found = check[c].expected
        BY <3>1, <3>2, FS_Subset
      <3>4. Cardinality(found) \in Nat /\ Cardinality(check[c].expected) \in Nat
        BY <3>2, <3>3, FS_CardinalityType
      <3>5. Cardinality(found) = Cardinality(check[c].expected)
        BY <1>1, <1>5, <3>3, <3>4 DEF MigrationEntries
      <3> QED
        BY <3>3, <3>5
    <2> QED
      BY <1>4, <2>1, <2>2
  <1>6. UNCHANGED <<release, ledger, job>>
    BY DEF FinishCheck, stateVars
  <1>7. ASSUME NEW k \in Checks PROVE Counted(k)'
    <2>1. CASE k = c
      <3>1. /\ check'[c].step = "ended" /\ check'[c].state = state
            /\ check'[c].expected = check[c].expected
        BY <1>1 DEF Inv, TypeOK
      <3> QED
        BY <1>2, <1>5, <1>6, <2>1, <3>1 DEF Counted
    <2>2. CASE k # c
      <3>1. check'[k] = check[k]
        BY <1>1, <2>2 DEF Inv, TypeOK
      <3> QED
        BY <1>6, <3>1 DEF PlansInv, Counted
    <2> QED
      BY <2>1, <2>2
  <1>8. IsPlan(ledger)' /\ \A j \in Jobs : Planned(j)'
    BY <1>6 DEF PlansInv, Planned, IsPlan
  <1> QED
    BY <1>7, <1>8 DEF PlansInv

\* The files of the release that is checked out.
LEMMA StartCheckPlans == ASSUME Inv, PlansInv, NEW c \in Checks, StartCheck(c) PROVE PlansInv'
  <1>1. UNCHANGED <<release, ledger, job>> /\ release \in 0..release
    BY ScriptsAssumption DEF StartCheck, stateVars, Inv, TypeOK
  <1>2. ASSUME NEW k \in Checks PROVE Counted(k)'
    <2>1. CASE k = c
      <3>1. /\ check'[c].step = "count" /\ check'[c].expected = PlanOf(release) \cap Migrations
            /\ check'[c].state = check[c].state
        BY DEF StartCheck, Inv, TypeOK
      <3>2. check[c].state # "ready"
        BY DEF StartCheck, PlansInv, Counted
      <3>3. PlanOf(release)' = PlanOf(release)
        BY <1>1 DEF PlanOf
      <3> QED
        BY <1>1, <2>1, <3>1, <3>2, <3>3 DEF Counted
    <2>2. CASE k # c
      <3>1. check'[k] = check[k]
        BY <2>2 DEF StartCheck, Inv, TypeOK
      <3> QED
        BY <1>1, <3>1 DEF PlansInv, Counted
    <2> QED
      BY <2>1, <2>2
  <1>3. IsPlan(ledger)' /\ \A j \in Jobs : Planned(j)'
    BY <1>1 DEF PlansInv, Planned, IsPlan
  <1> QED
    BY <1>2, <1>3 DEF PlansInv

\* What the others do: the release only grows.
LEMMA OutsidePlans ==
  ASSUME Inv, PlansInv, UNCHANGED <<job, check, ledger>>, release' \in Nat, release <= release'
  PROVE  PlansInv'
  <1>1. 0..release \subseteq 0..release'
    BY ScriptsAssumption DEF Inv, TypeOK
  <1> QED
    BY <1>1 DEF PlansInv, Planned, Counted, IsPlan

\* Every step.
LEMMA NextPlans == Inv /\ PlansInv /\ [Next]_vars => PlansInv'
  <1> SUFFICES ASSUME Inv, PlansInv, [Next]_vars PROVE PlansInv'
    OBVIOUS
  <1>0. release \in Nat
    BY ScriptsAssumption DEF Inv, TypeOK
  <1>1. ASSUME NEW j \in Jobs, Start(j) \/ Proceed(j) \/ Fail(j) PROVE PlansInv'
    BY <1>1, StartPlans, SelectScriptPlans, TransactionPlans, CommitScriptsPlans, FailedPlans DEF Proceed, Fail
  <1>2. ASSUME NEW c \in Checks, StartCheck(c) \/ FinishCheck(c) PROVE PlansInv'
    BY <1>2, StartCheckPlans, FinishCheckPlans
  <1>3. ASSUME NEW b \in Batches, Batch(b) PROVE PlansInv'
    BY <1>0, <1>3, OutsidePlans DEF Batch, stateVars
  <1>4. ASSUME NEW table \in Tables, Work(table) PROVE PlansInv'
    BY <1>0, <1>4, OutsidePlans DEF Work
  <1>5. CASE Upgrade
    BY <1>0, <1>5, OutsidePlans DEF Upgrade
  <1>6. CASE UNCHANGED vars
    BY <1>0, <1>6, OutsidePlans DEF vars, stateVars
  <1> QED
    BY <1>1, <1>2, <1>3, <1>4, <1>5, <1>6 DEF Next

\* The migration check compares two numbers, read one after the other while
\* processes commit and a newer release is checked out: whenever it says
\* "ready", the migrations it counted are in the ledger, because the ledger
\* only ever holds the whole plan of some release.
THEOREM ReadyIsTrue == Spec => []ReadyMeansMigrated
  <1>1. PlansInv => ReadyMeansMigrated
    BY DEF PlansInv, Counted, ReadyMeansMigrated
  <1> QED
    BY <1>1, Invariance, InitPlans, NextPlans, PTL DEF Spec

----------------------------------------------------------------------------
(* The locks *)

LocksAgree ==
    \A j, k \in Jobs : j # k => \A mine \in Locks(j), theirs \in Locks(k) : ~Conflict(mine, theirs)

\* What a process holds, depending on where it is.
Holds(state, lock) ==
    \/ \E s \in state.executed : lock \in LocksOf(s)
    \/ \E i \in 1..state.taken : lock = Takes[state.script][i]
    \/ \E i \in 1..state.truncated : lock = Emptying(RUNTIME_RESET_TABLES[i])

\* The locks of a process, one by one.
LEMMA InLocks == ASSUME NEW j, NEW lock PROVE lock \in Locks(j) <=> Holds(job[j], lock)
  <1> DEFINE scripts == UNION {LocksOf(s) : s \in job[j].executed}
             script == {Takes[job[j].script][i] : i \in 1..job[j].taken}
             tables == {Emptying(table) : table \in TruncatedBy(j)}
  <1>1. lock \in scripts <=> \E s \in job[j].executed : lock \in LocksOf(s)
    OBVIOUS
  <1>2. lock \in script <=> \E i \in 1..job[j].taken : lock = Takes[job[j].script][i]
    OBVIOUS
  <1>3. lock \in tables <=> \E i \in 1..job[j].truncated : lock = Emptying(RUNTIME_RESET_TABLES[i])
    BY DEF TruncatedBy
  <1>4. Locks(j) = script \cup tables \cup scripts
    BY DEF Locks
  <1> HIDE DEF scripts, script, tables
  <1> QED
    BY <1>1, <1>2, <1>3, <1>4 DEF Holds

\* And after a step.
LEMMA InNextLocks == ASSUME NEW j, NEW lock PROVE lock \in Locks(j)' <=> Holds(job'[j], lock)
  <1> DEFINE scripts == UNION {LocksOf(s) : s \in job'[j].executed}
             script == {Takes[job'[j].script][i] : i \in 1..job'[j].taken}
             tables == {Emptying(table) : table \in TruncatedBy(j)'}
  <1>1. lock \in scripts <=> \E s \in job'[j].executed : lock \in LocksOf(s)
    OBVIOUS
  <1>2. lock \in script <=> \E i \in 1..job'[j].taken : lock = Takes[job'[j].script][i]
    OBVIOUS
  <1>3. lock \in tables <=> \E i \in 1..job'[j].truncated : lock = Emptying(RUNTIME_RESET_TABLES[i])
    BY DEF TruncatedBy
  <1>4. Locks(j)' = script \cup tables \cup scripts
    BY DEF Locks
  <1> HIDE DEF scripts, script, tables
  <1> QED
    BY <1>1, <1>2, <1>3, <1>4 DEF Holds

\* A process that has executed nothing, and begun no script and no table, holds nothing.
LEMMA NoLocks ==
  ASSUME NEW state, state.executed = {}, state.taken = 0, state.truncated = 0, NEW lock
  PROVE  ~Holds(state, lock)
  BY DEF Holds

\* A step gets a process the lock it asked for at most, and that only if no other holds one against it.
LEMMA StepLocks ==
  ASSUME Inv, NEW j \in Jobs, Start(j) \/ Proceed(j) \/ Fail(j)
  PROVE  /\ \A k \in Jobs \ {j} : Locks(k)' = Locks(k)
         /\ \/ Locks(j)' \subseteq Locks(j)
            \/ WaitsFor(j) = {} /\ Locks(j)' \subseteq Locks(j) \cup NextLock(j)
  <1>1. /\ job[j] \in JobState /\ Orderly(j) /\ job \in [Jobs -> JobState]
    BY DEF Inv, TypeOK
  <1>2. ASSUME NEW state, Go(j, state)
        PROVE  job'[j] = state /\ \A k \in Jobs \ {j} : job'[k] = job[k]
    BY <1>1, <1>2 DEF Go
  <1>3. \E state : Go(j, state)
    BY DEF Start, Proceed, Fail, CreateLedger, SelectScript, Execute, InsertLedger, CommitScripts,
           TruncateNext, Raise
  <1>4. \A k \in Jobs \ {j} : Locks(k)' = Locks(k)
    <2>1. ASSUME NEW k \in Jobs \ {j} PROVE Locks(k)' = Locks(k)
      <3>1. job'[k] = job[k]
        BY <1>2, <1>3
      <3>2. \A lock : lock \in Locks(k)' <=> lock \in Locks(k)
        BY <3>1, InLocks, InNextLocks
      <3> QED
        BY <3>2
    <2> QED
      BY <2>1
  <1>5. ASSUME NEW state, Go(j, state), state.executed = {}, state.taken = 0, state.truncated = 0
        PROVE  Locks(j)' = {}
    BY <1>2, <1>5, NoLocks, InNextLocks
  <1>6. ASSUME Raise(j) PROVE Locks(j)' = {}
    BY <1>5, <1>6, EndedState DEF Raise
  <1>7. ASSUME NEW state, Go(j, state), state.executed = job[j].executed, state.truncated = job[j].truncated,
               state.taken = job[j].taken, job[j].taken = 0 \/ state.script = job[j].script
        PROVE  Locks(j)' = Locks(j)
    <2>1. job'[j] = state
      BY <1>2, <1>7
    <2>2. \A lock : Holds(state, lock) <=> Holds(job[j], lock)
      BY <1>7 DEF Holds
    <2> QED
      BY <2>1, <2>2, InLocks, InNextLocks
  <1>8. CASE Start(j)
    <2>1. ASSUME NEW kind \in {"bootstrap", "reset"},
                 Go(j, [job[j] EXCEPT !.kind = kind, !.step = "create", !.plan = PlanOf(release)])
          PROVE  Locks(j)' = Locks(j)
      <3> DEFINE state == [job[j] EXCEPT !.kind = kind, !.step = "create", !.plan = PlanOf(release)]
      <3>1. /\ state.executed = job[j].executed /\ state.truncated = job[j].truncated
            /\ state.taken = job[j].taken /\ state.script = job[j].script
        BY <1>1 DEF JobState
      <3>2. Go(j, state)
        BY <2>1
      <3> HIDE DEF state
      <3> QED
        BY <1>7, <3>1, <3>2
    <2>2. ASSUME NEW outcome \in {"refused", "dry_run"}, Go(j, [Ended(j, outcome) EXCEPT !.kind = "reset"])
          PROVE  Locks(j)' = {}
      <3> DEFINE state == [Ended(j, outcome) EXCEPT !.kind = "reset"]
      <3>1. state.executed = {} /\ state.taken = 0 /\ state.truncated = 0
        BY EndedState DEF JobState
      <3>2. Go(j, state)
        BY <2>2
      <3> HIDE DEF state
      <3> QED
        BY <1>5, <3>1, <3>2
    <2> QED
      BY <1>4, <1>8, <2>1, <2>2 DEF Start
  <1>9. CASE CreateLedger(j) \/ SelectScript(j)
    <2>1. PICK state :
            /\ Go(j, state)
            /\ state.executed = job[j].executed /\ state.truncated = job[j].truncated
            /\ state.taken = job[j].taken
      <3>1. CASE CreateLedger(j)
        <4> DEFINE new == [job[j] EXCEPT !.step = "select", !.created = ~prepared]
        <4>1. /\ new.executed = job[j].executed /\ new.truncated = job[j].truncated
              /\ new.taken = job[j].taken
          BY <1>1 DEF JobState
        <4>2. Go(j, new)
          BY <3>1 DEF CreateLedger
        <4> HIDE DEF new
        <4> QED
          BY <4>1, <4>2
      <3>2. ASSUME NEW s, NEW new \in {[job[j] EXCEPT !.step = "commit"], [job[j] EXCEPT !.passed = @ \cup {s}],
                                       [job[j] EXCEPT !.script = s, !.step = "execute"]}
            PROVE  /\ new.executed = job[j].executed /\ new.truncated = job[j].truncated
                   /\ new.taken = job[j].taken
        BY <1>1 DEF JobState
      <3>3. CASE SelectScript(j)
        <4>1. PICK s : Go(j, [job[j] EXCEPT !.step = "commit"]) \/ Go(j, [job[j] EXCEPT !.passed = @ \cup {s}])
                         \/ Go(j, [job[j] EXCEPT !.script = s, !.step = "execute"])
          BY <3>3 DEF SelectScript
        <4> QED
          BY <4>1, <3>2
      <3> QED
        BY <3>1, <3>3, <1>9
    <2>2. job[j].taken = 0
      BY <1>1, <1>9 DEF Orderly, CreateLedger, SelectScript
    <2> QED
      BY <1>4, <1>7, <2>1, <2>2
  <1>10. CASE Execute(j)
    <2>1. job[j].step = "execute" /\ WaitsFor(j) = {}
      BY <1>10 DEF Execute
    <2>2. CASE NextLock(j) = {}
      <3> DEFINE state == [job[j] EXCEPT !.step = "insert"]
      <3>1. /\ state.executed = job[j].executed /\ state.truncated = job[j].truncated
            /\ state.taken = job[j].taken /\ state.script = job[j].script
        BY <1>1 DEF JobState
      <3>2. Go(j, state)
        BY <1>10, <2>2 DEF Execute
      <3> HIDE DEF state
      <3> QED
        BY <1>4, <1>7, <3>1, <3>2
    <2>3. CASE NextLock(j) # {}
      <3> DEFINE state == [job[j] EXCEPT !.taken = @ + 1]
      <3>1. /\ state.executed = job[j].executed /\ state.truncated = job[j].truncated
            /\ state.taken = job[j].taken + 1 /\ state.script = job[j].script /\ job[j].taken \in Nat
        BY <1>1 DEF JobState
      <3>2. Go(j, state)
        BY <1>10, <2>3 DEF Execute
      <3>3. job'[j] = state
        BY <1>2, <3>2
      <3> HIDE DEF state
      <3>4. job[j].taken + 1 \in DOMAIN Takes[job[j].script]
        BY <2>1, <2>3 DEF NextLock
      <3>5. Takes[job[j].script][job[j].taken + 1] \in NextLock(j)
        BY <2>1, <3>4 DEF NextLock
      <3>6. \A i \in 1..(job[j].taken + 1) : i \in 1..job[j].taken \/ i = job[j].taken + 1
        BY <3>1
      <3>7. ASSUME NEW lock, Holds(state, lock) PROVE Holds(job[j], lock) \/ lock \in NextLock(j)
        BY <3>1, <3>5, <3>6, <3>7 DEF Holds
      <3>9. Locks(j)' \subseteq Locks(j) \cup NextLock(j)
        BY <3>3, <3>7, InLocks, InNextLocks
      <3> QED
        BY <1>4, <2>1, <3>9
    <2> QED
      BY <2>2, <2>3
  <1>11. CASE InsertLedger(j)
    <2>1. CASE Raise(j)
      BY <1>4, <1>6, <2>1
    <2>2. CASE Go(j, Entered(j))
      <3>1. job[j].step = "insert"
        BY <1>11 DEF InsertLedger
      <3>2. /\ job'[j].executed = job[j].executed \cup {job[j].script}
            /\ job'[j].truncated = 0 /\ job'[j].taken = 0 /\ job[j].script \in Scripts
        BY <1>1, <1>2, <2>2, <3>1, EnteredState DEF Orderly, JobState
      <3>3. DOMAIN Takes[job[j].script] = 1..job[j].taken
        BY <1>1, <3>1, <3>2, ScriptsAssumption DEF Orderly
      <3>4. ASSUME NEW lock, Holds(job'[j], lock) PROVE Holds(job[j], lock)
        <4>1. CASE \E s \in job[j].executed : lock \in LocksOf(s)
          BY <4>1 DEF Holds
        <4>2. CASE lock \in LocksOf(job[j].script)
          BY <3>3, <4>2 DEF Holds, LocksOf
        <4>3. \/ \E s \in job[j].executed : lock \in LocksOf(s)
              \/ lock \in LocksOf(job[j].script)
          BY <3>2, <3>4 DEF Holds
        <4> QED
          BY <4>1, <4>2, <4>3
      <3>7. Locks(j)' \subseteq Locks(j)
        BY <3>4, InLocks, InNextLocks
      <3> QED
        BY <1>4, <3>7
    <2> QED
      BY <1>11, <2>1, <2>2 DEF InsertLedger
  <1>12. CASE CommitScripts(j)
    <2>1. CASE Go(j, Ended(j, "succeeded"))
      BY <1>4, <1>5, <2>1, EndedState
    <2>2. CASE Go(j, [Ended(j, None) EXCEPT !.step = "truncate"])
      <3> DEFINE state == [Ended(j, None) EXCEPT !.step = "truncate"]
      <3>1. state.executed = {} /\ state.taken = 0 /\ state.truncated = 0
        BY EndedState DEF JobState
      <3>2. Go(j, state)
        BY <2>2
      <3> HIDE DEF state
      <3> QED
        BY <1>4, <1>5, <3>1, <3>2
    <2> QED
      BY <1>4, <1>6, <1>12, <2>1, <2>2 DEF CommitScripts
  <1>13. CASE TruncateNext(j)
    <2>1. job[j].step = "truncate" /\ WaitsFor(j) = {} /\ job[j].truncated \in Nat
      BY <1>1, <1>13 DEF TruncateNext, JobState
    <2>2. CASE Raise(j)
      BY <1>4, <1>6, <2>2
    <2>3. CASE Go(j, [job[j] EXCEPT !.truncated = @ + 1])
      <3> DEFINE state == [job[j] EXCEPT !.truncated = @ + 1]
                 table == RUNTIME_RESET_TABLES[job[j].truncated + 1]
      <3>1. /\ state.executed = job[j].executed /\ state.truncated = job[j].truncated + 1
            /\ state.taken = job[j].taken /\ state.script = job[j].script
        BY <1>1 DEF JobState
      <3>2. job'[j] = state
        BY <1>2, <2>3
      <3> HIDE DEF state
      <3>3. \A i \in 1..(job[j].truncated + 1) : i \in 1..job[j].truncated \/ i = job[j].truncated + 1
        BY <2>1
      <3>4. Emptying(table) \in NextLock(j)
        BY <2>1 DEF NextLock
      <3>5. ASSUME NEW lock, Holds(state, lock) PROVE Holds(job[j], lock) \/ lock \in NextLock(j)
        BY <3>1, <3>3, <3>4, <3>5 DEF Holds
      <3>8. Locks(j)' \subseteq Locks(j) \cup NextLock(j)
        BY <3>2, <3>5, InLocks, InNextLocks
      <3> QED
        BY <1>4, <2>1, <3>8
    <2> QED
      BY <1>13, <2>2, <2>3 DEF TruncateNext
  <1>14. CASE Fail(j)
    BY <1>4, <1>6, <1>14 DEF Fail
  <1> QED
    BY <1>8, <1>9, <1>10, <1>11, <1>12, <1>13, <1>14 DEF Proceed

\* So no two processes ever hold locks that conflict.
LEMMA NextLocks == Inv /\ LocksAgree /\ [Next]_vars => LocksAgree'
  <1> SUFFICES ASSUME Inv, LocksAgree, [Next]_vars PROVE LocksAgree'
    OBVIOUS
  <1>1. ASSUME NEW j \in Jobs, Start(j) \/ Proceed(j) \/ Fail(j) PROVE LocksAgree'
    <2>1. /\ \A k \in Jobs \ {j} : Locks(k)' = Locks(k)
          /\ \/ Locks(j)' \subseteq Locks(j)
             \/ WaitsFor(j) = {} /\ Locks(j)' \subseteq Locks(j) \cup NextLock(j)
      BY <1>1, StepLocks
    <2>2. ASSUME NEW k \in Jobs \ {j}, NEW mine \in Locks(j)', NEW theirs \in Locks(k)
          PROVE  ~Conflict(mine, theirs) /\ ~Conflict(theirs, mine)
      <3>1. ~Conflict(mine, theirs)
        BY <2>1 DEF LocksAgree, WaitsFor, Others
      <3> QED
        BY <3>1 DEF Conflict
    <2>3. ASSUME NEW i \in Jobs, NEW k \in Jobs, i # k, NEW mine \in Locks(i)', NEW theirs \in Locks(k)'
          PROVE  ~Conflict(mine, theirs)
      <3>1. CASE i = j
        BY <2>1, <2>2, <2>3, <3>1
      <3>2. CASE k = j
        BY <2>1, <2>2, <2>3, <3>2
      <3>3. CASE i # j /\ k # j
        BY <2>1, <2>3, <3>3 DEF LocksAgree
      <3> QED
        BY <3>1, <3>2, <3>3
    <2> QED
      BY <2>3 DEF LocksAgree
  <1>2. ASSUME UNCHANGED job PROVE LocksAgree'
    <2>1. ASSUME NEW k \in Jobs PROVE Locks(k)' = Locks(k)
      <3>1. \A lock : lock \in Locks(k)' <=> lock \in Locks(k)
        BY <1>2, InLocks, InNextLocks
      <3> QED
        BY <3>1
    <2>2. ASSUME NEW j \in Jobs, NEW k \in Jobs, j # k, NEW mine \in Locks(j)', NEW theirs \in Locks(k)'
          PROVE  ~Conflict(mine, theirs)
      BY <2>1, <2>2 DEF LocksAgree
    <2> QED
      BY <2>2 DEF LocksAgree
  <1> QED
    BY <1>1, <1>2 DEF Next, StartCheck, FinishCheck, Batch, Work, Upgrade, vars

----------------------------------------------------------------------------
(* Who waits for whom *)

\* Scripts are ordered in one way for all processes.
LEMMA OneOrder ==
  ASSUME NEW s \in Scripts, NEW t \in Scripts, ~Precedes(s, t), ~Precedes(t, s)
  PROVE  s = t
  <1>1. name[s] \in Nat /\ name[t] \in Nat
    BY ScriptsAssumption
  <1>2. CASE s \in Migrations /\ t \in Migrations
    BY <1>1, <1>2, ScriptsAssumption DEF Precedes
  <1>3. CASE s \in Seeds /\ t \in Seeds
    BY <1>1, <1>3, ScriptsAssumption DEF Precedes
  <1> QED
    BY <1>2, <1>3 DEF Scripts, Precedes

Fresh(j) ==
    /\ job[j].step \in {"execute", "insert"} /\ job[j].script \notin ledger
    /\ KeepsOrder(job[j].script, job[j].plan)

\* Of the processes of one release, those that have executed nothing are at the
\* same script.
LEMMA SameScript ==
  ASSUME Inv, PlansInv, NEW j \in Jobs, NEW k \in Jobs, job[j].plan = job[k].plan, Fresh(j), Fresh(k),
         job[j].executed = {}, job[k].executed = {}
  PROVE  job[j].script = job[k].script
  <1>1. Orderly(j) /\ Orderly(k) /\ Planned(j) /\ Planned(k) /\ job[j] \in JobState
    BY DEF Inv, TypeOK, PlansInv
  <1>2. job[j].script \notin job[k].passed /\ job[k].script \notin job[j].passed
    BY <1>1 DEF Planned, Fresh
  <1>3. ~Precedes(job[j].script, job[k].script) /\ ~Precedes(job[k].script, job[j].script)
    BY <1>1, <1>2 DEF Orderly, Fresh
  <1>4. job[j].script \in Scripts /\ job[k].script \in Scripts
    BY <1>1 DEF Orderly, Fresh, JobState
  <1> QED
    BY <1>3, <1>4, OneOrder

\* And one that has executed something has executed what the others are at.
LEMMA OthersAreBehind ==
  ASSUME Inv, PlansInv, NEW j \in Jobs, NEW k \in Jobs, j # k, job[j].plan = job[k].plan, Fresh(j), Fresh(k),
         job[j].executed # {}
  PROVE  job[k].script \in job[j].executed /\ ~Precedes(job[j].script, job[k].script)
  <1>1. /\ Orderly(j) /\ Orderly(k) /\ Planned(j) /\ Planned(k) /\ job[j] \in JobState
        /\ Uncommitted(j) /\ Exclusive
    BY DEF Inv, TypeOK, PlansInv
  <1>2. PICK x : x \in job[j].executed
    OBVIOUS
  <1>3. x \in job[j].passed /\ x \notin ledger /\ x \notin job[k].executed
    BY <1>1, <1>2 DEF Orderly, Uncommitted, Exclusive
  <1>4. x \in job[k].plan \ job[k].passed
    BY <1>1, <1>3 DEF Planned
  <1>5. ~Precedes(x, job[k].script) /\ job[k].script \in job[j].plan
    BY <1>1, <1>4 DEF Orderly, Fresh
  <1>6. x \in Scripts /\ job[k].script \in Scripts
    BY <1>1, <1>2, <1>5 DEF JobState
  <1>7. x = job[k].script \/ Precedes(job[k].script, x)
    BY <1>5, <1>6, OneOrder
  <1>8. job[k].script \in job[j].passed
    BY <1>1, <1>3, <1>5, <1>7 DEF Orderly
  <1>9. job[k].script \in job[j].executed
    BY <1>1, <1>8 DEF Planned, Fresh
  <1>10. ~Precedes(job[j].script, job[k].script)
    BY <1>1, <1>8 DEF Orderly, Fresh
  <1> QED
    BY <1>9, <1>10

\* Both cannot have executed something.
LEMMA OneExecutes ==
  ASSUME Inv, PlansInv, NEW j \in Jobs, NEW k \in Jobs, j # k, job[j].plan = job[k].plan, Fresh(j), Fresh(k),
         job[j].executed # {}
  PROVE  job[k].executed = {}
  <1>1. Orderly(j) /\ job[j] \in JobState
    BY DEF Inv, TypeOK
  <1>2. SUFFICES ASSUME job[k].executed # {} PROVE FALSE
    OBVIOUS
  <1>3. /\ job[k].script \in job[j].executed /\ ~Precedes(job[j].script, job[k].script)
        /\ ~Precedes(job[k].script, job[j].script)
    BY <1>2, OthersAreBehind
  <1>4. job[k].script \in job[j].passed /\ job[j].script \notin job[j].passed
    BY <1>1, <1>3 DEF Orderly, Fresh
  <1>5. job[j].script \in Scripts /\ job[k].script \in Scripts
    BY <1>1, <1>3 DEF Orderly, Fresh, JobState
  <1> QED
    BY <1>3, <1>4, <1>5, OneOrder

OnlyShared(k) == job[k].executed = {} /\ 1..job[k].taken \subseteq Shared(job[k].script)

\* Nobody at that script or a later one waits for a process that has come to none
\* of the locks that keep others out.
LEMMA NobodyWaitsForShared ==
  ASSUME Inv, NEW j \in Jobs, NEW k \in Jobs, job[j].plan = job[k].plan, Fresh(j), Fresh(k), OnlyShared(k),
         ~Precedes(job[j].script, job[k].script)
  PROVE  k \notin WaitsFor(j)
  <1>1. Orderly(j) /\ Orderly(k)
    BY DEF Inv
  <1>2. job[k].truncated = 0 /\ job[j].script \in job[k].plan
    BY <1>1 DEF Orderly, Fresh
  <1>3. SUFFICES ASSUME k \in WaitsFor(j) PROVE FALSE
    OBVIOUS
  <1>4. PICK mine \in NextLock(j), theirs \in Locks(k) : Conflict(mine, theirs)
    BY <1>3 DEF WaitsFor, OnlyShared
  <1>5. PICK n \in DOMAIN Takes[job[j].script] : mine = Takes[job[j].script][n]
    BY DEF NextLock, Fresh
  <1>6. PICK i \in Shared(job[k].script) : theirs = Takes[job[k].script][i]
    <2>1. Holds(job[k], theirs)
      BY <1>4, InLocks
    <2> QED
      BY <1>2, <2>1 DEF Holds, OnlyShared
  <1>7. ~Conflict(theirs, mine)
    BY <1>2, <1>5, <1>6 DEF Fresh, KeepsOrder
  <1> QED
    BY <1>4, <1>7 DEF Conflict

\* Who has come further holds a lock that keeps others out.
LEMMA HoldsItsOwn ==
  ASSUME Inv, NEW k \in Jobs, Fresh(k), job[k].executed = {}, ~OnlyShared(k)
  PROVE  \E n \in 1..job[k].taken : /\ n \in DOMAIN Takes[job[k].script]
                                    /\ Conflict(Takes[job[k].script][n], Takes[job[k].script][n])
  <1>1. Orderly(k) /\ job[k] \in JobState
    BY DEF Inv, TypeOK
  <1>2. job[k].script \in Scripts
    BY <1>1 DEF Orderly, Fresh, JobState
  <1>3. 1..job[k].taken \subseteq DOMAIN Takes[job[k].script]
    <2>1. Len(Takes[job[k].script]) \in Nat /\ DOMAIN Takes[job[k].script] = 1..Len(Takes[job[k].script])
      BY <1>2, ScriptsAssumption
    <2>2. job[k].taken \in Nat /\ job[k].taken <= Len(Takes[job[k].script])
      BY <1>1, <2>1 DEF Orderly, Fresh, JobState
    <2> QED
      BY <2>1, <2>2
  <1>4. PICK i \in 1..job[k].taken : i \notin Shared(job[k].script)
    BY DEF OnlyShared
  <1>5. PICK n \in 1..i : Conflict(Takes[job[k].script][n], Takes[job[k].script][n])
    BY <1>3, <1>4 DEF Shared
  <1>6. n \in 1..job[k].taken
    BY <1>1 DEF JobState
  <1> QED
    BY <1>3, <1>5, <1>6

\* And who has executed a script leaves no one beside it there.
LEMMA ExecutedKeepsOut ==
  ASSUME Inv, LocksAgree, NEW j \in Jobs, NEW k \in Jobs, j # k, Fresh(k), job[k].executed = {},
         job[k].script \in job[j].executed
  PROVE  OnlyShared(k)
  <1>1. SUFFICES ASSUME ~OnlyShared(k) PROVE FALSE
    OBVIOUS
  <1>2. PICK n \in 1..job[k].taken : /\ n \in DOMAIN Takes[job[k].script]
                                     /\ Conflict(Takes[job[k].script][n], Takes[job[k].script][n])
    BY <1>1, HoldsItsOwn
  <1>3. Takes[job[k].script][n] \in Locks(k) /\ Takes[job[k].script][n] \in Locks(j)
    BY <1>2, InLocks DEF Holds, LocksOf
  <1> QED
    BY <1>2, <1>3 DEF LocksAgree

\* Nor are two at the same script both beyond its first such lock.
LEMMA OneIsBeyond ==
  ASSUME Inv, LocksAgree, NEW j \in Jobs, NEW k \in Jobs, j # k, Fresh(j), Fresh(k),
         job[j].executed = {}, job[k].executed = {}, job[j].script = job[k].script, ~OnlyShared(j)
  PROVE  OnlyShared(k)
  <1>1. SUFFICES ASSUME ~OnlyShared(k) PROVE FALSE
    OBVIOUS
  <1>2. job[j].taken \in Nat /\ job[k].taken \in Nat
    BY DEF Inv, TypeOK, JobState
  <1>3. PICK n \in 1..job[k].taken : Conflict(Takes[job[k].script][n], Takes[job[k].script][n])
    BY <1>1, HoldsItsOwn
  <1>4. PICK m \in 1..job[j].taken : Conflict(Takes[job[j].script][m], Takes[job[j].script][m])
    BY HoldsItsOwn
  <1>5. PICK i : /\ i \in 1..job[k].taken /\ i \in 1..job[j].taken
                 /\ Conflict(Takes[job[k].script][i], Takes[job[k].script][i])
    <2>1. CASE n <= m
      BY <1>2, <1>3, <2>1
    <2>2. CASE m <= n
      BY <1>2, <1>4, <2>2
    <2> QED
      BY <1>2, <2>1, <2>2
  <1>6. Takes[job[k].script][i] \in Locks(k) /\ Takes[job[k].script][i] \in Locks(j)
    BY <1>5, InLocks DEF Holds
  <1> QED
    BY <1>5, <1>6 DEF LocksAgree

\* Nor do two resets wait for each other: each has truncated the tables up to the
\* one it waits for.
LEMMA ResetsInLine ==
  ASSUME Inv, NEW j \in Jobs, NEW k \in Jobs, job[j].step = "truncate", job[k].step = "truncate",
         k \in WaitsFor(j)
  PROVE  job[j].truncated < job[k].truncated
  <1>1. /\ job[j].truncated \in 0..2 /\ job[k].truncated \in 0..2
        /\ job[k].executed = {} /\ job[k].taken = 0
    BY DEF Inv, TypeOK, JobState, Orderly
  <1>2. PICK theirs \in Locks(k) : Conflict(Emptying(RUNTIME_RESET_TABLES[job[j].truncated + 1]), theirs)
    BY DEF WaitsFor, NextLock
  <1>3. PICK i \in 1..job[k].truncated : RUNTIME_RESET_TABLES[job[j].truncated + 1] = RUNTIME_RESET_TABLES[i]
    <2>1. PICK i \in 1..job[k].truncated : theirs = Emptying(RUNTIME_RESET_TABLES[i])
      BY <1>1, <1>2, InLocks DEF Holds
    <2> QED
      BY <1>2, <2>1 DEF Conflict, Emptying
  <1>4. \A m, n \in 1..3 : RUNTIME_RESET_TABLES[m] = RUNTIME_RESET_TABLES[n] => m = n
    BY DEF RUNTIME_RESET_TABLES
  <1>5. job[j].truncated + 1 = i
    BY <1>1, <1>3, <1>4
  <1> QED
    BY <1>1, <1>3, <1>5

\* Of any processes of one release, one waits for none of the others: the one
\* that has executed scripts, or holds a lock that keeps the others out of the
\* script they all are at, or any of them.  And of resets, the furthest one.
THEOREM NoCircles == Spec => []NoCircle
  <1>1. Inv /\ PlansInv /\ LocksAgree => NoCircle
    <2> SUFFICES ASSUME Inv, PlansInv, LocksAgree, NEW S \in SUBSET Jobs, S # {},
                        \/ \A j \in S : job[j].step = "truncate"
                        \/ \A j, k \in S : Fresh(j) /\ job[j].plan = job[k].plan
                 PROVE  \E j \in S : WaitsFor(j) \cap S = {}
      BY DEF NoCircle, Fresh
    <2>0. \A j \in Jobs : j \notin WaitsFor(j)
      BY DEF WaitsFor, Others
    <2>1. CASE \A j \in S : job[j].step = "truncate"
      <3>1. \A j, k \in S : k \in WaitsFor(j) => job[j].truncated < job[k].truncated
        BY <2>1, ResetsInLine
      <3>2. \A j \in S : job[j].truncated \in 0..2
        BY DEF Inv, TypeOK, JobState
      <3>3. PICK j \in S : \A k \in S : job[k].truncated <= job[j].truncated
        <4>1. CASE \E j \in S : job[j].truncated = 2
          BY <3>2, <4>1
        <4>2. CASE (\A j \in S : job[j].truncated # 2) /\ \E j \in S : job[j].truncated = 1
          BY <3>2, <4>2
        <4>3. CASE \A j \in S : job[j].truncated # 2 /\ job[j].truncated # 1
          BY <3>2, <4>3
        <4> QED
          BY <4>1, <4>2, <4>3
      <3>4. \A k \in S : k \notin WaitsFor(j)
        BY <3>1, <3>2, <3>3
      <3> QED
        BY <3>4
    <2>2. CASE \A j, k \in S : Fresh(j) /\ job[j].plan = job[k].plan
      <3>1. PICK h \in S : \A k \in S \ {h} : OnlyShared(k) /\ ~Precedes(job[h].script, job[k].script)
        <4>1. CASE \E j \in S : job[j].executed # {}
          <5>1. PICK j \in S : job[j].executed # {}
            BY <4>1
          <5>2. \A k \in S \ {j} : job[k].script \in job[j].executed /\ ~Precedes(job[j].script, job[k].script)
            BY <2>2, <5>1, OthersAreBehind
          <5>3. \A k \in S \ {j} : job[k].executed = {}
            BY <2>2, <5>1, OneExecutes
          <5>4. \A k \in S \ {j} : OnlyShared(k)
            BY <2>2, <5>2, <5>3, ExecutedKeepsOut
          <5> QED
            BY <5>2, <5>4
        <4>2. CASE \A j \in S : job[j].executed = {}
          <5>1. \A j, k \in S : job[j].script = job[k].script
            BY <2>2, <4>2, SameScript
          <5>2. PICK j \in S : \A k \in S \ {j} : OnlyShared(k)
            <6>1. CASE \A k \in S : OnlyShared(k)
              BY <6>1
            <6>2. CASE \E j \in S : ~OnlyShared(j)
              BY <2>2, <4>2, <5>1, <6>2, OneIsBeyond
            <6> QED
              BY <6>1, <6>2
          <5>3. \A k \in S : ~Precedes(job[j].script, job[k].script)
            <6>1. ~Precedes(job[j].script, job[j].script)
              <7>1. job[j].script \in Scripts
                BY <2>2 DEF Inv, TypeOK, JobState, Orderly, Fresh
              <7>2. name[job[j].script] \in Nat
                BY <7>1, ScriptsAssumption
              <7> QED
                BY <7>2, ScriptsAssumption DEF Precedes
            <6> QED
              BY <5>1, <6>1
          <5> QED
            BY <5>2, <5>3
        <4> QED
          BY <4>1, <4>2
      <3>2. \A k \in S \ {h} : k \notin WaitsFor(h)
        BY <2>2, <3>1, NobodyWaitsForShared
      <3> QED
        BY <2>0, <3>2
    <2> QED
      BY <2>1, <2>2
  <1>2. Init => LocksAgree
    <2> SUFFICES ASSUME Init PROVE LocksAgree
      OBVIOUS
    <2>1. \A j \in Jobs : job[j].executed = {} /\ job[j].taken = 0 /\ job[j].truncated = 0
      BY DEF Init, NoJob
    <2> QED
      BY <2>1, NoLocks, InLocks DEF LocksAgree
  <1> QED
    BY <1>1, <1>2, InitInv, NextInv, InitPlans, NextPlans, NextLocks, PTL DEF Spec

----------------------------------------------------------------------------
(* The batches *)

RunRecord == [run : BOOLEAN, scored : Nat, missing : Int, results : SUBSET Accounts]
BatchRecord == [step : {"idle", "run", "results", "ended"}, account_ids : Seq(Accounts), tx : RunRecord,
                status : {"none", "completed", "degraded"}, acknowledged : BOOLEAN]

\* The results that a transaction holds are those of the first places with a
\* profile, one for each.
Inserted(b) ==
    \E places \in SUBSET Profiles(b) :
        /\ \A i \in places, k \in Profiles(b) : k < i => k \in places
        /\ batch[b].tx.results = {batch[b].account_ids[i] : i \in places}
        /\ Cardinality(batch[b].tx.results) = Cardinality(places)

\* What BatchesAreTrue says of one request.
IsTrue(b) ==
    /\ stored[b].run =>
         /\ stored[b].results = {batch[b].account_ids[i] : i \in DOMAIN batch[b].account_ids} \cap Profiled
         /\ stored[b].scored = Cardinality(stored[b].results)
         /\ stored[b].scored + stored[b].missing = Len(batch[b].account_ids)
    /\ ~stored[b].run => stored[b] = NoRun
    /\ batch[b].status = "completed" => stored[b].run
    /\ batch[b].status = "degraded" /\ batch[b].acknowledged => ~stored[b].run

BatchState(b) ==
    /\ IsTrue(b)
    /\ batch[b].step # "ended" => stored[b] = NoRun /\ batch[b].status = "none"
    /\ batch[b].step = "results" =>
         /\ batch[b].tx.run
         /\ batch[b].tx.scored = Cardinality(Profiles(b))
         /\ batch[b].tx.missing = Len(batch[b].account_ids) - Cardinality(Profiles(b))
         /\ Inserted(b)

BatchTypes == batch \in [Batches -> BatchRecord] /\ stored \in [Batches -> RunRecord]

BatchesInv == BatchTypes /\ \A b \in Batches : BatchState(b)

\* Two sets of first places with equally many elements are the same.
LEMMA SameFirstPlaces ==
  ASSUME NEW P \in SUBSET Nat, IsFiniteSet(P), NEW D \in SUBSET P, NEW i \in P,
         \A d \in D, k \in P : k < d => k \in D,
         Cardinality({k \in P : k < i}) = Cardinality(D)
  PROVE  D = {k \in P : k < i}
  <1> DEFINE before == {k \in P : k < i}
  <1>1. IsFiniteSet(before) /\ IsFiniteSet(D)
    BY FS_Subset
  <1>2. CASE i \in D
    <2>1. before \subseteq D
      BY <1>2
    <2>2. before = D
      BY <1>1, <2>1, FS_Subset
    <2>3. ~(i < i)
      OBVIOUS
    <2> QED
      BY <1>2, <2>2, <2>3
  <1>3. CASE i \notin D
    <2>1. D \subseteq before
      BY <1>3
    <2> QED
      BY <1>1, <2>1, FS_Subset
  <1> QED
    BY <1>2, <1>3

\* The places are finitely many numbers.
LEMMA PlacesFinite ==
  ASSUME BatchTypes, NEW b \in Batches
  PROVE  /\ batch[b].account_ids \in Seq(Accounts)
         /\ Profiles(b) \in SUBSET Nat /\ IsFiniteSet(Profiles(b)) /\ Cardinality(Profiles(b)) \in Nat
         /\ batch[b].tx \in RunRecord /\ IsFiniteSet(batch[b].tx.results)
  <1>1. batch[b].account_ids \in Seq(Accounts) /\ batch[b].tx \in RunRecord
    BY DEF BatchTypes, BatchRecord
  <1>2. DOMAIN batch[b].account_ids = 1..Len(batch[b].account_ids) /\ Len(batch[b].account_ids) \in Nat
    BY <1>1
  <1>3. IsFiniteSet(1..Len(batch[b].account_ids))
    BY <1>2, FS_Interval
  <1>4. Profiles(b) \subseteq 1..Len(batch[b].account_ids)
    BY <1>2 DEF Profiles
  <1>5. IsFiniteSet(Profiles(b)) /\ Cardinality(Profiles(b)) \in Nat
    BY <1>3, <1>4, FS_Subset, FS_CardinalityType
  <1>6. batch[b].tx.results \subseteq Accounts
    BY <1>1 DEF RunRecord
  <1> QED
    BY <1>1, <1>2, <1>4, <1>5, <1>6, AccountsAssumption, FS_Subset

\* No request yet.
LEMMA InitBatches == Init => BatchesInv
  <1> SUFFICES ASSUME BatchInit PROVE BatchesInv
    BY DEF Init
  <1>1. NoRun \in RunRecord /\ <<>> \in Seq(Accounts)
    BY DEF NoRun, RunRecord
  <1>2. BatchTypes
    BY <1>1 DEF BatchInit, BatchTypes, BatchRecord
  <1>3. \A b \in Batches : BatchState(b)
    BY DEF BatchInit, BatchState, IsTrue, NoRun
  <1> QED
    BY <1>2, <1>3 DEF BatchesInv

\* A step of one request.
LEMMA LocalBatch ==
  ASSUME BatchesInv, NEW b \in Batches, NEW state \in BatchRecord, NEW row \in RunRecord,
         batch' = [batch EXCEPT ![b] = state], stored' = [stored EXCEPT ![b] = row], BatchState(b)'
  PROVE  BatchesInv'
  <1>1. BatchTypes'
    BY DEF BatchesInv, BatchTypes
  <1>2. ASSUME NEW c \in Batches, c # b PROVE BatchState(c)'
    <2>1. batch'[c] = batch[c] /\ stored'[c] = stored[c]
      BY <1>2 DEF BatchesInv, BatchTypes
    <2>2. Profiles(c)' = Profiles(c)
      BY <2>1 DEF Profiles
    <2>3. IsTrue(c)' = IsTrue(c) /\ Inserted(c)' = Inserted(c)
      BY <2>1, <2>2 DEF IsTrue, Inserted
    <2> QED
      BY <2>1, <2>2, <2>3 DEF BatchesInv, BatchState
  <1> QED
    BY <1>1, <1>2 DEF BatchesInv

\* An answer without a row, or one that nobody confirmed.
LEMMA AnswerBatch ==
  ASSUME BatchesInv, NEW b \in Batches, NEW status \in {"none", "completed", "degraded"},
         NEW acknowledged \in BOOLEAN, NEW row \in RunRecord,
         Answer(b, status, acknowledged), stored' = [stored EXCEPT ![b] = row],
         row = NoRun \/
           /\ row.run
           /\ row.results = {batch[b].account_ids[i] : i \in DOMAIN batch[b].account_ids} \cap Profiled
           /\ row.scored = Cardinality(row.results)
           /\ row.scored + row.missing = Len(batch[b].account_ids),
         status = "completed" => row.run,
         status = "degraded" /\ acknowledged => ~row.run
  PROVE  BatchesInv'
  <1> DEFINE state == [batch[b] EXCEPT !.step = "ended", !.tx = NoRun,
                                       !.status = status, !.acknowledged = acknowledged]
  <1>1. batch[b] \in BatchRecord /\ NoRun \in RunRecord
    BY DEF BatchesInv, BatchTypes, NoRun, RunRecord
  <1>2. /\ state \in BatchRecord /\ state.account_ids = batch[b].account_ids /\ state.step = "ended"
        /\ state.status = status /\ state.acknowledged = acknowledged
    BY <1>1 DEF BatchRecord
  <1>3. batch' = [batch EXCEPT ![b] = state]
    BY <1>1 DEF Answer, BatchesInv, BatchTypes
  <1> HIDE DEF state
  <1>4. batch'[b] = state /\ stored'[b] = row
    BY <1>3 DEF BatchesInv, BatchTypes
  <1>5. ~NoRun.run
    BY DEF NoRun
  <1>6. BatchState(b)'
    BY <1>2, <1>4, <1>5 DEF BatchState, IsTrue
  <1> QED
    BY <1>2, <1>3, <1>6, LocalBatch

\* A request is received.
LEMMA ScoreBatchBatches == ASSUME BatchesInv, NEW b \in Batches, ScoreBatch(b) PROVE BatchesInv'
  <1>1. PICK account_ids \in AccountIds :
          batch' = [batch EXCEPT ![b] = [batch[b] EXCEPT !.step = "run", !.account_ids = account_ids]]
    BY DEF ScoreBatch, BatchesInv, BatchTypes
  <1> DEFINE state == [batch[b] EXCEPT !.step = "run", !.account_ids = account_ids]
  <1>2. account_ids \in Seq(Accounts)
    <2>1. PICK n \in 1..MaxAccounts : account_ids \in [1..n -> Accounts]
      BY DEF AccountIds
    <2> QED
      BY <2>1, MaxAccountsAssumption
  <1>3. batch[b] \in BatchRecord /\ stored[b] \in RunRecord /\ BatchState(b) /\ batch[b].step = "idle"
    BY DEF BatchesInv, BatchTypes, ScoreBatch
  <1>4. state \in BatchRecord /\ state.step = "run" /\ state.status = batch[b].status
    BY <1>2, <1>3 DEF BatchRecord
  <1>5. batch' = [batch EXCEPT ![b] = state] /\ stored' = [stored EXCEPT ![b] = stored[b]]
    BY <1>1 DEF ScoreBatch, BatchesInv, BatchTypes
  <1> HIDE DEF state
  <1>6. batch'[b] = state /\ stored'[b] = stored[b]
    BY <1>5 DEF BatchesInv, BatchTypes
  <1>7. BatchState(b)'
    BY <1>3, <1>4, <1>6 DEF BatchState, IsTrue, NoRun
  <1> QED
    BY <1>3, <1>4, <1>5, <1>7, LocalBatch

\* The row of the run, in the transaction.
LEMMA InsertRunBatches == ASSUME BatchesInv, NEW b \in Batches, InsertRun(b) PROVE BatchesInv'
  <1> DEFINE state == [batch[b] EXCEPT !.step = "results", !.tx = RunRow(b)]
  <1>1. /\ batch[b] \in BatchRecord /\ stored[b] \in RunRecord /\ BatchState(b)
        /\ batch[b].step = "run" /\ BatchTypes
    BY DEF BatchesInv, BatchTypes, InsertRun
  <1>2. RunRow(b) \in RunRecord
    <2>1. Len(batch[b].account_ids) - Cardinality(Profiles(b)) \in Int /\ Cardinality(Profiles(b)) \in Nat
      BY <1>1, PlacesFinite
    <2> QED
      BY <2>1 DEF RunRow, RunRecord
  <1>3. /\ state \in BatchRecord /\ state.step = "results" /\ state.tx = RunRow(b)
        /\ state.account_ids = batch[b].account_ids /\ state.status = batch[b].status
    BY <1>1, <1>2 DEF BatchRecord
  <1>4. batch' = [batch EXCEPT ![b] = state] /\ stored' = [stored EXCEPT ![b] = stored[b]]
    BY <1>1 DEF InsertRun, BatchTypes
  <1> HIDE DEF state
  <1>5. batch'[b] = state /\ stored'[b] = stored[b]
    BY <1>1, <1>4 DEF BatchTypes
  <1>6. Profiles(b)' = Profiles(b)
    BY <1>3, <1>5 DEF Profiles
  <1>7. /\ RunRow(b).run /\ RunRow(b).scored = Cardinality(Profiles(b)) /\ RunRow(b).results = {}
        /\ RunRow(b).missing = Len(batch[b].account_ids) - Cardinality(Profiles(b))
    BY DEF RunRow
  <1>8. Inserted(b)'
    <2>1. /\ {} \in SUBSET Profiles(b)' /\ batch'[b].tx.results = {}
          /\ {batch'[b].account_ids[i] : i \in {}} = {}
      BY <1>3, <1>5, <1>7
    <2> QED
      BY <2>1 DEF Inserted
  <1>9. IsTrue(b)' /\ stored'[b] = NoRun /\ batch'[b].status = "none"
    BY <1>1, <1>3, <1>5 DEF BatchState, IsTrue, NoRun
  <1>10. BatchState(b)'
    BY <1>3, <1>5, <1>6, <1>7, <1>8, <1>9 DEF BatchState
  <1> QED
    BY <1>1, <1>3, <1>4, <1>10, LocalBatch

\* One more result, at the next place.
LEMMA NextResult ==
  ASSUME BatchTypes, NEW b \in Batches, Inserted(b), NEW i \in Profiles(b), IsNext(i, b),
         batch[b].account_ids[i] \notin batch[b].tx.results
  PROVE  \E places \in SUBSET Profiles(b) :
           /\ \A d \in places, k \in Profiles(b) : k < d => k \in places
           /\ batch[b].tx.results \cup {batch[b].account_ids[i]} = {batch[b].account_ids[d] : d \in places}
           /\ Cardinality(batch[b].tx.results \cup {batch[b].account_ids[i]}) = Cardinality(places)
  <1>1. PICK D \in SUBSET Profiles(b) :
          /\ \A d \in D, k \in Profiles(b) : k < d => k \in D
          /\ batch[b].tx.results = {batch[b].account_ids[d] : d \in D}
          /\ Cardinality(batch[b].tx.results) = Cardinality(D)
    BY DEF Inserted
  <1>2. Profiles(b) \in SUBSET Nat /\ IsFiniteSet(Profiles(b)) /\ IsFiniteSet(batch[b].tx.results)
    BY PlacesFinite
  <1>3. D = {k \in Profiles(b) : k < i}
    BY <1>1, <1>2, SameFirstPlaces DEF IsNext
  <1>4. i \notin D
    BY <1>2, <1>3
  <1>5. IsFiniteSet(D)
    BY <1>2, FS_Subset
  <1>6. /\ Cardinality(D \cup {i}) = Cardinality(D) + 1
        /\ Cardinality(batch[b].tx.results \cup {batch[b].account_ids[i]}) = Cardinality(batch[b].tx.results) + 1
    BY <1>2, <1>4, <1>5, FS_AddElement
  <1>7. \A d \in D \cup {i}, k \in Profiles(b) : k < d => k \in D \cup {i}
    BY <1>1, <1>3
  <1>8. batch[b].tx.results \cup {batch[b].account_ids[i]} = {batch[b].account_ids[d] : d \in D \cup {i}}
    BY <1>1
  <1> QED
    BY <1>1, <1>6, <1>7, <1>8

\* A result is inserted, or the account's second one is refused and with it all.
LEMMA InsertResultBatches == ASSUME BatchesInv, NEW b \in Batches, InsertResult(b) PROVE BatchesInv'
  <1>1. /\ batch[b] \in BatchRecord /\ stored[b] \in RunRecord /\ BatchState(b)
        /\ batch[b].step = "results" /\ BatchTypes
    BY DEF BatchesInv, BatchTypes, InsertResult
  <1>2. stored' = [stored EXCEPT ![b] = stored[b]] /\ stored[b] = NoRun
    BY <1>1 DEF InsertResult, BatchTypes, BatchState
  <1>3. PICK i \in Profiles(b) :
          /\ IsNext(i, b)
          /\ IF batch[b].account_ids[i] \in batch[b].tx.results
               THEN Answer(b, "degraded", TRUE)
               ELSE batch' = [batch EXCEPT ![b].tx.results = @ \cup {batch[b].account_ids[i]}]
    BY DEF InsertResult
  <1>4. CASE Answer(b, "degraded", TRUE)
    BY <1>1, <1>2, <1>4, AnswerBatch DEF NoRun
  <1>5. CASE /\ batch[b].account_ids[i] \notin batch[b].tx.results
             /\ batch' = [batch EXCEPT ![b].tx.results = @ \cup {batch[b].account_ids[i]}]
    <2> DEFINE account_id == batch[b].account_ids[i]
               tx == [batch[b].tx EXCEPT !.results = @ \cup {account_id}]
               state == [batch[b] EXCEPT !.tx = tx]
    <2>1. account_id \in Accounts /\ batch[b].tx \in RunRecord
      <3>1. batch[b].account_ids \in Seq(Accounts) /\ batch[b].tx \in RunRecord
        BY <1>1, PlacesFinite
      <3>2. i \in DOMAIN batch[b].account_ids
        BY DEF Profiles
      <3> QED
        BY <3>1, <3>2
    <2>2. /\ tx \in RunRecord /\ tx.run = batch[b].tx.run /\ tx.scored = batch[b].tx.scored
          /\ tx.missing = batch[b].tx.missing /\ tx.results = batch[b].tx.results \cup {account_id}
      BY <2>1 DEF RunRecord
    <2>3. batch' = [batch EXCEPT ![b] = [batch[b] EXCEPT !.tx = tx]]
      BY <1>1, <1>5 DEF BatchTypes
    <2> HIDE DEF tx
    <2>4. /\ state \in BatchRecord /\ state.tx = tx /\ state.account_ids = batch[b].account_ids
          /\ state.step = batch[b].step /\ state.status = batch[b].status
      BY <1>1, <2>2 DEF BatchRecord
    <2>5. batch' = [batch EXCEPT ![b] = state]
      BY <2>3
    <2> HIDE DEF state
    <2>6. batch'[b] = state /\ stored'[b] = stored[b]
      BY <1>1, <1>2, <2>5 DEF BatchTypes
    <2>7. Profiles(b)' = Profiles(b)
      BY <2>4, <2>6 DEF Profiles
    <2>8. Inserted(b)'
      <3>0. Inserted(b)
        BY <1>1 DEF BatchState
      <3>1. PICK places \in SUBSET Profiles(b) :
              /\ \A d \in places, k \in Profiles(b) : k < d => k \in places
              /\ batch[b].tx.results \cup {account_id} = {batch[b].account_ids[d] : d \in places}
              /\ Cardinality(batch[b].tx.results \cup {account_id}) = Cardinality(places)
        BY <1>1, <1>3, <1>5, <3>0, NextResult
      <3> HIDE DEF account_id
      <3>2. batch'[b].account_ids = batch[b].account_ids /\ batch'[b].tx.results = batch[b].tx.results \cup {account_id}
        BY <2>2, <2>4, <2>6
      <3> QED
        BY <2>7, <3>1, <3>2 DEF Inserted
    <2>9. IsTrue(b)' /\ stored'[b] = NoRun /\ batch'[b].status = "none"
      BY <1>1, <1>2, <2>4, <2>6 DEF BatchState, IsTrue, NoRun
    <2>10. BatchState(b)'
      BY <1>1, <2>2, <2>4, <2>6, <2>7, <2>8, <2>9 DEF BatchState
    <2> QED
      BY <1>1, <1>2, <2>4, <2>5, <2>10, LocalBatch
  <1> QED
    BY <1>3, <1>4, <1>5

\* The commit comes when every place has its result.
LEMMA CommitBatchBatches == ASSUME BatchesInv, NEW b \in Batches, CommitBatch(b) PROVE BatchesInv'
  <1> DEFINE row == batch[b].tx
  <1>1. /\ batch[b] \in BatchRecord /\ BatchState(b) /\ batch[b].step = "results" /\ BatchTypes
        /\ Cardinality(row.results) = Cardinality(Profiles(b))
    BY DEF BatchesInv, BatchTypes, CommitBatch
  <1>2. /\ batch[b].account_ids \in Seq(Accounts)
        /\ IsFiniteSet(Profiles(b)) /\ Cardinality(Profiles(b)) \in Nat /\ row \in RunRecord
    BY <1>1, PlacesFinite
  <1>3. PICK D \in SUBSET Profiles(b) :
          row.results = {batch[b].account_ids[i] : i \in D} /\ Cardinality(row.results) = Cardinality(D)
    BY <1>1 DEF BatchState, Inserted
  <1>4. D = Profiles(b)
    BY <1>1, <1>2, <1>3, FS_Subset
  <1>5. row.results = {batch[b].account_ids[i] : i \in DOMAIN batch[b].account_ids} \cap Profiled
    BY <1>3, <1>4 DEF Profiles
  <1>6. /\ row.run /\ row.scored = Cardinality(row.results)
        /\ row.scored + row.missing = Len(batch[b].account_ids)
    <2>1. Len(batch[b].account_ids) \in Nat
      BY <1>2
    <2> QED
      BY <1>1, <1>2, <2>1 DEF BatchState
  <1>7. stored' = [stored EXCEPT ![b] = row]
    BY DEF CommitBatch
  <1>8. Answer(b, "completed", TRUE) \/ Answer(b, "degraded", FALSE)
    BY DEF CommitBatch
  <1> HIDE DEF row
  <1> QED
    BY <1>2, <1>5, <1>6, <1>7, <1>8, AnswerBatch

\* An exception in the transaction, or a crash.
LEMMA FailBatchBatches == ASSUME BatchesInv, NEW b \in Batches, FailBatch(b) PROVE BatchesInv'
  <1>1. /\ stored[b] \in RunRecord /\ stored' = [stored EXCEPT ![b] = stored[b]]
        /\ stored[b] = NoRun /\ ~stored[b].run
    BY DEF BatchesInv, BatchTypes, BatchState, FailBatch, InTransaction, NoRun
  <1>2. Answer(b, "degraded", TRUE) \/ Answer(b, "none", TRUE)
    BY DEF FailBatch
  <1> QED
    BY <1>1, <1>2, AnswerBatch

\* Every step; the scripts and the checks leave the requests alone.
LEMMA NextBatches == BatchesInv /\ [Next]_vars => BatchesInv'
  <1> SUFFICES ASSUME BatchesInv, [Next]_vars PROVE BatchesInv'
    OBVIOUS
  <1>1. ASSUME NEW b \in Batches, Batch(b) PROVE BatchesInv'
    BY <1>1, ScoreBatchBatches, InsertRunBatches, InsertResultBatches, CommitBatchBatches, FailBatchBatches
       DEF Batch
  <1>2. CASE UNCHANGED batchVars
    <2>1. \A b \in Batches : Profiles(b)' = Profiles(b)
      BY <1>2 DEF batchVars, Profiles
    <2>2. ASSUME NEW b \in Batches PROVE BatchState(b)'
      <3>1. Inserted(b)' = Inserted(b) /\ IsTrue(b)' = IsTrue(b)
        BY <1>2, <2>1 DEF batchVars, Inserted, IsTrue
      <3> QED
        BY <1>2, <2>1, <3>1 DEF batchVars, BatchesInv, BatchState
    <2> QED
      BY <1>2, <2>2 DEF batchVars, BatchesInv, BatchTypes
  <1>3. ASSUME NEW j \in Jobs, Start(j) \/ Proceed(j) \/ Fail(j) PROVE UNCHANGED batchVars
    BY <1>3 DEF Start, Proceed, Fail, CreateLedger, SelectScript, Execute, InsertLedger, CommitScripts,
                TruncateNext, Raise, Go, batchVars
  <1>4. ASSUME NEW c \in Checks, StartCheck(c) \/ FinishCheck(c) PROVE UNCHANGED batchVars
    BY <1>4 DEF StartCheck, FinishCheck
  <1>5. ASSUME NEW table \in Tables, Work(table) PROVE UNCHANGED batchVars
    BY <1>5 DEF Work
  <1>6. ASSUME Upgrade \/ UNCHANGED vars PROVE UNCHANGED batchVars
    BY <1>6 DEF Upgrade, vars, batchVars
  <1> QED
    BY <1>1, <1>2, <1>3, <1>4, <1>5, <1>6 DEF Next

\* For any accounts asked for, in any order and however often each: a stored run
\* has a result for every account with a profile and counts that agree, and the
\* answer says of the run what is true, but for a lost acknowledgement.
THEOREM BatchesAlwaysTrue == Spec => []BatchesAreTrue
  <1>1. BatchesInv => BatchesAreTrue
    BY DEF BatchesInv, BatchState, IsTrue, BatchesAreTrue
  <1> QED
    BY <1>1, InitBatches, NextBatches, PTL DEF Spec
=============================================================================
