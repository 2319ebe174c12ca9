-------------------------- MODULE RuntimeSwitches --------------------------
(***************************************************************************)
(* Runtime switches: RuntimeSwitchService with its repository and the      *)
(* admin-only PUT /admin/runtime-switches route.                           *)
(*                                                                         *)
(* A change is one transaction: the upsert of the switch's row, which      *)
(* holds the row until the end, and the insert of an audit event, whose    *)
(* created_at is the time the transaction began.  Every part of the        *)
(* backend reads the switches through is_enabled, which answers with the   *)
(* default when the row is missing or cannot be read.                      *)
(***************************************************************************)
EXTENDS Integers

CONSTANTS Changes,       \* PUT requests for a known switch
          None

Switches == {"maintenance_mode", "response_cache_enabled", "retrieval_enabled"}

\* RUNTIME_SWITCH_DEFINITIONS, and what the readers pass as the default
Default(key) == key # "maintenance_mode"

ASSUME NoSwitchAssumption == None \notin BOOLEAN /\ None \notin Switches

VARIABLES
    rows,        \* iam.runtime_switches: is_enabled per key, None for no row
    change,      \* per request: its transaction, and once it is over its audit event
    clock        \* transactions that have begun

switchVars == <<rows, change, clock>>

NoChange == [step |-> "idle", key |-> None, enabled |-> FALSE, began |-> 0, alone |-> FALSE]

\* Migration 014 seeds the rows; before it there are none.
SwitchInit ==
    /\ \/ rows = [key \in Switches |-> Default(key)]
       \/ rows = [key \in Switches |-> None]
    /\ change = [c \in Changes |-> NoChange]
    /\ clock = 0

\* list_switches: what a reader gets from a database that answers
Stored(key) == IF rows[key] = None THEN Default(key) ELSE rows[key]

\* is_enabled
IsEnabled(key, readable) == IF readable THEN Stored(key) ELSE Default(key)

Open(c) == change[c].step \in {"upsert", "audit", "commit"}
Rivals(key) == {c \in Changes : Open(c) /\ change[c].key = key}

\* The transaction begins: NOW() is fixed.  History: which changes of a switch overlap.
SetEnabled(c, key, enabled) ==
    /\ change[c].step = "idle"
    /\ clock' = clock + 1
    /\ change' = [d \in Changes |->
         IF d = c THEN [step |-> "upsert", key |-> key, enabled |-> enabled,
                        began |-> clock', alone |-> Rivals(key) = {}]
         ELSE IF d \in Rivals(key) THEN [change[d] EXCEPT !.alone = FALSE] ELSE change[d]]
    /\ UNCHANGED rows

\* INSERT ... ON CONFLICT (switch_key) DO UPDATE waits for the row; others see
\* the new value at the commit.
Upsert(c) ==
    /\ change[c].step = "upsert"
    /\ \A d \in Rivals(change[c].key) : change[d].step = "upsert"
    /\ change' = [change EXCEPT ![c].step = "audit"]
    /\ UNCHANGED <<rows, clock>>

\* bug: the row is committed by itself
InsertAuditLast(c) ==
    /\ change[c].step = "audit"
    /\ rows' = [rows EXCEPT ![change[c].key] = change[c].enabled]
    /\ change' = [change EXCEPT ![c].step = "commit"]
    /\ UNCHANGED clock

InsertSwitchAudit(c) ==
    /\ change[c].step = "audit"
    /\ change' = [change EXCEPT ![c].step = "commit"]
    /\ UNCHANGED <<rows, clock>>

CommitSwitch(c) ==
    /\ change[c].step = "commit"
    /\ rows' = [rows EXCEPT ![change[c].key] = change[c].enabled]
    /\ change' = [change EXCEPT ![c].step = "committed"]
    /\ UNCHANGED clock

\* A statement or the commit raises, or the process dies: the transaction is undone.
RollbackSwitch(c) ==
    /\ Open(c)
    /\ change' = [change EXCEPT ![c].step = "undone"]
    /\ UNCHANGED <<rows, clock>>

ProceedSwitch(c) == Upsert(c) \/ InsertSwitchAudit(c) \/ CommitSwitch(c) \/ RollbackSwitch(c)

SwitchNext ==
    \E c \in Changes :
      \/ \E key \in Switches, enabled \in BOOLEAN : SetEnabled(c, key, enabled)
      \/ ProceedSwitch(c)

SwitchSpec == SwitchInit /\ [][SwitchNext]_switchVars

----------------------------------------------------------------------------
(* Properties *)

Steps == {"idle", "upsert", "audit", "commit", "committed", "undone"}

\* Type invariant of the switches.
SwitchTypeOK ==
    /\ rows \in [Switches -> BOOLEAN \cup {None}]
    /\ change \in [Changes -> [step : Steps, key : Switches \cup {None}, enabled : BOOLEAN,
                               began : Nat, alone : BOOLEAN]]
    /\ clock \in Nat

Committed(key) == {c \in Changes : change[c].step = "committed" /\ change[c].key = key}

\* The audit trail explains the switches: a switch has the value of the newest
\* event about it, by created_at, unless the change overlapped another one of
\* the same switch, and the seeded value when there is none (set_enabled).
SwitchesExplained ==
    \A key \in Switches :
      /\ Committed(key) = {} => rows[key] \in {None, Default(key)}
      /\ \A c \in Committed(key) :
           /\ change[c].alone
           /\ \A d \in Committed(key) : change[d].began <= change[c].began
           => rows[key] = change[c].enabled
=============================================================================
