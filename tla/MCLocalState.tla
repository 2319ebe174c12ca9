---------------------------- MODULE MCLocalState ----------------------------
(* Small instances of LocalState. *)
EXTENDS LocalState, TLC

CONSTANTS m1, m2, m3, s1, s2, s3

\* Release 1 has the tables (m1), the roles (s1) and the users (s2), whose seed
\* reactivates them; release 2 adds a migration that clears the embeddings, as
\* 006 does (m2), one with a table that refers to the users, as 014 has (m3), and
\* more users (s3).
MCReleased == (m1 :> 1) @@ (m2 :> 2) @@ (m3 :> 2) @@ (s1 :> 1) @@ (s2 :> 1) @@ (s3 :> 2)
MCName == (m1 :> 1) @@ (m2 :> 6) @@ (m3 :> 14) @@ (s1 :> 1) @@ (s2 :> 2) @@ (s3 :> 3)
MCCreates == [s \in Scripts |-> IF s = m1 THEN Tables ELSE {}]
MCDiscards == (m1 :> {}) @@ (m2 :> {"knowledge.chunk_embeddings"}) @@ (m3 :> {})
                @@ (s1 :> {}) @@ (s2 :> {"iam.users"}) @@ (s3 :> {})

Taking(mode, tables) == [on |-> tables, mode |-> mode]

\* DELETE, then ALTER TABLE; CREATE TABLE with REFERENCES; INSERT of rows.
MCTakes ==
    (m1 :> <<Taking("access exclusive", Tables)>>)
      @@ (m2 :> <<Taking("row exclusive", {"knowledge.chunk_embeddings"}),
                  Taking("access exclusive", {"knowledge.chunk_embeddings"})>>)
      @@ (m3 :> <<Taking("access exclusive", {m3}), Taking("share row exclusive", {"iam.users"})>>)
      @@ (s1 :> <<Taking("access exclusive", {s1})>>)
      @@ (s2 :> <<Taking("row exclusive", {"iam.users"}), Taking("access exclusive", {s2})>>)
      @@ (s3 :> <<Taking("row exclusive", {"iam.users"}), Taking("access exclusive", {s3})>>)

MCSymmetry == Permutations(Jobs)

\* Users do something in one of three tables, and not next to a check; and next
\* to a batch there is no check, and one process at most.
MCBounds ==
    /\ Cardinality(work) <= 1
    /\ (\E c \in Checks : check[c].step # "idle") => work = {}
    /\ work \subseteq {"knowledge.chunk_embeddings", "iam.users", "risk.risk_alert_approvals"}
    /\ (\E b \in Batches : batch[b].step # "idle") =>
         /\ \A c \in Checks : check[c].step = "idle"
         /\ \E j \in Jobs : job[j].step = "idle"
=============================================================================
