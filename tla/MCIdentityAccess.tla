-------------------------- MODULE MCIdentityAccess --------------------------
(* Small instances of IdentityAccess. *)
EXTENDS IdentityAccess, TLC

CONSTANTS u1, u2, u3

\* Two administrators, as after one was added to the migrated demo data ...
MCTwoAdmins == (u1 :> {"admin"}) @@ (u2 :> {"admin"})
\* ... and the same with a user name still unused.
MCTwoAdminsOneNew == MCTwoAdmins @@ (u3 :> {})
MCRoles == {"admin", "analyst"}

\* Kinds of request per run.
MCAllKinds == {"roles", "activate", "deactivate", "create", "login", "logout"}
MCRoleChanges == {"roles"}
MCChangesAndLogins == {"roles", "activate", "deactivate", "login", "logout"}

\* Nobody creates a user who is there from the beginning, or changes one who is
\* never created; and the administrators' requests are of one of them while that
\* one is an active administrator.
MCBounds ==
    /\ \A r \in Requests : req[r].op = "create" => InitialRoles[req[r].user] = {}
    /\ \A r \in Requests : req[r].user # None /\ req[r].op # "create" /\ InitialRoles[req[r].user] = {} =>
         \E q \in Requests : req[q].op = "create"
    /\ \A q, r \in Requests : {req[q].actor, req[r].actor} \subseteq ActiveAdmins => req[q].actor = req[r].actor

\* The administrators, the browsers and the requests are alike.
MCSymmetry == Permutations(Requests) \cup Permutations(Browsers) \cup Permutations({u1, u2})
=============================================================================
