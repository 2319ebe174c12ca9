--------------------------- MODULE MCChatExchange ---------------------------
(* Small instances of ChatExchange. *)
EXTENDS ChatExchange, TLC

CONSTANTS u1, u2

\* An operator whose context carries an approval, and an analyst.
MCRoleOf == (u1 :> "risk_operator") @@ (u2 :> "analyst")
MCApproved == (u1 :> TRUE) @@ (u2 :> FALSE)

\* Turns of different sessions share no row, list or cache entry, since every key
\* holds the session: the turns of a behaviour are made to be of one session.
MCOneSession ==
    \A q, r \in Requests : req[q] # NoRequest /\ req[r] # NoRequest => Sid(q) = Sid(r)

MCRequestSymmetry == Permutations(Requests)
=============================================================================
