-------------------------- MODULE MCKnowledgeIndex --------------------------
(* A small instance of KnowledgeIndex. *)
EXTENDS KnowledgeIndex, SequencesExt

CONSTANTS s1, s2, c1, blank, g1

\* A version that lists both sources, and one that has dropped the second.
MCManifests == {{s1, s2}, {s1}}

\* A text of two chunks: two paragraphs that fit together, and one more.
MCParagraphs == c1 :> <<3, 3, 6>> @@ blank :> <<>>
MCTexts == BoundedSeq({1, 3, 6, 8, 9}, 5) \ {<<>>}

\* A file that the version does not list is left blank; the version with other
\* embedding settings lists one source, which is not edited meanwhile.
MCVersions ==
    /\ manifest # Sources => files[s2] = blank
    /\ config # g1 => manifest # Sources /\ files[s1] = c1

MCRunSymmetry == Permutations(Runs)
=============================================================================
