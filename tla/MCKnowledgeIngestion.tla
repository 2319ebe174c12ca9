------------------------ MODULE MCKnowledgeIngestion ------------------------
(* Small instances of KnowledgeIngestion. *)
EXTENDS KnowledgeIngestion

CONSTANT s1

MCOneManifest == {{s1}}
=============================================================================
