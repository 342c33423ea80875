-------------------------- MODULE MCKnowledgeDemand --------------------------
(* Small instances of KnowledgeDemand. *)
EXTENDS KnowledgeDemand

CONSTANTS d1, x1
==============================================================================
