-------------------------- MODULE MCKnowledgeBase --------------------------
(* Model checking of KnowledgeBase; the bounds are in the .cfg files. *)
EXTENDS KnowledgeBase

=============================================================================
