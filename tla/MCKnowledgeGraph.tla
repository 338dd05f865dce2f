-------------------------- MODULE MCKnowledgeGraph --------------------------
(***************************************************************************)
(* KnowledgeGraph for TLC: knowledge bases for a set of documents.         *)
(***************************************************************************)
EXTENDS KnowledgeGraph

CONSTANTS k1, k2, Guests   \* Guests: the documents of k2

KbOfDocs == [d \in Docs |-> IF d \in Guests THEN k2 ELSE k1]

\* A crash counts as one of the MaxChanges events of a run.
Uneventful == changes + crashes <= MaxChanges
=============================================================================
