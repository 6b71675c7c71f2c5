-------------------------- MODULE MCKnowledgeBase --------------------------
(* The instance of KnowledgeBase for TLC: two API processes.  One of them  *)
(* runs a workflow, whose search meets an ingestion of the same process    *)
(* and one of the other.                                                   *)
EXTENDS KnowledgeBase

CONSTANTS s1, i1, i2, k1, api1, api2

TwoIngests == [p \in {i1, i2, k1} |-> IF p = i2 THEN api2 ELSE api1]

=============================================================================
