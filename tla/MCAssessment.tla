---------------------------- MODULE MCAssessment ----------------------------
(* Rubrics of one and two items.  The weights 1 and 2000 together make the   *)
(* score that misses an item and is displayed as 100.0.                      *)
EXTENDS Assessment

MCWeights == {1, 2000}
=============================================================================
