--------------------------- MODULE MCRubricJudge ---------------------------
(* RubricJudge for TLC: six rubrics, one blocked, in three batches of which *)
(* two are in flight; the last batch is not full.                           *)
EXTENDS RubricJudge
=============================================================================
