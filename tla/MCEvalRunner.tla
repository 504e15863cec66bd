---------------------------- MODULE MCEvalRunner ----------------------------
(* EvalRunner for TLC: three questions, two at a time, so that one waits for *)
(* a slot; one of them has no example.                                       *)
EXTENDS EvalRunner
CONSTANTS d1, d2
=============================================================================
