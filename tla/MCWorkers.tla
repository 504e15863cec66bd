----------------------------- MODULE MCWorkers -----------------------------
(* Workers for TLC. *)
EXTENDS Workers, TLC

CONSTANTS t1, u2

\* The searches of one task find two sources, those of the others one.
MCFindable == [t \in Tasks |-> IF t = t1 THEN Urls ELSE Urls \ {u2}]

\* Sound where every task can find the same.
WorkersSymmetry == Permutations(Tasks)
=============================================================================
