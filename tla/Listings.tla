------------------------------ MODULE Listings ------------------------------
(***************************************************************************)
(* Sequences made of finite sets.  SetToSortSeq and SelectSeq of the       *)
(* library rest on a sort that only TLC defines and on a recursion, of     *)
(* which nothing can be proved; here an element stands where the number of *)
(* elements before it puts it, which is the same sequence.                 *)
(***************************************************************************)
EXTENDS Integers, FiniteSets

\* The elements of S in the order in which before[x] are those in front of x.
Ranked(S, before) ==
  [k \in 1..Cardinality(S) |-> CHOOSE x \in S : Cardinality(before[x]) = k - 1]

\* A set of numbers from the smallest to the largest: sorted(S).
Ascending(S) == Ranked(S, [i \in S |-> {j \in S : j < i}])

\* The elements of s at the positions P, in their order: [s[i] for i in P].
Picked(s, P) == [k \in 1..Cardinality(P) |-> s[Ascending(P)[k]]]
=============================================================================
