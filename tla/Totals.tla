------------------------------- MODULE Totals -------------------------------
(***************************************************************************)
(* The sum of a sequence of natural numbers, written as a recursive        *)
(* function so that TLAPS can reason about it (Lemmas).  The ledger of     *)
(* Budget compares its counters with such sums.                            *)
(***************************************************************************)
EXTENDS Integers, Sequences

\* Prefix[k] is the sum of the first k elements of w.
Prefix(w) ==
  LET sum[k \in 0..Len(w)] == IF k = 0 THEN 0 ELSE sum[k - 1] + w[k]
  IN  sum

Total(w) == Prefix(w)[Len(w)]
=============================================================================
