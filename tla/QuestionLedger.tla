--------------------------- MODULE QuestionLedger ---------------------------
(***************************************************************************)
(* What the evaluation promises about one output directory, whatever       *)
(* happens to the process: a question gains one attempt at a time, and a   *)
(* question that was completed is never asked again.                       *)
(***************************************************************************)
EXTENDS Naturals

CONSTANT Asked     \* the questions

VARIABLE ledger    \* the last recorded outcome of each question

Outcomes == {"none", "failed", "completed"}

LedgerInit == ledger = [q \in Asked |-> [status |-> "none", attempt |-> 0]]

(* One more attempt at a question that is not completed. *)
Attempt(q) ==
  /\ ledger[q].status # "completed"
  /\ \E s \in {"failed", "completed"} :
       ledger' = [ledger EXCEPT ![q] = [status |-> s, attempt |-> @.attempt + 1]]

LedgerNext == \E q \in Asked : Attempt(q)

LedgerSpec == LedgerInit /\ [][LedgerNext]_ledger
=============================================================================
