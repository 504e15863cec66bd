---------------------------- MODULE RubricJudge ----------------------------
(***************************************************************************)
(* LLMRubricJudge.score (evals/metrics.py): one report is scored against a *)
(* list of rubrics.  Blocked rubrics are never sent.  The others are sent  *)
(* in batches, a few batches at a time, each a bounded number of times; a  *)
(* rubric that is missing in the reply to its batch is sent once more, on  *)
(* its own.  One timeout covers everything.                                *)
(*                                                                         *)
(* A rubric is its position in the list.  An element of a parsed reply     *)
(* carries, next to its score, the rubric that the prompt showed under its *)
(* index: the code does not keep it, the properties compare it.            *)
(***************************************************************************)
EXTENDS Integers, FiniteSets, Sequences, Listings

CONSTANTS
  NumRubrics,        \* how many rubrics
  Blocked,           \* the blocked ones
  BatchSize, BatchConcurrency, RetryConcurrency,
  MaxAttempts        \* max_retries + 1

ASSUME JudgeAssumption ==
  /\ NumRubrics \in Nat \ {0} /\ Blocked \subseteq 1..NumRubrics
  /\ {BatchSize, BatchConcurrency, RetryConcurrency, MaxAttempts} \subseteq Nat \ {0}

VARIABLES
  judgePhase, \* "batches", "retries" or "done"
  batch,      \* where each batch is
  tries,      \* how often it was sent and failed
  scored,     \* batch_results
  single,     \* where the retry of each missing rubric is
  verdict     \* per_item, as it is returned

judgeVars == <<judgePhase, batch, tries, scored, single, verdict>>

Rubrics == 1..NumRubrics
Live == Ascending(Rubrics \ Blocked)

Batches == 1..((Len(Live) + BatchSize - 1) \div BatchSize)
Places(b) == {p \in 1..BatchSize : (b - 1) * BatchSize + p <= Len(Live)}
RubricAt(b, p) == Live[(b - 1) * BatchSize + p]
Slots == {<<b, p>> : b \in Batches, p \in 1..BatchSize}

Steps == {"none", "waiting", "calling", "done"}
Scores == {0, 1}
Element == [about : Rubrics, score : Scores]
Item == [score : {-1} \cup Scores, reason : {"", "blocked", "scored", "parse_error", "judge_timeout"}]

\* What the parser can make of a reply: elements are missing when the reply was
\* cut off or when they are malformed.
Parsed(texts) ==
  UNION {{[p \in S |-> [about |-> texts[p], score |-> s[p]]] : s \in [S -> Scores]} :
           S \in SUBSET DOMAIN texts}

Prompt(b) == [p \in Places(b) |-> RubricAt(b, p)]

JudgeTypeOK ==
  /\ judgePhase \in {"batches", "retries", "done"}
  /\ batch \in [Batches -> Steps \ {"none"}]
  /\ tries \in [Batches -> 0..MaxAttempts]
  /\ \A b \in Batches : DOMAIN scored[b] \subseteq Places(b)
  /\ \A b \in Batches : \A p \in DOMAIN scored[b] : scored[b][p] \in Element
  /\ single \in [Slots -> Steps]
  /\ verdict \in [Rubrics -> Item]

\* per_item as _score_inner starts it.
Initially == [r \in Rubrics |-> IF r \in Blocked
                                THEN [score |-> -1, reason |-> "blocked"]
                                ELSE [score |-> 0, reason |-> ""]]

JudgeInit ==
  /\ judgePhase = "batches"
  /\ batch = [b \in Batches |-> "waiting"] /\ tries = [b \in Batches |-> 0]
  /\ scored = [b \in Batches |-> [p \in {} |-> {}]]
  /\ single = [m \in Slots |-> "none"]
  /\ verdict = Initially

Calling(where) == Cardinality({x \in DOMAIN where : where[x] = "calling"})

-----------------------------------------------------------------------------
(* A batch keeps its slot over all its attempts. *)

BatchStarts(b) ==
  /\ judgePhase = "batches" /\ batch[b] = "waiting" /\ Calling(batch) < BatchConcurrency
  /\ batch' = [batch EXCEPT ![b] = "calling"]
  /\ UNCHANGED <<judgePhase, tries, scored, single, verdict>>

\* Something was parsed, though it may name no rubric of the batch.
BatchAnswered(b) ==
  /\ judgePhase = "batches" /\ batch[b] = "calling"
  /\ \E reply \in Parsed(Prompt(b)) : scored' = [scored EXCEPT ![b] = reply]
  /\ batch' = [batch EXCEPT ![b] = "done"]
  /\ UNCHANGED <<judgePhase, tries, single, verdict>>

\* Wrong variant: a failed attempt is repeated without being counted.
BatchFailsUncounted(b) ==
  /\ judgePhase = "batches" /\ batch[b] = "calling"
  /\ tries' = [tries EXCEPT ![b] = (@ + 1) % MaxAttempts]
  /\ UNCHANGED <<judgePhase, batch, scored, single, verdict>>

\* Wrong variant: one attempt too many.
BatchFailsOnceMore(b) ==
  /\ judgePhase = "batches" /\ batch[b] = "calling"
  /\ tries' = [tries EXCEPT ![b] = @ + 1]
  /\ batch' = [batch EXCEPT ![b] = IF tries[b] = MaxAttempts THEN "done" ELSE @]
  /\ UNCHANGED <<judgePhase, scored, single, verdict>>

\* The call times out or raises, or nothing can be parsed.
BatchFails(b) ==
  /\ judgePhase = "batches" /\ batch[b] = "calling"
  /\ tries' = [tries EXCEPT ![b] = @ + 1]
  /\ batch' = [batch EXCEPT ![b] = IF tries[b] + 1 = MaxAttempts THEN "done" ELSE @]
  /\ UNCHANGED <<judgePhase, scored, single, verdict>>

-----------------------------------------------------------------------------
(* What is missing is sent once more. *)

\* Wrong variant: a batch without any result is given up.
UnscoredInAnswered ==
  {m \in Slots : DOMAIN scored[m[1]] # {} /\ m[2] \in Places(m[1]) \ DOMAIN scored[m[1]]}

Unscored == {m \in Slots : m[2] \in Places(m[1]) \ DOMAIN scored[m[1]]}

CollectMissing ==
  /\ judgePhase = "batches" /\ \A b \in Batches : batch[b] = "done"
  /\ judgePhase' = "retries"
  /\ single' = [m \in Slots |-> IF m \in Unscored THEN "waiting" ELSE "none"]
  /\ UNCHANGED <<batch, tries, scored, verdict>>

RetryStarts(m) ==
  /\ judgePhase = "retries" /\ single[m] = "waiting" /\ Calling(single) < RetryConcurrency
  /\ single' = [single EXCEPT ![m] = "calling"]
  /\ UNCHANGED <<judgePhase, batch, tries, scored, verdict>>

RetryEnds(m) ==
  /\ judgePhase = "retries" /\ single[m] = "calling"
  /\ single' = [single EXCEPT ![m] = "done"]
  /\ UNCHANGED <<judgePhase, batch, tries, verdict>>

\* The prompt of a retry shows one rubric, so its reply has one place.
SingleReplies(m) == {reply[1] : reply \in {f \in Parsed(<<RubricAt(m[1], m[2])>>) : DOMAIN f # {}}}

ScoredAgain(m, element) ==
  [scored EXCEPT ![m[1]] = [p \in DOMAIN @ \cup {m[2]} |-> IF p = m[2] THEN element ELSE @[p]]]

RetryAnswered(m) ==
  /\ RetryEnds(m)
  /\ \E element \in SingleReplies(m) : scored' = ScoredAgain(m, element)

RetryFails(m) ==
  /\ RetryEnds(m)
  /\ UNCHANGED scored

-----------------------------------------------------------------------------
(* The verdict. *)

\* Wrong variant: the batches are laid over all rubrics, blocked ones included.
HomeByPosition(r) ==
  <<((r - 1) \div BatchSize) + 1, ((r - 1) % BatchSize) + 1>>

\* The batch and the place of a rubric.
Home(r) == CHOOSE m \in Slots : m[2] \in Places(m[1]) /\ RubricAt(m[1], m[2]) = r

Merged(r) ==
  LET m == Home(r)
  IN  IF m \in Slots /\ m[2] \in DOMAIN scored[m[1]]
      THEN [score |-> scored[m[1]][m[2]].score, reason |-> "scored"]
      ELSE [score |-> 0, reason |-> "parse_error"]

Merge ==
  /\ judgePhase = "retries" /\ \A m \in Slots : single[m] \in {"none", "done"}
  /\ judgePhase' = "done"
  /\ verdict' = [r \in Rubrics |-> IF r \in Blocked THEN verdict[r] ELSE Merged(r)]
  /\ UNCHANGED <<batch, tries, scored, single>>

\* _timeout_fallback starts afresh: the scores that are there are not used, though
\* the comment at its call says that finished rubrics keep them.
TimeoutFallback ==
  [r \in Rubrics |-> IF r \in Blocked
                     THEN [score |-> -1, reason |-> "blocked"]
                     ELSE [score |-> 0, reason |-> "judge_timeout"]]

TotalTimeout ==
  /\ judgePhase # "done"
  /\ judgePhase' = "done" /\ verdict' = TimeoutFallback
  /\ UNCHANGED <<batch, tries, scored, single>>

Returned == judgePhase = "done" /\ UNCHANGED judgeVars

BatchStep(b) == BatchStarts(b) \/ BatchAnswered(b) \/ BatchFails(b)
RetryStep(m) == RetryStarts(m) \/ RetryAnswered(m) \/ RetryFails(m)

JudgeNext ==
  \/ \E b \in Batches : BatchStep(b)
  \/ CollectMissing
  \/ \E m \in Slots : RetryStep(m)
  \/ Merge \/ TotalTimeout \/ Returned

\* Every call has a timeout of its own.  The total timeout is not relied on.
JudgeFairness ==
  /\ \A b \in Batches : WF_judgeVars(BatchStep(b))
  /\ \A m \in Slots : WF_judgeVars(RetryStep(m))
  /\ WF_judgeVars(CollectMissing) /\ WF_judgeVars(Merge)

JudgeSpec == JudgeInit /\ [][JudgeNext]_judgeVars /\ JudgeFairness

-----------------------------------------------------------------------------
(* Properties. *)

\* A score in the verdict was given, by some reply, to the rubric it stands at:
\* the numbering restarts in every batch and leaves blocked rubrics out.
ScoresAreOwn ==
  \A r \in Rubrics : verdict[r].reason = "scored" =>
    \E m \in Slots : /\ m[2] \in DOMAIN scored[m[1]]
                     /\ scored[m[1]][m[2]] = [about |-> r, score |-> verdict[r].score]

\* A verdict of parse_error is the last word on a rubric only when both its batch
\* and a call of its own gave no score for it.
ErrorsWereRetried ==
  judgePhase = "done" => \A m \in Slots : m[2] \in Places(m[1]) =>
    (verdict[RubricAt(m[1], m[2])].reason = "parse_error" =>
       single[m] = "done" /\ m[2] \notin DOMAIN scored[m[1]])

\* The judge returns even if the total timeout never comes.
JudgeEnds == <>(judgePhase = "done")
=============================================================================
