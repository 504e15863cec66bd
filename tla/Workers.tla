------------------------------ MODULE Workers ------------------------------
(***************************************************************************)
(* WorkerNode.run_task (src/agents/worker.py): one worker per task, all of *)
(* them drawing on the ledger of Budget.  A worker loops: gates, search,   *)
(* fetch each hit, reserve, extract, commit, reflect.                      *)
(*                                                                         *)
(* A worker waits in "search", "fetch" and "extract"; between two awaits   *)
(* the code runs in one piece.  "top" (the head of the loop, reached also  *)
(* after the sleep of a failed search) and "gather" (between two fetches)  *)
(* are steps of their own here, which only adds interleavings.             *)
(*                                                                         *)
(* Queries, texts and error messages are left out: no guard depends on     *)
(* them except the length check, which may fail at any round.              *)
(***************************************************************************)
EXTENDS Budget

CONSTANTS
  Urls,              \* the sources
  Findable,          \* those a search for each task can return and the policy allows
  MaxIterations,     \* max_iterations
  MaxSearchRetries,  \* max_search_retries
  FactCounts         \* bound: how many facts one extraction may return

ASSUME WorkersAssumption ==
  /\ IsFiniteSet(Urls)
  /\ Findable \in [Tasks -> SUBSET Urls]
  /\ MaxIterations \in Nat \ {0}
  /\ MaxSearchRetries \in Nat
  /\ FactCounts \subseteq Nat

VARIABLES
  cancel,        \* the cancel event the workers share
  pc,            \* where each worker is
  iteration,     \* the loop variable
  failures,      \* prior_failures
  hits,          \* the hits of this round still to be fetched
  gotHits,       \* whether this round's search returned any
  docs,          \* how many documents this round fetched
  seen,          \* seen_urls
  fetching,      \* the citation of the fetch under way, as a set
  citations,     \* all_citations
  facts,         \* Len(all_facts)
  held,          \* the ticket the worker holds, 0 if none
  result,        \* status and stop_reason of the terminal command
  extracted      \* history: facts of the successful extractions

locals == <<iteration, failures, hits, gotHits, docs, seen, fetching,
            citations, facts, held, extracted>>
workers == <<cancel, pc, locals, result>>
all == <<vars, workers>>

Working == {"top", "search", "gather", "fetch", "extract", "abort"}
StopReasons ==
  {"cancelled", "budget_exhausted", "task_budget_exhausted", "search_round_limit",
   "input_too_long", "auth_permission", "quota_exhausted", "consecutive_failures",
   "max_iterations", "no_progress", "evidence_sufficient", "completed"}

\* Facts and documents that decide_reflection counts as sufficient evidence,
\* and the failures it counts as no progress.
EnoughFacts == 3
EnoughSources == 2
TooManyFailures == 2

NoResult == [status |-> "pending", reason |-> ""]

\* A citation id is made of the task and a number.
Citation == [url : Urls, number : 1..Cardinality(Urls)]

WorkersTypeOK ==
  /\ cancel \in BOOLEAN
  /\ pc \in [Tasks -> Working \cup {"idle", "finished", "killed"}]
  /\ iteration \in [Tasks -> 0..MaxIterations]
  /\ failures \in [Tasks -> 0..MaxIterations]
  /\ hits \in [Tasks -> SUBSET Urls] /\ seen \in [Tasks -> SUBSET Urls]
  /\ gotHits \in [Tasks -> BOOLEAN]
  /\ docs \in [Tasks -> 0..Cardinality(Urls)]
  /\ fetching \in [Tasks -> SUBSET Citation] /\ citations \in [Tasks -> SUBSET Citation]
  /\ facts \in [Tasks -> Nat] /\ extracted \in [Tasks -> Nat]
  /\ held \in [Tasks -> 0..Len(tickets)]
  /\ result \in [Tasks -> {NoResult} \cup
       [status : {"completed", "partial", "failed", "cancelled"}, reason : StopReasons]]

WorkersInit ==
  /\ Init
  /\ cancel = FALSE
  /\ pc = [t \in Tasks |-> "idle"]
  /\ iteration = [t \in Tasks |-> 0]
  /\ failures = [t \in Tasks |-> 0]
  /\ hits = [t \in Tasks |-> {}]
  /\ gotHits = [t \in Tasks |-> FALSE]
  /\ docs = [t \in Tasks |-> 0]
  /\ seen = [t \in Tasks |-> {}]
  /\ fetching = [t \in Tasks |-> {}]
  /\ citations = [t \in Tasks |-> {}]
  /\ facts = [t \in Tasks |-> 0]
  /\ held = [t \in Tasks |-> 0]
  /\ result = [t \in Tasks |-> NoResult]
  /\ extracted = [t \in Tasks |-> 0]
-----------------------------------------------------------------------------
(* Ending and going on. *)

\* _status_for
StatusFor(reason, hadFacts) ==
  CASE reason = "cancelled" -> "cancelled"
    [] reason = "budget_exhausted" -> IF hadFacts THEN "partial" ELSE "failed"
    [] reason \in {"auth_permission", "quota_exhausted", "consecutive_failures",
                   "input_too_long", "task_budget_exhausted"} -> "failed"
    [] OTHER -> "completed"

\* _terminal_command, with n facts.
Finish(t, reason, n) ==
  /\ pc' = [pc EXCEPT ![t] = "finished"]
  /\ result' = [result EXCEPT ![t] =
       [status |-> StatusFor(reason, n > 0), reason |-> reason]]

GoTo(t, where) ==
  /\ pc' = [pc EXCEPT ![t] = where]
  /\ UNCHANGED result

\* continue: the next turn of the loop.
NextRound(t) ==
  /\ GoTo(t, "top")
  /\ iteration' = [iteration EXCEPT ![t] = @ + 1]

\* decide_reflection, reduced to the stop_reason; "" lets the loop go on.  It
\* reads the ledger and the worker's counters after this round's changes.
Reflection(t) ==
  CASE cancel -> "cancelled"
    [] ~cancel /\ used' >= GlobalCap -> "budget_exhausted"
    [] ~cancel /\ used' < GlobalCap /\ iteration[t] + 1 >= MaxIterations -> "max_iterations"
    [] OTHER ->
         CASE ~gotHits[t] -> ""
           [] gotHits[t] /\ failures'[t] >= TooManyFailures -> "no_progress"
           [] gotHits[t] /\ failures'[t] < TooManyFailures
                /\ facts'[t] >= EnoughFacts /\ docs[t] >= EnoughSources -> "evidence_sufficient"
           [] OTHER -> ""

Reflect(t) ==
  \/ /\ Reflection(t) # ""
     /\ Finish(t, Reflection(t), facts'[t])
     /\ UNCHANGED iteration
  \/ /\ Reflection(t) = ""
     /\ NextRound(t)
-----------------------------------------------------------------------------
(* The head of the loop. *)

Start(t) ==
  /\ pc[t] = "idle"
  /\ \A other \in Tasks : pc[other] # "killed"
  /\ GoTo(t, "top")
  /\ UNCHANGED <<vars, cancel, locals>>

\* The gates, in the code's order; "" when the round may begin.
Gate(t) ==
  CASE iteration[t] >= MaxIterations -> "completed"
    [] iteration[t] < MaxIterations /\ cancel -> "cancelled"
    [] iteration[t] < MaxIterations /\ ~cancel /\ Status \in {"critical", "exhausted"} ->
         "budget_exhausted"
    [] OTHER -> IF TaskExhausted(t) THEN "task_budget_exhausted"
                ELSE IF ~RoundAllowed(t) THEN "search_round_limit" ELSE ""

Stop(t) ==
  /\ pc[t] = "top"
  /\ Gate(t) # ""
  /\ Finish(t, Gate(t), facts[t])
  /\ UNCHANGED <<vars, cancel, locals>>

\* begin_round has counted the round when the length of the input is checked.
Search(t) ==
  /\ pc[t] = "top"
  /\ Gate(t) = ""
  /\ BeginRound(t)
  /\ \/ GoTo(t, "search")
     \/ Finish(t, "input_too_long", facts[t])
  /\ UNCHANGED <<cancel, locals>>
-----------------------------------------------------------------------------
(* Search and fetch. *)

\* The fetch loop skips the hits this worker has seen.
SearchAnswers(t) ==
  /\ pc[t] = "search"
  /\ \E found \in SUBSET Findable[t] :
       /\ hits' = [hits EXCEPT ![t] = found \ seen[t]]
       /\ gotHits' = [gotHits EXCEPT ![t] = found # {}]
  /\ docs' = [docs EXCEPT ![t] = 0]
  /\ GoTo(t, "gather")
  /\ UNCHANGED <<vars, cancel, iteration, failures, seen, fetching, citations, facts, held, extracted>>

\* An error of the search that retrying cannot cure ends the task.
SearchRefused(t) ==
  /\ pc[t] = "search"
  /\ \E reason \in {"auth_permission", "quota_exhausted", "cancelled"} : Finish(t, reason, facts[t])
  /\ UNCHANGED <<vars, cancel, locals>>

\* Any other error counts as a failure, and one too many ends the task.
SearchFails(t) ==
  /\ pc[t] = "search"
  /\ failures' = [failures EXCEPT ![t] = @ + 1]
  /\ \/ /\ failures'[t] > MaxSearchRetries
        /\ Finish(t, "consecutive_failures", facts[t])
        /\ UNCHANGED iteration
     \/ /\ failures'[t] <= MaxSearchRetries
        /\ NextRound(t)
  /\ UNCHANGED <<vars, cancel, hits, gotHits, docs, seen, fetching, citations, facts, held, extracted>>

\* Wrong variants, for the mutation checks: the number taken before the mark,
\* and from the round's count of documents.
CitationBeforeMark(t, url) == [url |-> url, number |-> Cardinality(seen[t])]
CitationByDocument(t, url) == [url |-> url, number |-> docs[t] + 1]

NewCitation(t, url) == [url |-> url, number |-> Cardinality(seen'[t])]

\* The fetch loop marks the next hit as seen and awaits its text; the cancel
\* event aborts the wait before it starts.
Fetch(t) ==
  /\ pc[t] = "gather"
  /\ \E url \in hits[t] :
       /\ hits' = [hits EXCEPT ![t] = @ \ {url}]
       /\ seen' = [seen EXCEPT ![t] = @ \cup {url}]
       /\ fetching' = [fetching EXCEPT ![t] = {NewCitation(t, url)}]
  /\ IF cancel THEN Finish(t, "cancelled", facts[t]) ELSE GoTo(t, "fetch")
  /\ UNCHANGED <<vars, cancel, iteration, failures, gotHits, docs, citations,
                 facts, held, extracted>>

\* Wrong variant: a page that failed is put back among the hits.
FetchEndsRetrying(t) ==
  /\ pc[t] = "fetch"
  /\ fetching' = [fetching EXCEPT ![t] = {}]
  /\ \/ /\ docs' = [docs EXCEPT ![t] = @ + 1]
        /\ citations' = [citations EXCEPT ![t] = @ \cup fetching[t]]
        /\ UNCHANGED hits
     \/ /\ hits' = [hits EXCEPT ![t] = @ \cup {c.url : c \in fetching[t]}]
        /\ UNCHANGED <<docs, citations>>
  /\ GoTo(t, "gather")
  /\ UNCHANGED <<vars, cancel, iteration, failures, gotHits, seen, facts, held, extracted>>

\* A fetched page joins the round's documents; a page that failed is cited too,
\* with no text.
FetchEnds(t) ==
  /\ pc[t] = "fetch"
  /\ citations' = [citations EXCEPT ![t] = @ \cup fetching[t]]
  /\ fetching' = [fetching EXCEPT ![t] = {}]
  /\ \E ok \in BOOLEAN : docs' = [docs EXCEPT ![t] = IF ok THEN @ + 1 ELSE @]
  /\ GoTo(t, "gather")
  /\ UNCHANGED <<vars, cancel, iteration, failures, hits, gotHits, seen, facts, held, extracted>>
-----------------------------------------------------------------------------
(* Extraction. *)

Gathered(t) == pc[t] = "gather" /\ hits[t] = {}

\* With no document there is no call: the round ends in reflection.
NothingToExtract(t) ==
  /\ Gathered(t)
  /\ docs[t] = 0
  /\ UNCHANGED <<vars, cancel, failures, hits, gotHits, docs, seen, fetching, citations,
                 facts, held, extracted>>
  /\ Reflect(t)

\* The ticket is taken before the call.  A cancel event already set aborts the
\* call before it starts.
ReserveSlice(t) ==
  /\ Gathered(t)
  /\ docs[t] > 0
  /\ \E n \in Slices : Reserve(t, n)
  /\ held' = [held EXCEPT ![t] = Len(tickets) + 1]
  /\ GoTo(t, IF cancel THEN "abort" ELSE "extract")
  /\ UNCHANGED <<cancel, iteration, failures, hits, gotHits, docs, seen, fetching, citations,
                 facts, extracted>>

ReserveRefused(t) ==
  /\ Gathered(t)
  /\ docs[t] > 0
  /\ \E n \in Slices : ~Fits(t, n)
  /\ Finish(t, "budget_exhausted", facts[t])
  /\ UNCHANGED <<vars, cancel, locals>>

CloseHeld(t) == held' = [held EXCEPT ![t] = 0]

\* Wrong variant: the facts of a round replace those of the rounds before.
LastFacts(t, k) == k

AllFacts(t, k) == facts[t] + k

\* The call returns k facts and its usage, or, when the provider reports none,
\* an estimate that adds the facts to the prompt: in both cases the usage may
\* be larger than the slice.  A commit that raises ends the task before the
\* facts join the worker's list.
ExtractAnswers(t) ==
  /\ pc[t] = "extract"
  /\ \E k \in FactCounts, u \in Usages :
       /\ Commit(held[t], u)
       /\ extracted' = [extracted EXCEPT ![t] = @ + k]
       /\ \/ /\ CommitRaises(u)
             /\ UNCHANGED <<facts, failures, iteration>>
             /\ Finish(t, "budget_exhausted", facts[t])
          \/ /\ ~CommitRaises(u)
             /\ facts' = [facts EXCEPT ![t] = AllFacts(t, k)]
             /\ failures' = [failures EXCEPT ![t] = IF k > 0 THEN 0 ELSE @]
             /\ Reflect(t)
  /\ CloseHeld(t)
  /\ UNCHANGED <<cancel, hits, gotHits, docs, seen, fetching, citations>>

\* Wrong variant: the exception path forgets the ticket.
ExtractFailsLeaking(t) ==
  /\ pc[t] = "extract"
  /\ CloseHeld(t)
  /\ failures' = [failures EXCEPT ![t] = @ + 1]
  /\ NextRound(t)
  /\ UNCHANGED <<vars, cancel, hits, gotHits, docs, seen, fetching, citations, facts, extracted>>

\* The extractor raises: the ticket is released and the loop goes on, without
\* the check of SearchFails.
ExtractFails(t) ==
  /\ pc[t] = "extract"
  /\ Release(held[t])
  /\ CloseHeld(t)
  /\ failures' = [failures EXCEPT ![t] = @ + 1]
  /\ NextRound(t)
  /\ UNCHANGED <<cancel, hits, gotHits, docs, seen, fetching, citations, facts, extracted>>
-----------------------------------------------------------------------------
(* Cancellation and the outer timeout. *)

\* request_cancel
RequestCancel ==
  /\ ~cancel
  /\ cancel' = TRUE
  /\ UNCHANGED <<vars, pc, locals, result>>

\* Wrong variant: a fetch cannot be interrupted.
CancelSearchOnly(t) ==
  /\ cancel
  /\ pc[t] = "search"
  /\ UNCHANGED <<vars, cancel, locals>>
  /\ Finish(t, "cancelled", facts[t])

\* _await_cancellable aborts a search or a fetch that has not answered yet.
CancelAwait(t) ==
  /\ cancel
  /\ pc[t] \in {"search", "fetch"}
  /\ UNCHANGED <<vars, cancel, locals>>
  /\ Finish(t, "cancelled", facts[t])

\* The same for an extraction, whose ticket is released first.
CancelExtract(t) ==
  /\ cancel
  /\ pc[t] \in {"extract", "abort"}
  /\ Release(held[t])
  /\ CloseHeld(t)
  /\ UNCHANGED <<cancel, iteration, failures, hits, gotHits, docs, seen, fetching, citations,
                 facts, extracted>>
  /\ Finish(t, "cancelled", facts[t])

\* The hard timeout of the run cancels every worker wherever it waits, and no
\* other is started.  The CancelledError passes the handlers of run_task, which
\* catch Exception, so a ticket held by an extraction stays open.  Only a call
\* the cancel event is aborting suppresses it: that worker goes on and ends as
\* a cancelled one.
HardTimeout ==
  /\ \E t \in Tasks : pc[t] \in Working \ {"abort"}
  /\ pc' = [t \in Tasks |-> IF pc[t] \in Working \ {"abort"} THEN "killed" ELSE pc[t]]
  /\ UNCHANGED <<vars, cancel, locals, result>>

\* replan_node runs between two waves and adds a follow-up, one of the tasks
\* that have not begun.
Replan ==
  /\ \A t \in Tasks : pc[t] \in {"idle", "finished"}
  /\ \E t \in Tasks : pc[t] = "finished"
  /\ RecordReplan
  /\ UNCHANGED workers
-----------------------------------------------------------------------------

\* What a worker does by itself, without waiting for a tool.
Steps(t) ==
  \/ Stop(t) \/ Search(t) \/ Fetch(t)
  \/ NothingToExtract(t) \/ ReserveSlice(t) \/ ReserveRefused(t)
  \/ CancelAwait(t) \/ CancelExtract(t)

\* What the tools do.
Answers(t) ==
  \/ SearchAnswers(t) \/ SearchRefused(t) \/ SearchFails(t)
  \/ FetchEnds(t) \/ ExtractAnswers(t) \/ ExtractFails(t)

WorkersNext ==
  \/ \E t \in Tasks : Start(t)
  \/ \E t \in Tasks : Steps(t)
  \/ \E t \in Tasks : Answers(t)
  \/ RequestCancel
  \/ HardTimeout
  \/ Replan

\* The event loop runs every coroutine that can go on.
Fairness == \A t \in Tasks : WF_all(Steps(t))

WorkersSpec == WorkersInit /\ [][WorkersNext]_all /\ Fairness
-----------------------------------------------------------------------------
(* Properties. *)

\* A ticket is open exactly while the worker that reserved it is extracting: on
\* every path the worker itself takes out of the call, commit, exception or
\* cancel, the ticket held by this worker, and no other, is closed.  A worker
\* that the hard timeout kills in the call never takes such a path; see
\* TicketsReleased for that one.
TicketsClosed ==
  /\ \A t \in Tasks : pc[t] \in {"extract", "abort"} => held[t] # 0
  /\ \A t \in Tasks : held[t] # 0 =>
       /\ pc[t] \in {"extract", "abort", "killed"}
       /\ held[t] <= Len(tickets) /\ Open(held[t])
       /\ tickets[held[t]].task = t
  /\ \A i \in 1..Len(tickets) : Open(i) => held[tickets[i].task] = i

\* When no worker is in a call, nothing is reserved any more: neither the order
\* in which the workers end nor the way they end leaves a slice behind that would
\* starve the tasks of a later wave.
NothingLeftReserved ==
  (\A t \in Tasks : pc[t] \in {"idle", "finished"}) =>
    reserved = 0 /\ \A t \in Tasks : taskReserved[t] = 0

\* Within a task a citation id names one source and a source has one id, over
\* all rounds and failed fetches (the verifier looks claims up by that id).
CitationsUnique ==
  \A t \in Tasks : \A c, d \in citations[t] : c.url = d.url <=> c.number = d.number

\* A worker hands over what its extractions found in all its rounds, however it
\* ends: no failure, refusal or cancellation of a later round takes back what an
\* earlier one found.  The one call whose commit passes the global cap is left
\* out here; see FactsKept.
FactsDelivered ==
  \A t \in Tasks : pc[t] = "finished" =>
    extracted[t] - facts[t] \in
      {0} \cup {k \in FactCounts : result[t].reason = "budget_exhausted"}

(* What the comments and the docs promise beyond that, and the code does not do. *)

\* budget.py:20-24: what a charge passes the global or the per-task cap by is
\* recorded in overflow_tokens; so the overflow is at least what the ledger of
\* one task has cut off.
ExcessRecorded ==
  \A t \in Tasks : overflow >= Total(ChargesTo(t)) - taskUsed[t]

\* worker.py:490-492: the ticket is closed on every exit path.
TicketsReleased ==
  \A t \in Tasks : pc[t] \in {"finished", "killed"} => held[t] = 0

\* worker.py:545-547: the facts of a call whose commit raises are kept.
FactsKept ==
  \A t \in Tasks : pc[t] = "finished" => facts[t] = extracted[t]

\* At least one of the three promises holds in every state: a state that
\* violates this one violates each of them.
SomePromiseHolds == ExcessRecorded \/ TicketsReleased \/ FactsKept

Stopped(t) == pc[t] \in {"finished", "killed"}

\* A cancelled worker ends although no tool ever answers again (the waits are
\* interruptible).
CancelStops ==
  \A t \in Tasks : (cancel /\ pc[t] \in Working) ~> Stopped(t)

\* If every tool call ends, in an answer or in an error, every worker ends: the
\* caps on rounds, iterations and failures leave no endless loop.
Termination ==
  (\A t \in Tasks : WF_all(Answers(t))) =>
    \A t \in Tasks : pc[t] \in Working ~> Stopped(t)
=============================================================================
