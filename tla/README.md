# A TLA+ development for techresearch-agent

techresearch-agent answers a technical question with a report whose claims are
cited and verified. A query becomes a plan of subtasks; workers research the
subtasks in parallel under a shared token budget; the collected facts become
claims, are verified and become a report that passes a quality gate; a small HTTP
service runs all that in the background and streams its progress; an evaluation
harness runs it over a dataset and lets a judge score the reports. These modules
model the concurrent and fault-handling parts of that program, check them with TLC
and prove their most important properties with TLAPS.

Paths are relative to the repository; those that begin with `agents/`, `api/`,
`core/`, `graph/`, `service/` or `tools/` are below its `src/`. `PROJECT.json` has
the machine-readable side of this file: the components, the runs, one mutant for
every property, the source lines behind every definition, the hazards and the
theorems.

## 1. The system

### How the parts interact

    evals/runner.py, one question at a time per slot        HTTP client
        |  run_with_hard_timeout (core/deadlines.py)            | create / cancel / events
        |       +--> evals/metrics.py (the rubric judge)        v
        |                                            api/main.py ---> api/task_store.py ---> JSON file
        |                                               | background task     ^ status, events
        v                                               v                     |
    baseline answers ------------------------->  api/runner.py ---------------+
                                                        | hard timeouts
                          +-----------------------------+----------------+
                          v                                              v
             graph/builder.py (LangGraph)                   service/verified_report.py
      planner -> supervisor -> workers -> collector -> ...   source gate, claims, verify
                    agents/worker.py, one per subtask        (service/verifier.py), revise,
                      |  search (tools/), fetch, extract     verify again, write, gate
                      |  service/extractor.py --> core/providers/, core/usage.py
                      v
                 agents/budget.py, shared by all workers

Everything runs in one asyncio event loop per process: code between two awaits is
atomic, and coroutines interleave at every await. The threads that some tools use
return through the loop. What survives a process is a file: the task store of the
service, and the output directory of an evaluation.

### Inventory

| component | state | operations | what is hard | what makes it correct | here |
|---|---|---|---|---|---|
| Token budget `agents/budget.py` | used and reserved tokens, globally and per task; tickets; overflow; rounds; replans | reserve, commit, release, record_usage, begin_round, record_replan | tickets of several calls close in any order; a commit larger than its slice; two caps | reserved = slices of the open tickets; ledgers = reported usage cut at the cap; who keeps within a slice never overflows | `Budget`, `Totals` |
| Workers `agents/worker.py`, `agents/reflection.py` | loop counters, seen urls, citations, facts, the ticket of the current call, the cancel event | one turn: gates, search, fetch, reserve, extract, commit, reflect; every exit | interleaving at awaits, cancellation, exceptions and the hard timeout in the middle of a call | each path closes its ticket; citation ids unique; facts add up over the rounds; a cancelled worker stops; every worker stops | `Workers` |
| Graph `graph/builder.py`, `agents/supervisor.py`, `graph/state.py` | subtasks with status and dependencies, facts, replan count | planner, supervisor, workers, collector, replan, writer | waves, failures that propagate to dependents, follow-ups, merging of parallel updates | a task runs once and after its dependencies; the cap on workers; nothing runnable is dropped; the run ends | `ResearchGraph`, `TaskBoard` |
| Task service `api/main.py`, `api/task_store.py` | records by id, file, connections | create, cancel, stream, restart | cancellation next to a live coroutine, saves that fail or are cut off, eviction of a live task, reconnecting clients | one final event, a completed task survives a restart, no event twice, every task ends | `TaskService` |
| Runner `api/runner.py` | where the coroutine is | start, research, report, gate, end | timeouts, cancellation on shutdown | every task reaches a terminal status, and only a report that passed the gate completes it | `TaskService`, `VerifiedReport!Finish` |
| Verified report `service/verified_report.py` | facts, claims with status, the log of two rounds, the report, its coverage | source gate, selection, verify, revise, verify again, write, gate, repair | partial results of two rounds matched by position; citations filtered, cut off and renumbered | a verified claim is supported; forbidden sources stay out; tags stand for sources of surviving claims | `VerifiedReport` |
| Citation verifier `service/verifier.py` | the outcomes of one claim's sources | verify, aggregate | outages of the network and of the judge among the verdicts | an outage is never shown as lack of evidence | `VerifiedReport` |
| Source policy `service/source_filter.py` | none | classify a citation | text matching | its verdicts are applied before anything is read again | as `Blocked` and `Late` |
| Extractor `service/extractor.py` | messages, usage of its calls | extract, repair, fall back | two calls, a bound on both, any of which fails or is cancelled | documents and echoes keep requests within the bound; usage adds up; every extraction returns | `Extraction` |
| LLM providers `core/providers/` | slots of the limiter; attempts and deadline of a call | call with retries | the deadline strikes in the queue, in a request, in a delay | no slot is lost; every call ends | `Extraction` (Qwen) |
| Usage `core/usage.py` | a collector per question | record | several extractions record into one collector | what is returned is what was recorded | `Extraction!Collect` |
| Search providers `tools/search_providers.py` | key pool, exclusions, circuit breaker, per-key locks | search, rotate, disable | concurrent searches, an abandoned request in its thread | each usable key is tried before a search gives up; a dead key is never used again; a permanent error is true; a search ends | `KeyPool` (without the proxy client) |
| Evaluation runner `evals/runner.py`, `evals/cli.py` | result files, snapshot of the configuration, experiment, summary; the process | start, resume, run a question, record, link, summarise, publish | a crash between any two writes; a body that outlives its timeout | a completed question is not asked again, a failed one is; attempts count; the reports show the files | `EvalRunner`, `QuestionLedger` |
| Hard timeout `core/deadlines.py` | the inner task and its result | run_with_hard_timeout | a body that resists cancellation | the caller never waits longer than the deadline and the grace period | `EvalRunner` (`TimeUp`, `GraceOver`, `LooseBodyEnds`), its effect in `Workers!HardTimeout` |
| Rubric judge `evals/metrics.py` | scores by batch and place, retries | score: batches, retries, merge, total timeout | partial and reordered answers, blocked rubrics in between | a score belongs to its rubric; errors were retried; the judge returns | `RubricJudge` |
| Errors `agents/errors.py` | none | classification, backoff | none | the right branch of the worker | outcomes of `SearchRefused`, `SearchFails` |
| Planner `agents/planner.py` | none | split a query | text processing | its plan is validated by the graph | `PlannerNode` takes any plan |
| Reducers `graph/state.py` | none | merge lists of facts, citations, errors | order of parallel updates | commutative, associative, idempotent; terminal statuses are locked | subtasks only, in `ResearchGraph` |
| Frontend | the last event received | reconnect | - | - | `TaskService!Connect` |
| Exporters, long-term store, retrieval, fetchers and paper providers, prompt registry, configuration, logging, tracing, report rendering, plots, command line tools | none that changes concurrently | I/O, parsing, formatting | see section 6 | - | not modelled |

## 2. The modules

### `Totals` and `Budget`: the ledger

An action is one critical section. `reserve`, `commit` and `release` hold the
asyncio lock throughout; `begin_round`, `record_usage` and the replan counter
never await. The tickets form a sequence in the order of reservation, each with
its slice, its state and the usage it was charged. This keeps what the code
forgets (it deletes a closed ticket), so that the properties can compare the
counters with the history. `record_usage`, which needs no ticket, enters a
"direct" charge; only tests and evaluations call it, so it is a step of `Budget`'s own
specification, about which the proofs are, and not of the workers'. `Totals` sums a sequence of numbers as a recursive function.

`status`, `task_exhausted`, `can_replan`, `begin_round` and the fit of a slice
are operators of their own, since the workers branch on them. `overran` is a
history variable: the tasks that were charged more than they had reserved. Only
they may overflow a cap (`SlicesHonoured`).

### `Workers`: one coroutine per subtask

`Workers` extends `Budget` and shares its ledger. A worker's `pc` names the await
in which it is suspended: `search`, `fetch` or `extract`. `top` (the head of the
loop) and `gather` (between two fetches) are also steps; in the code a worker
passes them without giving up control, except after the sleep of a failed search,
so the model has more interleavings than the code and none fewer. `abort` is the
short stop between a reservation and the cancellation of a call that never
started; there the code suppresses a `CancelledError`, so the hard timeout does not
kill a worker in it.

| `worker.py` | action |
|---|---|
| gates of the loop, the end of the loop | `Stop` |
| begin_round, length check | `Search` |
| search returns / cannot be cured / fails and is counted | `SearchAnswers` / `SearchRefused` / `SearchFails` |
| the loop over hits | `Fetch`, `FetchEnds` |
| no document | `NothingToExtract` |
| reserve | `ReserveSlice`, `ReserveRefused` |
| extract, commit, `decide_reflection` | `ExtractAnswers` (with `Reflect`) |
| extract raises | `ExtractFails` |
| `_await_cancellable` | `CancelAwait`, `CancelExtract` |
| CancelledError from outside | `HardTimeout` |
| `replan_node` (`graph/builder.py`) between two waves | `Replan` |

A slice is one of `Slices` and the usage of a call one of `Usages`, in the run smaller
than the slice or larger, since the provider reports what it used after the fact and the fallback estimate adds the
output to the prompt on which the slice was computed.

### `TaskBoard` and `ResearchGraph`: the supervisor-worker graph

One action per node, one for the return of each worker of a superstep and one for
the join in which the reducers merge their updates. A worker is reduced to its
outcome, as `Workers` allows it: a status, a number of facts and whether the
failure was one that a replan cannot repair. The plan is arbitrary: every set of
dependencies, cyclic ones and unknown ids included, goes through `ValidPlan`. The
marking of blocked tasks acts on a copy, of which the supervisor keeps nothing and
the collector only the newly failed: that is the code's behaviour, and the cause
of a finding below.

The budget is two variables here (`replans`, `exhausted`): the graph only asks it
whether it can replan. The supersteps of LangGraph are an assumption on an
external library, as is the absence of its superstep limit.

`TaskBoard` is what the graph promises about the tasks, without nodes, reducers,
priorities and counters: a task waits until its dependencies are done, runs once in a
wave of bounded size and stays as it ended; it may be given up if it waits for one that
failed; a follow-up is added only when nothing runs and nothing could. Its five actions
need only the board, for each task its dependencies and its state. `ResearchGraph` maps
onto it by `State`: pending is waiting, completed and partial are done. The planner is
`Plan`, the supervisor `Send`, the join of a superstep `Return`, the collector `GiveUp`
and the replan node `FollowUp`, or each leaves the board alone.

### `TaskService`: routes, store, runner, stream

An action runs from one await to the next; emitting several events without an
await is one action. `append_event` saves the whole store, `cancel_task` does not
save, and both are so in the model. A save overwrites the file, and an exception in it
is swallowed (`api/task_store.py:145`, which the knowledge base admits): `SaveFails`
leaves the old file, a torn one, or what an earlier save of the same series wrote, and
`behind` says that memory and file have parted until a later save succeeds. The process goes `up`, `closing` (shutdown:
connections close, coroutines are cancelled), `down`, and comes up again on its
file. A stop in the middle of a save leaves the file torn, and the next start reads
a torn file as empty. (A crash between two saves of one series is a failed save
followed by a stop.) One client follows one task, `Watched`; its connection may break at any
moment and it reconnects with the last event it has. Events are identified by
their position, as in the code. `created_at` is the order of creation, so
eviction takes the first of the sequence.

### `KeyPool`: searches over shared credentials

Each search is a process: it takes a key from the rotating index (`NextKey`), waits
for the lock of that key (`TakeKey`, which looks at the circuit breaker again), waits
for a slot of the limiter (`Call`), and gets an answer, a refusal that disables the
key, a shortfall that is retried under the same lock, or another error. The request
itself runs in a thread that cannot be stopped: `abandoned` counts the requests nobody
waits for any more, up to a bound (`MaxAbandoned`), beyond which they end at once;
they influence no search. When a search ends, its local variables are reset except
those a property reads. Locks and limiter are not first-come-first-served in the
model, which allows more orders than the code. All searches run in one event loop,
as they do in the service; the locks are local to a loop, the pool is not.

### `QuestionLedger` and `EvalRunner`: the evaluation

`QuestionLedger` is what an output directory promises, whatever happens to the
process: a question gains one attempt at a time, and a completed one none any more.
`EvalRunner` is shown to implement it (`Ledger == INSTANCE QuestionLedger WITH ...`,
the ledger being the status and the attempt number of each result file).

The variables of `EvalRunner` come in three groups, which a crash treats
differently: what is on disk, what LangSmith has, and what the process holds. A
process is started up to `MaxStarts` times, as a plain run or as an experiment, with
any limit on the questions and any dataset; `ResumeAccepted` is the comparison with
the snapshot of the configuration. Result files are written under a temporary name
and renamed, so a write is one step; `Crash` may come between any two, also between
the project of a final snapshot and its manifest, which leaves a project that nobody
refers to.

| `evals/` | action |
|---|---|
| `run`, `arun_experiment`: pending questions; the comparison with the snapshot in `cli.py` | `Start` with `PlainPending`, `ExperimentPending` |
| `create_project`, `experiment.json` | `CreateExperiment`, `SaveManifest` |
| the semaphore, `previous_attempt` | `Begin` |
| `_execute_one` returns / the deadline, the grace period, the body that goes on | `BodyEnds` / `TimeUp`, `GraceOver`, `LooseBodyEnds` |
| the result file, its second version with the trace | `Record`, `Link` |
| the summary | `Summarise` |
| the final snapshot: its project, its rows and manifest | `CreateSnapshot`, `PublishSnapshot` |
| `asyncio.run` waits for what is left | `Close` |

The hard timeout cancels a body and waits for it only during the grace period; a
body that does not obey stays in `loose`. Its result is thrown away, but the process
cannot return before it ends: `Close` waits for it, and no fairness ends it.

### `RubricJudge`: scores in batches

`batch` and `single` say where each call is, `scored` what the replies contained, by
batch and place. The code keeps a bare score at each place; the model keeps with it
the rubric that the prompt showed under that number, which the code does not know and
the properties compare. A parsed reply covers any subset of the places of its prompt:
the parser drops elements that are malformed or cut off, and takes the numbers it
finds. A rubric that is missing is sent once more, alone, so the retry's only number
stands for it. `TotalTimeout` may come at every moment and returns a verdict that
contains none of the scores.

### `Listings` and `VerifiedReport`: from facts to a report

The facts come from a few lists (`MCInputs`) that contain the shapes the code
distinguishes: the same claim twice, a forbidden source next to a clean one, only
forbidden ones, a citation nobody knows, and more facts than may be verified. Every
verification reads its sources one after another, several verifications at a time,
and each source gives any verdict or outage. The log of a round is kept by position,
and the second round has fewer entries than the first: `again` says which claim each
is about. `Drafts` is what a model may write: a form that the gate accepts or
refuses, and tags that exist, are invented, or are missing. `Interrupted` is the
write timeout and the cancellation of the task.

A fact is its claim, its task and its citations. The fake mode renders a template and
has no gate; the live mode synthesizes, and falls back to the template when the call
fails. A draft whose tags are wrong is replaced by the template if that passes the gate
itself; its texts may look like a prompt, so it need not, and then the draft is what
remains of a failed run.

### `Extraction`: one model call under a deadline, or two

Extractions compete for the slots of a provider's limiter. Time is one event, `Tick`:
the total deadline of a provider call has passed. It may strike in the queue, during
a request or during the delay of a retry. `closing` is the end of a call, while its
HTTP client closes: an await, in which a cancellation can still arrive. Texts are
lengths: the bound on the messages is a sum, checked for the first call and for the
repair, which also echoes the reply it is to repair, cut to what is left. A reply
gives one token or none to the collector of the question, according to whether the
provider reported its usage; the heuristic returns an estimate of its own, one token,
which the collector never sees. A reply whose content is null makes the parser raise,
outside the handlers of `extract` and after the usage was recorded (`NullContent`). The
text before the documents has any length of `Intros`, also one that leaves no room.

## 3. What the runs show

Every run checks a state space to its end; nothing is cut by a state constraint,
and every bound is a constant named in the module.

| run | instance | result |
|---|---|---|
| `workers` | 2 workers, of which one finds 2 urls and one 1; 4 tokens, 3 per task, slices of 2, usage 1 or 4; 2 rounds, 3 iterations, 1 retry, 1 replan | 585,326 states. Both workers hold tickets at once; slices are refused and overrun, both caps are passed; every exit of the loop occurs |
| `workers_promises` | 3 workers, 1 url each, 4 tokens, 1 per task, slices of 1, usage 2 or 3, 1 round | violated: findings 3 to 5 |
| `graph` | 3 planned tasks, ids to 6 (one more than two follow-ups need), 2 workers, 2 replans, 2 facts suffice | 495,610 states. Every plan, several waves, follow-ups after follow-ups |
| `graph_ends` | the same with ids to 5 | violated: finding 1 |
| `task_service` | 2 tasks, a store for 1, 1 stop, 1 failed save, 1 client of the first task | 765,904 states. Eviction of a live task, cancellation in every state, a swallowed save, crash, shutdown, torn file, reconnection |
| `key_pool` | 3 searches, 2 keys, 1 slot, 1 retry, 1 abandoned request per key | 425,719 states. Searches wait for the same key, find it disabled, take turns at the slot, retry and are cancelled |
| `eval_runner` | 3 questions of which LangSmith knows 2, 2 slots, 3 starts, 2 datasets | 874,020 states. Plain runs and experiments over one directory, with a crash at every step |
| `rubric_judge` | 6 rubrics, the second blocked, batches of 2, 2 at a time, 2 attempts, 2 retries at a time | 612,613 states. Every partial reply to every batch, in every order |
| `verified_report` | 3 lists of facts, 5 citations of which one is blocked and one late, 3 claims, 2 verifications at a time, 2 citations offered | 433,399 states. Every verdict and outage in both rounds, every draft |
| `report_tags` | the same | violated: finding 2 |
| `extraction` | 2 extractions, 1 slot, 1 retry, 2 documents of length 1 or 2 behind a text of 1 or 4, a bound of 5 | 964,888 states. Both calls, texts that fit and that do not, the deadline and a cancellation at every step |
| `extraction_promises` | the same | violated: findings 6 and 7 |

Why the bounds are enough. The ledger's interesting cases need two calls under way at
once, one that keeps within its slice and one whose usage passes slice, task cap and
global cap: slices of 2 and usages of 1 and 4 give all of them (and the ledger's
properties are proved for every value). Two workers suffice for the ledger to be
shared; a worker with two urls has a second round with seen and unseen hits, one with a
single url ends the loop on fewer sources. Of the two caps on turns only the smaller can
end a task: here the rounds (2, against 3 iterations), in the program's defaults too (3
against 4). A failed search begins a new turn and is counted as a round as well, so the
retries end some tasks before either. Three planned tasks give chains, forks and joins,
and more candidates than slots; all planned tasks have one priority in the run, so the id
decides between them, while follow-ups have priority 99. One place in the store
makes each creation an eviction. One failed save may be followed by one that
succeeds, by a crash, or by neither. Three searches on two keys are the fewest for which
one waits for a key while another waits for the slot with it, and a third moves the
index. One stop of the service gives every crash point; a second one starts from a
store the first has already put into a state of rest. Three starts of the evaluation
give a failure, a retry and a resume after the retry, with a change of the mode or of
the dataset at each. With the second rubric blocked no rubric keeps its place in the
list, and three batches, the last one short, compete for two slots. The main list of
facts exceeds the limit on claims by one after the source gate and the removal of the
repeated one, its claims cite more sources than may be offered. With a bound of 5 and
prompts of 2 and 1, a second document fits the first call and not the repair; with a
text of 4 no document fits either.

`CHECK_DEADLOCK FALSE` stands in the configurations of the workers, the graph, the
service and the key pool, which come to their ends. The other four modules have an action for the end, and the runs check that nothing else stops.

The properties, by the question they answer:

- *Ledger.* `SlicesHonoured`: what `reserve` promises to those who keep within their
  slices. `LedgersShowAllCharges`: each report counts once, up to the cap.
- *Workers.* `TicketsClosed`: a ticket is open exactly while its worker is in the call;
  every path the worker takes out of it closes that ticket and no other. (The hard
  timeout takes none of them: finding 4.) `CitationsUnique`: an id names one source.
  `FactsDelivered`: no later round takes back the facts of an earlier one, however the
  worker ends. (The facts of the call whose commit raises are lost: finding 5.)
  `CancelStops`: a cancelled worker ends though no tool answers. `Termination`:
  every worker ends if the tools answer.
- *Graph.* `BoardRefined`: every node is a step of `TaskBoard`, so the statuses that
  `replan_node` and the supervisor read, some from a marked copy, are never so stale that
  a task runs twice, too early or beside too many others, or that a follow-up joins a run
  that could go on. `OnlyFailuresBlock`: what is left pending in the report waits, in the
  end, for a task that failed or was cancelled. `EndsWithoutChain`: the run ends for every
  plan and every outcome but one shape.
- *Service.* `CompletedSurvives`: a task that is completed when the process stops is
  completed after the next start, with its report, unless the last save failed or the
  file was torn; evictions, cancellations and shutdowns in any order before it take no
  report away. It promises nothing of a torn file, from which every task is gone, nor
  of a save that failed. `OneFinalEvent`: the log is that
  of one run. `ReceivedInOrder`: nothing comes twice or late, as long as no process has
  started from a file that is behind; after such a start the client may know events
  that the service does not, and gets events again. `EveryTaskEnds`.
- *Key pool.* `NoCallWithDeadKey`, `PermanentErrorsAreTrue`: what a search knew before
  it waited is checked again, and the error that ends a worker's task is true of the
  pool. `EverySearchEnds`: no deadlock between keys and slots.
- *Evaluation.* `LedgerRefined`: resuming neither repeats a completed question nor loses
  or skips an attempt. `OneDataset`: the results of a directory come from one dataset.
  `ReportsAreDisk`: the summary and the snapshot of a run show the result files, failed
  questions included. `RunSummarises`: a run that is not killed writes its summary, even
  if a body never ends.
- *Judge.* `ScoresAreOwn`: the numbers of batches, places and rubrics are never mixed
  up. `ErrorsWereRetried`: a parse error is reported only after a batch and a call of
  the rubric's own. `JudgeEnds`.
- *Report.* `VerifiedIsSupported`, `OutageIsNotNeutral`: what a status says is what the
  sources of that claim said, over two rounds. `ForbiddenStaysOut`: a blocked or late
  source is neither read again nor cited nor listed. `SelectionIsFair`: no task gets a
  second fact verified while another waits for its first. `TagsBacked`: in an accepted
  report every tag stands for a source of a claim that is still in it.
- *Extraction.* `SlotsAreHeld`: a slot is taken exactly while a request is being sent.
  `OnlyTextExceeds`: a request that passes the bound holds the prompts and the text
  before the documents and nothing else, so neither a document nor the echo of a reply
  makes one too long. `UsageAgrees`: extractions that succeeded never return more than
  the question collected, and all of it if none failed; what passes for reported usage
  was reported. `ExtractionEnds`: every extraction returns, even if no server answers.

Five modules also have a type invariant in their run. Every property has a mutant in
`PROJECT.json`: a wrong variant of one definition, such as a plausible bug would make,
that violates it.

### Fairness

- `Workers`: weak fairness of each worker's own steps: the event loop runs every
  coroutine that can go on. Tools are not assumed to answer. `Termination` states
  its additional assumption, that each call ends in an answer or an error, inside
  the property. `RequestCancel` and `HardTimeout` are never required.
- `ResearchGraph`: weak fairness of the next step. The nodes are plain functions,
  and a worker returns by `Workers`' `Termination`.
- `TaskService`: weak fairness of each runner, because the graph and the report run
  under hard timeouts and so return or raise; of the restart, because
  `EveryTaskEnds` is about a service that comes back; and of a connected stream.
  Not of creation, cancellation, connecting or stopping.
- `KeyPool`: weak fairness of each search's steps: a wait for an answer is bounded by
  `wait_for`, the sleep is finite, and asyncio's locks serve their waiters.
- `EvalRunner`: weak fairness of the steps of each question, since the clock ends a
  body that does not end, and of the sequential steps of a run. A loose body need never
  end, so `Close` is not required; nor are starts and crashes.
- `RubricJudge`: weak fairness of each batch and each retry, every call of which has a
  timeout of its own, and of the two sequential steps. Not of the total timeout.
- `Extraction`: weak fairness of the clock and of what the event loop resumes by itself.
  Neither an answer nor a slot nor a cancellation is assumed.
- `VerifiedReport` has safety properties only.

## 4. Findings

Disagreements between the code and what the repository says of it, each with a run
that exhibits it:

1. `graph_ends`: a task blocked by a cancelled one is never recorded as cancelled,
   so a dependent of that task keeps the run going between supervisor and
   collector; the docstring of `fail_blocked_tasks` says that a cancelled dependency
   does not block the graph for ever. The API does not cancel single workers today,
   so the shape needs a caller of `request_cancel`.
2. `report_tags`: the citations offered to the model are renumbered, `[cN]` being the
   N-th offered one, and the numbering is not delivered: the report carries the
   citations under their own ids. The prompt manifest says that the platform appends
   the citation list, which only the repair does.
3. `workers_promises`, `ExcessRecorded`: usage that passes the per-task cap alone is
   clamped (`agents/budget.py:331`) and neither recorded as overflow nor raised, as
   `agents/budget.py:20` and the knowledge base say it is.
4. `workers_promises`, `TicketsReleased`: the `CancelledError` of the hard timeout passes
   the `except Exception` at `agents/worker.py:515`, so the ticket stays open, against
   the comment at 490. The run is over then, and its ledger with it.
5. `workers_promises`, `FactsKept`: a commit that raises ends the worker before the new
   facts are appended (`agents/worker.py:554`); the comment above says they are kept.
6. `extraction_promises`, `InputBounded`: `user_context` has no maximum length
   (`api/main.py:40`) and is counted, but never cut, so with a long one the request
   passes `MAX_TOTAL_INPUT_CHARS`; `service/extractor.py:21` and 162 exclude it.
7. `extraction_promises`, `UsageReturned`: an extraction that ends in the fallback
   returns the heuristic's estimate and not the usage accumulated over its model calls,
   as the docstring at `service/extractor.py:435` says.

Findings 3 to 5 share a run, as do 6 and 7. Its invariant `SomePromiseHolds` is the
disjunction of the promises, so the state that TLC shows breaks each of them, and the
behaviour that leads there is one run of the program that breaks all.

Read off the models, without a run of their own:

- *Service.* A cancelled task becomes running or completed again, because the runner
  does not look at the status (`api/runner.py:264`). Events appended while the stream
  is sending are skipped and not replayed (`api/main.py:225`). `cancel_task` does not
  save, so a crash undoes a cancellation; a torn task file is read as an empty one, and
  a save that fails is not reported, both of which `knowledge-base/` says (06:44, 11:21).
- *Key pool.* A request that timed out goes on in its thread while the search retries,
  so one key serves two requests at once (`tools/search_providers.py:175`; the docstring
  at 102-103 excludes it). A search that begins when all keys are disabled has seen no
  reason itself and raises the general error.
- *Evaluation.* An experiment with nothing left to run returns before it writes a
  summary, while the command line prints where the summary is. A crash between
  `create_project` and `experiment.json` makes the next start create a second
  experiment; one between the two writes of a result leaves it without its trace.
  A body that resists cancellation is not reaped when the grace period is over,
  though the docstring at `evals/runner.py:877` says so of both tasks; the process
  then returns when that body does. A crash in the middle of a final snapshot leaves its
  project behind.
- *Judge.* When the total timeout strikes, scores that are there are discarded, although
  the comment above the fallback (`evals/metrics.py:197`) says that finished rubrics keep
  theirs: `TotalTimeout` shows it in one step. The question still counts as completed,
  so no resume judges it again.
- *Report.* A claim whose judge failed on every source is marked as not fetched, which
  the comment at `service/verifier.py:418` says it is not. A contradiction found in the
  second round leaves the claim neutral: that round can only confirm. And that round
  verifies the sentence to which a revision has put a prefix
  (`service/verified_report.py:243`), which the module's docstring (6-8) says it does
  not; the wording of claims is not in the model.
- *Extraction.* A fact may be accepted because of a document that the bound kept out of
  the prompt. A reply without content makes `extract` raise where every other bad reply
  leads to the repair or the fallback; the worker counts it as a failed extraction.

## 5. What is proved

The proofs hold for every value of the constants that satisfies the modules'
`ASSUME`s: any number of tasks, any caps, any bounds. The bounds (`MaxTickets`,
`MaxStops`, `MaxStarts`, ...) need only be natural numbers, `Slices` and `Usages` sets of them.

- `Lemmas` holds what several proofs rest on: `Total` when a sequence grows or one entry
  changes, `Ranked`, `Ascending` and `Picked` of `Listings`, and the community modules'
  `SumFunctionOnSet`, which is a fold. A recursive function satisfies its own equation
  because its tables exist and agree (`TableExists`, `TableUnique`, `PrefixDef`; for the
  fold `SumTableExists`, `TablesAgree`, `SumByTable`). Both need induction, and the
  library's induction theorems take an operator, which the provers cannot instantiate. So
  `SetInduction` restates induction over a *set* of naturals and derives it from the
  pigeonhole principle, and `SizeInduction` does the same for the subsets of a finite set.
- `WorkersProofs`, the ledger: `Spec => []TypeOK` (`TypeCorrect`), `[]ReservedIsOpenTickets`
  (`ReservationsAreIsolated`), `[]LedgersShowAllCharges` (`LedgersExact`) and
  `[]SlicesHonoured` (`ReservePromise`). The invariant `IInv` is the conjunction of
  the four, and each needs another: the clamp at zero in `FreeSlice` is harmless
  only because the freed slice is part of the sum of open slices; overflow
  is zero only because the exact ledger never passed its cap.
- `WorkersProofs`, the workers on the ledger: `WorkersIInv`, which is
  `IInv /\ PlacesOK /\ TicketsClosed`. The two parts hold each other up: a commit is a
  step of `Budget` because the worker holds an open ticket, and the ticket stays its own
  because a step of `Budget` touches one ticket.
  Hence `NoTicketLeaks`, `SlicesComeBack` (with the lemma that no open ticket means
  nothing reserved) and `LedgerOfWorkers`, which carries the ledger's theorems over to
  the workers (lemma `WorkersUseBudget`: their steps are `Budget`'s by construction).
- `WorkersProofs`, what the workers hand over: `CitationIdsAreUnique`, `FactsAreDelivered`,
  `WorkersTypeCorrect`. A citation's number is the number of sources seen when it was
  made; that no two share one follows from the sharper `Numbered`: no number in use,
  the one of the fetch under way included, exceeds the sources seen, and a hit that is
  still to be fetched has not been seen. `FactsIInv`: until a worker finishes, it has
  exactly what was extracted. The type needs `LoopCounts`: a worker past the gates has
  an iteration left, and it has failed no more often than it has begun a new turn.
- `ResearchGraphProofs`, the graph: `EachTaskRunsOnce`, `WorkersStayCapped`,
  `NoTaskForgotten`, `FollowUpsAreCounted` and `GraphTypeCorrect`. The invariant `GIInv` adds to them the types the steps
  rely on (`Typed`) and the relation of the count of runs to the statuses
  (`RunsMatch`: a pending task has not run, a running one is in the current wave).
  `FirstFew` is a pigeonhole on ranks: of the candidates ordered by priority and id,
  at most `n` have fewer than `n` before them, hence the cap on workers.
  `FinishedMeansBlocked` relates the decision to finish, made on the marked copy, to
  the unmarked state that the run goes on with.
- `ResearchGraphProofs`, the tasks: `GraphImplementsBoard` (`Spec => BoardRefined`, the
  refinement) and `BlockedBehindFailures`. What a node does to the tasks is said once, in
  `PlanInstalled`, `WaveSent`, `WaveEnded`, `TasksFailed` and `FollowUpAdded`; the step of
  `GIInv` and the step of `TaskBoard` both come from these. Two more invariants are
  needed. `Acyclic` says that the dependencies have no cycle: `ValidPlanHasNoCycle` shows
  it of every plan that passes the validator, whose rounds (Kahn's algorithm) would never
  take the first task of a cycle, and a follow-up depends on nothing. Then a set of
  blocked tasks that is closed under dependencies and contains no failure would have a
  first task that could run. `PlanThere` says that the tasks outside the plan are the
  follow-ups, so the count of replans bounds them.
- `TaskServiceProofs`: `ServiceTypeCorrect`, `TasksEndOnce`, `ReportsSurvive`
  (`Spec => CompletedSurvives`, an action property), `NothingTwice`. The invariant
  `Inv == RecordsInv /\ Stream`. Every event is saved as it is appended, so unless the
  last save failed the event lists of the file are those of its tasks (`OnDisk`) and what
  is completed in the store is completed in the file (`CompletedOnDisk`). Whatever else
  the file holds was once the store (`Fine`), so a restart from it never brings back a
  list with a final event in the middle or a completed task without a report. A task
  that was created has, or had, its coroutine (`Created`), so nothing emits after the
  runner's end but the restart, which ends only tasks without a final event. `Stream`,
  which speaks of services that never started from a file that is behind, adds that a
  batch begins after what the client has, and that the cursor never falls behind what
  was sent.
- `KeyPoolProofs`: `PoolTypeCorrect`, `DeadKeysAreNotCalled`, `KeysServeOneSearch`,
  `EveryKeyIsTried`, `PermanentErrorsHold`. The invariant `PInv` adds that a key has one
  holder (`OneHolder`) and that what a search has seen of the breaker is true
  (`SeenIsTrue`). Only the holder of a key can disable it, and it took the key when it was
  not disabled; so a reason is never overwritten, which is what keeps `SeenIsTrue` and an
  error once raised true.
- `EvaluationProofs`, the runner: `EvalTypeCorrect`, `ResultsOfOneDataset`, `ReportsShowDisk` and
  `EvalImplementsLedger` (`EvalSpec => LedgerRefined`). The argument is `AttemptsMatch`: a
  question is under way only while its file is not completed and nobody else writes that
  file; so the attempt number read before the body is still the file's when the result is
  recorded, and the second write of a result (`Link`) is a stuttering step of the ledger.
  `InStep` is what makes a summary from memory a summary of the disk: the memory of a
  question that is not under way equals its file.
- `EvaluationProofs`, the judge: `ScoresStandAtTheirRubric`, `ParseErrorsAreFinal`,
  and `JudgeTypeCorrect`.
  The invariant `JInv` says of every place that holds a score that it was asked for there
  (`InPlace`), what each batch and retry still has to do (`Pending`), and what a verdict
  comes from (`Verdicts`). The arithmetic is `PlacesOf`: `Home`, a division by the size of
  a batch, and `RubricAt` undo each other for any number of live rubrics. A retry waits
  only for a place that has no score.
- `ExtractionProofs`: `SlotsComeBack`, `OnlyTheTextIsTooLong`, `UsageIsCounted` and
  `ExtractionTypeCorrect`. For the slots, `SlotStep`: each step moves
  one call, and changes the number of free slots exactly when that call starts or stops
  sending. For the usage, the invariant `EInv` compares two sums with the collector: the
  tokens held by the extractions, returned or to be returned with the next reply, never
  exceed what was recorded and equal it while none was cancelled or raised; and the
  events recorded and those still possible are at most two for each extraction. For the
  bound, `FitsRoom`: the documents that are kept fit the room that is left for them.
- `VerifiedReportProofs`: `VerifiedClaimsAreSupported`, `OutagesAreNotNeutral`,
  `ForbiddenSourcesStayOut`, `SelectionsAreFair`, `TagsAreBacked` and `ReportTypeCorrect`, for
  every list of facts, every set of blocked and late sources and every limit, where the run
  takes a few. `ReportIInv` has a part for each: what is done about a claim is logged under
  its own index, in the numbering of its round (`Slots`); a status agrees with the log of
  the round that gave it (`Judged`, which is why the second round's numbering does no harm);
  a report lists clean sources only and its tags lie within the offered list (`Reported`);
  and the claims are the selected facts in order (`Chosen`). Fairness is then a property of
  `RoundRobin` alone: a fact's place is the number of facts before it, and those with a
  smaller offset in their task are before it.

Theorems without a run of their own: the type of the ledger, `ReservedIsOpenTickets`,
`NothingLeftReserved`, `RunAtMostOnce`, `WorkersCapped`, `NothingRunnableLeft`,
`FollowUpsBounded`, `GraphTypeOK`,
`OneSearchPerKey`, `GivesUpLast` and the types of `KeyPool` and
`EvalRunner`. Every invariant and every safety action property that a passing run checks is
also a theorem.

Model-checked only: liveness (`CancelStops`, `Termination`, `EndsWithoutChain`,
`EveryTaskEnds`, `EverySearchEnds`, `RunSummarises`, `JudgeEnds`, `ExtractionEnds`), which is
out of the prover's reach together with `ENABLED`.

Three definitions have the form they have for the sake of the proofs. The lists that the
code makes with `sorted` and with comprehensions are `Ascending` and `Picked` of `Listings`:
the library's `SetToSortSeq` depends on a sort that only TLC defines and `SelectSeq` on a
recursive operator. And the facts of a superstep are added up with
`SumFunctionOnSet`. The state spaces are those of the earlier forms, to the state.

## 6. What is abstracted, and what is not modelled

Texts, queries, prompts, urls as strings, timestamps, log records and the backoff
times are left out: no property depends on them. The length check of the input, the
answers of search, fetch, extraction, judge, graph and report, and the usage of a call
are nondeterministic. Task ids order like their numbers (the code compares strings,
which agrees below ten tasks). The service is modelled with its file configured and
one client; several clients share nothing but the records they read. An operator
resumes an evaluation with `--resume`: without it the comparison with the snapshot is
skipped although completed results are still taken over. An unconfigured provider and an
answer without choices count as a failed call. A fact is one claim with its citations;
`Extraction` returns one fact for a reply of many, since the acceptance is per fact.

Not modelled:

- Exporters: a Feishu document is created and then filled, two requests of which the
  second may fail; a sequence of two steps without shared state.
- The algebra of the reducers of `graph/state.py` (commutativity, idempotence): the
  graph's model merges the statuses and counts the facts.
- Long-term store and retrieval: the main path does not call them.
- Fetchers and paper providers: network I/O; their answers and failures are inputs of
  `Workers` and `VerifiedReport`.
- Prompt registry, configuration, logging, tracing, rendering, plots, command line
  tools: no state that changes concurrently, and no behaviour another model depends on.

## 7. Plan

Done: all modules of section 2 with their runs, and the proofs of section 5. What could
come next, in this order:

1. `Reducers`: the merge functions of `graph/state.py` as operators, checked to be
   commutative, associative and idempotent over bounded inputs.
2. What the service promises of one task to its client, as an abstract specification that
   `TaskService` implements.
3. The export to Feishu, with its failure between the two requests.
