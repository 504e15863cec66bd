----------------------------- MODULE EvalRunner -----------------------------
(***************************************************************************)
(* The evaluation harness (evals/runner.py, evals/cli.py): one process     *)
(* evaluates the questions of a dataset, a few at a time, each under the   *)
(* hard timeout of core/deadlines.py, and saves one result file per        *)
(* question.  It may be killed between any two steps and started again on  *)
(* the same output directory.  "plain" is EvalRunner.run, "experiment" is  *)
(* LangSmithExperimentSink.arun_experiment.                                *)
(*                                                                         *)
(* A result keeps what resume, the summary and the snapshot look at:       *)
(* answers, scores, latencies and token counts are left out.  A file is    *)
(* written under a temporary name and renamed, so a write is one step.     *)
(* The operator passes --resume from the second start on.                  *)
(***************************************************************************)
EXTENDS Naturals, FiniteSets

CONSTANTS
  N,            \* how many questions the dataset has
  Concurrency,  \* --concurrency
  Known,        \* the questions that have an example in the LangSmith dataset
  Datasets,     \* the datasets (by hash) a start may be given
  MaxStarts     \* bound: how often the process is started

ASSUME EvalAssumption ==
  /\ N \in Nat \ {0}
  /\ Concurrency \in Nat \ {0}
  /\ Known \subseteq 1..N
  /\ MaxStarts \in Nat

Questions == 1..N

VARIABLES
  \* on disk
  file,        \* results/<qid>.json
  config,      \* the dataset hash in config_snapshot.json, as a set
  manifest,    \* the experiment in experiment.json, 0 if there is no file
  summary,     \* summary.json: the results it reports
  final,       \* final_experiment.json: the results it was made from
  \* at LangSmith
  experiments, \* how many experiments were created
  \* in the process
  phase, mode, limit, starts,
  project,     \* the experiment of this run
  pc,          \* where each question is
  previous,    \* previous_attempt
  memory,      \* the payloads this process holds
  loose        \* bodies that outlived the hard timeout

disk == <<file, config, manifest, summary, final>>
evalVars == <<disk, experiments, phase, mode, limit, starts, project, pc,
              previous, memory, loose>>

Missing == [status |-> "none", attempt |-> 0, data |-> {}, link |-> 0]
Result == [status : {"none", "failed", "completed"}, attempt : 0..MaxStarts,
           data : SUBSET Datasets, link : 0..(2 * MaxStarts)]
IsReport(r) == DOMAIN r \subseteq Questions /\ \A q \in DOMAIN r : r[q] \in Result

Phases == {"down", "create", "save", "running", "publish", "upload",
           "closing", "returned", "nothing"}
InSlot == {"body", "grace", "passed", "failed", "link"}

EvalTypeOK ==
  /\ file \in [Questions -> Result] /\ memory \in [Questions -> Result]
  /\ config \in SUBSET Datasets /\ Cardinality(config) <= 1
  /\ manifest \in 0..experiments /\ project \in 0..experiments
  /\ experiments \in 0..(2 * MaxStarts)
  /\ IsReport(summary) /\ IsReport(final)
  /\ phase \in Phases /\ mode \in {"plain", "experiment"}
  /\ limit \in Questions /\ starts \in 0..MaxStarts
  /\ pc \in [Questions -> InSlot \cup {"idle", "queued", "finished"}]
  /\ previous \in [Questions -> 0..MaxStarts]
  /\ loose \subseteq Questions

Nowhere == [q \in Questions |-> "idle"]

EvalInit ==
  /\ file = [q \in Questions |-> Missing] /\ memory = file
  /\ config = {} /\ manifest = 0 /\ project = 0 /\ experiments = 0
  /\ summary = [q \in {} |-> Missing] /\ final = summary
  /\ phase = "down" /\ mode = "plain" /\ limit = 1 /\ starts = 0
  /\ pc = Nowhere /\ previous = [q \in Questions |-> 0] /\ loose = {}

-----------------------------------------------------------------------------
(* Starting and resuming. *)

\* A failed question is not done: it runs again.
Done == {q \in Questions : file[q].status = "completed"}

\* Wrong variant: a resume that does not look at the snapshot.
ResumeUnchecked(d) == d \in Datasets

ResumeAccepted(d) == config \in {{}, {d}}

PlainPending(l) == (1..l) \ Done
ExperimentPending(l) == ((1..l) \ Done) \cap Known

Launch(l, d, pending) ==
  /\ config' = {d}
  /\ pc' = [q \in Questions |-> IF q \in pending THEN "queued" ELSE "idle"]
  /\ memory' = [q \in Questions |-> IF q \in Done THEN file[q] ELSE Missing]
  /\ limit' = l

StartPlain(l, d) ==
  /\ Launch(l, d, PlainPending(l))
  /\ phase' = "running" /\ mode' = "plain" /\ project' = 0

StartExperiment(l, d) ==
  /\ ExperimentPending(l) # {}
  /\ Launch(l, d, ExperimentPending(l))
  /\ phase' = IF manifest = 0 THEN "create" ELSE "running"
  /\ project' = manifest /\ mode' = "experiment"

\* Nothing left to run: the results are returned, and nothing is written.
StartNothing(l) ==
  /\ ExperimentPending(l) = {}
  /\ phase' = "nothing" /\ mode' = "experiment" /\ limit' = l
  /\ UNCHANGED <<config, project, pc, memory>>

Start(l, d) ==
  /\ phase \in {"down", "returned", "nothing"} /\ starts < MaxStarts
  /\ ResumeAccepted(d)
  /\ StartPlain(l, d) \/ StartExperiment(l, d) \/ StartNothing(l)
  /\ starts' = starts + 1
  /\ UNCHANGED <<file, manifest, summary, final, experiments, previous, loose>>

CreateExperiment ==
  /\ phase = "create"
  /\ experiments' = experiments + 1 /\ project' = experiments + 1
  /\ phase' = "save"
  /\ UNCHANGED <<disk, mode, limit, starts, pc, previous, memory, loose>>

SaveManifest ==
  /\ phase = "save"
  /\ manifest' = project /\ phase' = "running"
  /\ UNCHANGED <<file, config, summary, final, experiments, mode, limit, starts,
                 project, pc, previous, memory, loose>>

-----------------------------------------------------------------------------
(* One question. *)

processVars == <<experiments, mode, limit, starts, project>>

Busy == {q \in Questions : pc[q] \in InSlot}

\* The attempt number is read here and used when the result is recorded.
Begin(q) ==
  /\ phase = "running" /\ pc[q] = "queued" /\ Cardinality(Busy) < Concurrency
  /\ previous' = [previous EXCEPT ![q] = file[q].attempt]
  /\ pc' = [pc EXCEPT ![q] = "body"]
  /\ UNCHANGED <<disk, processVars, phase, memory, loose>>

\* ResearchRunner and the judge, as _execute_one sees them.
AnswerOutcomes == {"report", "gate failed", "raised"}
JudgeOutcomes == {"verdict", "raised"}

BodyEnds(q) ==
  /\ pc[q] = "body"
  /\ \E answer \in AnswerOutcomes, judge \in JudgeOutcomes :
       pc' = [pc EXCEPT ![q] = IF answer = "report" /\ judge = "verdict"
                               THEN "passed" ELSE "failed"]
  /\ UNCHANGED <<disk, processVars, phase, previous, memory, loose>>

\* The body is cancelled, and may or may not obey.
TimeUp(q) ==
  /\ pc[q] = "body"
  /\ pc' = [pc EXCEPT ![q] = "grace"]
  /\ loose' = loose \cup {q}
  /\ UNCHANGED <<disk, processVars, phase, previous, memory>>

\* A cancelled body ends; what it returns is thrown away.
LooseBodyEnds(q) ==
  /\ q \in loose
  /\ loose' = loose \ {q}
  /\ UNCHANGED <<disk, processVars, phase, pc, previous, memory>>

\* Wrong variant: asyncio.wait_for, which waits for the cancelled body.
GraceOverReaped(q) ==
  /\ pc[q] = "grace" /\ q \notin loose
  /\ pc' = [pc EXCEPT ![q] = "failed"]
  /\ UNCHANGED <<disk, processVars, phase, previous, memory, loose>>

\* The grace period ends with the body, or without it.
GraceOver(q) ==
  /\ pc[q] = "grace"
  /\ pc' = [pc EXCEPT ![q] = "failed"]
  /\ UNCHANGED <<disk, processVars, phase, previous, memory, loose>>

\* Wrong variant: the attempts are counted from what this process holds.
PayloadFromMemory(q) ==
  [status |-> IF pc[q] = "passed" THEN "completed" ELSE "failed",
   attempt |-> memory[q].attempt + 1, data |-> config, link |-> 0]

Payload(q) ==
  [status |-> IF pc[q] = "passed" THEN "completed" ELSE "failed",
   attempt |-> previous[q] + 1, data |-> config, link |-> 0]

Record(q) ==
  /\ pc[q] \in {"passed", "failed"}
  /\ file' = [file EXCEPT ![q] = Payload(q)]
  /\ memory' = [memory EXCEPT ![q] = Payload(q)]
  /\ pc' = [pc EXCEPT ![q] = IF mode = "experiment" THEN "link" ELSE "finished"]
  /\ UNCHANGED <<config, manifest, summary, final, processVars, phase, previous, loose>>

\* predict writes the file a second time, with the experiment and the trace.
Link(q) ==
  /\ pc[q] = "link"
  /\ memory' = [memory EXCEPT ![q].link = project]
  /\ file' = [file EXCEPT ![q] = memory'[q]]
  /\ pc' = [pc EXCEPT ![q] = "finished"]
  /\ UNCHANGED <<config, manifest, summary, final, processVars, phase, previous, loose>>

-----------------------------------------------------------------------------
(* The end of a run. *)

OnDisk == {q \in Questions : file[q].status # "none"}

\* Wrong variant: failed questions leave the denominator.
PlainSummaryCompleted ==
  [q \in {p \in 1..limit : memory[p].status = "completed"} |-> memory[q]]

PlainSummary == [q \in 1..limit |-> memory[q]]
CollectedResults == [q \in OnDisk |-> file[q]]

Retried == \E q \in OnDisk : file[q].attempt > 1

Summarise ==
  /\ phase = "running" /\ Busy = {} /\ \A q \in Questions : pc[q] # "queued"
  /\ summary' = IF mode = "plain" THEN PlainSummary ELSE CollectedResults
  /\ phase' = IF mode = "experiment" /\ Retried THEN "publish" ELSE "closing"
  /\ UNCHANGED <<file, config, manifest, final, processVars, pc, previous, memory, loose>>

\* What the final snapshot shows: one row per question of the run.
Fingerprint == [q \in OnDisk \cap (1..limit) \cap Known |-> file[q]]

\* No new project if the last snapshot has the same fingerprint.  (It never has:
\* a run that comes here has recorded an attempt.)
CreateSnapshot ==
  /\ phase = "publish"
  /\ IF final = Fingerprint
     THEN phase' = "closing" /\ UNCHANGED experiments
     ELSE phase' = "upload" /\ experiments' = experiments + 1
  /\ UNCHANGED <<disk, mode, limit, starts, project, pc, previous, memory, loose>>

\* The rows are uploaded, and the manifest written last.
PublishSnapshot ==
  /\ phase = "upload"
  /\ final' = Fingerprint /\ phase' = "closing"
  /\ UNCHANGED <<file, config, manifest, summary, processVars, pc, previous, memory, loose>>

\* asyncio.run waits for the bodies that are still running.
Close ==
  /\ phase = "closing" /\ loose = {}
  /\ phase' = "returned"
  /\ UNCHANGED <<disk, processVars, pc, previous, memory, loose>>

\* The process dies: the disk and LangSmith keep what they have.
Crash ==
  /\ phase \notin {"down", "returned", "nothing"}
  /\ phase' = "down" /\ pc' = Nowhere /\ loose' = {} /\ project' = 0
  /\ previous' = [q \in Questions |-> 0]
  /\ memory' = [q \in Questions |-> Missing]
  /\ UNCHANGED <<disk, experiments, mode, limit, starts>>

\* Every start is used up.
Rest ==
  /\ phase \in {"down", "returned", "nothing"} /\ starts = MaxStarts
  /\ UNCHANGED evalVars

Question(q) ==
  Begin(q) \/ BodyEnds(q) \/ TimeUp(q) \/ GraceOver(q) \/ Record(q) \/ Link(q)

EvalNext ==
  \/ \E l \in Questions, d \in Datasets : Start(l, d)
  \/ CreateExperiment \/ SaveManifest
  \/ \E q \in Questions : Question(q) \/ LooseBodyEnds(q)
  \/ Summarise \/ CreateSnapshot \/ PublishSnapshot \/ Close
  \/ Crash \/ Rest

\* The clock ends a body that does not end by itself; nothing ends a loose one.
EvalFairness ==
  /\ WF_evalVars(CreateExperiment) /\ WF_evalVars(SaveManifest)
  /\ \A q \in Questions : WF_evalVars(Question(q))
  /\ WF_evalVars(Summarise)
  /\ WF_evalVars(CreateSnapshot) /\ WF_evalVars(PublishSnapshot)

EvalSpec == EvalInit /\ [][EvalNext]_evalVars /\ EvalFairness

-----------------------------------------------------------------------------
(* Properties. *)

\* Resuming neither repeats a completed question nor loses or skips an attempt,
\* wherever the process was killed.
Ledger == INSTANCE QuestionLedger WITH
  Asked <- Questions,
  ledger <- [q \in Questions |->
               [status |-> file[q].status, attempt |-> file[q].attempt]]

LedgerRefined == Ledger!LedgerSpec

\* The results of one directory come from one dataset, over all its runs.
OneDataset ==
  \A q \in Questions : file[q].status # "none" => file[q].data = config

\* A report agrees with the result files on every question it covers, and
\* covers every question it should.
Agrees(report, S) ==
  DOMAIN report = S /\ \A q \in S : report[q] = file[q]

\* When a run has ended, its summary shows what is on disk, failed questions
\* included, and so does the snapshot of an experiment with a retried question.
ReportsAreDisk ==
  phase \in {"closing", "returned"} =>
    /\ Agrees(summary, IF mode = "plain" THEN 1..limit ELSE OnDisk)
    /\ mode = "experiment" /\ Retried => Agrees(final, OnDisk \cap (1..limit) \cap Known)

\* A run that is not killed writes its summary, even if a body never ends.
RunSummarises == phase = "running" ~> phase \in {"closing", "returned", "down"}
=============================================================================
