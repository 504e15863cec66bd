-------------------------- MODULE EvaluationProofs --------------------------
(***************************************************************************)
(* The evaluation: EvalRunner for any number of questions, any concurrency *)
(* and any number of starts, and RubricJudge for any rubrics and batches.  *)
(*                                                                         *)
(* The result files implement QuestionLedger across crashes, come from one *)
(* dataset, and are what the reports show.  The argument: a question is under *)
(* way only while its file is not completed, and nobody else writes that file *)
(* meanwhile.  So the attempt number read before the body is still the file's *)
(* when the result is recorded, and the second write of a result is of the *)
(* same attempt.                                                           *)
(*                                                                         *)
(* The judge gives every rubric the score that was meant for it.  The      *)
(* argument: each rubric that is sent has one place in one batch, found by *)
(* division, and what is written at a place was asked for that place.      *)
(***************************************************************************)
EXTENDS EvalRunner, RubricJudge, Lemmas

(* The runner. *)

Pcs == InSlot \cup {"idle", "queued", "finished"}

Typed ==
  /\ file \in [Questions -> Result] /\ memory \in [Questions -> Result]
  /\ config \in {{}} \cup {{d} : d \in Datasets}
  /\ manifest \in 0..experiments /\ project \in 0..experiments
  /\ IsReport(summary) /\ IsReport(final)
  /\ phase \in Phases /\ mode \in {"plain", "experiment"}
  /\ limit \in Questions /\ starts \in 0..MaxStarts
  /\ pc \in [Questions -> Pcs]
  /\ previous \in [Questions -> 0..MaxStarts]
  /\ loose \subseteq Questions

\* A start creates at most two experiments.
Experiments ==
  /\ experiments \in Nat /\ experiments <= 2 * starts
  /\ phase = "create" => experiments + 2 <= 2 * starts
  /\ phase \in {"save", "running", "publish"} => experiments + 1 <= 2 * starts

\* A start attempts a question at most once, and only one that is not completed.
AttemptsMatch ==
  \A q \in Questions :
    /\ file[q].attempt <= starts
    /\ pc[q] \in {"queued", "body", "grace", "passed", "failed"} =>
         file[q].attempt < starts /\ file[q].status # "completed"
    /\ pc[q] \in {"body", "grace", "passed", "failed"} => previous[q] = file[q].attempt
    /\ pc[q] = "link" => memory[q] = file[q] /\ file[q].status # "none"

\* Nothing is recorded before the dataset is.
NothingYet ==
  config = {} => \A q \in Questions : file[q].status = "none" /\ pc[q] = "idle"

\* Once there is a summary, no question is under way.
Quiet ==
  phase \in {"publish", "upload", "closing", "returned"} =>
    \A q \in Questions : pc[q] \in {"idle", "finished"}

\* What a plain run holds of its questions is what is on disk.
InStep ==
  mode = "plain" /\ phase \in {"create", "save", "running"} =>
    \A q \in 1..limit : pc[q] \in {"idle", "finished"} => memory[q] = file[q]

SummaryIsDisk ==
  phase \in {"publish", "upload", "closing", "returned"} =>
    Agrees(summary, IF mode = "plain" THEN 1..limit ELSE OnDisk)

SnapshotIsDisk ==
  phase \in {"closing", "returned"} /\ mode = "experiment" /\ Retried =>
    Agrees(final, OnDisk \cap (1..limit) \cap Known)

EInv ==
  /\ Typed /\ Experiments /\ AttemptsMatch /\ OneDataset /\ NothingYet
  /\ Quiet /\ InStep /\ SummaryIsDisk /\ SnapshotIsDisk

LEMMA LimitsAreQuestions == \A l \in Questions : l \in Nat /\ 1..l \subseteq Questions
BY EvalAssumption DEF Questions

LEMMA MissingIsResult == Missing \in Result
BY EvalAssumption DEF Missing, Result

LEMMA InitEInv == EvalInit => EInv
<1> SUFFICES ASSUME EvalInit PROVE EInv
  OBVIOUS
<1>0. N \in Nat \ {0} /\ MaxStarts \in Nat /\ 1 \in Questions
  BY EvalAssumption DEF Questions
<1>1. file \in [Questions -> Result] /\ memory \in [Questions -> Result]
  BY MissingIsResult DEF EvalInit
<1>2. IsReport(summary) /\ IsReport(final)
  BY DEF EvalInit, IsReport
<1>3. pc \in [Questions -> Pcs] /\ previous \in [Questions -> 0..MaxStarts]
  BY <1>0 DEF EvalInit, Nowhere, Pcs
<1>4. Typed
  BY <1>0, <1>1, <1>2, <1>3 DEF EvalInit, Typed, Phases
<1>5. Experiments /\ Quiet /\ InStep /\ SummaryIsDisk /\ SnapshotIsDisk
  BY DEF EvalInit, Experiments, Quiet, InStep, SummaryIsDisk, SnapshotIsDisk
<1>6. \A q \in Questions : file[q] = Missing /\ pc[q] = "idle"
  BY DEF EvalInit, Nowhere
<1>7. AttemptsMatch /\ OneDataset /\ NothingYet
  BY <1>6 DEF EvalInit, AttemptsMatch, OneDataset, NothingYet, Missing
<1> QED
  BY <1>4, <1>5, <1>7 DEF EInv
-----------------------------------------------------------------------------
(* Starting. *)

LEMMA LaunchStep ==
  ASSUME EInv, NEW l \in Questions, NEW d \in Datasets, ResumeAccepted(d),
         NEW pending \in SUBSET (Questions \ Done), Launch(l, d, pending),
         starts' = starts + 1, starts < MaxStarts,
         UNCHANGED <<file, manifest, summary, final, experiments, previous, loose>>,
         phase' \in {"create", "running"}, mode' \in {"plain", "experiment"},
         project' \in 0..experiments,
         mode' = "plain" => pending = PlainPending(l)
  PROVE  EInv'
<1>0. MaxStarts \in Nat /\ starts \in Nat
  BY EvalAssumption DEF EInv, Typed
<1>1. /\ config' = {d} /\ limit' = l
      /\ pc' = [q \in Questions |-> IF q \in pending THEN "queued" ELSE "idle"]
      /\ memory' = [q \in Questions |-> IF q \in Done THEN file[q] ELSE Missing]
  BY DEF Launch
<1>2. Typed'
  <2>1. memory' \in [Questions -> Result]
    BY <1>1, MissingIsResult DEF EInv, Typed
  <2>2. pc' \in [Questions -> Pcs]
    BY <1>1 DEF Pcs
  <2>3. starts' \in 0..MaxStarts
    BY <1>0
  <2> QED
    BY <1>1, <2>1, <2>2, <2>3 DEF EInv, Typed, Phases, IsReport, Result
<1>3. Experiments'
  BY <1>0 DEF EInv, Experiments
<1>4. \A q \in Questions : q \in pending => file[q].status # "completed"
  BY DEF Done
<1>5. AttemptsMatch'
  <2>1. \A q \in Questions : file[q].attempt \in Nat /\ file[q].attempt <= starts
    BY EvalAssumption DEF EInv, Typed, AttemptsMatch, Result
  <2>2. \A q \in Questions : pc'[q] \in {"queued", "idle"} /\ (pc'[q] = "queued" => q \in pending)
    BY <1>1
  <2> QED
    BY <1>0, <1>4, <2>1, <2>2 DEF AttemptsMatch
<1>6. OneDataset'
  BY <1>1 DEF EInv, OneDataset, NothingYet, ResumeAccepted
<1>7. NothingYet' /\ Quiet' /\ SummaryIsDisk' /\ SnapshotIsDisk'
  BY <1>1 DEF NothingYet, Quiet, SummaryIsDisk, SnapshotIsDisk
<1>8. InStep'
  <2> SUFFICES ASSUME mode' = "plain", NEW q \in 1..l, pc'[q] \in {"idle", "finished"}
               PROVE  memory'[q] = file'[q]
    BY <1>1 DEF InStep
  <2>1. q \in Questions
    BY LimitsAreQuestions
  <2>2. q \notin pending
    BY <1>1, <2>1
  <2>3. q \in Done
    BY <2>1, <2>2 DEF PlainPending
  <2> QED
    BY <1>1, <2>1, <2>3
<1> QED
  BY <1>2, <1>3, <1>5, <1>6, <1>7, <1>8 DEF EInv

LEMMA StartStep ==
  ASSUME EInv, NEW l \in Questions, NEW d \in Datasets, Start(l, d)
  PROVE  EInv'
<1>0. /\ ResumeAccepted(d) /\ starts' = starts + 1 /\ starts < MaxStarts
      /\ UNCHANGED <<file, manifest, summary, final, experiments, previous, loose>>
  BY DEF Start
<1>1. CASE StartPlain(l, d)
  <2>1. PlainPending(l) \in SUBSET (Questions \ Done)
    BY LimitsAreQuestions DEF PlainPending
  <2>2. Launch(l, d, PlainPending(l)) /\ phase' = "running" /\ mode' = "plain" /\ project' = 0
    BY <1>1 DEF StartPlain
  <2>3. 0 \in 0..experiments
    BY DEF EInv, Experiments
  <2> QED
    BY <1>0, <2>1, <2>2, <2>3, LaunchStep
<1>2. CASE StartExperiment(l, d)
  <2>1. ExperimentPending(l) \in SUBSET (Questions \ Done)
    BY LimitsAreQuestions DEF ExperimentPending
  <2>2. /\ Launch(l, d, ExperimentPending(l)) /\ phase' \in {"create", "running"}
        /\ mode' = "experiment" /\ project' = manifest
    BY <1>2 DEF StartExperiment
  <2>3. manifest \in 0..experiments
    BY DEF EInv, Typed
  <2> QED
    BY <1>0, <2>1, <2>2, <2>3, LaunchStep
<1>3. CASE StartNothing(l)
  <2>1. /\ phase' = "nothing" /\ mode' = "experiment" /\ limit' = l
        /\ UNCHANGED <<config, project, pc, memory>>
    BY <1>3 DEF StartNothing
  <2>2. starts \in Nat /\ MaxStarts \in Nat /\ starts' \in 0..MaxStarts
    BY <1>0, EvalAssumption DEF EInv, Typed
  <2>3. Typed'
    BY <1>0, <2>1, <2>2 DEF EInv, Typed, Phases, IsReport, Result, Pcs
  <2>4. Experiments' /\ NothingYet' /\ OneDataset'
    BY <1>0, <2>1, <2>2 DEF EInv, Experiments, NothingYet, OneDataset
  <2>5. AttemptsMatch'
    <3>1. \A q \in Questions : file[q].attempt \in Nat
      BY EvalAssumption DEF EInv, Typed, Result
    <3> QED
      BY <1>0, <2>1, <2>2, <3>1 DEF EInv, AttemptsMatch
  <2>6. Quiet' /\ InStep' /\ SummaryIsDisk' /\ SnapshotIsDisk'
    BY <2>1 DEF Quiet, InStep, SummaryIsDisk, SnapshotIsDisk
  <2> QED
    BY <2>3, <2>4, <2>5, <2>6 DEF EInv
<1> QED
  BY <1>1, <1>2, <1>3 DEF Start

LEMMA ExperimentSteps ==
  ASSUME EInv, CreateExperiment \/ SaveManifest
  PROVE  EInv'
<1>0. experiments \in Nat /\ starts \in Nat
  BY EvalAssumption DEF EInv, Experiments, Typed
<1>1. CASE CreateExperiment
  <2>1. /\ phase = "create" /\ phase' = "save"
        /\ experiments' = experiments + 1 /\ project' = experiments + 1
        /\ UNCHANGED <<file, config, manifest, summary, final, mode, limit, starts, pc,
                       previous, memory, loose>>
    BY <1>1 DEF CreateExperiment, disk
  <2>2. manifest' \in 0..experiments' /\ project' \in 0..experiments'
    BY <1>0, <2>1 DEF EInv, Typed
  <2>3. Typed'
    BY <2>1, <2>2 DEF EInv, Typed, Phases, IsReport
  <2>4. Experiments'
    BY <1>0, <2>1 DEF EInv, Experiments
  <2>5. AttemptsMatch' /\ NothingYet' /\ OneDataset'
    BY <2>1 DEF EInv, AttemptsMatch, NothingYet, OneDataset
  <2>6. InStep'
    BY <2>1 DEF EInv, InStep
  <2>7. Quiet' /\ SummaryIsDisk' /\ SnapshotIsDisk'
    BY <2>1 DEF Quiet, SummaryIsDisk, SnapshotIsDisk
  <2> QED
    BY <2>3, <2>4, <2>5, <2>6, <2>7 DEF EInv
<1>2. CASE SaveManifest
  <2>1. /\ phase = "save" /\ phase' = "running" /\ manifest' = project
        /\ UNCHANGED <<file, config, summary, final, experiments, mode, limit, starts, project,
                       pc, previous, memory, loose>>
    BY <1>2 DEF SaveManifest
  <2>2. Typed'
    BY <2>1 DEF EInv, Typed, Phases, IsReport
  <2>3. Experiments' /\ AttemptsMatch' /\ NothingYet' /\ OneDataset'
    BY <2>1 DEF EInv, Experiments, AttemptsMatch, NothingYet, OneDataset
  <2>4. InStep'
    BY <2>1 DEF EInv, InStep
  <2>5. Quiet' /\ SummaryIsDisk' /\ SnapshotIsDisk'
    BY <2>1 DEF Quiet, SummaryIsDisk, SnapshotIsDisk
  <2> QED
    BY <2>2, <2>3, <2>4, <2>5 DEF EInv
<1> QED
  BY <1>1, <1>2
-----------------------------------------------------------------------------
(* One question. *)

\* A question that moves on, with its file left alone.
LEMMA MoveStep ==
  ASSUME EInv, NEW q \in Questions, NEW where \in {"body", "grace", "passed", "failed"},
         pc[q] \in {"queued", "body", "grace"}, pc' = [pc EXCEPT ![q] = where],
         previous' \in [Questions -> 0..MaxStarts],
         \A r \in Questions \ {q} : previous'[r] = previous[r],
         previous'[q] = file[q].attempt,
         UNCHANGED <<disk, processVars, phase, memory>>, loose' \subseteq Questions
  PROVE  EInv'
<1>1. /\ UNCHANGED <<file, config, manifest, summary, final, experiments, mode, limit, starts,
                     project, phase, memory>>
  BY DEF disk, processVars
<1>2. pc \in [Questions -> Pcs]
  BY DEF EInv, Typed
<1>3. Typed'
  BY <1>1, <1>2 DEF EInv, Typed, Phases, IsReport, Pcs, InSlot
<1>4. Experiments' /\ OneDataset'
  BY <1>1 DEF EInv, Experiments, OneDataset
<1>5. AttemptsMatch'
  BY <1>1, <1>2 DEF EInv, AttemptsMatch
<1>6. NothingYet'
  BY <1>1 DEF EInv, NothingYet
<1>7. phase \notin {"publish", "upload", "closing", "returned"}
  BY DEF EInv, Quiet
<1>8. Quiet' /\ SummaryIsDisk' /\ SnapshotIsDisk'
  BY <1>1, <1>7 DEF Quiet, SummaryIsDisk, SnapshotIsDisk
<1>9. InStep'
  <2> SUFFICES ASSUME mode = "plain", phase \in {"create", "save", "running"}, NEW r \in 1..limit,
                      pc'[r] \in {"idle", "finished"}
               PROVE  memory[r] = file[r]
    BY <1>1 DEF InStep
  <2>1. r \in Questions
    BY LimitsAreQuestions DEF EInv, Typed
  <2>2. pc[r] \in {"idle", "finished"}
    BY <1>2, <2>1
  <2> QED
    BY <2>2 DEF EInv, InStep
<1> QED
  BY <1>3, <1>4, <1>5, <1>6, <1>8, <1>9 DEF EInv

LEMMA BodySteps ==
  ASSUME EInv, NEW q \in Questions, Begin(q) \/ BodyEnds(q) \/ TimeUp(q) \/ GraceOver(q)
  PROVE  EInv'
<1>0. /\ previous \in [Questions -> 0..MaxStarts] /\ loose \subseteq Questions
      /\ pc[q] \in {"body", "grace"} => previous[q] = file[q].attempt
  BY DEF EInv, Typed, AttemptsMatch
<1>1. CASE Begin(q)
  <2>1. file[q].attempt \in 0..MaxStarts
    BY DEF EInv, Typed, Result
  <2> QED
    BY <1>0, <1>1, <2>1, MoveStep DEF Begin
<1>2. CASE BodyEnds(q)
  <2>1. PICK where \in {"passed", "failed"} : pc' = [pc EXCEPT ![q] = where]
    BY <1>2 DEF BodyEnds
  <2> QED
    BY <1>0, <1>2, <2>1, MoveStep DEF BodyEnds
<1>3. CASE TimeUp(q)
  BY <1>0, <1>3, MoveStep DEF TimeUp
<1>4. CASE GraceOver(q)
  BY <1>0, <1>4, MoveStep DEF GraceOver
<1> QED
  BY <1>1, <1>2, <1>3, <1>4

\* A question whose result is written, to the disk and to memory alike.
LEMMA WriteStep ==
  ASSUME EInv, NEW q \in Questions, NEW r \in Result, NEW where \in {"link", "finished"},
         pc[q] \in {"passed", "failed", "link"}, pc' = [pc EXCEPT ![q] = where],
         file' = [file EXCEPT ![q] = r], memory' = [memory EXCEPT ![q] = r],
         r.attempt <= starts, r.status # "none", r.data = config,
         UNCHANGED <<config, manifest, summary, final, processVars, phase, previous, loose>>
  PROVE  EInv'
<1>1. UNCHANGED <<config, manifest, summary, final, experiments, mode, limit, starts, project,
                  phase, previous, loose>>
  BY DEF processVars
<1>2. /\ pc \in [Questions -> Pcs]
      /\ file \in [Questions -> Result] /\ memory \in [Questions -> Result]
  BY DEF EInv, Typed
<1>3. /\ file'[q] = r /\ memory'[q] = r /\ pc'[q] = where
      /\ \A p \in Questions \ {q} : file'[p] = file[p] /\ memory'[p] = memory[p] /\ pc'[p] = pc[p]
  BY <1>2
<1>4. pc' \in [Questions -> Pcs]
  BY <1>2 DEF Pcs, InSlot
<1>5. file' \in [Questions -> Result] /\ memory' \in [Questions -> Result]
  BY <1>2
<1>6. Typed'
  BY <1>1, <1>4, <1>5 DEF EInv, Typed, IsReport
<1>7. Experiments'
  BY <1>1 DEF EInv, Experiments
<1>8. AttemptsMatch'
  BY <1>1, <1>3 DEF EInv, AttemptsMatch
<1>9. OneDataset'
  BY <1>1, <1>3 DEF EInv, OneDataset
<1>10. NothingYet'
  BY <1>1 DEF EInv, NothingYet
<1>11. phase \notin {"publish", "upload", "closing", "returned"}
  BY DEF EInv, Quiet
<1>12. Quiet' /\ SummaryIsDisk' /\ SnapshotIsDisk'
  BY <1>1, <1>11 DEF Quiet, SummaryIsDisk, SnapshotIsDisk
<1>13. InStep'
  <2> SUFFICES ASSUME mode = "plain", phase \in {"create", "save", "running"}, NEW p \in 1..limit,
                      pc'[p] \in {"idle", "finished"}
               PROVE  memory'[p] = file'[p]
    BY <1>1 DEF InStep
  <2>1. p \in Questions
    BY LimitsAreQuestions DEF EInv, Typed
  <2> QED
    BY <1>3, <2>1 DEF EInv, InStep
<1> QED
  BY <1>6, <1>7, <1>8, <1>9, <1>10, <1>12, <1>13 DEF EInv

\* What is recorded is the attempt after the one on disk.
LEMMA PayloadFits ==
  ASSUME EInv, NEW q \in Questions, pc[q] \in {"passed", "failed"}
  PROVE  /\ Payload(q) \in Result
         /\ Payload(q).attempt = file[q].attempt + 1 /\ Payload(q).attempt <= starts
         /\ Payload(q).status \in {"failed", "completed"} /\ Payload(q).data = config
<1>1. /\ file[q].attempt \in Nat /\ starts \in 0..MaxStarts /\ MaxStarts \in Nat
      /\ file[q].attempt < starts /\ previous[q] = file[q].attempt
  BY EvalAssumption DEF EInv, Typed, AttemptsMatch, Result
<1>2. config \in SUBSET Datasets
  BY DEF EInv, Typed
<1>3. previous[q] + 1 \in 0..MaxStarts /\ 0 \in 0..(2 * MaxStarts)
  BY <1>1
<1> QED
  BY <1>1, <1>2, <1>3 DEF Payload, Result

LEMMA RecordStep ==
  ASSUME EInv, NEW q \in Questions, Record(q)
  PROVE  EInv'
<1>1. pc[q] \in {"passed", "failed"}
  BY DEF Record
<1>2. PICK where \in {"link", "finished"} : pc' = [pc EXCEPT ![q] = where]
  BY DEF Record
<1> QED
  BY <1>1, <1>2, PayloadFits, WriteStep DEF Record

\* The second write changes the link of the result and nothing else.
LEMMA LinkWrites ==
  ASSUME EInv, NEW q \in Questions, Link(q)
  PROVE  /\ file' = [file EXCEPT ![q] = memory'[q]]
         /\ memory' = [memory EXCEPT ![q] = memory'[q]]
         /\ memory'[q] \in Result
         /\ memory'[q].status = file[q].status /\ memory'[q].attempt = file[q].attempt
         /\ memory'[q].data = file[q].data
<1>1. memory \in [Questions -> Result] /\ memory[q] = file[q]
  BY DEF EInv, Typed, AttemptsMatch, Link
<1>2. memory'[q] = [memory[q] EXCEPT !.link = project]
      /\ memory' = [memory EXCEPT ![q] = memory'[q]]
  BY <1>1 DEF Link
<1>3. project \in 0..(2 * MaxStarts)
  BY EvalAssumption DEF EInv, Typed, Experiments
<1> QED
  BY <1>1, <1>2, <1>3 DEF Link, Result

LEMMA LinkStep ==
  ASSUME EInv, NEW q \in Questions, Link(q)
  PROVE  EInv'
<1>1. file[q].status # "none" /\ file[q].attempt <= starts /\ file[q].data = config
  BY DEF EInv, AttemptsMatch, OneDataset, Link
<1> QED
  BY <1>1, LinkWrites, WriteStep DEF Link
-----------------------------------------------------------------------------
(* The end of a run. *)

LEMMA FileReports ==
  ASSUME EInv, NEW S \in SUBSET Questions, NEW f \in [Questions -> Result]
  PROVE  IsReport([q \in S |-> f[q]])
BY DEF IsReport

LEMMA SummariseStep ==
  ASSUME EInv, Summarise
  PROVE  EInv'
<1>1. /\ phase = "running" /\ Busy = {} /\ \A q \in Questions : pc[q] # "queued"
      /\ UNCHANGED <<file, config, manifest, final, experiments, mode, limit, starts, project,
                     pc, previous, memory, loose>>
      /\ summary' = IF mode = "plain" THEN PlainSummary ELSE CollectedResults
      /\ phase' = IF mode = "experiment" /\ Retried THEN "publish" ELSE "closing"
  BY DEF Summarise, processVars
<1>2. 1..limit \subseteq Questions /\ OnDisk \subseteq Questions
  BY LimitsAreQuestions DEF EInv, Typed, OnDisk
<1>3. \A q \in Questions : pc[q] \in {"idle", "finished"}
  BY <1>1 DEF Busy, EInv, Typed, Pcs
<1>4. IsReport(summary')
  BY <1>1, <1>2, FileReports DEF PlainSummary, CollectedResults, EInv, Typed
<1>5. Typed'
  BY <1>1, <1>4 DEF EInv, Typed, Phases
<1>6. Experiments' /\ AttemptsMatch' /\ OneDataset' /\ NothingYet'
  BY <1>1 DEF EInv, Experiments, AttemptsMatch, OneDataset, NothingYet
<1>7. Quiet' /\ InStep'
  BY <1>1, <1>3 DEF Quiet, InStep
<1>8. SummaryIsDisk'
  <2>1. CASE mode = "plain"
    <3>1. \A q \in 1..limit : memory[q] = file[q]
      BY <1>1, <1>2, <1>3, <2>1 DEF EInv, InStep
    <3>2. summary' = [q \in 1..limit |-> memory[q]]
      BY <1>1, <2>1 DEF PlainSummary
    <3> QED
      BY <1>1, <2>1, <3>1, <3>2 DEF SummaryIsDisk, Agrees
  <2>2. CASE mode # "plain"
    <3>1. summary' = [q \in OnDisk |-> file[q]] /\ OnDisk' = OnDisk
      BY <1>1, <2>2 DEF CollectedResults, OnDisk
    <3> QED
      BY <1>1, <2>2, <3>1 DEF SummaryIsDisk, Agrees
  <2> QED
    BY <2>1, <2>2
<1>9. SnapshotIsDisk'
  <2>1. Retried' = Retried
    BY <1>1 DEF Retried, OnDisk
  <2> QED
    BY <1>1, <2>1 DEF SnapshotIsDisk
<1> QED
  BY <1>5, <1>6, <1>7, <1>8, <1>9 DEF EInv

LEMMA PublishStep ==
  ASSUME EInv, CreateSnapshot \/ PublishSnapshot
  PROVE  EInv'
<1>1. /\ phase \in {"publish", "upload"} /\ phase' \in {"upload", "closing"}
      /\ phase' = "closing" => final' = Fingerprint
      /\ final' \in {final, Fingerprint}
      /\ \/ experiments' = experiments
         \/ phase = "publish" /\ experiments' = experiments + 1
      /\ UNCHANGED <<file, config, manifest, summary, mode, limit, starts, project, pc,
                     previous, memory, loose>>
  BY DEF CreateSnapshot, PublishSnapshot, disk, processVars
<1>2. OnDisk \cap (1..limit) \cap Known \subseteq Questions
  BY DEF OnDisk
<1>3. IsReport(final')
  <2>1. IsReport(final) /\ IsReport(Fingerprint)
    BY <1>2, FileReports DEF Fingerprint, EInv, Typed
  <2> QED
    BY <1>1, <2>1
<1>4. experiments \in Nat
  BY DEF EInv, Experiments
<1>5. manifest \in 0..experiments' /\ project \in 0..experiments'
  BY <1>1, <1>4 DEF EInv, Typed
<1>6. Typed'
  BY <1>1, <1>3, <1>5 DEF EInv, Typed, Phases
<1>7. Experiments'
  <2>1. starts \in Nat
    BY EvalAssumption DEF EInv, Typed
  <2> QED
    BY <1>1, <1>4, <2>1 DEF EInv, Experiments
<1>8. AttemptsMatch' /\ OneDataset' /\ NothingYet' /\ Quiet' /\ InStep'
  BY <1>1 DEF EInv, AttemptsMatch, OneDataset, NothingYet, Quiet, InStep
<1>9. OnDisk' = OnDisk
  BY <1>1 DEF OnDisk
<1>10. SummaryIsDisk'
  BY <1>1, <1>9 DEF EInv, SummaryIsDisk, Agrees
<1>11. SnapshotIsDisk'
  <2>1. CASE phase' = "closing"
    BY <1>1, <1>9, <2>1 DEF SnapshotIsDisk, Agrees, Fingerprint
  <2>2. CASE phase' = "upload"
    BY <2>2 DEF SnapshotIsDisk
  <2> QED
    BY <1>1, <2>1, <2>2
<1> QED
  BY <1>6, <1>7, <1>8, <1>10, <1>11 DEF EInv

LEMMA CloseStep ==
  ASSUME EInv, Close
  PROVE  EInv'
<1>1. /\ phase = "closing" /\ phase' = "returned"
      /\ UNCHANGED <<file, config, manifest, summary, final, experiments, mode, limit, starts,
                     project, pc, previous, memory, loose>>
  BY DEF Close, disk, processVars
<1>2. OnDisk' = OnDisk /\ Retried' = Retried
  BY <1>1 DEF OnDisk, Retried
<1>3. Typed' /\ Experiments'
  BY <1>1 DEF EInv, Typed, Experiments, Phases, IsReport
<1>4. AttemptsMatch' /\ OneDataset' /\ NothingYet' /\ Quiet' /\ InStep'
  BY <1>1 DEF EInv, AttemptsMatch, OneDataset, NothingYet, Quiet, InStep
<1>5. SummaryIsDisk' /\ SnapshotIsDisk'
  BY <1>1, <1>2 DEF EInv, SummaryIsDisk, SnapshotIsDisk, Agrees
<1> QED
  BY <1>3, <1>4, <1>5 DEF EInv

LEMMA CrashStep ==
  ASSUME EInv, Crash
  PROVE  EInv'
<1>1. /\ phase' = "down" /\ pc' = [q \in Questions |-> "idle"]
      /\ loose' = {} /\ project' = 0
      /\ previous' = [q \in Questions |-> 0] /\ memory' = [q \in Questions |-> Missing]
      /\ UNCHANGED <<file, config, manifest, summary, final, experiments, mode, limit, starts>>
  BY DEF Crash, Nowhere, disk
<1>2. memory' \in [Questions -> Result]
  BY <1>1, MissingIsResult
<1>3. previous' \in [Questions -> 0..MaxStarts] /\ pc' \in [Questions -> Pcs]
  BY <1>1, EvalAssumption DEF Pcs
<1>4. project' \in 0..experiments
  BY <1>1 DEF EInv, Experiments
<1>5. Typed'
  BY <1>1, <1>2, <1>3, <1>4 DEF EInv, Typed, Phases, IsReport
<1>6. Experiments' /\ AttemptsMatch' /\ OneDataset' /\ NothingYet'
  BY <1>1 DEF EInv, Experiments, AttemptsMatch, OneDataset, NothingYet
<1>7. Quiet' /\ InStep' /\ SummaryIsDisk' /\ SnapshotIsDisk'
  BY <1>1 DEF Quiet, InStep, SummaryIsDisk, SnapshotIsDisk
<1> QED
  BY <1>5, <1>6, <1>7 DEF EInv

LEMMA LooseStep ==
  ASSUME EInv, UNCHANGED <<disk, processVars, phase, pc, previous, memory>>,
         loose' \subseteq Questions
  PROVE  EInv'
<1>1. UNCHANGED <<file, config, manifest, summary, final, experiments, mode, limit, starts,
                  project, phase, pc, previous, memory>>
  BY DEF disk, processVars
<1>2. OnDisk' = OnDisk /\ Retried' = Retried
  BY <1>1 DEF OnDisk, Retried
<1>3. Typed' /\ Experiments'
  BY <1>1 DEF EInv, Typed, Experiments, IsReport
<1>4. AttemptsMatch' /\ OneDataset' /\ NothingYet' /\ Quiet' /\ InStep'
  BY <1>1 DEF EInv, AttemptsMatch, OneDataset, NothingYet, Quiet, InStep
<1>5. SummaryIsDisk' /\ SnapshotIsDisk'
  BY <1>1, <1>2 DEF EInv, SummaryIsDisk, SnapshotIsDisk, Agrees
<1> QED
  BY <1>3, <1>4, <1>5 DEF EInv

LEMMA NextEInv == EInv /\ [EvalNext]_evalVars => EInv'
<1> SUFFICES ASSUME EInv, [EvalNext]_evalVars PROVE EInv'
  OBVIOUS
<1>0. loose \subseteq Questions
  BY DEF EInv, Typed
<1>1. CASE UNCHANGED evalVars
  BY <1>0, <1>1, LooseStep DEF evalVars, processVars
<1>2. CASE Rest
  BY <1>0, <1>2, LooseStep DEF Rest, evalVars, processVars
<1>3. ASSUME NEW q \in Questions, LooseBodyEnds(q) PROVE EInv'
  BY <1>0, <1>3, LooseStep DEF LooseBodyEnds
<1> QED
  BY <1>1, <1>2, <1>3, StartStep, ExperimentSteps, BodySteps, RecordStep, LinkStep, SummariseStep,
     PublishStep, CloseStep, CrashStep DEF EvalNext, Question

LEMMA EvalInductive == EvalSpec => []EInv
BY InitEInv, NextEInv, PTL DEF EvalSpec
-----------------------------------------------------------------------------
(* The theorems. *)

\* The harness keeps its types: a directory started so many times holds no more
\* attempts of a question, and at most twice as many experiments.
THEOREM EvalTypeCorrect == EvalSpec => []EvalTypeOK
<1>1. EInv => EvalTypeOK
  <2> SUFFICES ASSUME EInv PROVE EvalTypeOK
    OBVIOUS
  <2>1. config \in SUBSET Datasets /\ Cardinality(config) <= 1
    <3>1. CASE config = {}
      BY <3>1, FS_EmptySet
    <3>2. CASE config # {}
      <4>1. PICK d \in Datasets : config = {d}
        BY <3>2 DEF EInv, Typed
      <4> QED
        BY <4>1, FS_Singleton
    <3> QED
      BY <3>1, <3>2
  <2>2. experiments \in 0..(2 * MaxStarts)
    BY EvalAssumption DEF EInv, Typed, Experiments
  <2> QED
    BY <2>1, <2>2 DEF EInv, Typed, EvalTypeOK, Pcs
<1> QED
  BY <1>1, EvalInductive, PTL

\* The results of one directory come from one dataset, over all its runs.
THEOREM ResultsOfOneDataset == EvalSpec => []OneDataset
<1>1. EInv => OneDataset
  BY DEF EInv
<1> QED
  BY <1>1, EvalInductive, PTL

\* What is reported at the end of a run is what is on disk.
THEOREM ReportsShowDisk == EvalSpec => []ReportsAreDisk
<1>1. EInv => ReportsAreDisk
  BY DEF EInv, SummaryIsDisk, SnapshotIsDisk, ReportsAreDisk
<1> QED
  BY <1>1, EvalInductive, PTL

\* The result files implement QuestionLedger, wherever the process is killed.
THEOREM EvalImplementsLedger == EvalSpec => LedgerRefined
<1> DEFINE shown == [q \in Questions |-> [status |-> file[q].status, attempt |-> file[q].attempt]]
<1>1. EvalInit => Ledger!LedgerInit
  BY DEF EvalInit, Missing, Ledger!LedgerInit
<1>2. ASSUME EInv, NEW q \in Questions, Record(q) PROVE Ledger!Attempt(q)
  <2>1. /\ file \in [Questions -> Result] /\ file' = [file EXCEPT ![q] = Payload(q)]
        /\ pc[q] \in {"passed", "failed"} /\ file[q].status # "completed"
    BY <1>2 DEF Record, EInv, Typed, AttemptsMatch
  <2>2. /\ Payload(q).status \in {"failed", "completed"}
        /\ Payload(q).attempt = file[q].attempt + 1
    BY <1>2, <2>1, PayloadFits
  <2>3. shown' = [shown EXCEPT ![q] = [status |-> Payload(q).status, attempt |-> shown[q].attempt + 1]]
    BY <2>1, <2>2
  <2> QED
    BY <2>1, <2>2, <2>3 DEF Ledger!Attempt
<1>3. ASSUME EInv, NEW q \in Questions, Link(q) PROVE shown' = shown
  BY <1>3, LinkWrites DEF EInv, Typed
<1>4. EInv /\ [EvalNext]_evalVars => [Ledger!LedgerNext]_shown
  <2> SUFFICES ASSUME EInv, [EvalNext]_evalVars PROVE Ledger!LedgerNext \/ shown' = shown
    OBVIOUS
  <2>1. \/ file' = file
        \/ \E q \in Questions : Record(q) \/ Link(q)
    BY DEF EvalNext, Question, Start, CreateExperiment, SaveManifest, Begin, BodyEnds, TimeUp,
           GraceOver, LooseBodyEnds, Summarise, CreateSnapshot,
           PublishSnapshot, Close, Crash, Rest, evalVars, disk
  <2> QED
    BY <1>2, <1>3, <2>1 DEF Ledger!LedgerNext
<1> QED
  BY <1>1, <1>4, EvalInductive, PTL DEF EvalSpec, LedgerRefined, Ledger!LedgerSpec

-----------------------------------------------------------------------------

(* The judge: its batches. *)

\* How many rubrics are sent.
NumLive == Cardinality(Rubrics \ Blocked)

\* Live lists the rubrics that are not blocked, each once.
LEMMA LiveLists ==
  /\ NumLive \in Nat /\ Len(Live) = NumLive
  /\ Live \in [1..NumLive -> Rubrics \ Blocked]
  /\ \A r \in Rubrics \ Blocked : \E k \in 1..NumLive : Live[k] = r
  /\ \A k, l \in 1..NumLive : Live[k] = Live[l] => k = l
<1> DEFINE S == Rubrics \ Blocked
<1>1. IsFiniteSet(Rubrics) /\ Rubrics \subseteq Int
  <2>1. 1 \in Int /\ NumRubrics \in Int
    BY JudgeAssumption
  <2> QED
    BY <2>1, FS_Interval DEF Rubrics
<1>2. S \in SUBSET Int /\ IsFiniteSet(S)
  BY <1>1, FS_Subset
<1>3. /\ NumLive \in Nat /\ Live \in [1..NumLive -> S]
      /\ \A r \in S : \E k \in 1..NumLive : Live[k] = r
      /\ \A k, l \in 1..NumLive : k < l <=> Live[k] < Live[l]
  <2> HIDE DEF S
  <2> QED
    BY <1>2, AscendingLists DEF Live, NumLive, S
<1>4. Live \in Seq(S) /\ Len(Live) = NumLive
  <2> HIDE DEF S
  <2> QED
    BY <1>3
<1>5. \A k, l \in 1..NumLive : Live[k] = Live[l] => k = l
  <2> TAKE k, l \in 1..NumLive
  <2>1. Live[k] \in Int /\ Live[l] \in Int
    BY <1>2, <1>3
  <2> QED
    BY <1>3, <2>1
<1> QED
  BY <1>3, <1>4, <1>5

\* Multiplication by a natural is monotonic.
LEMMA TimesGrows ==
  ASSUME NEW n \in Nat, NEW a \in Nat, NEW c \in Nat, a <= c
  PROVE  a * n <= c * n /\ a * n \in Nat /\ (a + 1) * n = a * n + n
OBVIOUS

\* Every position has its place in one batch, and only there.
LEMMA Division ==
  ASSUME NEW n \in Nat \ {0}, NEW j \in Nat
  PROVE  j \div n \in Nat /\ j % n \in 0..(n - 1) /\ j = (j \div n) * n + (j % n)
OBVIOUS

\* A position is in one batch, at one place of it.
LEMMA OnePlace ==
  ASSUME NEW n \in Nat \ {0}, NEW a \in Nat, NEW c \in Nat, NEW p \in 1..n, NEW q \in 1..n,
         a * n + p = c * n + q
  PROVE  a = c /\ p = q
<1>1. ASSUME NEW d \in Nat, NEW e \in Nat, NEW i \in 1..n, NEW j \in 1..n, d < e
      PROVE  d * n + i < e * n + j
  <2>1. (d + 1) * n <= e * n /\ (d + 1) * n = d * n + n /\ d * n \in Nat /\ e * n \in Nat
    BY <1>1, TimesGrows
  <2> QED
    BY <2>1
<1>2. ~(a < c) /\ ~(c < a)
  <2>1. a * n \in Nat /\ c * n \in Nat
    BY TimesGrows
  <2> QED
    BY <1>1, <2>1
<1>3. a = c
  BY <1>2
<1>4. a * n \in Nat
  BY TimesGrows
<1> QED
  BY <1>3, <1>4

\* Each rubric that is sent has one place.
LEMMA PlacesOf ==
  /\ \A m \in Slots : m[2] \in Places(m[1]) => RubricAt(m[1], m[2]) \in Rubrics \ Blocked
  /\ \A r \in Rubrics \ Blocked : \E m \in Slots : m[2] \in Places(m[1]) /\ RubricAt(m[1], m[2]) = r
  /\ \A m, o \in Slots :
       m[2] \in Places(m[1]) /\ o[2] \in Places(o[1]) /\ RubricAt(m[1], m[2]) = RubricAt(o[1], o[2])
         => m = o
<1>0. BatchSize \in Nat \ {0} /\ NumLive \in Nat
  BY JudgeAssumption, LiveLists
<1>1. ASSUME NEW m \in Slots, m[2] \in Places(m[1])
      PROVE  /\ m[1] - 1 \in Nat /\ m[2] \in 1..BatchSize /\ m = <<m[1], m[2]>>
             /\ (m[1] - 1) * BatchSize + m[2] \in 1..NumLive
             /\ RubricAt(m[1], m[2]) = Live[(m[1] - 1) * BatchSize + m[2]]
  <2>1. PICK b \in Batches, p \in 1..BatchSize : m = <<b, p>>
    BY DEF Slots
  <2>2. b - 1 \in Nat /\ p \in Nat \ {0}
    BY <1>0, <2>1 DEF Batches
  <2>3. (b - 1) * BatchSize + p <= NumLive
    BY <1>1, <2>1, LiveLists DEF Places
  <2>4. (b - 1) * BatchSize \in Nat
    BY <1>0, <2>2, TimesGrows
  <2>5. (b - 1) * BatchSize + p \in 1..NumLive
    BY <1>0, <2>2, <2>3, <2>4
  <2> QED
    BY <2>1, <2>2, <2>5 DEF RubricAt
<1>2. \A m \in Slots : m[2] \in Places(m[1]) => RubricAt(m[1], m[2]) \in Rubrics \ Blocked
  BY <1>1, LiveLists
<1>3. ASSUME NEW r \in Rubrics \ Blocked
      PROVE  \E m \in Slots : m[2] \in Places(m[1]) /\ RubricAt(m[1], m[2]) = r
  <2>1. PICK k \in 1..NumLive : Live[k] = r
    BY LiveLists
  <2> DEFINE a == (k - 1) \div BatchSize
             p == ((k - 1) % BatchSize) + 1
             q == (NumLive + BatchSize - 1) \div BatchSize
  <2>2. a \in Nat /\ p \in 1..BatchSize /\ k = a * BatchSize + p
    <3>1. k - 1 \in Nat
      OBVIOUS
    <3>2. /\ a \in Nat /\ (k - 1) % BatchSize \in 0..(BatchSize - 1)
          /\ k - 1 = a * BatchSize + ((k - 1) % BatchSize)
      BY <1>0, <3>1, Division
    <3>3. a * BatchSize \in Nat
      BY <1>0, <3>2, TimesGrows
    <3> HIDE DEF a
    <3> QED
      BY <1>0, <3>2, <3>3
  <2>3. q \in Nat /\ NumLive - 1 < q * BatchSize
    <3>1. NumLive + BatchSize - 1 \in Nat
      BY <1>0
    <3>2. /\ q \in Nat /\ (NumLive + BatchSize - 1) % BatchSize \in 0..(BatchSize - 1)
          /\ NumLive + BatchSize - 1 = q * BatchSize + ((NumLive + BatchSize - 1) % BatchSize)
      BY <1>0, <3>1, Division
    <3>3. q * BatchSize \in Nat
      BY <1>0, <3>2, TimesGrows
    <3> HIDE DEF q
    <3> QED
      BY <1>0, <3>2, <3>3
  <2> HIDE DEF a, p, q
  <2>4. a < q
    <3> SUFFICES ASSUME q <= a PROVE FALSE
      BY <2>2, <2>3
    <3>1. q * BatchSize <= a * BatchSize /\ q * BatchSize \in Nat
      BY <1>0, <2>2, <2>3, TimesGrows
    <3>2. a * BatchSize \in Nat
      BY <1>0, <2>2, TimesGrows
    <3> QED
      BY <1>0, <2>2, <2>3, <3>1, <3>2
  <2>5. a + 1 \in Batches
    BY <2>2, <2>3, <2>4, LiveLists DEF Batches, q
  <2>6. <<a + 1, p>> \in Slots
    BY <2>2, <2>5 DEF Slots
  <2>7. (a + 1) - 1 = a
    BY <2>2
  <2>8. p \in Places(a + 1) /\ RubricAt(a + 1, p) = r
    BY <2>1, <2>2, <2>7, LiveLists DEF Places, RubricAt
  <2> WITNESS <<a + 1, p>> \in Slots
  <2> QED
    BY <2>8
<1>4. ASSUME NEW m \in Slots, NEW o \in Slots, m[2] \in Places(m[1]), o[2] \in Places(o[1]),
             RubricAt(m[1], m[2]) = RubricAt(o[1], o[2])
      PROVE  m = o
  <2>1. (m[1] - 1) * BatchSize + m[2] = (o[1] - 1) * BatchSize + o[2]
    BY <1>1, <1>4, LiveLists
  <2>2. m[1] - 1 = o[1] - 1 /\ m[2] = o[2]
    BY <1>0, <1>1, <1>4, <2>1, OnePlace
  <2>3. m[1] = o[1]
    <3>1. m[1] \in Int /\ o[1] \in Int
      BY DEF Slots, Batches
    <3> QED
      BY <2>2, <3>1
  <2> QED
    BY <1>1, <1>4, <2>2, <2>3
<1> QED
  BY <1>2, <1>3, <1>4

\* So a rubric's home is its place.
LEMMA HomeIsPlace ==
  ASSUME NEW r \in Rubrics \ Blocked
  PROVE  /\ Home(r) \in Slots /\ Home(r)[2] \in Places(Home(r)[1])
         /\ RubricAt(Home(r)[1], Home(r)[2]) = r
         /\ \A m \in Slots : m[2] \in Places(m[1]) /\ RubricAt(m[1], m[2]) = r => m = Home(r)
<1>1. \E m \in Slots : m[2] \in Places(m[1]) /\ RubricAt(m[1], m[2]) = r
  BY PlacesOf
<1>2. /\ Home(r) \in Slots /\ Home(r)[2] \in Places(Home(r)[1])
      /\ RubricAt(Home(r)[1], Home(r)[2]) = r
  BY <1>1 DEF Home
<1> QED
  BY <1>2, PlacesOf
-----------------------------------------------------------------------------
(* The invariant. *)

\* What is there of the replies was asked for where it stands.
InPlace ==
  \A b \in Batches : \A p \in DOMAIN scored[b] :
    p \in Places(b) /\ scored[b][p] \in [about : {RubricAt(b, p)}, score : Scores]

\* What a batch and a retry still have to do.
Pending ==
  /\ \A b \in Batches : /\ batch[b] # "done" => DOMAIN scored[b] = {} /\ tries[b] < MaxAttempts
                        /\ judgePhase = "retries" => batch[b] = "done"
  /\ judgePhase = "retries" => \A m \in Slots :
       /\ single[m] \in {"waiting", "calling"} => m[2] \in Places(m[1]) \ DOMAIN scored[m[1]]
       /\ single[m] = "none" => m[2] \notin Places(m[1]) \ DOMAIN scored[m[1]]

Verdicts ==
  /\ judgePhase # "done" => verdict = Initially
  /\ judgePhase = "done" => \A r \in Rubrics :
       /\ verdict[r].reason \in {"scored", "parse_error"} =>
            r \notin Blocked /\ verdict[r] = Merged(r) /\ \A m \in Slots : single[m] \in {"none", "done"}
       /\ verdict[r].reason = "parse_error" => single[Home(r)] = "done"

Placed ==
  /\ judgePhase \in {"batches", "retries", "done"}
  /\ batch \in [Batches -> Steps \ {"none"}]
  /\ tries \in [Batches -> 0..MaxAttempts]
  /\ DOMAIN scored = Batches
  /\ single \in [Slots -> Steps]
  /\ verdict \in [Rubrics -> Item]

JInv == Placed /\ InPlace /\ Pending /\ Verdicts

LEMMA InitiallyItem == Initially \in [Rubrics -> Item]
BY DEF Initially, Item, Scores

LEMMA InitJInv == JudgeInit => JInv
<1> SUFFICES ASSUME JudgeInit PROVE JInv
  OBVIOUS
<1>1. /\ judgePhase = "batches" /\ batch = [b \in Batches |-> "waiting"] /\ tries = [b \in Batches |-> 0]
      /\ scored = [b \in Batches |-> [p \in {} |-> {}]] /\ single = [m \in Slots |-> "none"]
      /\ verdict = Initially
  BY DEF JudgeInit
<1>2. MaxAttempts \in Nat \ {0}
  BY JudgeAssumption
<1>3. Placed
  BY <1>1, <1>2, InitiallyItem DEF Placed, Steps
<1>4. \A b \in Batches : DOMAIN scored[b] = {}
  BY <1>1
<1>5. InPlace /\ Pending /\ Verdicts
  BY <1>1, <1>2, <1>4 DEF InPlace, Pending, Verdicts
<1> QED
  BY <1>3, <1>5 DEF JInv

\* An element of a reply is about the rubric that the prompt shows at its place.
LEMMA RepliesAreAbout ==
  ASSUME NEW texts, NEW reply \in Parsed(texts)
  PROVE  /\ DOMAIN reply \subseteq DOMAIN texts
         /\ \A p \in DOMAIN reply : reply[p] \in [about : {texts[p]}, score : Scores]
<1>1. PICK S \in SUBSET DOMAIN texts :
        reply \in {[p \in S |-> [about |-> texts[p], score |-> s[p]]] : s \in [S -> Scores]}
  BY DEF Parsed
<1>2. PICK s \in [S -> Scores] : reply = [p \in S |-> [about |-> texts[p], score |-> s[p]]]
  BY <1>1
<1> QED
  BY <1>2

\* A batch writes to its own places.
LEMMA BatchSteps ==
  ASSUME JInv, NEW b \in Batches, BatchStep(b)
  PROVE  JInv'
<1>1. /\ batch \in [Batches -> Steps \ {"none"}] /\ tries \in [Batches -> 0..MaxAttempts]
      /\ DOMAIN scored = Batches /\ MaxAttempts \in Nat
  BY JudgeAssumption DEF JInv, Placed
<1>2. judgePhase = "batches" /\ judgePhase' = "batches" /\ UNCHANGED <<single, verdict>>
  BY DEF BatchStep, BatchStarts, BatchAnswered, BatchFails
<1>3. Verdicts'
  BY <1>2 DEF JInv, Verdicts
<1>4. CASE BatchStarts(b)
  <2>1. batch' = [batch EXCEPT ![b] = "calling"] /\ UNCHANGED <<tries, scored>> /\ batch[b] = "waiting"
    BY <1>4 DEF BatchStarts
  <2>2. Placed'
    BY <1>1, <1>2, <2>1 DEF JInv, Placed, Steps
  <2>3. InPlace'
    BY <2>1 DEF JInv, InPlace
  <2>4. Pending'
    BY <1>1, <1>2, <2>1 DEF JInv, Pending
  <2> QED
    BY <1>3, <2>2, <2>3, <2>4 DEF JInv
<1>5. CASE BatchAnswered(b)
  <2>1. batch' = [batch EXCEPT ![b] = "done"] /\ UNCHANGED tries
    BY <1>5 DEF BatchAnswered
  <2>2. PICK reply \in Parsed(Prompt(b)) : scored' = [scored EXCEPT ![b] = reply]
    BY <1>5 DEF BatchAnswered
  <2>3. /\ DOMAIN reply \subseteq Places(b)
        /\ \A p \in DOMAIN reply : reply[p] \in [about : {RubricAt(b, p)}, score : Scores]
    BY RepliesAreAbout DEF Prompt
  <2>4. scored'[b] = reply /\ DOMAIN scored' = Batches /\ \A c \in Batches \ {b} : scored'[c] = scored[c]
    BY <1>1, <2>2
  <2>5. Placed'
    BY <1>1, <1>2, <2>1, <2>4 DEF JInv, Placed, Steps
  <2>6. InPlace'
    BY <2>3, <2>4 DEF JInv, InPlace
  <2>7. Pending'
    BY <1>1, <1>2, <2>1, <2>4 DEF JInv, Pending
  <2> QED
    BY <1>3, <2>5, <2>6, <2>7 DEF JInv
<1>6. CASE BatchFails(b)
  <2>1. /\ tries' = [tries EXCEPT ![b] = @ + 1] /\ UNCHANGED scored
        /\ batch' = [batch EXCEPT ![b] = IF tries[b] + 1 = MaxAttempts THEN "done" ELSE @]
        /\ batch[b] = "calling"
    BY <1>6 DEF BatchFails
  <2>2. tries[b] < MaxAttempts /\ tries[b] \in Nat
    BY <1>1, <2>1 DEF JInv, Pending
  <2>3. tries[b] + 1 \in 0..MaxAttempts /\ (tries[b] + 1 # MaxAttempts => tries[b] + 1 < MaxAttempts)
    BY <1>1, <2>2
  <2>4. Placed'
    <3>1. batch' \in [Batches -> Steps \ {"none"}]
      BY <1>1, <2>1 DEF Steps
    <3>2. tries' \in [Batches -> 0..MaxAttempts]
      BY <1>1, <2>1, <2>3
    <3> QED
      BY <1>1, <1>2, <2>1, <3>1, <3>2 DEF JInv, Placed
  <2>5. InPlace'
    BY <2>1 DEF JInv, InPlace
  <2>6. Pending'
    BY <1>1, <1>2, <2>1, <2>3 DEF JInv, Pending
  <2> QED
    BY <1>3, <2>4, <2>5, <2>6 DEF JInv
<1> QED
  BY <1>4, <1>5, <1>6 DEF BatchStep

LEMMA CollectStep == JInv /\ CollectMissing => JInv'
<1> SUFFICES ASSUME JInv, CollectMissing PROVE JInv'
  OBVIOUS
<1>1. /\ judgePhase = "batches" /\ judgePhase' = "retries" /\ UNCHANGED <<batch, tries, scored, verdict>>
      /\ \A b \in Batches : batch[b] = "done"
      /\ single' = [m \in Slots |-> IF m \in Unscored THEN "waiting" ELSE "none"]
  BY DEF CollectMissing
<1>2. Placed' /\ InPlace' /\ Verdicts'
  BY <1>1 DEF JInv, Placed, InPlace, Verdicts, Steps
<1>3. Pending'
  BY <1>1 DEF JInv, Pending, Unscored
<1> QED
  BY <1>2, <1>3 DEF JInv

\* A reply to a retry is about its rubric.
LEMMA SingleIsAbout ==
  ASSUME NEW m \in Slots, NEW element \in SingleReplies(m)
  PROVE  element \in [about : {RubricAt(m[1], m[2])}, score : Scores]
<1> DEFINE texts == <<RubricAt(m[1], m[2])>>
<1>1. PICK reply \in Parsed(texts) : DOMAIN reply # {} /\ element = reply[1]
  BY DEF SingleReplies
<1>2. DOMAIN texts = {1} /\ texts[1] = RubricAt(m[1], m[2])
  OBVIOUS
<1> HIDE DEF texts
<1>3. 1 \in DOMAIN reply
  BY <1>1, <1>2, RepliesAreAbout
<1> QED
  BY <1>1, <1>2, <1>3, RepliesAreAbout

\* A retry writes to its own place, which is empty.
LEMMA RetrySteps ==
  ASSUME JInv, NEW m \in Slots, RetryStep(m)
  PROVE  JInv'
<1>1. /\ batch \in [Batches -> Steps \ {"none"}] /\ single \in [Slots -> Steps]
      /\ DOMAIN scored = Batches /\ m[1] \in Batches
      /\ m = <<m[1], m[2]>>
  BY DEF JInv, Placed, Slots
<1>2. /\ judgePhase = "retries" /\ judgePhase' = "retries" /\ UNCHANGED <<batch, tries, verdict>>
  BY DEF RetryStep, RetryStarts, RetryAnswered, RetryFails, RetryEnds
<1>3. Verdicts'
  BY <1>2 DEF JInv, Verdicts
<1>4. \A b \in Batches : batch[b] = "done"
  BY <1>2 DEF JInv, Pending
<1>5. ASSUME UNCHANGED scored, NEW s \in {"calling", "done"}, single' = [single EXCEPT ![m] = s],
             s = "calling" => single[m] = "waiting"
      PROVE  JInv'
  <2>1. Placed'
    BY <1>1, <1>2, <1>5 DEF JInv, Placed, Steps
  <2>2. InPlace'
    BY <1>5 DEF JInv, InPlace
  <2>3. Pending'
    BY <1>1, <1>2, <1>4, <1>5 DEF JInv, Pending
  <2> QED
    BY <1>3, <2>1, <2>2, <2>3 DEF JInv
<1>6. CASE RetryStarts(m)
  BY <1>5, <1>6 DEF RetryStarts
<1>7. CASE RetryFails(m)
  BY <1>5, <1>7 DEF RetryFails, RetryEnds
<1>8. CASE RetryAnswered(m)
  <2>1. single' = [single EXCEPT ![m] = "done"] /\ single[m] = "calling"
    BY <1>8 DEF RetryAnswered, RetryEnds
  <2>2. PICK element \in SingleReplies(m) : scored' = ScoredAgain(m, element)
    BY <1>8 DEF RetryAnswered
  <2>3. element \in [about : {RubricAt(m[1], m[2])}, score : Scores]
    BY SingleIsAbout
  <2>4. m[2] \in Places(m[1]) \ DOMAIN scored[m[1]]
    BY <1>2, <2>1 DEF JInv, Pending
  <2>5. /\ DOMAIN scored' = Batches
        /\ \A c \in Batches : c # m[1] => scored'[c] = scored[c]
        /\ DOMAIN scored'[m[1]] = DOMAIN scored[m[1]] \cup {m[2]}
        /\ scored'[m[1]][m[2]] = element
        /\ \A p \in DOMAIN scored[m[1]] : p # m[2] => scored'[m[1]][p] = scored[m[1]][p]
    BY <1>1, <2>2 DEF ScoredAgain
  <2>6. Placed'
    BY <1>1, <1>2, <2>1, <2>5 DEF JInv, Placed, Steps
  <2>7. InPlace'
    <3> SUFFICES ASSUME NEW b \in Batches, NEW p \in DOMAIN scored'[b]
                 PROVE  p \in Places(b) /\ scored'[b][p] \in [about : {RubricAt(b, p)}, score : Scores]
      BY DEF InPlace
    <3>1. CASE b = m[1] /\ p = m[2]
      BY <2>3, <2>4, <2>5, <3>1
    <3>2. CASE ~(b = m[1] /\ p = m[2])
      <4>1. p \in DOMAIN scored[b] /\ scored'[b][p] = scored[b][p]
        BY <2>5, <3>2
      <4> QED
        BY <4>1 DEF JInv, InPlace
    <3> QED
      BY <3>1, <3>2
  <2>8. Pending'
    <3>1. \A b \in Batches : batch'[b] = "done"
      BY <1>2, <1>4
    <3>2. ASSUME NEW o \in Slots
          PROVE  /\ single'[o] \in {"waiting", "calling"} => o[2] \in Places(o[1]) \ DOMAIN scored'[o[1]]
                 /\ single'[o] = "none" => o[2] \notin Places(o[1]) \ DOMAIN scored'[o[1]]
      <4>1. CASE o = m
        BY <1>1, <2>1, <4>1
      <4>2. CASE o # m
        <5>1. single'[o] = single[o] /\ o[1] \in Batches /\ (o[1] # m[1] \/ o[2] # m[2])
          BY <1>1, <2>1, <4>2 DEF Slots
        <5>2. o[2] \in DOMAIN scored'[o[1]] <=> o[2] \in DOMAIN scored[o[1]]
          BY <2>5, <5>1
        <5>3. /\ single[o] \in {"waiting", "calling"} => o[2] \in Places(o[1]) \ DOMAIN scored[o[1]]
              /\ single[o] = "none" => o[2] \notin Places(o[1]) \ DOMAIN scored[o[1]]
          BY <1>2 DEF JInv, Pending
        <5> QED
          BY <5>1, <5>2, <5>3
      <4> QED
        BY <4>1, <4>2
    <3> QED
      BY <3>1, <3>2 DEF Pending
  <2> QED
    BY <1>3, <2>6, <2>7, <2>8 DEF JInv
<1> QED
  BY <1>6, <1>7, <1>8 DEF RetryStep

\* What _score_inner puts together for a rubric.
LEMMA MergedItem ==
  ASSUME JInv, NEW r \in Rubrics \ Blocked
  PROVE  /\ Merged(r) \in Item /\ Merged(r).reason \in {"scored", "parse_error"}
         /\ Merged(r).reason = "scored" =>
              /\ Home(r)[2] \in DOMAIN scored[Home(r)[1]]
              /\ scored[Home(r)[1]][Home(r)[2]] = [about |-> r, score |-> Merged(r).score]
         /\ Merged(r).reason = "parse_error" => Home(r)[2] \notin DOMAIN scored[Home(r)[1]]
<1>1. /\ Home(r) \in Slots /\ RubricAt(Home(r)[1], Home(r)[2]) = r /\ Home(r)[1] \in Batches
  BY HomeIsPlace DEF Slots
<1>2. CASE Home(r)[2] \in DOMAIN scored[Home(r)[1]]
  <2>1. Merged(r) = [score |-> scored[Home(r)[1]][Home(r)[2]].score, reason |-> "scored"]
    BY <1>1, <1>2 DEF Merged
  <2>2. scored[Home(r)[1]][Home(r)[2]] \in [about : {r}, score : Scores]
    BY <1>1, <1>2 DEF JInv, InPlace
  <2> QED
    BY <1>2, <2>1, <2>2 DEF Item
<1>3. CASE Home(r)[2] \notin DOMAIN scored[Home(r)[1]]
  <2>1. Merged(r) = [score |-> 0, reason |-> "parse_error"]
    BY <1>3 DEF Merged
  <2> QED
    BY <1>3, <2>1 DEF Item, Scores
<1> QED
  BY <1>2, <1>3

LEMMA MergeStep == JInv /\ Merge => JInv'
<1> SUFFICES ASSUME JInv, Merge PROVE JInv'
  OBVIOUS
<1>1. /\ judgePhase = "retries" /\ judgePhase' = "done" /\ UNCHANGED <<batch, tries, scored, single>>
      /\ \A m \in Slots : single[m] \in {"none", "done"}
      /\ verdict' = [r \in Rubrics |-> IF r \in Blocked THEN verdict[r] ELSE Merged(r)]
      /\ verdict = Initially
  BY DEF Merge, JInv, Verdicts
<1>2. verdict' \in [Rubrics -> Item]
  <2>1. \A r \in Rubrics \ Blocked : Merged(r) \in Item
    BY MergedItem
  <2>2. \A r \in Rubrics : verdict[r] \in Item
    BY <1>1, InitiallyItem
  <2> QED
    BY <1>1, <2>1, <2>2
<1>3. Placed' /\ InPlace' /\ Pending'
  BY <1>1, <1>2 DEF JInv, Placed, InPlace, Pending
<1>4. Verdicts'
  <2> SUFFICES ASSUME NEW r \in Rubrics, verdict'[r].reason \in {"scored", "parse_error"}
               PROVE  /\ r \notin Blocked /\ verdict'[r] = Merged(r)'
                      /\ \A m \in Slots : single'[m] \in {"none", "done"}
                      /\ verdict'[r].reason = "parse_error" => single'[Home(r)] = "done"
    BY <1>1 DEF Verdicts
  <2>1. r \notin Blocked
    BY <1>1 DEF Initially
  <2>2. verdict'[r] = Merged(r) /\ Merged(r)' = Merged(r)
    BY <1>1, <2>1 DEF Merged
  <2>3. Home(r) \in Slots /\ Home(r)[2] \in Places(Home(r)[1])
    BY <2>1, HomeIsPlace
  <2>4. ASSUME Merged(r).reason = "parse_error" PROVE single[Home(r)] = "done"
    <3>1. Home(r)[2] \notin DOMAIN scored[Home(r)[1]]
      BY <2>1, <2>4, MergedItem
    <3>2. single[Home(r)] # "none"
      BY <1>1, <2>3, <3>1 DEF JInv, Pending
    <3> QED
      BY <1>1, <2>3, <3>2
  <2> QED
    BY <1>1, <2>1, <2>2, <2>4
<1> QED
  BY <1>3, <1>4 DEF JInv

LEMMA TimeoutStep == JInv /\ TotalTimeout => JInv'
<1> SUFFICES ASSUME JInv, TotalTimeout PROVE JInv'
  OBVIOUS
<1>1. /\ judgePhase' = "done" /\ verdict' = TimeoutFallback
      /\ UNCHANGED <<batch, tries, scored, single>>
  BY DEF TotalTimeout
<1>2. /\ verdict' \in [Rubrics -> Item]
      /\ \A r \in Rubrics : verdict'[r].reason \in {"blocked", "judge_timeout"}
  BY <1>1 DEF TimeoutFallback, Item, Scores
<1>3. Placed' /\ InPlace' /\ Pending'
  BY <1>1, <1>2 DEF JInv, Placed, InPlace, Pending
<1>4. Verdicts'
  BY <1>1, <1>2 DEF Verdicts
<1> QED
  BY <1>3, <1>4 DEF JInv

LEMMA JudgeIdle == JInv /\ UNCHANGED judgeVars => JInv'
BY DEF judgeVars, JInv, Placed, InPlace, Pending, Verdicts, Merged

LEMMA NextJInv == JInv /\ [JudgeNext]_judgeVars => JInv'
BY BatchSteps, CollectStep, RetrySteps, MergeStep, TimeoutStep, JudgeIdle DEF JudgeNext, Returned

LEMMA JudgeInductive == JudgeSpec => []JInv
BY InitJInv, NextJInv, PTL DEF JudgeSpec
-----------------------------------------------------------------------------

\* The types, and no more than the configured attempts of a batch.
THEOREM JudgeTypeCorrect == JudgeSpec => []JudgeTypeOK
<1>1. JInv => JudgeTypeOK
  <2> SUFFICES ASSUME JInv PROVE JudgeTypeOK
    OBVIOUS
  <2>1. ASSUME NEW b \in Batches, NEW p \in DOMAIN scored[b]
        PROVE  p \in Places(b) /\ scored[b][p] \in Element
    <3>1. p \in Places(b) /\ scored[b][p] \in [about : {RubricAt(b, p)}, score : Scores]
      BY <2>1 DEF JInv, InPlace
    <3>2. <<b, p>> \in Slots
      BY <3>1 DEF Slots, Places
    <3>3. RubricAt(b, p) \in Rubrics
      BY <3>1, <3>2, PlacesOf
    <3> QED
      BY <3>1, <3>3 DEF Element
  <2> QED
    BY <2>1 DEF JInv, Placed, JudgeTypeOK
<1> QED
  BY <1>1, JudgeInductive, PTL

\* Every score in the verdict was given to the rubric it stands at.
THEOREM ScoresStandAtTheirRubric == JudgeSpec => []ScoresAreOwn
<1>1. JInv => ScoresAreOwn
  <2> SUFFICES ASSUME JInv, NEW r \in Rubrics, verdict[r].reason = "scored"
               PROVE  \E m \in Slots : /\ m[2] \in DOMAIN scored[m[1]]
                                       /\ scored[m[1]][m[2]] = [about |-> r, score |-> verdict[r].score]
    BY DEF ScoresAreOwn
  <2>1. judgePhase = "done"
    <3>1. Initially[r].reason \in {"", "blocked"}
      BY DEF Initially
    <3>2. judgePhase # "done" => verdict = Initially
      BY DEF JInv, Verdicts
    <3> QED
      BY <3>1, <3>2
  <2>2. r \in Rubrics \ Blocked /\ verdict[r] = Merged(r)
    BY <2>1 DEF JInv, Verdicts
  <2>3. /\ Home(r)[2] \in DOMAIN scored[Home(r)[1]]
        /\ scored[Home(r)[1]][Home(r)[2]] = [about |-> r, score |-> verdict[r].score]
    BY <2>2, MergedItem
  <2>4. Home(r) \in Slots
    BY <2>2, HomeIsPlace
  <2> QED
    BY <2>3, <2>4
<1> QED
  BY <1>1, JudgeInductive, PTL

\* A verdict of parse_error means that the batch and a retry gave no score.
THEOREM ParseErrorsAreFinal == JudgeSpec => []ErrorsWereRetried
<1>1. JInv => ErrorsWereRetried
  <2> SUFFICES ASSUME JInv, judgePhase = "done", NEW m \in Slots, m[2] \in Places(m[1]),
                      verdict[RubricAt(m[1], m[2])].reason = "parse_error"
               PROVE  single[m] = "done" /\ m[2] \notin DOMAIN scored[m[1]]
    BY DEF ErrorsWereRetried
  <2> DEFINE r == RubricAt(m[1], m[2])
  <2>1. r \in Rubrics \ Blocked /\ m = Home(r)
    BY PlacesOf, HomeIsPlace
  <2>2. verdict[r] = Merged(r) /\ single[Home(r)] = "done" /\ Merged(r).reason = "parse_error"
    BY <2>1 DEF JInv, Verdicts
  <2>3. Home(r)[2] \notin DOMAIN scored[Home(r)[1]]
    <3> HIDE DEF r
    <3> QED
      BY <2>1, <2>2, MergedItem
  <2> QED
    BY <2>1, <2>2, <2>3
<1> QED
  BY <1>1, JudgeInductive, PTL
=============================================================================
