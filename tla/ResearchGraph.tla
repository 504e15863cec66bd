--------------------------- MODULE ResearchGraph ---------------------------
(***************************************************************************)
(* The supervisor-worker graph of one research run: the nodes of           *)
(* src/graph/builder.py, the routing of src/agents/supervisor.py and the   *)
(* reducers of src/graph/state.py.                                         *)
(*                                                                         *)
(* LangGraph runs the graph in supersteps: one node at a time, except that *)
(* the workers a supervisor sends run side by side, and their updates are  *)
(* merged when all of them have returned.  A worker is here what Workers   *)
(* makes of it: an outcome of one of the terminal statuses.                *)
(*                                                                         *)
(* Titles, queries and texts are left out.  A task's zero says that its    *)
(* summary reads "0 facts", and its gap is the set of zero-fact tasks a    *)
(* follow-up was made for, which also determines the gap's reason.         *)
(***************************************************************************)
EXTENDS Integers, FiniteSets, Functions

CONSTANTS
  Ids,          \* task numbers (bound: with room for the follow-ups)
  Planned,      \* the tasks of the plan
  Priorities,   \* their possible priorities
  MaxWorkers,   \* max_workers
  MinFacts,     \* min_facts_to_stop_replan
  MaxReplans,   \* max_replans of the budget
  FactCounts    \* bound: how many facts one worker may bring

Done == {"completed", "partial"}
TerminalStatuses == {"completed", "failed", "cancelled", "partial"}

\* The gap of a planned task: no task has the number 0.
NoGap == {0}

SubTask ==
  [deps : SUBSET Ids, priority : Nat, status : TerminalStatuses \cup {"pending", "running"},
   zero : BOOLEAN, fatal : BOOLEAN, gap : (SUBSET Ids) \cup {NoGap}]

ASSUME GraphAssumption ==
  /\ Ids \subseteq Nat \ {0} /\ IsFiniteSet(Ids)
  /\ Planned \subseteq Ids /\ Priorities \subseteq Nat
  /\ MaxWorkers \in Nat \ {0}
  /\ MinFacts \in Nat /\ MaxReplans \in Nat
  /\ FactCounts \subseteq Nat

VARIABLES
  node,         \* the node that runs next; "workers" while workers run
  subtasks,     \* state["subtasks"], by id
  sent,         \* the tasks of the current superstep's workers
  returned,     \* the outcomes of those that have returned
  facts,        \* len(state["facts"])
  replanCount,  \* state["replan_count"]
  replans,      \* the budget's _replans_used
  exhausted,    \* the budget has no token left
  runs          \* history: how often each task was sent to a worker

vars == <<node, subtasks, sent, returned, facts, replanCount, replans, exhausted, runs>>

\* What run_task may return (Workers, StatusFor): a partial result has facts,
\* and an authentication or quota error, which no replan repairs, is a failure.
Outcome ==
  {o \in [status : TerminalStatuses, fatal : BOOLEAN, facts : FactCounts] :
     /\ o.status = "partial" => o.facts > 0
     /\ o.fatal => o.status = "failed"}

Known == DOMAIN subtasks
Status(t) == subtasks[t].status

GraphTypeOK ==
  /\ node \in {"planner", "supervisor", "workers", "collector", "replan", "writer", "end",
               "invalid_plan"}
  /\ Known \subseteq Ids /\ subtasks \in [Known -> SubTask]
  /\ sent \subseteq Known
  /\ DOMAIN returned \subseteq sent /\ returned \in [DOMAIN returned -> Outcome]
  /\ facts \in Nat
  /\ replanCount \in 0..MaxReplans /\ replans \in 0..MaxReplans
  /\ exhausted \in BOOLEAN
  /\ runs \in [Ids -> Nat]

Init ==
  /\ node = "planner"
  /\ subtasks = [t \in {} |-> {}]
  /\ sent = {}
  /\ returned = [t \in {} |-> {}]
  /\ facts = 0 /\ replanCount = 0 /\ replans = 0
  /\ exhausted = FALSE
  /\ runs = [t \in Ids |-> 0]
-----------------------------------------------------------------------------
(* The reducer of subtasks. *)

\* Which of two terminal results of one task stays: completed wins, and two
\* that are both or neither completed are ordered by their serialisation, in
\* which the status is the first field that can differ.
Rank == [completed |-> 0, cancelled |-> 1, failed |-> 2, partial |-> 3]

\* One task of merge_subtasks.
MergeTask(old, new) ==
  IF old.status \in TerminalStatuses
     /\ (new.status \notin TerminalStatuses \/ Rank[old.status] <= Rank[new.status])
  THEN old ELSE new

\* merge_subtasks: updates maps some ids to their new task.
MergeSubtasks(updates) ==
  [t \in Known \cup DOMAIN updates |->
     IF t \notin Known THEN updates[t]
     ELSE IF t \notin DOMAIN updates THEN subtasks[t]
     ELSE MergeTask(subtasks[t], updates[t])]
-----------------------------------------------------------------------------
(* The supervisor's pure functions. *)

\* fail_blocked_tasks: one pass over the tasks, by the statuses it was given.
FailBlocked(tasks) ==
  LET on(t, s) == \E d \in tasks[t].deps : tasks[d].status = s
  IN  [t \in DOMAIN tasks |->
         IF tasks[t].status = "pending" /\ on(t, "cancelled")
         THEN [tasks[t] EXCEPT !.status = "cancelled"]
         ELSE IF tasks[t].status = "pending" /\ on(t, "failed")
         THEN [tasks[t] EXCEPT !.status = "failed"]
         ELSE tasks[t]]

With(tasks, s) == {t \in DOMAIN tasks : tasks[t].status = s}

\* Wrong variant: a dependency need only have ended.
DepsTerminal(tasks, t) == \A d \in tasks[t].deps : tasks[d].status # "pending"

\* _deps_met; a dependency that is done has neither failed nor been cancelled.
DepsMet(tasks, t) == \A d \in tasks[t].deps : tasks[d].status \in Done

\* The order (priority, task_id) in which candidates are dispatched: the ids are
\* strings, which order like their numbers below 10.
Before(tasks, s, t) ==
  \/ tasks[s].priority < tasks[t].priority
  \/ tasks[s].priority = tasks[t].priority /\ s < t

\* Wrong variant: the run is over as soon as no worker runs.
FinishedIdle(tasks) == With(tasks, "running") = {}

\* decide_dispatch, in its two results: whether to finish, and whom to send.
Finished(tasks) == With(tasks, "pending") = {} /\ With(tasks, "running") = {}

Dispatch(tasks) ==
  LET candidates == {t \in With(tasks, "pending") : DepsMet(tasks, t)}
      slots == MaxWorkers - Cardinality(With(tasks, "running"))
  IN  {t \in candidates : Cardinality({s \in candidates : Before(tasks, s, t)}) < slots}
-----------------------------------------------------------------------------
(* The nodes. *)

\* validate_plan: the dependencies are tasks of the plan, and Kahn's algorithm,
\* which visits a task when its dependencies have been visited, visits them all.
Visited(plan) ==
  LET visited[k \in 0..Cardinality(DOMAIN plan)] ==
        IF k = 0 THEN {}
        ELSE {t \in DOMAIN plan : plan[t].deps \subseteq visited[k - 1]}
  IN  visited[Cardinality(DOMAIN plan)]

\* Wrong variant: cycles are not looked for.
DepsKnown(plan) == \A t \in DOMAIN plan : plan[t].deps \subseteq DOMAIN plan \ {t}

ValidPlan(plan) ==
  /\ \A t \in DOMAIN plan : plan[t].deps \subseteq DOMAIN plan \ {t}
  /\ Visited(plan) = DOMAIN plan

NewTask(deps, priority, gap) ==
  [deps |-> deps, priority |-> priority, status |-> "pending", zero |-> FALSE,
   fatal |-> FALSE, gap |-> gap]

\* planner_node: an invalid plan raises and ends the run.
PlannerNode ==
  /\ node = "planner"
  /\ \E plan \in [Planned -> [deps : SUBSET Ids, priority : Priorities]] :
       \/ /\ ValidPlan(plan)
          /\ subtasks' = MergeSubtasks(
               [t \in DOMAIN plan |-> NewTask(plan[t].deps, plan[t].priority, NoGap)])
          /\ node' = "supervisor"
       \/ /\ ~ValidPlan(plan)
          /\ node' = "invalid_plan"
          /\ UNCHANGED subtasks
  /\ UNCHANGED <<sent, returned, facts, replanCount, replans, exhausted, runs>>

\* supervisor_node: the blocked tasks are marked for this decision only.
SupervisorNode ==
  /\ node = "supervisor"
  /\ LET marked == FailBlocked(subtasks)
         chosen == Dispatch(marked)
     IN  \/ /\ Finished(marked)
            /\ node' = "replan"
            /\ UNCHANGED <<subtasks, sent, runs>>
         \/ /\ ~Finished(marked)
            /\ chosen = {}
            /\ node' = "collector"
            /\ UNCHANGED <<subtasks, sent, runs>>
         \/ /\ ~Finished(marked)
            /\ chosen # {}
            /\ subtasks' = MergeSubtasks([t \in chosen |-> [marked[t] EXCEPT !.status = "running"]])
            /\ sent' = chosen
            /\ runs' = [t \in Ids |-> IF t \in chosen THEN runs[t] + 1 ELSE runs[t]]
            /\ node' = "workers"
  /\ UNCHANGED <<returned, facts, replanCount, replans, exhausted>>

\* A worker returns its command; meanwhile the budget may have run out.
WorkerReturns(t) ==
  /\ node = "workers"
  /\ t \in sent \ DOMAIN returned
  /\ \E o \in Outcome :
       returned' = [s \in DOMAIN returned \cup {t} |-> IF s = t THEN o ELSE returned[s]]
  /\ \E out \in BOOLEAN : exhausted' = (exhausted \/ out)
  /\ UNCHANGED <<node, subtasks, sent, facts, replanCount, replans, runs>>

\* The superstep ends when every worker has returned: the reducers merge their
\* updates.
WorkersJoin ==
  /\ node = "workers"
  /\ DOMAIN returned = sent
  /\ subtasks' = MergeSubtasks(
       [t \in sent |-> [subtasks[t] EXCEPT !.status = returned[t].status,
                                           !.fatal = returned[t].fatal,
                                           !.zero = (returned[t].facts = 0)]])
  /\ facts' = facts + SumFunctionOnSet([t \in sent |-> returned[t].facts], sent)
  /\ sent' = {}
  /\ returned' = [t \in {} |-> {}]
  /\ node' = "collector"
  /\ UNCHANGED <<replanCount, replans, exhausted, runs>>

\* collector_node: of the blocked tasks only those that newly failed are kept.
CollectorNode ==
  /\ node = "collector"
  /\ LET marked == FailBlocked(subtasks)
         updated == {t \in Known : marked[t].status = "failed" /\ Status(t) # "failed"}
     IN  /\ subtasks' = MergeSubtasks([t \in updated |-> marked[t]])
         /\ node' = IF Finished(marked) THEN "replan" ELSE "supervisor"
  /\ UNCHANGED <<sent, returned, facts, replanCount, replans, exhausted, runs>>

ZeroFactTasks == {t \in Known : subtasks[t].zero}

\* The number of a new task: one above the largest.
IsNextId(n) == n - 1 \in Known \cup {0} /\ \A t \in Known : t < n

\* The conditions under which replan_node adds a follow-up: no provider failure,
\* few facts, a budget that allows it (can_replan), and a gap without follow-up.
Replans ==
  /\ \A t \in Known : ~subtasks[t].fatal
  /\ facts < MinFacts
  /\ replans < MaxReplans /\ ~exhausted
  /\ \A t \in Known : subtasks[t].gap # ZeroFactTasks

ReplanNode ==
  /\ node = "replan"
  /\ \/ /\ Replans
        /\ \E n \in Ids :
             /\ IsNextId(n)
             /\ subtasks' = MergeSubtasks([t \in {n} |-> NewTask({}, 99, ZeroFactTasks)])
        /\ replans' = replans + 1
        /\ replanCount' = replanCount + 1
        /\ node' = "supervisor"
     \/ /\ ~Replans
        /\ node' = "writer"
        /\ UNCHANGED <<subtasks, replans, replanCount>>
  /\ UNCHANGED <<sent, returned, facts, exhausted, runs>>

WriterNode ==
  /\ node = "writer"
  /\ node' = "end"
  /\ UNCHANGED <<subtasks, sent, returned, facts, replanCount, replans, exhausted, runs>>

Next ==
  \/ PlannerNode
  \/ SupervisorNode
  \/ \E t \in Ids : WorkerReturns(t)
  \/ WorkersJoin
  \/ CollectorNode
  \/ ReplanNode
  \/ WriterNode

\* LangGraph runs the next node, and every worker returns (Workers, Termination).
Spec == Init /\ [][Next]_vars /\ WF_vars(Next)
-----------------------------------------------------------------------------
(* Properties. *)

\* No task is sent to a worker twice, over all waves and replans, and none is
\* sent before all its dependencies brought a result.
RunAtMostOnce ==
  /\ \A t \in Ids : runs[t] <= 1
  /\ \A t \in Known : runs[t] > 0 => DepsMet(subtasks, t)

\* Never more workers than max_workers, also when a wave starts after another.
WorkersCapped == Cardinality(With(subtasks, "running")) <= MaxWorkers

\* When the run moves on to the report, no task that could still run is left
\* behind.
NothingRunnableLeft ==
  node \in {"replan", "writer", "end"} =>
    \A t \in With(subtasks, "pending") : ~DepsMet(subtasks, t)

\* What can then never run waits, directly or through others, for a task that
\* failed or was cancelled: every set of tasks that contains it and, with a task,
\* its dependencies, has such a task.
OnlyFailuresBlock ==
  node \in {"replan", "writer", "end"} =>
    \A t \in With(subtasks, "pending") : \A S \in SUBSET Known :
      t \in S /\ (\A s \in S : subtasks[s].deps \subseteq S) =>
        \E s \in S : Status(s) \in {"failed", "cancelled"}

\* Follow-ups are bounded by the budget's count, which agrees with the state's,
\* and no two were made for the same gap.
FollowUps == {t \in Known : subtasks[t].gap # NoGap}

FollowUpsBounded ==
  /\ Cardinality(FollowUps) = replans /\ replans = replanCount
  /\ \A s, t \in FollowUps : s # t => subtasks[s].gap # subtasks[t].gap

\* Every node is a step of TaskBoard or leaves the tasks alone: no task that ended
\* changes again, waves are bounded and start only with tasks whose dependencies
\* are done, only a task behind a failed one is given up, and replan_node, which
\* takes all tasks for ended, never adds one while another runs or could run.
State(s) ==
  IF s = "pending" THEN "waiting" ELSE IF s \in Done THEN "done" ELSE s

Board == INSTANCE TaskBoard WITH
  TaskIds <- Ids, Initial <- Planned, MaxRunning <- MaxWorkers, MaxFollowUps <- MaxReplans,
  board <- [t \in Known |-> [deps |-> subtasks[t].deps, state |-> State(Status(t))]]

BoardRefined == Board!BoardSpec

\* A cancelled task with a dependent that has a dependent of its own.
CancelledChain ==
  \E a, b, c \in Known : /\ Status(a) = "cancelled"
                         /\ a \in subtasks[b].deps /\ b \in subtasks[c].deps

Ended == node \in {"end", "invalid_plan"}

\* The run always reaches its end, whatever the plan and the outcomes of the
\* tasks, unless a cancelled task has a chain of dependents.
EndsWithoutChain == []~CancelledChain => <>Ended

\* supervisor.py:115-117: a failed or cancelled dependency propagates without
\* blocking the whole graph forever.  (LangGraph's own limit on the number of
\* supersteps, which would turn an endless run into an error, is not part of
\* this code and not modelled.)
AlwaysEnds == <>Ended
=============================================================================
