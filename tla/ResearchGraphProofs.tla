------------------------ MODULE ResearchGraphProofs ------------------------
(***************************************************************************)
(* What is proved of ResearchGraph for every plan, every number of tasks   *)
(* and workers, and all outcomes.  The inductive invariant GIInv ties the  *)
(* count of a task's runs to its status: a task that waits has not run, a  *)
(* task that was sent runs, and one that ran had its dependencies done.    *)
(*                                                                         *)
(* How each node changes the tasks is stated once (PlanInstalled, WaveSent, *)
(* WaveEnded, TasksFailed, FollowUpAdded) and used twice: for the invariant, *)
(* and to show that the tasks are a TaskBoard.  That the plan has no cycle is *)
(* what Kahn's algorithm checks (ValidPlanHasNoCycle); it is why a task can be *)
(* left pending only behind one that failed or was cancelled.              *)
(***************************************************************************)
EXTENDS ResearchGraph, Lemmas

Nodes == {"planner", "supervisor", "workers", "collector", "replan", "writer", "end",
          "invalid_plan"}

Typed ==
  /\ node \in Nodes
  /\ Known \subseteq Ids /\ subtasks \in [Known -> SubTask]
  /\ sent \subseteq Known
  /\ DOMAIN returned \subseteq sent /\ returned \in [DOMAIN returned -> Outcome]
  /\ replans \in Nat
  /\ runs \in [Ids -> Nat]

\* The statuses, the dependencies and the runs agree.
RunsMatch ==
  /\ \A t \in Known : subtasks[t].deps \subseteq Known
  /\ \A t \in Ids \ Known : runs[t] = 0
  /\ \A t \in Known : Status(t) = "pending" => runs[t] = 0
  /\ With(subtasks, "running") = sent
  /\ node # "workers" => sent = {}
  /\ node = "planner" => Known = {} /\ replans = 0

GIInv ==
  Typed /\ RunsMatch /\ RunAtMostOnce /\ WorkersCapped /\ NothingRunnableLeft /\ FollowUpsBounded
-----------------------------------------------------------------------------
(* The reducer and the marking of blocked tasks. *)

\* Updates of tasks that have not ended replace them.
LEMMA MergeReplaces ==
  ASSUME NEW U, DOMAIN U \subseteq Known,
         \A t \in DOMAIN U : Status(t) \notin TerminalStatuses
  PROVE  MergeSubtasks(U) =
           [t \in Known |-> IF t \in DOMAIN U THEN U[t] ELSE subtasks[t]]
BY DEF MergeSubtasks, MergeTask, Known, Status

\* New tasks are added to the others.
LEMMA MergeAdds ==
  ASSUME NEW U, DOMAIN U \cap Known = {}
  PROVE  MergeSubtasks(U) =
           [t \in Known \cup DOMAIN U |-> IF t \in Known THEN subtasks[t] ELSE U[t]]
BY DEF MergeSubtasks, Known

\* Only a pending task with a failed or cancelled dependency is marked, and only
\* its status changes.
LEMMA Marking ==
  ASSUME GIInv
  PROVE  LET marked == FailBlocked(subtasks) IN
    /\ DOMAIN marked = Known
    /\ \A t \in Known :
         \/ marked[t] = subtasks[t]
         \/ /\ Status(t) = "pending" /\ ~DepsMet(subtasks, t)
            /\ \E s \in {"cancelled", "failed"} :
                 marked[t] = [subtasks[t] EXCEPT !.status = s]
BY DEF FailBlocked, GIInv, Typed, Known, Status, DepsMet, Done, SubTask

\* When the marked tasks leave nothing to wait for, whatever is still pending is
\* blocked.
LEMMA FinishedMeansBlocked ==
  ASSUME GIInv, Finished(FailBlocked(subtasks))
  PROVE  \A t \in With(subtasks, "pending") : ~DepsMet(subtasks, t)
BY Marking DEF Finished, With, Known
-----------------------------------------------------------------------------
(* The number of tasks dispatched. *)

\* The first k of a finite set of tasks, in the order of dispatch, are at most k:
\* different tasks have different numbers of predecessors.
LEMMA FirstFew ==
  ASSUME NEW tasks \in [Known -> SubTask], Known \subseteq Ids,
         NEW C \in SUBSET Known, NEW k \in Nat
  PROVE  LET D == {t \in C : Cardinality({s \in C : Before(tasks, s, t)}) < k}
         IN  IsFiniteSet(D) /\ Cardinality(D) <= k
<1> DEFINE Pred(t) == {s \in C : Before(tasks, s, t)}
           D == {t \in C : Cardinality(Pred(t)) < k}
           rank == [t \in D |-> Cardinality(Pred(t))]
<1>1. IsFiniteSet(C) /\ IsFiniteSet(D) /\ \A t \in C : IsFiniteSet(Pred(t))
  BY GraphAssumption, FS_Subset
<1>2. \A t \in C : Cardinality(Pred(t)) \in Nat
  BY <1>1, FS_CardinalityType
<1>3. \A t \in C : t \in Nat /\ tasks[t].priority \in Nat
  BY GraphAssumption DEF SubTask
<1>4. ASSUME NEW s \in C, NEW t \in C, Before(tasks, s, t)
      PROVE  Cardinality(Pred(s)) < Cardinality(Pred(t))
  <2>1. Pred(s) \subseteq Pred(t)
    BY <1>3, <1>4 DEF Before
  <2>2. s \in Pred(t) /\ s \notin Pred(s)
    BY <1>3, <1>4 DEF Before
  <2>3. Cardinality(Pred(s)) <= Cardinality(Pred(t))
        /\ (Cardinality(Pred(s)) = Cardinality(Pred(t)) => Pred(s) = Pred(t))
    BY <2>1, <1>1, FS_Subset
  <2> HIDE DEF Pred
  <2> QED
    BY <2>2, <2>3, <1>2
<1>5. \A s, t \in C : s # t => Before(tasks, s, t) \/ Before(tasks, t, s)
  BY <1>3 DEF Before
<1>6. rank \in Injection(D, 0..k-1)
  <2> HIDE DEF Pred
  <2>1. \A t \in D : Cardinality(Pred(t)) \in 0..k-1
    BY <1>2
  <2>2. \A s, t \in D : Cardinality(Pred(s)) = Cardinality(Pred(t)) => s = t
    BY <1>2, <1>4, <1>5
  <2> QED
    BY <2>1, <2>2 DEF Injection, IsInjective
<1>7. IsFiniteSet(0..k-1) /\ Cardinality(0..k-1) = k
  BY FS_Interval
<1> HIDE DEF D, rank
<1>8. Cardinality(D) <= Cardinality(0..k-1)
  BY <1>6, <1>7, FS_Injection
<1> QED
  BY <1>1, <1>7, <1>8 DEF D
-----------------------------------------------------------------------------
(* How the nodes change the tasks. *)

\* The planner installs the tasks of the plan.
LEMMA PlanInstalled ==
  ASSUME GIInv, PlannerNode,
         NEW plan \in [Planned -> [deps : SUBSET Ids, priority : Priorities]], ValidPlan(plan),
         subtasks' = MergeSubtasks(
           [t \in DOMAIN plan |-> NewTask(plan[t].deps, plan[t].priority, NoGap)])
  PROVE  /\ Known = {} /\ Known' = Planned
         /\ subtasks' = [t \in Planned |-> NewTask(plan[t].deps, plan[t].priority, NoGap)]
         /\ \A t \in Planned : plan[t].deps \subseteq Planned
<1>1. Known = {}
  BY DEF GIInv, RunsMatch, PlannerNode
<1>2. subtasks' = [t \in Planned |-> NewTask(plan[t].deps, plan[t].priority, NoGap)]
  BY <1>1, MergeAdds
<1>3. \A t \in Planned : plan[t].deps \subseteq Planned
  BY DEF ValidPlan
<1> QED
  BY <1>1, <1>2, <1>3 DEF Known

\* The supervisor starts a wave: no more tasks than max_workers, all of which wait
\* with their dependencies done.
LEMMA WaveSent ==
  ASSUME GIInv, SupervisorNode, NEW chosen, chosen = Dispatch(FailBlocked(subtasks)),
         subtasks' = MergeSubtasks(
           [t \in chosen |-> [FailBlocked(subtasks)[t] EXCEPT !.status = "running"]])
  PROVE  /\ chosen \subseteq Known /\ IsFiniteSet(chosen) /\ Cardinality(chosen) <= MaxWorkers
         /\ \A t \in chosen : Status(t) = "pending" /\ DepsMet(subtasks, t)
         /\ subtasks' = [t \in Known |-> IF t \in chosen
                                         THEN [subtasks[t] EXCEPT !.status = "running"]
                                         ELSE subtasks[t]]
<1> DEFINE marked == FailBlocked(subtasks)
<1>1. sent = {} /\ With(subtasks, "running") = {} /\ Known \subseteq Ids
      /\ subtasks \in [Known -> SubTask]
  BY DEF SupervisorNode, GIInv, RunsMatch, Typed
<1>2. /\ DOMAIN marked = Known
      /\ marked \in [Known -> SubTask]
  <2>1. DOMAIN marked = Known /\ \A t \in Known : marked[t] \in SubTask
    BY <1>1, Marking DEF SubTask, TerminalStatuses
  <2>2. marked = [t \in Known |-> marked[t]]
    BY <2>1 DEF FailBlocked
  <2> HIDE DEF marked
  <2> QED
    BY <2>1, <2>2
<1>3. chosen \subseteq With(marked, "pending")
      /\ \A t \in chosen : DepsMet(marked, t)
  BY DEF Dispatch
<1>4. \A t \in chosen : /\ t \in Known /\ Status(t) = "pending" /\ marked[t] = subtasks[t]
                        /\ DepsMet(subtasks, t)
  <2> SUFFICES ASSUME NEW t \in chosen
               PROVE  /\ t \in Known /\ Status(t) = "pending" /\ marked[t] = subtasks[t]
                      /\ DepsMet(subtasks, t)
    OBVIOUS
  <2>1. t \in Known /\ marked[t].status = "pending" /\ DepsMet(marked, t)
    BY <1>2, <1>3 DEF With
  <2>2. marked[t] = subtasks[t]
    BY <2>1, <1>1, Marking DEF SubTask
  <2>3. \A d \in subtasks[t].deps : d \in Known /\ marked[d].status \in Done
    BY <2>1, <2>2 DEF DepsMet, GIInv, RunsMatch
  <2>4. \A d \in Known : marked[d].status \in Done => marked[d] = subtasks[d]
    BY <1>1, Marking DEF SubTask, Done
  <2> QED
    BY <2>1, <2>2, <2>3, <2>4 DEF DepsMet, Status
<1>5. IsFiniteSet(chosen) /\ Cardinality(chosen) <= MaxWorkers
  <2>1. With(marked, "running") = {}
    BY <1>1, <1>2, Marking DEF With, Known, SubTask
  <2>2. Cardinality(With(marked, "running")) = 0
    BY <2>1, FS_EmptySet
  <2> DEFINE C == {t \in With(marked, "pending") : DepsMet(marked, t)}
  <2>3. chosen = {t \in C : Cardinality({r \in C : Before(marked, r, t)}) < MaxWorkers}
    BY <2>2, GraphAssumption DEF Dispatch
  <2>4. C \in SUBSET Known
    BY <1>2 DEF With
  <2> HIDE DEF C, marked
  <2> QED
    BY <1>1, <1>2, <2>3, <2>4, FirstFew, GraphAssumption
<1>6. subtasks' = [t \in Known |-> IF t \in chosen THEN [subtasks[t] EXCEPT !.status = "running"]
                                   ELSE subtasks[t]]
  <2> DEFINE U == [t \in chosen |-> [marked[t] EXCEPT !.status = "running"]]
  <2>1. DOMAIN U \subseteq Known /\ \A t \in DOMAIN U : Status(t) \notin TerminalStatuses
    BY <1>4 DEF TerminalStatuses
  <2>2. subtasks' = [t \in Known |-> IF t \in DOMAIN U THEN U[t] ELSE subtasks[t]]
    <3> HIDE DEF U
    <3>1. MergeSubtasks(U) = [t \in Known |-> IF t \in DOMAIN U THEN U[t] ELSE subtasks[t]]
      BY <2>1, MergeReplaces
    <3> QED
      BY <3>1 DEF U
  <2> HIDE DEF marked
  <2> QED
    BY <2>2, <1>4
<1> HIDE DEF marked
<1> QED
  BY <1>4, <1>5, <1>6

\* The wave ends: its tasks, which run, take their outcomes.
LEMMA WaveEnded ==
  ASSUME GIInv, WorkersJoin
  PROVE  /\ sent \subseteq Known
         /\ \A t \in sent : Status(t) = "running" /\ returned[t] \in Outcome
         /\ subtasks' = [t \in Known |->
              IF t \in sent THEN [subtasks[t] EXCEPT !.status = returned[t].status,
                                                    !.fatal = returned[t].fatal,
                                                    !.zero = (returned[t].facts = 0)]
              ELSE subtasks[t]]
<1> DEFINE U == [t \in sent |-> [subtasks[t] EXCEPT !.status = returned[t].status,
                                                    !.fatal = returned[t].fatal,
                                                    !.zero = (returned[t].facts = 0)]]
<1>1. /\ sent \subseteq Known /\ subtasks \in [Known -> SubTask]
      /\ \A t \in sent : Status(t) = "running" /\ returned[t] \in Outcome
  BY DEF GIInv, Typed, RunsMatch, With, Status, WorkersJoin
<1>2. DOMAIN U \subseteq Known /\ \A t \in DOMAIN U : Status(t) \notin TerminalStatuses
  BY <1>1 DEF TerminalStatuses
<1>3. subtasks' = MergeSubtasks(U)
  BY DEF WorkersJoin
<1>4. subtasks' = [t \in Known |-> IF t \in sent THEN U[t] ELSE subtasks[t]]
  <2>1. DOMAIN U = sent
    OBVIOUS
  <2> HIDE DEF U
  <2> QED
    BY <1>2, <1>3, <2>1, MergeReplaces
<1> QED
  BY <1>1, <1>4

\* The collector fails tasks that wait for a failed one.
LEMMA TasksFailed ==
  ASSUME GIInv, CollectorNode
  PROVE  \E lost \in SUBSET Known :
           /\ lost = {t \in Known : /\ FailBlocked(subtasks)[t].status = "failed"
                                   /\ Status(t) # "failed"}
           /\ \A t \in lost : /\ Status(t) = "pending" /\ ~DepsMet(subtasks, t)
                              /\ \E d \in subtasks[t].deps : Status(d) = "failed"
           /\ subtasks' = [t \in Known |-> IF t \in lost
                                           THEN [subtasks[t] EXCEPT !.status = "failed"]
                                           ELSE subtasks[t]]
<1> DEFINE marked == FailBlocked(subtasks)
           updated == {t \in Known : marked[t].status = "failed" /\ Status(t) # "failed"}
           U == [t \in updated |-> marked[t]]
<1>1. subtasks \in [Known -> SubTask] /\ sent = {} /\ node = "collector"
  BY DEF GIInv, Typed, RunsMatch, CollectorNode
<1>2. \A t \in updated : /\ t \in Known /\ Status(t) = "pending"
                         /\ marked[t] = [subtasks[t] EXCEPT !.status = "failed"]
                         /\ ~DepsMet(subtasks, t)
  <2> SUFFICES ASSUME NEW t \in updated
               PROVE  /\ Status(t) = "pending"
                      /\ marked[t] = [subtasks[t] EXCEPT !.status = "failed"]
                      /\ ~DepsMet(subtasks, t)
    OBVIOUS
  <2>1. subtasks[t] \in SubTask /\ marked[t].status = "failed" /\ subtasks[t].status # "failed"
    BY <1>1 DEF Status
  <2> HIDE DEF marked
  <2>2. /\ Status(t) = "pending" /\ ~DepsMet(subtasks, t)
        /\ \E s \in {"cancelled", "failed"} : marked[t] = [subtasks[t] EXCEPT !.status = s]
    BY <2>1, Marking DEF marked
  <2> QED
    BY <2>1, <2>2 DEF SubTask
<1>3. subtasks' = [t \in Known |-> IF t \in updated THEN marked[t] ELSE subtasks[t]]
  <2>1. DOMAIN U = updated
    OBVIOUS
  <2>2. DOMAIN U \subseteq Known /\ \A t \in DOMAIN U : Status(t) \notin TerminalStatuses
    BY <1>2 DEF TerminalStatuses
  <2>3. subtasks' = MergeSubtasks(U)
    BY DEF CollectorNode
  <2>4. \A t \in updated : U[t] = marked[t]
    OBVIOUS
  <2> HIDE DEF U, updated, marked
  <2> QED
    BY <2>1, <2>2, <2>3, <2>4, MergeReplaces
<1>4. \A t \in updated : \E d \in subtasks[t].deps : Status(d) = "failed"
  <2> SUFFICES ASSUME NEW t \in updated PROVE \E d \in subtasks[t].deps : Status(d) = "failed"
    OBVIOUS
  <2>1. t \in Known /\ marked[t].status = "failed" /\ Status(t) = "pending"
    BY <1>2
  <2> QED
    BY <2>1 DEF FailBlocked, Known, Status
<1>5. subtasks' = [t \in Known |-> IF t \in updated THEN [subtasks[t] EXCEPT !.status = "failed"]
                                  ELSE subtasks[t]]
  <2> HIDE DEF updated, marked
  <2> QED
    BY <1>2, <1>3
<1> WITNESS updated \in SUBSET Known
<1> HIDE DEF U
<1> QED
  BY <1>2, <1>4, <1>5

\* A follow-up is one more task that waits, for nothing.
LEMMA FollowUpAdded ==
  ASSUME GIInv, NEW n \in Ids, IsNextId(n),
         subtasks' = MergeSubtasks([t \in {n} |-> NewTask({}, 99, ZeroFactTasks)])
  PROVE  /\ n \notin Known
         /\ subtasks' = [t \in Known \cup {n} |->
                           IF t \in Known THEN subtasks[t] ELSE NewTask({}, 99, ZeroFactTasks)]
<1> DEFINE new == NewTask({}, 99, ZeroFactTasks)
<1>1. n \notin Known
  BY GraphAssumption DEF IsNextId, GIInv, Typed
<1>2. subtasks' = [t \in Known \cup {n} |-> IF t \in Known THEN subtasks[t] ELSE new]
  <2> DEFINE U == [t \in {n} |-> new]
  <2>1. DOMAIN U = {n} /\ U[n] = new
    OBVIOUS
  <2> HIDE DEF U
  <2>2. MergeSubtasks(U) = [t \in Known \cup {n} |-> IF t \in Known THEN subtasks[t] ELSE U[t]]
    BY <1>1, <2>1, MergeAdds
  <2> HIDE DEF new
  <2> QED
    BY <2>1, <2>2 DEF U, new
<1> QED
  BY <1>1, <1>2
-----------------------------------------------------------------------------
(* One lemma per node. *)

LEMMA InitGIInv == Init => GIInv
<1> SUFFICES ASSUME Init PROVE GIInv
  OBVIOUS
<1>1. Known = {} /\ With(subtasks, "running") = {} /\ FollowUps = {}
  BY DEF Init, Known, With, FollowUps
<1>2. Cardinality({}) = 0
  BY FS_EmptySet
<1>3. Typed /\ RunsMatch
  BY <1>1 DEF Init, Typed, RunsMatch, Nodes, Known, SubTask, Outcome
<1>4. RunAtMostOnce /\ NothingRunnableLeft
  BY <1>1 DEF Init, RunAtMostOnce, NothingRunnableLeft
<1>5. WorkersCapped
  BY <1>1, <1>2, GraphAssumption DEF WorkersCapped
<1>6. FollowUpsBounded
  <2>1. replans = 0 /\ replanCount = 0
    BY DEF Init
  <2> QED
    BY <1>1, <1>2, <2>1 DEF FollowUpsBounded
<1> QED
  BY <1>3, <1>4, <1>5, <1>6 DEF GIInv

\* A step that leaves the tasks' gaps alone leaves the count of follow-ups alone.
LEMMA GapsKept ==
  ASSUME GIInv, Known' = Known, UNCHANGED <<replans, replanCount>>,
         \A t \in Known : subtasks'[t].gap = subtasks[t].gap
  PROVE  FollowUpsBounded'
<1>1. FollowUps' = FollowUps
  BY DEF FollowUps
<1> QED
  BY <1>1 DEF GIInv, FollowUpsBounded, FollowUps

LEMMA NewTaskTyped ==
  ASSUME NEW d \in SUBSET Ids, NEW p \in Nat, NEW g \in (SUBSET Ids) \cup {NoGap}
  PROVE  NewTask(d, p, g) \in SubTask
BY DEF NewTask, SubTask

\* The planner installs the plan: its tasks wait, and depend on one another.
LEMMA PlannerStep ==
  ASSUME GIInv, PlannerNode
  PROVE  GIInv'
<1>1. Known = {} /\ sent = {} /\ replans = 0
  BY DEF GIInv, RunsMatch, PlannerNode
<1>2. CASE node' = "invalid_plan" /\ UNCHANGED subtasks
  BY <1>1, <1>2 DEF PlannerNode, GIInv, Typed, RunsMatch, RunAtMostOnce, WorkersCapped,
       NothingRunnableLeft, FollowUpsBounded, FollowUps, With, Known, Nodes, Status
<1>3. ASSUME NEW plan \in [Planned -> [deps : SUBSET Ids, priority : Priorities]],
             ValidPlan(plan), node' = "supervisor",
             subtasks' = MergeSubtasks(
               [t \in DOMAIN plan |-> NewTask(plan[t].deps, plan[t].priority, NoGap)])
      PROVE  GIInv'
  <2>1. /\ subtasks' = [t \in Planned |-> NewTask(plan[t].deps, plan[t].priority, NoGap)]
        /\ \A t \in Planned : plan[t].deps \subseteq Planned
    BY <1>3, PlanInstalled
  <2>2. Known' = Planned /\ Planned \subseteq Ids
    BY <2>1, GraphAssumption DEF Known
  <2>3. \A t \in Planned : /\ subtasks'[t] \in SubTask
                           /\ subtasks'[t].deps \subseteq Planned
                           /\ subtasks'[t].status = "pending"
                           /\ subtasks'[t].gap = NoGap
    <3> SUFFICES ASSUME NEW t \in Planned
                 PROVE  /\ NewTask(plan[t].deps, plan[t].priority, NoGap) \in SubTask
                        /\ plan[t].deps \subseteq Planned
      BY <2>1 DEF NewTask
    <3>1. plan[t].deps \in SUBSET Ids /\ plan[t].priority \in Nat
      BY GraphAssumption
    <3>2. NewTask(plan[t].deps, plan[t].priority, NoGap) \in SubTask
      <4>1. NoGap \in (SUBSET Ids) \cup {NoGap}
        OBVIOUS
      <4> QED
        BY <3>1, <4>1, NewTaskTyped, Zenon
    <3>3. plan[t].deps \subseteq Planned
      BY <2>1
    <3> QED
      BY <3>2, <3>3
  <2>4. With(subtasks, "running")' = {} /\ FollowUps' = {}
    BY <2>2, <2>3 DEF With, Known, FollowUps
  <2>5. UNCHANGED <<sent, returned, replanCount, replans, runs>>
    BY DEF PlannerNode
  <2>6. \A t \in Ids : runs[t] = 0
    BY <1>1 DEF GIInv, RunsMatch
  <2>7. Typed'
    BY <1>3, <2>1, <2>2, <2>3, <2>5, <1>1 DEF GIInv, Typed, Nodes, Known
  <2>8. RunsMatch'
    BY <1>3, <2>2, <2>3, <2>4, <2>5, <2>6, <1>1 DEF RunsMatch, Status
  <2>9. RunAtMostOnce' /\ NothingRunnableLeft'
    BY <1>3, <2>2, <2>5, <2>6 DEF RunAtMostOnce, NothingRunnableLeft
  <2>10. WorkersCapped' /\ FollowUpsBounded'
    <3>1. Cardinality({}) = 0 /\ MaxWorkers \in Nat
      BY FS_EmptySet, GraphAssumption
    <3>2. replans' = 0 /\ replanCount' = 0
      BY <1>1, <2>5 DEF GIInv, FollowUpsBounded
    <3>3. WorkersCapped'
      BY <2>4, <3>1 DEF WorkersCapped
    <3> QED
      BY <2>4, <3>1, <3>2, <3>3 DEF FollowUpsBounded
  <2> QED
    BY <2>7, <2>8, <2>9, <2>10 DEF GIInv
<1> QED
  BY <1>2, <1>3 DEF PlannerNode

\* The supervisor sends tasks that wait and whose dependencies are done.
LEMMA SupervisorStep ==
  ASSUME GIInv, SupervisorNode
  PROVE  GIInv'
<1> DEFINE marked == FailBlocked(subtasks)
           chosen == Dispatch(marked)
<1>1. CASE /\ node' \in {"replan", "collector"}
           /\ node' = "replan" => Finished(marked)
           /\ UNCHANGED <<subtasks, sent, runs>>
  <2>1. Typed' /\ RunsMatch'
    BY <1>1 DEF SupervisorNode, GIInv, Typed, RunsMatch, Nodes, Known, Status, With
  <2>2. RunAtMostOnce' /\ WorkersCapped'
    BY <1>1 DEF GIInv, RunAtMostOnce, WorkersCapped, Known, DepsMet, With
  <2>3. NothingRunnableLeft'
    BY <1>1, FinishedMeansBlocked DEF NothingRunnableLeft, With, DepsMet
  <2>4. FollowUpsBounded'
    BY <1>1 DEF SupervisorNode, GIInv, FollowUpsBounded, FollowUps, Known
  <2> QED
    BY <2>1, <2>2, <2>3, <2>4 DEF GIInv
<1>2. CASE /\ subtasks' = MergeSubtasks([t \in chosen |-> [marked[t] EXCEPT !.status = "running"]])
           /\ sent' = chosen
           /\ runs' = [t \in Ids |-> IF t \in chosen THEN runs[t] + 1 ELSE runs[t]]
           /\ node' = "workers"
  <2>1. sent = {} /\ With(subtasks, "running") = {} /\ Known \subseteq Ids
        /\ subtasks \in [Known -> SubTask]
    BY DEF SupervisorNode, GIInv, RunsMatch, Typed
  <2> HIDE DEF chosen
  <2>2. chosen = Dispatch(FailBlocked(subtasks))
    BY DEF chosen
  <2>3. subtasks' = MergeSubtasks(
                      [t \in chosen |-> [FailBlocked(subtasks)[t] EXCEPT !.status = "running"]])
    BY <1>2
  <2>4. \A t \in chosen : /\ t \in Known /\ Status(t) = "pending" /\ DepsMet(subtasks, t)
    BY <2>2, <2>3, WaveSent
  <2>5. IsFiniteSet(chosen) /\ Cardinality(chosen) <= MaxWorkers
    BY <2>2, <2>3, WaveSent
  <2>6. subtasks' = [t \in Known |-> IF t \in chosen THEN [subtasks[t] EXCEPT !.status = "running"]
                                     ELSE subtasks[t]]
    BY <2>2, <2>3, WaveSent
  <2> HIDE DEF marked, chosen
  <2>7. /\ Known' = Known
        /\ \A t \in chosen : subtasks'[t] \in SubTask /\ subtasks'[t].status = "running"
        /\ \A t \in Known \ chosen : subtasks'[t] = subtasks[t]
        /\ \A t \in Known : subtasks'[t].deps = subtasks[t].deps
                           /\ subtasks'[t].gap = subtasks[t].gap
    BY <2>1, <2>4, <2>6 DEF Known, SubTask
  <2>8. UNCHANGED <<returned, facts, replanCount, replans, exhausted>> /\ node = "supervisor"
    BY DEF SupervisorNode
  <2>9. Typed'
    <3>1. Known' \subseteq Ids /\ subtasks' \in [Known' -> SubTask]
      BY <2>1, <2>6, <2>7
    <3>2. sent' \subseteq Known' /\ DOMAIN returned' = {} /\ node' \in Nodes
      BY <1>2, <2>1, <2>4, <2>7, <2>8 DEF GIInv, Typed, Nodes
    <3>3. returned' \in [DOMAIN returned' -> Outcome] /\ replans' \in Nat
      BY <2>8 DEF GIInv, Typed
    <3>4. runs' \in [Ids -> Nat]
      BY <1>2 DEF GIInv, Typed
    <3> QED
      BY <3>1, <3>2, <3>3, <3>4 DEF Typed
  <2>10. With(subtasks, "running")' = chosen
    BY <2>1, <2>4, <2>7 DEF With, Known
  <2>11. RunsMatch'
    BY <1>2, <2>1, <2>4, <2>7, <2>8, <2>10 DEF GIInv, RunsMatch, Typed, Status
  <2>12. RunAtMostOnce'
    <3>1. \A t \in Ids : runs'[t] <= 1
      BY <1>2, <2>4 DEF GIInv, RunsMatch, RunAtMostOnce, Typed
    <3>2. \A t \in Known : runs'[t] > 0 => DepsMet(subtasks, t)
      BY <1>2, <2>1, <2>4 DEF GIInv, RunAtMostOnce, Typed
    <3>3. \A d \in Known : Status(d) \in Done => subtasks'[d] = subtasks[d]
      BY <2>4, <2>7 DEF Done
    <3>4. \A t \in Known : DepsMet(subtasks, t) => DepsMet(subtasks, t)'
      BY <2>7, <3>3 DEF DepsMet, GIInv, RunsMatch, Status
    <3> QED
      BY <3>1, <3>2, <3>4, <2>7 DEF RunAtMostOnce
  <2>13. WorkersCapped'
    BY <2>5, <2>10 DEF WorkersCapped
  <2>14. NothingRunnableLeft'
    BY <1>2 DEF NothingRunnableLeft
  <2>15. FollowUpsBounded'
    BY <2>7, <2>8, GapsKept
  <2> QED
    BY <2>9, <2>11, <2>12, <2>13, <2>14, <2>15 DEF GIInv
<1> QED
  BY <1>1, <1>2 DEF SupervisorNode

\* A worker returns: the tasks stay as they are.
LEMMA ReturnStep ==
  ASSUME GIInv, NEW w \in Ids, WorkerReturns(w)
  PROVE  GIInv'
<1>1. UNCHANGED <<node, subtasks, sent, replanCount, replans, runs>>
  BY DEF WorkerReturns
<1>2. PICK o \in Outcome :
        returned' = [s \in DOMAIN returned \cup {w} |-> IF s = w THEN o ELSE returned[s]]
  BY DEF WorkerReturns
<1>3. DOMAIN returned' \subseteq sent /\ returned' \in [DOMAIN returned' -> Outcome]
  BY <1>2 DEF GIInv, Typed, WorkerReturns
<1>4. Typed' /\ RunsMatch'
  BY <1>1, <1>3 DEF GIInv, Typed, RunsMatch, Known, Status, With
<1>5. RunAtMostOnce' /\ WorkersCapped' /\ NothingRunnableLeft'
  BY <1>1 DEF GIInv, RunAtMostOnce, WorkersCapped, NothingRunnableLeft, Known, DepsMet, With
<1>6. FollowUpsBounded'
  BY <1>1, GapsKept DEF Known
<1> QED
  BY <1>4, <1>5, <1>6 DEF GIInv

\* The superstep ends: running tasks, and no others, take their outcome.
LEMMA JoinStep ==
  ASSUME GIInv, WorkersJoin
  PROVE  GIInv'
<1> DEFINE U == [t \in sent |-> [subtasks[t] EXCEPT !.status = returned[t].status,
                                                    !.fatal = returned[t].fatal,
                                                    !.zero = (returned[t].facts = 0)]]
<1>1. /\ sent \subseteq Known /\ subtasks \in [Known -> SubTask]
      /\ \A t \in sent : Status(t) = "running" /\ returned[t] \in Outcome
  BY WaveEnded DEF GIInv, Typed
<1>4. subtasks' = [t \in Known |-> IF t \in sent THEN U[t] ELSE subtasks[t]]
  BY WaveEnded
<1>5. \A t \in sent : /\ U[t] \in SubTask
                      /\ U[t].status \in TerminalStatuses
                      /\ U[t].deps = subtasks[t].deps /\ U[t].gap = subtasks[t].gap
  BY <1>1 DEF SubTask, Outcome
<1> HIDE DEF U
<1>6. /\ Known' = Known
      /\ \A t \in Known \ sent : subtasks'[t] = subtasks[t]
      /\ \A t \in sent : subtasks'[t] \in SubTask /\ subtasks'[t].status \in TerminalStatuses
      /\ \A t \in Known : subtasks'[t].deps = subtasks[t].deps
                         /\ subtasks'[t].gap = subtasks[t].gap
  BY <1>1, <1>4, <1>5 DEF Known
<1>7. /\ sent' = {} /\ DOMAIN returned' = {} /\ returned' \in [DOMAIN returned' -> Outcome]
      /\ node' = "collector" /\ node = "workers"
      /\ UNCHANGED <<replanCount, replans, runs>>
  BY DEF WorkersJoin
<1>8. Typed'
  <2>1. subtasks' \in [Known' -> SubTask]
    BY <1>1, <1>4, <1>5, <1>6
  <2> QED
    BY <2>1, <1>6, <1>7 DEF GIInv, Typed, Nodes
<1>9. With(subtasks, "running")' = {}
  <2> SUFFICES ASSUME NEW t \in Known, subtasks'[t].status = "running" PROVE FALSE
    BY <1>6 DEF With, Known
  <2>1. t \notin sent
    BY <1>6 DEF TerminalStatuses
  <2> QED
    BY <2>1, <1>6 DEF GIInv, RunsMatch, With, Known
<1>10. RunsMatch'
  BY <1>1, <1>6, <1>7, <1>9 DEF GIInv, RunsMatch, Status, TerminalStatuses
<1>11. RunAtMostOnce'
  <2>1. \A d \in Known : Status(d) \in Done => subtasks'[d] = subtasks[d]
    BY <1>1, <1>6 DEF Done
  <2>2. \A t \in Known : DepsMet(subtasks, t) => DepsMet(subtasks, t)'
    BY <1>6, <2>1 DEF DepsMet, GIInv, RunsMatch, Status
  <2> QED
    BY <2>2, <1>6, <1>7 DEF GIInv, RunAtMostOnce
<1>12. WorkersCapped'
  BY <1>9, FS_EmptySet, GraphAssumption DEF WorkersCapped
<1>13. NothingRunnableLeft'
  BY <1>7 DEF NothingRunnableLeft
<1>14. FollowUpsBounded'
  BY <1>6, <1>7, GapsKept
<1> QED
  BY <1>8, <1>10, <1>11, <1>12, <1>13, <1>14 DEF GIInv

\* The collector keeps the failures of blocked tasks, which have not run.
LEMMA CollectorStep ==
  ASSUME GIInv, CollectorNode
  PROVE  GIInv'
<1> DEFINE marked == FailBlocked(subtasks)
<1>1. subtasks \in [Known -> SubTask] /\ sent = {} /\ node = "collector"
  BY DEF GIInv, Typed, RunsMatch, CollectorNode
<1>2. PICK updated \in SUBSET Known :
        /\ \A t \in updated : Status(t) = "pending" /\ ~DepsMet(subtasks, t)
        /\ subtasks' = [t \in Known |-> IF t \in updated
                                        THEN [subtasks[t] EXCEPT !.status = "failed"]
                                        ELSE subtasks[t]]
  BY TasksFailed, Zenon
<1>4. /\ UNCHANGED <<sent, returned, facts, replanCount, replans, exhausted, runs>>
      /\ node' = IF Finished(marked) THEN "replan" ELSE "supervisor"
  BY DEF CollectorNode
<1> HIDE DEF marked
<1>5. /\ Known' = Known
      /\ \A t \in Known : subtasks'[t] \in SubTask
      /\ \A t \in Known \ updated : subtasks'[t] = subtasks[t]
      /\ \A t \in updated : subtasks'[t].status = "failed"
      /\ \A t \in Known : subtasks'[t].deps = subtasks[t].deps
                         /\ subtasks'[t].gap = subtasks[t].gap
  <2>1. Known' = Known
    BY <1>2 DEF Known
  <2>2. \A t \in updated :
          /\ subtasks'[t] = [subtasks[t] EXCEPT !.status = "failed"]
          /\ subtasks[t] \in SubTask
    BY <1>1, <1>2
  <2>3. \A t \in updated :
          /\ subtasks'[t] \in SubTask /\ subtasks'[t].status = "failed"
          /\ subtasks'[t].deps = subtasks[t].deps /\ subtasks'[t].gap = subtasks[t].gap
    BY <2>2 DEF SubTask, TerminalStatuses
  <2>4. \A t \in Known \ updated : subtasks'[t] = subtasks[t]
    BY <1>2
  <2> QED
    BY <1>1, <2>1, <2>3, <2>4
<1>6. Typed'
  <2>1. subtasks' \in [Known' -> SubTask]
    BY <1>2, <1>5
  <2> QED
    BY <2>1, <1>4, <1>5 DEF GIInv, Typed, Nodes
<1>7. With(subtasks, "running")' = {}
  BY <1>1, <1>5 DEF GIInv, RunsMatch, With, Known
<1>8. RunsMatch'
  BY <1>1, <1>4, <1>5, <1>7 DEF GIInv, RunsMatch, Status
<1>9. \A d \in Known : Status(d) \in Done => subtasks'[d] = subtasks[d]
  BY <1>2, <1>5 DEF Done
<1>10. RunAtMostOnce'
  <2>1. \A t \in Known : DepsMet(subtasks, t) => DepsMet(subtasks, t)'
    BY <1>5, <1>9 DEF DepsMet, GIInv, RunsMatch, Status
  <2> QED
    BY <2>1, <1>4, <1>5 DEF GIInv, RunAtMostOnce
<1>11. WorkersCapped'
  BY <1>7, FS_EmptySet, GraphAssumption DEF WorkersCapped
<1>12. NothingRunnableLeft'
  <2> SUFFICES ASSUME node' = "replan", NEW t \in Known, subtasks'[t].status = "pending"
               PROVE  ~DepsMet(subtasks, t)'
    BY <1>4, <1>5 DEF NothingRunnableLeft, With, Known
  <2>1. t \notin updated /\ subtasks'[t] = subtasks[t] /\ Status(t) = "pending"
    BY <1>5 DEF Status
  <2>2. Finished(FailBlocked(subtasks))
    BY <1>4 DEF marked
  <2>3. ~DepsMet(subtasks, t)
    BY <2>1, <2>2, FinishedMeansBlocked DEF With, Known, Status
  <2>4. PICK d \in subtasks[t].deps : Status(d) \notin Done
    BY <2>3 DEF DepsMet, Status
  <2>5. d \in Known
    BY DEF GIInv, RunsMatch
  <2>6. subtasks'[d].status \notin Done
    BY <2>4, <2>5, <1>5 DEF Status, Done
  <2> QED
    BY <2>1, <2>6 DEF DepsMet
<1>13. FollowUpsBounded'
  BY <1>4, <1>5, GapsKept
<1> QED
  BY <1>6, <1>8, <1>10, <1>11, <1>12, <1>13 DEF GIInv

\* A follow-up is one more task that waits, for a gap that had none.
LEMMA ReplanStep ==
  ASSUME GIInv, ReplanNode
  PROVE  GIInv'
<1>1. /\ sent = {} /\ node = "replan" /\ Known \subseteq Ids /\ subtasks \in [Known -> SubTask]
      /\ UNCHANGED <<sent, returned, runs>>
  BY DEF GIInv, Typed, RunsMatch, ReplanNode
<1>2. CASE node' = "writer" /\ UNCHANGED <<subtasks, replans, replanCount>>
  <2>1. Typed' /\ RunsMatch'
    BY <1>1, <1>2 DEF GIInv, Typed, RunsMatch, Nodes, Known, Status, With
  <2>2. RunAtMostOnce' /\ WorkersCapped' /\ NothingRunnableLeft'
    BY <1>1, <1>2 DEF GIInv, RunAtMostOnce, WorkersCapped, NothingRunnableLeft, Known, DepsMet, With
  <2>3. FollowUpsBounded'
    BY <1>2, GapsKept DEF Known
  <2> QED
    BY <2>1, <2>2, <2>3 DEF GIInv
<1>3. ASSUME NEW n \in Ids, IsNextId(n), Replans,
             subtasks' = MergeSubtasks([t \in {n} |-> NewTask({}, 99, ZeroFactTasks)]),
             replans' = replans + 1, replanCount' = replanCount + 1, node' = "supervisor"
      PROVE  GIInv'
  <2> DEFINE new == NewTask({}, 99, ZeroFactTasks)
  <2>1. n \notin Known
    BY <1>3, FollowUpAdded
  <2>2. subtasks' = [t \in Known \cup {n} |-> IF t \in Known THEN subtasks[t] ELSE new]
    BY <1>3, FollowUpAdded
  <2>3. ZeroFactTasks \in SUBSET Ids /\ ZeroFactTasks # NoGap
    BY <1>1, GraphAssumption DEF ZeroFactTasks, NoGap
  <2>4. /\ new \in SubTask /\ new.deps = {} /\ new.status = "pending"
        /\ new.gap = ZeroFactTasks
    <3>1. {} \in SUBSET Ids /\ 99 \in Nat /\ ZeroFactTasks \in (SUBSET Ids) \cup {NoGap}
      BY <2>3
    <3>2. new \in SubTask
      BY <3>1, NewTaskTyped, Zenon
    <3> QED
      BY <3>2 DEF NewTask
  <2> HIDE DEF new
  <2>5. /\ Known' = Known \cup {n}
        /\ \A t \in Known : subtasks'[t] = subtasks[t]
        /\ subtasks'[n] = new
    BY <2>1, <2>2 DEF Known
  <2>6. Typed'
    <3>1. subtasks' \in [Known' -> SubTask]
      BY <1>1, <2>2, <2>4, <2>5
    <3> QED
      BY <1>1, <1>3, <2>5, <3>1 DEF GIInv, Typed, Nodes
  <2>7. With(subtasks, "running")' = {}
    BY <1>1, <2>4, <2>5 DEF GIInv, RunsMatch, With, Known
  <2>8. RunsMatch'
    BY <1>1, <1>3, <2>1, <2>4, <2>5, <2>7 DEF GIInv, RunsMatch, Status
  <2>9. RunAtMostOnce'
    <3>1. \A t \in Known : DepsMet(subtasks, t) => DepsMet(subtasks, t)'
      BY <2>5 DEF DepsMet, GIInv, RunsMatch
    <3>2. runs[n] = 0
      BY <2>1 DEF GIInv, RunsMatch
    <3> QED
      BY <3>1, <3>2, <1>1, <2>5 DEF GIInv, RunAtMostOnce
  <2>10. WorkersCapped'
    BY <2>7, FS_EmptySet, GraphAssumption DEF WorkersCapped
  <2>11. NothingRunnableLeft'
    BY <1>3 DEF NothingRunnableLeft
  <2>12. FollowUps' = FollowUps \cup {n} /\ n \notin FollowUps
    BY <2>1, <2>3, <2>4, <2>5 DEF FollowUps
  <2>13. IsFiniteSet(FollowUps)
    BY <1>1, GraphAssumption, FS_Subset DEF FollowUps
  <2>14. Cardinality(FollowUps') = Cardinality(FollowUps) + 1
    BY <2>12, <2>13, FS_AddElement
  <2>15. \A t \in FollowUps : t \in Known /\ subtasks[t].gap # ZeroFactTasks
    BY <1>3 DEF FollowUps, Replans
  <2>16. \A s, t \in FollowUps' : s # t => subtasks'[s].gap # subtasks'[t].gap
    BY <2>4, <2>5, <2>12, <2>15 DEF GIInv, FollowUpsBounded
  <2>17. FollowUpsBounded'
    BY <1>3, <2>14, <2>16 DEF GIInv, FollowUpsBounded
  <2> QED
    BY <2>6, <2>8, <2>9, <2>10, <2>11, <2>17 DEF GIInv
<1> QED
  BY <1>2, <1>3 DEF ReplanNode

LEMMA NextGIInv == GIInv /\ [Next]_vars => GIInv'
<1> SUFFICES ASSUME GIInv, [Next]_vars PROVE GIInv'
  OBVIOUS
<1>1. ASSUME WriterNode PROVE GIInv'
  <2>1. /\ UNCHANGED <<subtasks, sent, returned, replanCount, replans, runs>>
        /\ node = "writer" /\ node' = "end"
    BY <1>1 DEF WriterNode
  <2>2. Typed' /\ RunsMatch'
    BY <2>1 DEF GIInv, Typed, RunsMatch, Nodes, Known, Status, With
  <2>3. RunAtMostOnce' /\ WorkersCapped' /\ NothingRunnableLeft'
    BY <2>1 DEF GIInv, RunAtMostOnce, WorkersCapped, NothingRunnableLeft, Known, DepsMet, With
  <2>4. FollowUpsBounded'
    BY <2>1, GapsKept DEF Known
  <2> QED
    BY <2>2, <2>3, <2>4 DEF GIInv
<1>2. ASSUME UNCHANGED vars PROVE GIInv'
  <2>1. UNCHANGED <<node, subtasks, sent, returned, replanCount, replans, runs>>
    BY <1>2 DEF vars
  <2>2. Typed' /\ RunsMatch'
    BY <2>1 DEF GIInv, Typed, RunsMatch, Known, Status, With
  <2>3. RunAtMostOnce' /\ WorkersCapped' /\ NothingRunnableLeft'
    BY <2>1 DEF GIInv, RunAtMostOnce, WorkersCapped, NothingRunnableLeft, Known, DepsMet, With
  <2>4. FollowUpsBounded'
    BY <2>1, GapsKept DEF Known
  <2> QED
    BY <2>2, <2>3, <2>4 DEF GIInv
<1> QED
  BY <1>1, <1>2, PlannerStep, SupervisorStep, ReturnStep, JoinStep, CollectorStep, ReplanStep
     DEF Next

LEMMA GraphInductive == Spec => []GIInv
BY InitGIInv, NextGIInv, PTL DEF Spec
-----------------------------------------------------------------------------
(* The theorems. *)

\* No task is sent to a worker twice, and none before its dependencies are done,
\* for every plan and any number of replans.
THEOREM EachTaskRunsOnce == Spec => []RunAtMostOnce
BY GraphInductive, PTL DEF GIInv

\* There are never more running tasks than max_workers.
THEOREM WorkersStayCapped == Spec => []WorkersCapped
BY GraphInductive, PTL DEF GIInv

\* The run does not go on to replanning or the report while a task could run.
THEOREM NoTaskForgotten == Spec => []NothingRunnableLeft
BY GraphInductive, PTL DEF GIInv

\* There are as many follow-ups as replans counted, each for a gap of its own.
THEOREM FollowUpsAreCounted == Spec => []FollowUpsBounded
BY GraphInductive, PTL DEF GIInv
-----------------------------------------------------------------------------
(* The counters and the types. *)

Counters == facts \in Nat /\ replans <= MaxReplans /\ exhausted \in BOOLEAN

\* The facts only grow, and a replan needs one that is left.
LEMMA CountersStep ==
  ASSUME GIInv, Counters, [Next]_vars
  PROVE  Counters'
<1>1. facts \in Nat /\ replans \in Nat /\ replans <= MaxReplans /\ exhausted \in BOOLEAN
  BY DEF GIInv, Typed, Counters
<1>2. CASE UNCHANGED <<facts, replans, exhausted>>
  BY <1>1, <1>2 DEF Counters
<1>3. ASSUME NEW t \in Ids, WorkerReturns(t) PROVE Counters'
  BY <1>1, <1>3 DEF WorkerReturns, Counters
<1>4. CASE WorkersJoin
  <2> DEFINE brought == [t \in sent |-> returned[t].facts]
  <2>1. facts' = facts + SumFunctionOnSet(brought, sent)
    BY <1>4 DEF WorkersJoin
  <2>2. IsFiniteSet(sent)
    BY GraphAssumption, FS_Subset DEF GIInv, Typed
  <2>3. \A t \in sent : brought[t] \in Nat
    BY <1>4, GraphAssumption DEF WorkersJoin, GIInv, Typed, Outcome
  <2> HIDE DEF brought
  <2>4. SumFunctionOnSet(brought, sent) \in Nat
    BY <2>2, <2>3, SumTakesOut
  <2>5. facts' \in Nat
    BY <1>1, <2>1, <2>4
  <2> QED
    BY <1>1, <1>4, <2>5 DEF WorkersJoin, Counters
<1>5. CASE ReplanNode
  <2>1. /\ UNCHANGED <<facts, exhausted>>
        /\ replans' = replans \/ (replans' = replans + 1 /\ replans < MaxReplans)
    BY <1>5 DEF ReplanNode, Replans
  <2> QED
    BY <1>1, <2>1, GraphAssumption DEF Counters
<1> QED
  BY <1>2, <1>3, <1>4, <1>5
     DEF Next, vars, PlannerNode, SupervisorNode, CollectorNode, WriterNode

\* The types: the reducers keep every task in the form the nodes expect, and the
\* replans stay within the budget's limit.
THEOREM GraphTypeCorrect == Spec => []GraphTypeOK
<1>1. Init => GIInv /\ Counters
  <2>1. MaxReplans \in Nat
    BY GraphAssumption
  <2>2. ASSUME Init PROVE Counters
    <3>1. facts = 0 /\ replans = 0 /\ exhausted = FALSE
      BY <2>2 DEF Init
    <3>2. 0 <= MaxReplans
      BY <2>1
    <3>3. exhausted \in BOOLEAN
      BY <3>1
    <3> QED
      BY <3>1, <3>2, <3>3 DEF Counters
  <2> QED
    BY <2>2, InitGIInv
<1>2. GIInv /\ Counters /\ [Next]_vars => (GIInv /\ Counters)'
  BY NextGIInv, CountersStep
<1>3. GIInv /\ Counters => GraphTypeOK
  BY GraphAssumption DEF GIInv, Typed, FollowUpsBounded, Counters, GraphTypeOK, Nodes
<1> QED
  BY <1>1, <1>2, <1>3, PTL DEF Spec
-----------------------------------------------------------------------------
(* Kahn's algorithm and cycles. *)

\* The tasks visited in the first 0, 1, ..., m rounds.
Rounds(v, m, plan) ==
  v = [k \in 0..m |-> IF k = 0 THEN {} ELSE {t \in DOMAIN plan : plan[t].deps \subseteq v[k - 1]}]

LEMMA RoundsExist ==
  ASSUME NEW plan, NEW m \in Nat
  PROVE  \E v : Rounds(v, m, plan)
<1> DEFINE S == {i \in Nat : \E v : Rounds(v, i, plan)}
           Visits(v) == {t \in DOMAIN plan : plan[t].deps \subseteq v}
<1>1. 0 \in S
  <2>1. Rounds([k \in 0..0 |-> {}], 0, plan)
    BY DEF Rounds
  <2> QED
    BY <2>1
<1>2. ASSUME NEW i \in S PROVE i + 1 \in S
  <2>1. PICK v : Rounds(v, i, plan)
    OBVIOUS
  <2> DEFINE w == [k \in 0..(i + 1) |-> IF k = i + 1 THEN Visits(v[i]) ELSE v[k]]
  <2>2. \A k \in 0..i : v[k] = IF k = 0 THEN {} ELSE Visits(v[k - 1])
    <3>1. v = [k \in 0..i |-> IF k = 0 THEN {} ELSE Visits(v[k - 1])]
      BY <2>1 DEF Rounds
    <3> HIDE DEF Visits
    <3> DEFINE q == [k \in 0..i |-> IF k = 0 THEN {} ELSE Visits(v[k - 1])]
    <3>2. \A k \in 0..i : q[k] = IF k = 0 THEN {} ELSE Visits(v[k - 1])
      OBVIOUS
    <3>3. v = q
      BY <3>1
    <3> HIDE DEF q
    <3> QED
      BY <3>2, <3>3, Zenon
  <2> HIDE DEF Visits
  <2>3. ASSUME NEW k \in 0..(i + 1)
        PROVE  w[k] = IF k = 0 THEN {} ELSE Visits(w[k - 1])
    <3>1. CASE k = i + 1
      BY <3>1
    <3>2. CASE k # i + 1
      <4>1. k \in 0..i /\ w[k] = v[k]
        BY <3>2
      <4>2. k # 0 => k - 1 \in 0..i /\ w[k - 1] = v[k - 1]
        BY <3>2
      <4> HIDE DEF w
      <4> QED
        BY <4>1, <4>2, <2>2
    <3> QED
      BY <3>1, <3>2
  <2>4. Rounds(w, i + 1, plan)
    <3>1. w = [k \in 0..(i + 1) |-> w[k]]
      OBVIOUS
    <3> HIDE DEF w
    <3>2. w = [k \in 0..(i + 1) |-> IF k = 0 THEN {} ELSE Visits(w[k - 1])]
      BY <3>1, <2>3
    <3> QED
      BY <3>2 DEF Rounds, Visits
  <2> HIDE DEF w
  <2> QED
    BY <2>4
<1>3. S = Nat
  <2>1. S \subseteq Nat
    OBVIOUS
  <2> HIDE DEF S
  <2> QED
    BY <1>1, <1>2, <2>1, SetInduction
<1> QED
  BY <1>3

\* validate_plan accepts no cycle: in every group of tasks of a valid plan one
\* depends on no other of the group.  The tasks of a group without such a task
\* would be visited in no round.
LEMMA ValidPlanHasNoCycle ==
  ASSUME NEW plan, ValidPlan(plan), IsFiniteSet(DOMAIN plan),
         NEW G \in SUBSET DOMAIN plan, G # {}
  PROVE  \E t \in G : plan[t].deps \cap G = {}
<1> SUFFICES ASSUME \A t \in G : plan[t].deps \cap G # {} PROVE FALSE
  OBVIOUS
<1> DEFINE n == Cardinality(DOMAIN plan)
           Step(v) == [k \in 0..n |-> IF k = 0 THEN {}
                                      ELSE {t \in DOMAIN plan : plan[t].deps \subseteq v[k - 1]}]
           visited == CHOOSE v : v = Step(v)
<1>1. n \in Nat
  BY FS_CardinalityType
<1>2. visited = Step(visited)
  <2>1. PICK v : Rounds(v, n, plan)
    BY <1>1, RoundsExist
  <2>2. v = Step(v)
    BY <2>1 DEF Rounds
  <2> HIDE DEF Step
  <2> QED
    BY <2>2
<1>3. visited[n] = DOMAIN plan
  BY DEF ValidPlan, Visited
<1> HIDE DEF visited
<1>4. \A k \in 0..n : visited[k] = IF k = 0 THEN {}
                                   ELSE {t \in DOMAIN plan : plan[t].deps \subseteq visited[k - 1]}
  <2> DEFINE q == Step(visited)
  <2>1. \A k \in 0..n : q[k] = IF k = 0 THEN {}
                               ELSE {t \in DOMAIN plan : plan[t].deps \subseteq visited[k - 1]}
    OBVIOUS
  <2>2. visited = q
    BY <1>2
  <2> HIDE DEF q
  <2> QED
    BY <2>1, <2>2, Zenon
<1> DEFINE S == {k \in Nat : k <= n => G \cap visited[k] = {}}
<1> HIDE DEF n
<1>5. 0 \in S
  <2>1. 0 \in 0..n
    BY <1>1
  <2>2. visited[0] = {}
    BY <2>1, <1>4
  <2> QED
    BY <2>2
<1>6. ASSUME NEW k \in S PROVE k + 1 \in S
  <2>1. SUFFICES ASSUME k + 1 <= n, NEW t \in G, t \in visited[k + 1] PROVE FALSE
    OBVIOUS
  <2>2. k + 1 \in 0..n /\ k + 1 # 0 /\ (k + 1) - 1 = k /\ k <= n
    BY <1>1, <2>1
  <2>3. plan[t].deps \subseteq visited[k]
    BY <2>1, <2>2, <1>4
  <2>4. G \cap visited[k] = {}
    BY <2>2
  <2> QED
    BY <2>3, <2>4
<1>7. S = Nat
  <2>1. S \subseteq Nat
    OBVIOUS
  <2> HIDE DEF S
  <2> QED
    BY <1>5, <1>6, <2>1, SetInduction
<1>8. G \cap visited[n] = {}
  BY <1>1, <1>7
<1> QED
  BY <1>3, <1>8

\* The plan has no cycle, and a follow-up waits for nothing.
Acyclic ==
  \A S \in SUBSET Known : S # {} => \E t \in S : subtasks[t].deps \cap S = {}

\* What a step may do to the form of the tasks: the planner makes it, a follow-up
\* is added, and otherwise a task keeps its dependencies and its gap.
Kept == Known' = Known /\ \A t \in Known : /\ subtasks'[t].deps = subtasks[t].deps
                                           /\ subtasks'[t].gap = subtasks[t].gap

Installs(plan) ==
  /\ ValidPlan(plan) /\ node = "planner" /\ node' = "supervisor" /\ Known = {} /\ Known' = Planned
  /\ \A t \in Planned : subtasks'[t].deps = plan[t].deps /\ subtasks'[t].gap = NoGap

Adds(n) ==
  /\ n \notin Known /\ Known' = Known \cup {n} /\ node = "replan"
  /\ subtasks'[n].deps = {} /\ subtasks'[n].gap # NoGap
  /\ \A t \in Known : subtasks'[t] = subtasks[t]

LEMMA FormsMove ==
  ASSUME GIInv, [Next]_vars
  PROVE  \/ Kept
         \/ \E plan \in [Planned -> [deps : SUBSET Ids, priority : Priorities]] : Installs(plan)
         \/ \E n \in Ids : Adds(n)
<1>1. ASSUME UNCHANGED subtasks PROVE Kept
  BY <1>1 DEF Known, Kept
<1>2. ASSUME PlannerNode, subtasks' # subtasks
      PROVE  \E plan \in [Planned -> [deps : SUBSET Ids, priority : Priorities]] : Installs(plan)
  <2>1. PICK plan \in [Planned -> [deps : SUBSET Ids, priority : Priorities]] :
          /\ ValidPlan(plan) /\ node' = "supervisor"
          /\ subtasks' = MergeSubtasks(
               [t \in DOMAIN plan |-> NewTask(plan[t].deps, plan[t].priority, NoGap)])
    BY <1>2 DEF PlannerNode
  <2>2. /\ Known = {} /\ Known' = Planned /\ node = "planner"
        /\ subtasks' = [t \in Planned |-> NewTask(plan[t].deps, plan[t].priority, NoGap)]
    BY <1>2, <2>1, PlanInstalled DEF PlannerNode
  <2>3. \A t \in Planned : subtasks'[t].deps = plan[t].deps /\ subtasks'[t].gap = NoGap
    BY <2>2 DEF NewTask
  <2> QED
    BY <2>1, <2>2, <2>3 DEF Installs
<1>3. \A t \in Known : subtasks[t] \in SubTask
  BY DEF GIInv, Typed
<1>4. ASSUME SupervisorNode, subtasks' # subtasks PROVE Kept
  <2>1. PICK chosen : /\ chosen = Dispatch(FailBlocked(subtasks))
                      /\ subtasks' = MergeSubtasks(
                           [t \in chosen |-> [FailBlocked(subtasks)[t] EXCEPT !.status = "running"]])
    BY <1>4 DEF SupervisorNode
  <2>2. subtasks' = [t \in Known |-> IF t \in chosen THEN [subtasks[t] EXCEPT !.status = "running"]
                                     ELSE subtasks[t]]
    BY <1>4, <2>1, WaveSent
  <2> QED
    BY <1>3, <2>2 DEF Known, SubTask, Kept
<1>5. ASSUME WorkersJoin PROVE Kept
  <2> DEFINE U(t) == [subtasks[t] EXCEPT !.status = returned[t].status,
                                         !.fatal = returned[t].fatal,
                                         !.zero = (returned[t].facts = 0)]
  <2>1. sent \subseteq Known /\ subtasks' = [t \in Known |-> IF t \in sent THEN U(t) ELSE subtasks[t]]
    BY <1>5, WaveEnded
  <2>2. \A t \in sent : U(t).deps = subtasks[t].deps /\ U(t).gap = subtasks[t].gap
    BY <1>3, <2>1 DEF SubTask
  <2> HIDE DEF U
  <2> QED
    BY <2>1, <2>2 DEF Known, Kept
<1>6. ASSUME CollectorNode PROVE Kept
  <2>1. PICK lost \in SUBSET Known :
          subtasks' = [t \in Known |-> IF t \in lost THEN [subtasks[t] EXCEPT !.status = "failed"]
                                       ELSE subtasks[t]]
    BY <1>6, TasksFailed
  <2> QED
    BY <1>3, <2>1 DEF Known, SubTask, Kept
<1>7. ASSUME ReplanNode, subtasks' # subtasks PROVE \E n \in Ids : Adds(n)
  <2>1. PICK n \in Ids :
          /\ IsNextId(n) /\ node = "replan"
          /\ subtasks' = MergeSubtasks([t \in {n} |-> NewTask({}, 99, ZeroFactTasks)])
    BY <1>7 DEF ReplanNode
  <2>2. /\ n \notin Known
        /\ subtasks' = [t \in Known \cup {n} |->
                          IF t \in Known THEN subtasks[t] ELSE NewTask({}, 99, ZeroFactTasks)]
    BY <2>1, FollowUpAdded
  <2>3. subtasks'[n] = NewTask({}, 99, ZeroFactTasks) /\ \A t \in Known : subtasks'[t] = subtasks[t]
    BY <2>2
  <2>4. ZeroFactTasks # NoGap
    BY GraphAssumption DEF ZeroFactTasks, NoGap, GIInv, Typed
  <2>5. subtasks'[n].deps = {} /\ subtasks'[n].gap # NoGap
    BY <2>3, <2>4 DEF NewTask
  <2> QED
    BY <2>1, <2>2, <2>3, <2>5 DEF Known, Adds
<1>8. \/ subtasks' = subtasks \/ PlannerNode \/ SupervisorNode \/ WorkersJoin
      \/ CollectorNode \/ ReplanNode
  BY DEF Next, vars, WorkerReturns, WriterNode
<1> QED
  BY <1>1, <1>2, <1>4, <1>5, <1>6, <1>7, <1>8

LEMMA AcyclicStep ==
  ASSUME GIInv, Acyclic, [Next]_vars
  PROVE  Acyclic'
<1>1. CASE Kept
  BY <1>1 DEF Acyclic, Kept
<1>2. ASSUME NEW plan \in [Planned -> [deps : SUBSET Ids, priority : Priorities]], Installs(plan)
      PROVE  Acyclic'
  <2>1. DOMAIN plan = Planned /\ IsFiniteSet(Planned)
    BY GraphAssumption, FS_Subset
  <2>2. \A S \in SUBSET Planned : S # {} => \E t \in S : plan[t].deps \cap S = {}
    BY <1>2, <2>1, ValidPlanHasNoCycle DEF Installs
  <2> QED
    BY <1>2, <2>2 DEF Acyclic, Installs
<1>3. ASSUME NEW n \in Ids, Adds(n) PROVE Acyclic'
  <2> SUFFICES ASSUME NEW S \in SUBSET (Known \cup {n}), S # {}
               PROVE  \E t \in S : subtasks'[t].deps \cap S = {}
    BY <1>3 DEF Acyclic, Adds
  <2>1. CASE n \in S
    BY <1>3, <2>1 DEF Adds
  <2>2. CASE n \notin S
    BY <1>3, <2>2 DEF Acyclic, Adds
  <2> QED
    BY <2>1, <2>2
<1> QED
  BY <1>1, <1>2, <1>3, FormsMove

LEMMA AcyclicInductive == Spec => [](GIInv /\ Acyclic)
<1>1. Init => Acyclic
  BY DEF Init, Acyclic, Known
<1> QED
  BY <1>1, InitGIInv, NextGIInv, AcyclicStep, PTL DEF Spec

\* Of the tasks of the set that are pending, one waits for none of the others.
\* It waits for a task of the set that has ended, and not with a result.
THEOREM BlockedBehindFailures == Spec => []OnlyFailuresBlock
<1>1. GIInv /\ Acyclic => OnlyFailuresBlock
  <2> SUFFICES ASSUME GIInv, Acyclic, node \in {"replan", "writer", "end"},
                      NEW u \in With(subtasks, "pending"), NEW S \in SUBSET Known,
                      u \in S, \A s \in S : subtasks[s].deps \subseteq S
               PROVE  \E s \in S : Status(s) \in {"failed", "cancelled"}
    BY DEF OnlyFailuresBlock
  <2> DEFINE W == S \cap With(subtasks, "pending")
  <2>1. PICK t \in W : subtasks[t].deps \cap W = {}
    BY DEF Acyclic
  <2>2. PICK d \in subtasks[t].deps : Status(d) \notin Done
    BY DEF GIInv, NothingRunnableLeft, DepsMet, Status
  <2>3. d \in S /\ Status(d) # "pending"
    BY <2>1, <2>2 DEF With, Known, Status
  <2>4. Status(d) # "running"
    BY <2>3 DEF GIInv, RunsMatch, With, Known, Status
  <2>5. subtasks[d] \in SubTask
    BY <2>3 DEF GIInv, Typed
  <2>6. Status(d) \in {"failed", "cancelled"}
    BY <2>2, <2>3, <2>4, <2>5 DEF SubTask, TerminalStatuses, Done, Status
  <2> QED
    BY <2>3, <2>6
<1> QED
  BY <1>1, AcyclicInductive, PTL
-----------------------------------------------------------------------------
(* The tasks as a TaskBoard. *)

\* The tasks of the plan are there from the planner on, and the others are the
\* follow-ups.
PlanThere ==
  /\ FollowUps = Known \ Planned
  /\ node \notin {"planner", "invalid_plan"} => Planned \subseteq Known

LEMMA PlanThereStep ==
  ASSUME GIInv, PlanThere, [Next]_vars
  PROVE  PlanThere'
<1>1. ASSUME Kept PROVE PlanThere'
  <2>1. FollowUps' = FollowUps
    BY <1>1 DEF Kept, FollowUps
  <2>2. node = "planner" /\ node' # "planner" => node' = "invalid_plan" \/ Planned \subseteq Known'
    <3> SUFFICES ASSUME PlannerNode, node' # "invalid_plan" PROVE Planned \subseteq Known'
      BY DEF Next, vars, SupervisorNode, WorkerReturns, WorkersJoin, CollectorNode, ReplanNode,
             WriterNode
    <3> QED
      BY PlanInstalled DEF PlannerNode
  <2>3. node = "invalid_plan" => node' = "invalid_plan"
    BY DEF Next, vars, PlannerNode, SupervisorNode, WorkerReturns, WorkersJoin, CollectorNode,
           ReplanNode, WriterNode
  <2> QED
    BY <1>1, <2>1, <2>2, <2>3 DEF PlanThere, Kept
<1>2. ASSUME NEW plan, Installs(plan) PROVE PlanThere'
  BY <1>2 DEF PlanThere, Installs, FollowUps
<1>3. ASSUME NEW n \in Ids, Adds(n) PROVE PlanThere'
  <2>1. FollowUps' = FollowUps \cup {n} /\ Known' = Known \cup {n} /\ n \notin Known
    BY <1>3 DEF Adds, FollowUps
  <2>2. Planned \subseteq Known
    BY <1>3 DEF PlanThere, Adds
  <2> QED
    BY <2>1, <2>2 DEF PlanThere
<1> QED
  BY <1>1, <1>2, <1>3, FormsMove

\* The board that the tasks are.
Entry(t) == [deps |-> subtasks[t].deps, state |-> State(Status(t))]
Tasks == [t \in Known |-> Entry(t)]

\* What the board shows of the tasks.
LEMMA BoardShows ==
  ASSUME GIInv
  PROVE  /\ DOMAIN Tasks = Known
         /\ Board!In("running") = sent
         /\ Board!In("waiting") = With(subtasks, "pending")
         /\ \A t \in Known : /\ Board!Ready(t) <=> Status(t) = "pending" /\ DepsMet(subtasks, t)
                             /\ Tasks[t].state = "failed" <=> Status(t) = "failed"
<1>1. \A t \in Known : subtasks[t] \in SubTask /\ subtasks[t].deps \subseteq Known
  BY DEF GIInv, Typed, RunsMatch
<1>2. \A t \in Known : /\ Tasks[t].deps = subtasks[t].deps /\ Tasks[t].state = State(Status(t))
                       /\ State(Status(t)) = "running" <=> Status(t) = "running"
                       /\ State(Status(t)) = "waiting" <=> Status(t) = "pending"
                       /\ State(Status(t)) = "failed" <=> Status(t) = "failed"
                       /\ State(Status(t)) = "done" <=> Status(t) \in Done
  BY <1>1 DEF Tasks, Entry, State, Status, SubTask, TerminalStatuses, Done
<1>3. DOMAIN Tasks = Known
  BY DEF Tasks
<1>4. Board!In("running") = sent /\ Board!In("waiting") = With(subtasks, "pending")
  BY <1>2, <1>3 DEF Board!In, With, Known, Status, GIInv, RunsMatch, Tasks, Entry
<1>5. \A t \in Known : Board!Ready(t) <=> Status(t) = "pending" /\ DepsMet(subtasks, t)
  BY <1>1, <1>2, <1>3 DEF Board!Ready, DepsMet, Status, Tasks, Entry
<1> QED
  BY <1>2, <1>3, <1>4, <1>5

\* The board counts as the graph does.
LEMMA SameCardinality ==
  ASSUME NEW S
  PROVE  Board!Cardinality(S) = Cardinality(S)
BY DEF Board!Cardinality, Cardinality

\* Each node is a step of the board.
LEMMA PlannerOnBoard ==
  ASSUME GIInv, PlannerNode, subtasks' # subtasks
  PROVE  Board!Plan
<1>1. PICK plan \in [Planned -> [deps : SUBSET Ids, priority : Priorities]] :
        /\ ValidPlan(plan)
        /\ subtasks' = MergeSubtasks(
             [t \in DOMAIN plan |-> NewTask(plan[t].deps, plan[t].priority, NoGap)])
  BY DEF PlannerNode
<1>2. /\ Known = {} /\ Known' = Planned
      /\ subtasks' = [t \in Planned |-> NewTask(plan[t].deps, plan[t].priority, NoGap)]
      /\ \A t \in Planned : plan[t].deps \subseteq Planned
  BY <1>1, PlanInstalled
<1>3. \A t \in Planned : subtasks'[t].deps = plan[t].deps /\ subtasks'[t].status = "pending"
  BY <1>2 DEF NewTask
<1>4. Tasks' = [t \in Planned |-> [deps |-> plan[t].deps, state |-> "waiting"]]
  BY <1>2, <1>3 DEF Tasks, Entry, State, Status
<1>5. Tasks' \in [Planned -> [deps : SUBSET Planned, state : {"waiting"}]]
  BY <1>2, <1>4
<1>6. Board!NoCycle([t \in Planned |-> Tasks'[t].deps])
  <2>1. DOMAIN plan = Planned /\ IsFiniteSet(Planned)
    BY GraphAssumption, FS_Subset
  <2>2. \A S \in SUBSET Planned : S # {} => \E t \in S : plan[t].deps \cap S = {}
    BY <1>1, <2>1, ValidPlanHasNoCycle
  <2> QED
    BY <1>4, <2>2 DEF Board!NoCycle
<1>7. DOMAIN Tasks = {}
  BY <1>2 DEF Tasks
<1> QED
  BY <1>5, <1>6, <1>7 DEF Board!Plan, Tasks, Entry

LEMMA SupervisorOnBoard ==
  ASSUME GIInv, SupervisorNode, subtasks' # subtasks
  PROVE  Board!Send
<1>1. PICK chosen : /\ chosen = Dispatch(FailBlocked(subtasks))
                    /\ subtasks' = MergeSubtasks(
                         [t \in chosen |-> [FailBlocked(subtasks)[t] EXCEPT !.status = "running"]])
  BY DEF SupervisorNode
<1>2. /\ chosen \subseteq Known /\ Cardinality(chosen) <= MaxWorkers
      /\ \A t \in chosen : Status(t) = "pending" /\ DepsMet(subtasks, t)
      /\ subtasks' = [t \in Known |-> IF t \in chosen THEN [subtasks[t] EXCEPT !.status = "running"]
                                      ELSE subtasks[t]]
  BY <1>1, WaveSent
<1>3. \A t \in Known : subtasks[t] \in SubTask
  BY DEF GIInv, Typed
<1>4. \A t \in Known : Entry(t)' = IF t \in chosen THEN [Entry(t) EXCEPT !.state = "running"]
                                   ELSE Entry(t)
  BY <1>2, <1>3 DEF Entry, State, Status, SubTask, Done
<1>5. Tasks' = [t \in DOMAIN Tasks |-> IF t \in chosen THEN [Tasks[t] EXCEPT !.state = "running"]
                                       ELSE Tasks[t]]
  BY <1>2, <1>4 DEF Tasks, Known
<1>6. sent = {}
  BY DEF GIInv, RunsMatch, SupervisorNode
<1>7. Board!In("running") = {} /\ chosen \in SUBSET {t \in DOMAIN Tasks : Board!Ready(t)}
  BY <1>2, <1>6, BoardShows
<1>8. \E wave \in SUBSET {t \in DOMAIN Tasks : Board!Ready(t)} :
        /\ Cardinality(wave) <= MaxWorkers
        /\ Tasks' = [t \in DOMAIN Tasks |-> IF t \in wave THEN [Tasks[t] EXCEPT !.state = "running"]
                                            ELSE Tasks[t]]
  BY <1>2, <1>5, <1>7, Zenon
<1> QED
  BY <1>7, <1>8, SameCardinality, Zenon DEF Board!Send, Tasks, Entry

LEMMA JoinOnBoard ==
  ASSUME GIInv, WorkersJoin
  PROVE  Board!Return
<1> DEFINE U(t) == [subtasks[t] EXCEPT !.status = returned[t].status,
                                       !.fatal = returned[t].fatal,
                                       !.zero = (returned[t].facts = 0)]
           ends == [t \in sent |-> State(returned[t].status)]
<1>1. /\ sent \subseteq Known /\ \A t \in sent : returned[t] \in Outcome
      /\ subtasks' = [t \in Known |-> IF t \in sent THEN U(t) ELSE subtasks[t]]
  BY WaveEnded
<1>2. \A t \in Known : subtasks[t] \in SubTask
  BY DEF GIInv, Typed
<1>3. \A t \in sent : U(t).deps = subtasks[t].deps /\ U(t).status = returned[t].status
  BY <1>1, <1>2 DEF SubTask
<1>4. ends \in [sent -> {"done", "failed", "cancelled"}]
  BY <1>1 DEF State, Outcome, TerminalStatuses, Done
<1> HIDE DEF U
<1>5. \A t \in Known : Entry(t)' = IF t \in sent THEN [Entry(t) EXCEPT !.state = ends[t]] ELSE Entry(t)
  BY <1>1, <1>3 DEF Entry, Status
<1> HIDE DEF ends
<1>6. Tasks' = [t \in DOMAIN Tasks |-> IF t \in sent THEN [Tasks[t] EXCEPT !.state = ends[t]]
                                       ELSE Tasks[t]]
  BY <1>1, <1>5 DEF Tasks, Known
<1>7. Board!In("running") = sent
  BY BoardShows
<1> QED
  BY <1>4, <1>6, <1>7 DEF Board!Return, Tasks, Entry

LEMMA CollectorOnBoard ==
  ASSUME GIInv, CollectorNode
  PROVE  Board!GiveUp
<1>1. PICK lost \in SUBSET Known :
        /\ \A t \in lost : Status(t) = "pending" /\ \E d \in subtasks[t].deps : Status(d) = "failed"
        /\ subtasks' = [t \in Known |-> IF t \in lost THEN [subtasks[t] EXCEPT !.status = "failed"]
                                        ELSE subtasks[t]]
  BY TasksFailed
<1>2. \A t \in Known : subtasks[t] \in SubTask /\ subtasks[t].deps \subseteq Known
  BY DEF GIInv, Typed, RunsMatch
<1>3. \A t \in Known : Entry(t)' = IF t \in lost THEN [Entry(t) EXCEPT !.state = "failed"] ELSE Entry(t)
  BY <1>1, <1>2 DEF Entry, State, Status, SubTask, Done
<1>4. Tasks' = [t \in DOMAIN Tasks |-> IF t \in lost THEN [Tasks[t] EXCEPT !.state = "failed"]
                                       ELSE Tasks[t]]
  BY <1>1, <1>3 DEF Tasks, Known
<1>5. sent = {}
  BY DEF GIInv, RunsMatch, CollectorNode
<1>6. Board!In("running") = {} /\ lost \in SUBSET Board!In("waiting")
  BY <1>1, <1>5, BoardShows DEF With, Known, Status
<1>7. \A t \in lost : \E d \in Tasks[t].deps : Tasks[d].state = "failed"
  BY <1>1, <1>2, BoardShows DEF Tasks, Entry
<1> QED
  BY <1>4, <1>6, <1>7 DEF Board!GiveUp, Tasks, Entry

LEMMA ReplanOnBoard ==
  ASSUME GIInv, PlanThere, ReplanNode, subtasks' # subtasks
  PROVE  Board!FollowUp
<1>1. PICK n \in Ids :
        /\ IsNextId(n) /\ Replans /\ node = "replan"
        /\ subtasks' = MergeSubtasks([t \in {n} |-> NewTask({}, 99, ZeroFactTasks)])
  BY DEF ReplanNode
<1>2. /\ n \notin Known
      /\ subtasks' = [t \in Known \cup {n} |->
                        IF t \in Known THEN subtasks[t] ELSE NewTask({}, 99, ZeroFactTasks)]
  BY <1>1, FollowUpAdded
<1>3. subtasks'[n].deps = {} /\ subtasks'[n].status = "pending"
  BY <1>2 DEF NewTask
<1>4. Tasks' = [t \in DOMAIN Tasks \cup {n} |->
                  IF t = n THEN [deps |-> {}, state |-> "waiting"] ELSE Tasks[t]]
  BY <1>2, <1>3 DEF Tasks, Entry, State, Status, Known
<1>5. Board!In("running") = {} /\ \A t \in DOMAIN Tasks : ~Board!Ready(t)
  BY <1>1, BoardShows DEF GIInv, RunsMatch, NothingRunnableLeft, With, Known, Status
<1>6. Cardinality(DOMAIN Tasks \ Planned) < MaxReplans
  BY <1>1 DEF Tasks, PlanThere, GIInv, FollowUpsBounded, Replans
<1>7. n \in Ids \ (DOMAIN Tasks \cup Planned)
  BY <1>1, <1>2 DEF PlanThere, Tasks
<1>8. \E m \in Ids \ (DOMAIN Tasks \cup Planned) :
        Tasks' = [t \in DOMAIN Tasks \cup {m} |->
                    IF t = m THEN [deps |-> {}, state |-> "waiting"] ELSE Tasks[t]]
  BY <1>4, <1>7, Zenon
<1> QED
  BY <1>5, <1>6, <1>8, SameCardinality, Zenon DEF Board!FollowUp, Tasks, Entry

\* The graph implements TaskBoard: through every node, plan and replan a task waits
\* for its dependencies, runs once, in a wave of bounded size, and stays as it ended.
THEOREM GraphImplementsBoard == Spec => BoardRefined
<1>1. Init => Board!BoardInit /\ PlanThere
  <2> SUFFICES ASSUME Init PROVE Board!BoardInit /\ PlanThere
    OBVIOUS
  <2>1. Known = {} /\ FollowUps = {} /\ node = "planner"
    BY DEF Init, Known, FollowUps
  <2> QED
    BY <2>1 DEF Board!BoardInit, PlanThere
<1>2. GIInv /\ PlanThere /\ [Next]_vars => [Board!BoardNext]_Tasks
  <2> SUFFICES ASSUME GIInv, PlanThere, [Next]_vars PROVE Board!BoardNext \/ Tasks' = Tasks
    OBVIOUS
  <2>1. ASSUME subtasks' = subtasks PROVE Tasks' = Tasks
    BY <2>1 DEF Tasks, Entry, Status, Known
  <2>2. \/ subtasks' = subtasks \/ PlannerNode \/ SupervisorNode \/ WorkersJoin
        \/ CollectorNode \/ ReplanNode
    BY DEF Next, vars, WorkerReturns, WriterNode
  <2> QED
    BY <2>1, <2>2, PlannerOnBoard, SupervisorOnBoard, JoinOnBoard, CollectorOnBoard, ReplanOnBoard
       DEF Board!BoardNext
<1>3. Spec => [](GIInv /\ PlanThere)
  BY <1>1, InitGIInv, NextGIInv, PlanThereStep, PTL DEF Spec
<1> QED
  BY <1>1, <1>2, <1>3, PTL DEF Spec, BoardRefined, Board!BoardSpec, Tasks, Entry
=============================================================================
