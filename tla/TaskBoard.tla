----------------------------- MODULE TaskBoard -----------------------------
(***************************************************************************)
(* What the research graph promises about the tasks of one run, without    *)
(* its nodes, reducers, priorities and counters.  A task waits until all   *)
(* its dependencies are done, runs once in a wave of bounded size, and     *)
(* stays as it ended.  A task that can never run may be given up.  More    *)
(* tasks are added only when nothing runs and nothing could.               *)
(***************************************************************************)
EXTENDS Integers, FiniteSets

CONSTANTS
  TaskIds,       \* the ids a task may have
  Initial,       \* the tasks of the plan
  MaxRunning,    \* how many tasks may run at once
  MaxFollowUps   \* how many tasks may be added to the plan

VARIABLE board   \* for each task, the tasks it depends on and its state

In(state) == {t \in DOMAIN board : board[t].state = state}

\* No task waits for itself, directly or through others: in every group of tasks
\* there is one that depends on no other of the group.
NoCycle(deps) ==
  \A group \in SUBSET DOMAIN deps :
    group # {} => \E t \in group : deps[t] \cap group = {}

Ready(t) == board[t].state = "waiting" /\ \A d \in board[t].deps : board[d].state = "done"

BoardInit == board = [t \in {} |-> {}]

Plan ==
  /\ DOMAIN board = {}
  /\ board' \in [Initial -> [deps : SUBSET Initial, state : {"waiting"}]]
  /\ NoCycle([t \in Initial |-> board'[t].deps])

\* A wave starts when no other is under way.
Send ==
  /\ In("running") = {}
  /\ \E wave \in SUBSET {t \in DOMAIN board : Ready(t)} :
       /\ Cardinality(wave) <= MaxRunning
       /\ board' = [t \in DOMAIN board |->
                      IF t \in wave THEN [board[t] EXCEPT !.state = "running"] ELSE board[t]]

\* The whole wave ends.
Return ==
  \E ends \in [In("running") -> {"done", "failed", "cancelled"}] :
    board' = [t \in DOMAIN board |->
                IF t \in In("running") THEN [board[t] EXCEPT !.state = ends[t]] ELSE board[t]]

\* Tasks that wait for one that failed are given up.
GiveUp ==
  /\ In("running") = {}
  /\ \E lost \in SUBSET In("waiting") :
       /\ \A t \in lost : \E d \in board[t].deps : board[d].state = "failed"
       /\ board' = [t \in DOMAIN board |->
                      IF t \in lost THEN [board[t] EXCEPT !.state = "failed"] ELSE board[t]]

FollowUp ==
  /\ In("running") = {} /\ \A t \in DOMAIN board : ~Ready(t)
  /\ Cardinality(DOMAIN board \ Initial) < MaxFollowUps
  /\ \E n \in TaskIds \ (DOMAIN board \cup Initial) :
       board' = [t \in DOMAIN board \cup {n} |->
                   IF t = n THEN [deps |-> {}, state |-> "waiting"] ELSE board[t]]

BoardNext == Plan \/ Send \/ Return \/ GiveUp \/ FollowUp

BoardSpec == BoardInit /\ [][BoardNext]_board
=============================================================================
