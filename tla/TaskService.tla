---------------------------- MODULE TaskService ----------------------------
(***************************************************************************)
(* The research tasks of the HTTP service: the routes of src/api/main.py,  *)
(* the store of src/api/task_store.py with its JSON file, and the          *)
(* background coroutine of src/api/runner.py that each task gets.  Routes, *)
(* runners and event streams share one event loop, so each action runs     *)
(* from one await to the next.  The process may stop at any time and be    *)
(* started again on the same file.                                         *)
(*                                                                         *)
(* The research graph and the report builder are what they are to the      *)
(* runner: calls that return, raise or are cut off by their hard timeout.  *)
(* The file is assumed to be configured (task_store_path), and the mode of *)
(* the runner to be a valid one.  Writing the file may fail at any time,   *)
(* and nobody is told.                                                     *)
(***************************************************************************)
EXTENDS Integers, Sequences, FiniteSets, SequencesExt

CONSTANTS
  Tasks,       \* ids of the tasks that may be created
  Watched,     \* the one that the client follows
  MaxTasks,    \* max_tasks of the store
  MaxStops,    \* bound: how often the process stops
  MaxFailures  \* bound: how often saving fails

ASSUME ServiceAssumption ==
  /\ IsFiniteSet(Tasks) /\ Watched \in Tasks
  /\ MaxTasks \in Nat \ {0} /\ MaxStops \in Nat /\ MaxFailures \in Nat

VARIABLES
  process,     \* "up", "closing" (the event loop shuts down) or "down"
  stored,      \* the ids in the store, oldest first (by created_at)
  status,      \* rec.status
  events,      \* rec.events, by stage
  report,      \* whether rec.report_markdown is set
  runner,      \* where the task's coroutine is
  disk,        \* the file: the records that can be read from it
  torn,        \* whether it was cut off in the middle of a write, and has none
  behind,      \* whether the last save of the process failed
  failures,    \* how often saving has failed
  stops,       \* how often the process has stopped
  stale,       \* a history: a process has started from a file that was behind
  stream,      \* where the client's event stream is
  batch,       \* positions of the events it has still to yield
  lastSent,    \* last_sent
  received     \* positions of the events the client has received, in order

records == <<stored, status, events, report>>
file == <<disk, torn, behind, failures>>
client == <<stream, batch, lastSent, received>>
vars == <<process, records, runner, file, stops, stale, client>>

Terminal == {"completed", "failed", "cancelled"}
Stages == {"queued", "running", "planner_start", "planner_done", "worker_done",
           "verify_start", "verify_done", "write_done", "done", "failed", "cancelled"}
FinalStages == {"done", "failed", "cancelled"}

Saved == [status : Terminal \cup {"queued", "running"}, events : Seq(Stages), report : BOOLEAN]

ServiceTypeOK ==
  /\ process \in {"up", "closing", "down"}
  /\ torn \in BOOLEAN /\ behind \in BOOLEAN /\ stale \in BOOLEAN
  /\ stored \in Seq(Tasks) /\ IsInjective(stored) /\ Len(stored) <= MaxTasks
  /\ status \in [Tasks -> Terminal \cup {"none", "queued", "running"}]
  /\ events \in [Tasks -> Seq(Stages)]
  /\ report \in [Tasks -> BOOLEAN]
  /\ runner \in [Tasks -> {"none", "created", "researching", "writing", "ended"}]
  /\ \A i \in DOMAIN disk : disk[i].id \in Tasks /\ disk[i].saved \in Saved
  /\ stops \in 0..MaxStops /\ failures \in 0..MaxFailures
  /\ stream \in {"off", "replay", "poll", "send", "closed"}
  /\ batch \in Seq(Nat) /\ lastSent \in Nat /\ received \in Seq(Nat)

Init ==
  /\ process = "up"
  /\ stored = <<>>
  /\ status = [t \in Tasks |-> "none"]
  /\ events = [t \in Tasks |-> <<>>]
  /\ report = [t \in Tasks |-> FALSE]
  /\ runner = [t \in Tasks |-> "none"]
  /\ disk = <<>> /\ torn = FALSE /\ behind = FALSE
  /\ failures = 0 /\ stops = 0 /\ stale = FALSE
  /\ stream = "off"
  /\ batch = <<>> /\ lastSent = 0 /\ received = <<>>

InStore(t) == t \in ToSet(stored)
-----------------------------------------------------------------------------
(* The store. *)

Row(t) == [status |-> status[t], events |-> events[t], report |-> report[t]]

Contents == [i \in DOMAIN stored |-> [id |-> stored[i], saved |-> Row(stored[i])]]

SaveSucceeds == disk' = Contents' /\ torn' = FALSE /\ behind' = FALSE /\ UNCHANGED failures

Tear == torn' = TRUE /\ disk' = <<>>

\* Opening the file for writing empties it: it keeps its content, or is torn, or
\* has that of an earlier save.
SaveFails(earlier) ==
  /\ failures < MaxFailures
  /\ failures' = failures + 1 /\ behind' = TRUE
  /\ UNCHANGED <<disk, torn>> \/ Tear \/ (disk' \in earlier /\ torn' = FALSE)

\* _save writes all records of the store, and ignores every exception.
Save == SaveSucceeds \/ SaveFails({})

Newest(ids) == IF Len(ids) <= MaxTasks THEN ids ELSE SubSeq(ids, Len(ids) - MaxTasks + 1, Len(ids))

\* Wrong variant, for the mutation checks: no _evict.
CreateTaskUnevicted(t) ==
  /\ process = "up"
  /\ status[t] = "none"
  /\ stored' = Append(stored, t)
  /\ status' = [status EXCEPT ![t] = "queued"]
  /\ runner' = [runner EXCEPT ![t] = "created"]
  /\ UNCHANGED <<events, report>>
  /\ Save
  /\ UNCHANGED <<process, stops, stale, client>>

\* create: the new record, the eviction of the oldest beyond the cap, whatever
\* their status, and the coroutine of the route.
CreateTask(t) ==
  /\ process = "up"
  /\ status[t] = "none"
  /\ stored' = Newest(Append(stored, t))
  /\ status' = [status EXCEPT ![t] = "queued"]
  /\ runner' = [runner EXCEPT ![t] = "created"]
  /\ UNCHANGED <<events, report>>
  /\ Save
  /\ UNCHANGED <<process, stops, stale, client>>

\* Wrong variant, for the mutation checks: append_event does not save.
EmitUnsaved(t, stages) ==
  /\ stored' = stored
  /\ events' = IF InStore(t) THEN [events EXCEPT ![t] = @ \o stages] ELSE events
  /\ UNCHANGED file

\* The file after the first n events of a series only.
SavedAfter(n, t, stages) ==
  [i \in DOMAIN stored |->
     [id |-> stored[i],
      saved |-> IF stored[i] # t THEN Row(stored[i])
                ELSE [status |-> IF stages[n] = "running" THEN "running" ELSE status[t],
                      events |-> events[t] \o SubSeq(stages, 1, n), report |-> report[t]]]]

\* A series of _emit calls without an await in between: append_event ignores a
\* task that is no longer stored, and saves otherwise.  When the last save fails,
\* an earlier one of the series may have succeeded.
Emit(t, stages) ==
  /\ stored' = stored
  /\ IF InStore(t)
     THEN /\ events' = [events EXCEPT ![t] = @ \o stages]
          /\ \/ SaveSucceeds
             \/ SaveFails({SavedAfter(n, t, stages) : n \in 1..(Len(stages) - 1)})
     ELSE UNCHANGED <<events, file>>
-----------------------------------------------------------------------------
(* The runner. *)

\* Setting the status and emitting the event that goes with it, the last act of
\* a run.
EndRun(t, final, stages) ==
  /\ status' = [status EXCEPT ![t] = final]
  /\ runner' = [runner EXCEPT ![t] = "ended"]
  /\ Emit(t, stages)

\* run, up to the call of the graph.  The status is set whatever it was.
RunStarts(t) ==
  /\ runner[t] = "created"
  /\ status' = [status EXCEPT ![t] = "running"]
  /\ runner' = [runner EXCEPT ![t] = "researching"]
  /\ UNCHANGED report
  /\ Emit(t, <<"queued", "running", "planner_start">>)
  /\ UNCHANGED <<process, stops, stale, client>>

\* The providers or the graph cannot be built.
StartFails(t) ==
  /\ runner[t] = "created"
  /\ UNCHANGED report
  /\ EndRun(t, "failed", <<"queued", "running", "failed">>)
  /\ UNCHANGED <<process, stops, stale, client>>

\* The graph returns with facts, and the report is begun.
ResearchSucceeds(t) ==
  /\ runner[t] = "researching"
  /\ runner' = [runner EXCEPT ![t] = "writing"]
  /\ UNCHANGED <<status, report>>
  /\ Emit(t, <<"planner_done", "worker_done", "verify_start">>)
  /\ UNCHANGED <<process, stops, stale, client>>

\* Empty results, an exception or the hard timeout of the graph or of the report.
RunFails(t) ==
  /\ runner[t] \in {"researching", "writing"}
  /\ UNCHANGED report
  /\ EndRun(t, "failed", <<"failed">>)
  /\ UNCHANGED <<process, stops, stale, client>>

\* Wrong variant, for the mutation checks: the gate's return is missing.
GateFailsAndGoesOn(t) ==
  /\ runner[t] = "writing"
  /\ report' = [report EXCEPT ![t] = TRUE]
  /\ EndRun(t, "completed", <<"verify_done", "write_done", "failed", "done">>)
  /\ UNCHANGED <<process, stops, stale, client>>

\* The report is written but does not pass the quality gate.
GateFails(t) ==
  /\ runner[t] = "writing"
  /\ UNCHANGED report
  /\ EndRun(t, "failed", <<"verify_done", "write_done", "failed">>)
  /\ UNCHANGED <<process, stops, stale, client>>

RunSucceeds(t) ==
  /\ runner[t] = "writing"
  /\ report' = [report EXCEPT ![t] = TRUE]
  /\ EndRun(t, "completed", <<"verify_done", "write_done", "done">>)
  /\ UNCHANGED <<process, stops, stale, client>>

\* The event loop, shutting down, cancels the coroutine.
RunCancelled(t) ==
  /\ process = "closing"
  /\ runner[t] \in {"researching", "writing"}
  /\ UNCHANGED report
  /\ EndRun(t, "cancelled", <<"cancelled">>)
  /\ UNCHANGED <<process, stops, stale, client>>

\* cancel_task, of any task in the store: only the record changes; nothing is
\* saved and the runner goes on.
CancelTask(t) ==
  /\ process = "up"
  /\ InStore(t)
  /\ status' = [status EXCEPT ![t] = "cancelled"]
  /\ UNCHANGED <<process, stored, events, report, runner, file, stops, stale, client>>
-----------------------------------------------------------------------------
(* Stopping and starting. *)

\* The server is asked to stop: it closes its connections and cancels what runs.
CloseProcess ==
  /\ process = "up"
  /\ stops < MaxStops
  /\ process' = "closing"
  /\ stream' = IF stream = "closed" THEN "closed" ELSE "off"
  /\ batch' = <<>> /\ lastSent' = 0
  /\ UNCHANGED <<records, runner, file, stops, stale, received>>

\* The process is gone, asked or not, with its coroutines, its connections and
\* what it had not saved.  In the middle of a save, it leaves the file torn.
\* (records keep what it had: the next process reads none of them.)
StopProcess ==
  /\ process # "down"
  /\ stops < MaxStops
  /\ process' = "down"
  /\ stops' = stops + 1
  /\ runner' = [t \in Tasks |-> IF status[t] = "none" THEN "none" ELSE "ended"]
  /\ UNCHANGED <<disk, torn>> \/ Tear
  /\ stream' = IF stream = "closed" THEN "closed" ELSE "off"
  /\ batch' = <<>> /\ lastSent' = 0
  /\ UNCHANGED <<records, behind, failures, stale, received>>

\* Wrong variant, for the mutation checks: only running tasks are corrected.
RecoveredRunningOnly(s) == IF s = "running" THEN "failed" ELSE s

\* A task found queued or running belonged to the process that is gone.
Recovered(s) == IF s \in {"running", "queued"} THEN "failed" ELSE s

\* create_app: load the file (nothing, if it cannot be parsed), correct the
\* statuses, save.
StartProcess ==
  /\ process = "down"
  /\ process' = "up"
  /\ stale' = (stale \/ (behind /\ ~torn))
  /\ LET row(t) == CHOOSE i \in DOMAIN disk : disk[i].id = t
         ids == {disk[i].id : i \in DOMAIN disk}
     IN  /\ stored' = [i \in DOMAIN disk |-> disk[i].id]
         /\ status' = [t \in Tasks |->
              IF t \in ids THEN Recovered(disk[row(t)].saved.status) ELSE status[t]]
         /\ events' = [t \in Tasks |->
              IF t \in ids THEN disk[row(t)].saved.events ELSE events[t]]
         /\ report' = [t \in Tasks |->
              IF t \in ids THEN disk[row(t)].saved.report ELSE report[t]]
  /\ Save
  /\ UNCHANGED <<runner, stops, client>>
-----------------------------------------------------------------------------
(* The event stream of one client. *)

From(n, t) == [i \in 1..(Len(events[t]) - n) |-> n + i]

\* What the stream does once the replay is out: end, or poll from the length
\* that the list has by now.
ReplayDone ==
  IF status[Watched] \in Terminal
  THEN stream' = "closed" /\ lastSent' = lastSent
  ELSE stream' = "poll" /\ lastSent' = Len(events[Watched])

\* Wrong variant, for the mutation checks: Last-Event-ID is ignored.
ConnectFromStart ==
  /\ process = "up"
  /\ stream = "off"
  /\ InStore(Watched)
  /\ batch' = From(0, Watched)
  /\ IF batch' = <<>> THEN ReplayDone ELSE stream' = "replay" /\ UNCHANGED lastSent
  /\ UNCHANGED <<process, records, runner, file, stops, stale, received>>

\* A first connection has no Last-Event-ID; a reconnection sends the last event
\* received.  The events after it are replayed, or all if it is not in the list.
Connect ==
  /\ process = "up"
  /\ stream = "off"
  /\ InStore(Watched)
  /\ batch' = From(IF received # <<>> /\ Last(received) <= Len(events[Watched])
                   THEN Last(received) ELSE 0, Watched)
  /\ IF batch' = <<>> THEN ReplayDone ELSE stream' = "replay" /\ UNCHANGED lastSent
  /\ UNCHANGED <<process, records, runner, file, stops, stale, received>>

\* One event is yielded; others may run before the next.
Yield ==
  /\ stream \in {"replay", "send"}
  /\ batch # <<>>
  /\ received' = Append(received, Head(batch))
  /\ batch' = Tail(batch)
  /\ UNCHANGED <<process, records, runner, file, stops, stale, stream, lastSent>>

\* The batch is out: last_sent is the length the list has by now.
BatchSent ==
  /\ batch = <<>>
  /\ \/ stream = "replay" /\ ReplayDone
     \/ /\ stream = "send"
        /\ lastSent' = Len(events[Watched])
        /\ stream' = IF status[Watched] \in Terminal THEN "closed" ELSE "poll"
  /\ UNCHANGED <<process, records, runner, file, stops, stale, batch, received>>

\* A poll finds new events, or the end of the task, or nothing.
Poll ==
  /\ stream = "poll"
  /\ \/ /\ Len(events[Watched]) > lastSent
        /\ batch' = From(lastSent, Watched)
        /\ stream' = "send"
     \/ /\ Len(events[Watched]) <= lastSent
        /\ status[Watched] \in Terminal
        /\ stream' = "closed"
        /\ UNCHANGED batch
  /\ UNCHANGED <<process, records, runner, file, stops, stale, lastSent, received>>

\* The connection breaks, or the 600 polls are over; the client reconnects.
Disconnect ==
  /\ stream \in {"replay", "send", "poll"}
  /\ stream' = "off"
  /\ batch' = <<>> /\ lastSent' = 0
  /\ UNCHANGED <<process, records, runner, file, stops, stale, received>>
-----------------------------------------------------------------------------

RunnerStep(t) ==
  \/ RunStarts(t) \/ StartFails(t) \/ ResearchSucceeds(t) \/ RunFails(t)
  \/ GateFails(t) \/ RunSucceeds(t)

Next ==
  \/ \E t \in Tasks : CreateTask(t) \/ CancelTask(t)
  \/ \E t \in Tasks : RunnerStep(t) \/ RunCancelled(t)
  \/ CloseProcess \/ StopProcess \/ StartProcess
  \/ Connect \/ Yield \/ BatchSent \/ Poll \/ Disconnect

\* Coroutines run, the graph and the report end within their hard timeouts, a
\* stopped process is started again, an open stream is served.
Fairness ==
  /\ \A t \in Tasks : WF_vars(RunnerStep(t))
  /\ WF_vars(StartProcess)
  /\ WF_vars(Yield \/ BatchSent \/ Poll)

Spec == Init /\ [][Next]_vars /\ Fairness
-----------------------------------------------------------------------------
(* Properties. *)

\* A task that is completed when the process stops is completed after the next
\* start, with its report, unless its last save failed or was cut off: then the
\* next process finds an older file, or none it can read.
CompletedSurvives ==
  [][process = "down" /\ process' = "up" /\ ~torn /\ ~behind =>
       \A t \in Tasks :
         InStore(t) /\ status[t] = "completed" =>
           InStore(t)' /\ status'[t] = "completed" /\ report'[t]]_vars

\* The event list of a task is that of one run: the final event comes once, at
\* the end, also across cancellations and restarts.
OneFinalEvent ==
  \A t \in Tasks : \A i \in DOMAIN events[t] :
    events[t][i] \in FinalStages => i = Len(events[t])

\* A client never receives an event twice or out of order, over reconnections and
\* restarts, as long as no process starts from a file that is behind: there, the
\* last event received may be missing.
ReceivedInOrder ==
  ~stale => \A i, j \in DOMAIN received : i < j => received[i] < received[j]

\* A task that is created reaches a terminal status, whatever happens to the
\* process meanwhile.
EveryTaskEnds ==
  \A t \in Tasks : InStore(t) ~> (status[t] \in Terminal \/ ~InStore(t))
=============================================================================
