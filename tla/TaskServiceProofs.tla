-------------------------- MODULE TaskServiceProofs --------------------------
(***************************************************************************)
(* TaskService for any number of tasks, any size of the store and any      *)
(* number of stops and failed saves: the types, one final event per task,  *)
(* completed tasks that survive a restart, and a client that never receives *)
(* an event twice, where no process starts from a file that is behind.     *)
(*                                                                         *)
(* The argument: events are saved as they are emitted, so unless a save    *)
(* failed the file's lists are the lists of the tasks it holds and a       *)
(* restart shortens none; whatever the file holds was once the store, so   *)
(* its lists are well formed even then; and a task that was ever created   *)
(* has no second coroutine.                                                *)
(***************************************************************************)
EXTENDS TaskService, SequenceTheorems, TLAPS

Entry == [id : Tasks, saved : Saved]

NoFinal(s) == \A i \in DOMAIN s : s[i] \notin FinalStages
FinalIsLast(s) == \A i \in DOMAIN s : s[i] \in FinalStages => i = Len(s)

\* A content of the file, that of any save.
Fine(d) ==
  /\ d \in Seq(Entry) /\ Len(d) <= MaxTasks
  /\ \A i, j \in DOMAIN d : d[i].id = d[j].id => i = j
  /\ \A i \in DOMAIN d : /\ d[i].saved.status = "completed" => d[i].saved.report
                         /\ FinalIsLast(d[i].saved.events)

Typed == ServiceTypeOK /\ Fine(disk)

\* Every task in the store or in the file was created, and has or had its
\* coroutine.
Created ==
  /\ \A t \in Tasks : status[t] = "none" <=> runner[t] = "none"
  /\ \A i \in DOMAIN stored : status[stored[i]] # "none"
  /\ \A i \in DOMAIN disk : status[disk[i].id] # "none"

\* Unless its last save failed, the file lags behind in statuses only.
OnDisk ==
  /\ ~behind => \A i \in DOMAIN disk : disk[i].saved.events = events[disk[i].id]
  /\ torn => disk = <<>>

NothingRunsWhenDown ==
  process = "down" => \A t \in Tasks : runner[t] \in {"none", "ended"}

Finals ==
  \A t \in Tasks :
    /\ FinalIsLast(events[t])
    /\ runner[t] # "ended" => NoFinal(events[t])

Completed == \A t \in Tasks : status[t] = "completed" => report[t]

\* A completed task of the store is completed in the file, with its report.
CompletedOnDisk ==
  ~behind /\ ~torn =>
    \A i \in DOMAIN stored :
      status[stored[i]] = "completed" =>
        \E j \in DOMAIN disk : disk[j].id = stored[i] /\ disk[j].saved.status = "completed"

\* What a stream has still to send is new to its client, and exists.
Stream ==
  ~stale =>
    /\ \A i, j \in DOMAIN received : i < j => received[i] < received[j]
    /\ \A i \in DOMAIN received : received[i] <= Len(events[Watched])
    /\ \A i, j \in DOMAIN batch : i < j => batch[i] < batch[j]
    /\ \A i \in DOMAIN batch :
         /\ batch[i] <= Len(events[Watched])
         /\ \A j \in DOMAIN received : received[j] < batch[i]
    /\ stream = "poll" => \A i \in DOMAIN received : received[i] <= lastSent

RecordsInv ==
  /\ Typed /\ Created /\ OnDisk /\ NothingRunsWhenDown /\ Finals /\ Completed
  /\ CompletedOnDisk

Inv == RecordsInv /\ Stream
-----------------------------------------------------------------------------
(* Lemmas about the store. *)

LEMMA NewestOfTasks ==
  ASSUME NEW ids \in Seq(Tasks), IsInjective(ids)
  PROVE  /\ Newest(ids) \in Seq(Tasks) /\ IsInjective(Newest(ids))
         /\ Len(Newest(ids)) <= MaxTasks
         /\ \A i \in DOMAIN Newest(ids) : \E j \in DOMAIN ids : Newest(ids)[i] = ids[j]
<1> USE ServiceAssumption
<1>1. CASE Len(ids) <= MaxTasks
  BY <1>1 DEF Newest
<1>2. CASE Len(ids) > MaxTasks
  <2> DEFINE m == Len(ids) - MaxTasks + 1
             n == Len(ids)
  <2>1. /\ Newest(ids) = SubSeq(ids, m, n)
        /\ n \in Nat /\ m \in Int /\ m >= 1 /\ m <= n /\ n - m + 1 = MaxTasks
    BY <1>2 DEF Newest
  <2>2. \A i \in m..n : i \in DOMAIN ids /\ ids[i] \in Tasks
    BY <2>1
  <2> HIDE DEF m, n
  <2>3. /\ Newest(ids) \in Seq(Tasks)
        /\ Len(Newest(ids)) = MaxTasks
        /\ \A i \in 1..MaxTasks : Newest(ids)[i] = ids[m + i - 1]
    BY <2>1, <2>2, SubSeqProperties
  <2>4. \A i \in 1..MaxTasks : m + i - 1 \in m..n
    BY <2>1
  <2> QED
    BY <2>1, <2>2, <2>3, <2>4 DEF IsInjective
<1> QED
  BY <1>1, <1>2

\* The file that holds the records f of the tasks ids.
LEMMA FileOf ==
  ASSUME NEW ids \in Seq(Tasks), IsInjective(ids), Len(ids) <= MaxTasks,
         NEW f, NEW d,
         \A i \in DOMAIN ids : /\ f[ids[i]] \in Saved
                               /\ f[ids[i]].status = "completed" => f[ids[i]].report
                               /\ FinalIsLast(f[ids[i]].events),
         d = [i \in DOMAIN ids |-> [id |-> ids[i], saved |-> f[ids[i]]]]
  PROVE  /\ Fine(d) /\ DOMAIN d = DOMAIN ids
         /\ \A i \in DOMAIN d : d[i].id = ids[i] /\ d[i].saved = f[ids[i]]
<1>1. /\ Len(ids) \in Nat /\ DOMAIN ids = 1..Len(ids) /\ DOMAIN d = 1..Len(ids)
      /\ \A i \in 1..Len(ids) : ids[i] \in Tasks
  OBVIOUS
<1>2. \A i \in DOMAIN d : d[i].id = ids[i] /\ d[i].saved = f[ids[i]]
  OBVIOUS
<1>3. \A i \in DOMAIN d : d[i] \in Entry
  <2> SUFFICES ASSUME NEW i \in DOMAIN d PROVE d[i] \in Entry
    OBVIOUS
  <2>1. d[i] = [id |-> ids[i], saved |-> f[ids[i]]]
    BY <1>1
  <2> QED
    BY <1>1, <2>1 DEF Entry
<1>4. d \in [1..Len(ids) -> Entry]
  <2>1. d = [i \in 1..Len(ids) |-> d[i]]
    BY <1>1
  <2> QED
    BY <1>1, <1>3, <2>1
<1>5. d \in Seq(Entry) /\ Len(d) = Len(ids)
  <2>1. [1..Len(ids) -> Entry] \in {[1..n -> Entry] : n \in Nat}
    BY <1>1
  <2>2. d \in UNION {[1..n -> Entry] : n \in Nat}
    BY <1>4, <2>1
  <2>3. d \in Seq(Entry)
    BY <2>2, SeqDef
  <2> QED
    BY <1>1, <1>4, <2>3, LenProperties
<1>6. \A i, j \in DOMAIN d : d[i].id = d[j].id => i = j
  BY <1>1, <1>2 DEF IsInjective
<1> QED
  BY <1>1, <1>2, <1>5, <1>6 DEF Fine

\* A content that the file may have after the step, with the tasks' records in it.
FileOK ==
  /\ Fine(disk)
  /\ \A i \in DOMAIN disk : status[disk[i].id] # "none"
  /\ OnDisk /\ CompletedOnDisk

LEMMA FileTypes ==
  ASSUME ServiceTypeOK, NEW earlier, SaveSucceeds \/ SaveFails(earlier)
  PROVE  torn' \in BOOLEAN /\ behind' \in BOOLEAN /\ failures' \in 0..MaxFailures
<1>1. torn \in BOOLEAN /\ behind \in BOOLEAN /\ failures \in 0..MaxFailures
  BY DEF ServiceTypeOK
<1>2. torn' \in BOOLEAN
  BY <1>1, Zenon DEF SaveSucceeds, SaveFails, Tear
<1>3. behind' \in BOOLEAN
  BY Zenon DEF SaveSucceeds, SaveFails
<1>4. failures' \in 0..MaxFailures
  <2>1. failures' = failures \/ (failures < MaxFailures /\ failures' = failures + 1)
    BY Zenon DEF SaveSucceeds, SaveFails
  <2> QED
    BY <1>1, <2>1, ServiceAssumption
<1> QED
  BY <1>2, <1>3, <1>4

\* After a save that succeeds, the file is the store.
LEMMA SavedStore ==
  ASSUME stored' \in Seq(Tasks), IsInjective(stored'), Len(stored') <= MaxTasks,
         status' \in [Tasks -> Terminal \cup {"none", "queued", "running"}],
         events' \in [Tasks -> Seq(Stages)], report' \in [Tasks -> BOOLEAN],
         \A i \in DOMAIN stored' : status'[stored'[i]] # "none",
         \A t \in Tasks : FinalIsLast(events'[t]),
         \A t \in Tasks : status'[t] = "completed" => report'[t], SaveSucceeds
  PROVE  FileOK'
<1> DEFINE f == [t \in Tasks |-> [status |-> status'[t], events |-> events'[t],
                                  report |-> report'[t]]]
<1>1. \A i \in DOMAIN stored' :
        /\ stored'[i] \in Tasks
        /\ status'[stored'[i]] \in Terminal \cup {"queued", "running"}
        /\ events'[stored'[i]] \in Seq(Stages) /\ report'[stored'[i]] \in BOOLEAN
  OBVIOUS
<1>2. \A i \in DOMAIN stored' :
        /\ f[stored'[i]] \in Saved
        /\ f[stored'[i]].status = "completed" => f[stored'[i]].report
        /\ FinalIsLast(f[stored'[i]].events)
  BY <1>1 DEF Saved
<1>3. disk' = [i \in DOMAIN stored' |-> [id |-> stored'[i], saved |-> f[stored'[i]]]]
  BY <1>1 DEF SaveSucceeds, Contents, Row
<1>4. \A t \in Tasks : f[t].status = status'[t] /\ f[t].events = events'[t]
  OBVIOUS
<1> HIDE DEF f
<1>5. /\ Fine(disk') /\ DOMAIN disk' = DOMAIN stored'
      /\ \A i \in DOMAIN disk' : disk'[i].id = stored'[i] /\ disk'[i].saved = f[stored'[i]]
  BY <1>2, <1>3, FileOf
<1>6. \A i \in DOMAIN disk' : /\ status'[disk'[i].id] # "none"
                              /\ disk'[i].saved.events = events'[disk'[i].id]
  BY <1>1, <1>4, <1>5
<1>7. CompletedOnDisk'
  <2>1. \A i \in DOMAIN stored' : status'[stored'[i]] = "completed" =>
          \E j \in DOMAIN disk' : disk'[j].id = stored'[i] /\ disk'[j].saved.status = "completed"
    <3> TAKE i \in DOMAIN stored'
    <3>1. /\ i \in DOMAIN disk' /\ disk'[i].id = stored'[i]
          /\ disk'[i].saved.status = status'[stored'[i]]
      BY <1>1, <1>4, <1>5
    <3> QED
      BY <3>1
  <2> QED
    BY <2>1 DEF CompletedOnDisk
<1>8. OnDisk' /\ Fine(disk)'
  BY <1>5, <1>6 DEF OnDisk, Fine, FinalIsLast, SaveSucceeds
<1> QED
  BY <1>6, <1>7, <1>8 DEF FileOK

\* After one that fails, it has some content of a save.
LEMMA FileLeft ==
  ASSUME RecordsInv, NEW earlier, SaveFails(earlier),
         \A d \in earlier : Fine(d) /\ \A i \in DOMAIN d : status'[d[i].id] # "none",
         \A t \in Tasks : status[t] # "none" => status'[t] # "none"
  PROVE  FileOK'
<1>1. behind' = TRUE
  BY DEF SaveFails
<1>2. Fine(disk) /\ \A i \in DOMAIN disk : disk[i].id \in Tasks /\ status[disk[i].id] # "none"
  BY DEF RecordsInv, Typed, ServiceTypeOK, Created
<1>3. Fine(<<>>)
  BY ServiceAssumption DEF Fine
<1>4. Fine(disk') /\ \A i \in DOMAIN disk' : status'[disk'[i].id] # "none"
  <2>1. CASE disk' = disk
    BY <1>2, <2>1
  <2>2. CASE disk' = <<>>
    BY <1>3, <2>2
  <2>3. CASE disk' \in earlier
    BY <2>3
  <2> QED
    BY <2>1, <2>2, <2>3 DEF SaveFails, Tear
<1>5. Fine(disk)'
  BY <1>4 DEF Fine, FinalIsLast
<1>6. torn' => disk' = <<>>
  BY DEF RecordsInv, OnDisk, SaveFails, Tear
<1> QED
  BY <1>1, <1>4, <1>5, <1>6 DEF FileOK, OnDisk, CompletedOnDisk

\* What an earlier save of a series left in the file.
LEMMA EarlierSave ==
  ASSUME RecordsInv, NEW t \in Tasks, NEW stages \in Seq(Stages), FinalIsLast(stages),
         runner[t] \in {"created", "researching", "writing"},
         NEW n \in 1..(Len(stages) - 1)
  PROVE  /\ Fine(SavedAfter(n, t, stages))
         /\ \A i \in DOMAIN SavedAfter(n, t, stages) :
              SavedAfter(n, t, stages)[i].id \in Tasks /\ status[SavedAfter(n, t, stages)[i].id] # "none"
<1> DEFINE s == events[t] \o SubSeq(stages, 1, n)
           g == IF stages[n] = "running" THEN "running" ELSE status[t]
           f == [u \in Tasks |-> IF u # t THEN Row(u) ELSE
                   [status |-> g, events |-> s, report |-> report[t]]]
<1>1. /\ stored \in Seq(Tasks) /\ IsInjective(stored) /\ Len(stored) <= MaxTasks
      /\ \A i \in DOMAIN stored : stored[i] \in Tasks /\ status[stored[i]] # "none"
      /\ status[t] # "none" /\ Finals /\ Completed
      /\ \A u \in Tasks : /\ status[u] \in Terminal \cup {"none", "queued", "running"}
                          /\ events[u] \in Seq(Stages) /\ report[u] \in BOOLEAN
  BY DEF RecordsInv, Typed, ServiceTypeOK, Created
<1>2. SubSeq(stages, 1, n) \in Seq(Stages) /\ NoFinal(SubSeq(stages, 1, n))
  <2>1. /\ Len(stages) \in Nat /\ n \in Nat /\ n >= 1 /\ n < Len(stages)
        /\ \A i \in 1..n : i \in DOMAIN stages /\ stages[i] \in Stages /\ i # Len(stages)
    OBVIOUS
  <2>2. /\ SubSeq(stages, 1, n) \in Seq(Stages) /\ Len(SubSeq(stages, 1, n)) = n
        /\ \A i \in 1..n : SubSeq(stages, 1, n)[i] = stages[i]
    <3>1. /\ SubSeq(stages, 1, n) \in Seq(Stages)
          /\ Len(SubSeq(stages, 1, n)) = IF 1 <= n THEN n - 1 + 1 ELSE 0
          /\ \A i \in 1..(n - 1 + 1) : SubSeq(stages, 1, n)[i] = stages[1 + i - 1]
      BY <2>1, SubSeqProperties
    <3> QED
      BY <2>1, <3>1
  <2>3. DOMAIN SubSeq(stages, 1, n) = 1..n
    BY <2>2
  <2> QED
    BY <2>1, <2>2, <2>3 DEF NoFinal, FinalIsLast
<1>3. s \in Seq(Stages) /\ FinalIsLast(s)
  <2>1. NoFinal(events[t])
    BY <1>1 DEF Finals
  <2> DEFINE q == SubSeq(stages, 1, n)
  <2>2. q \in Seq(Stages) /\ NoFinal(q)
    BY <1>2
  <2> HIDE DEF q
  <2>3. /\ events[t] \o q \in Seq(Stages)
        /\ Len(events[t] \o q) = Len(events[t]) + Len(q)
        /\ \A i \in 1..(Len(events[t]) + Len(q)) :
             (events[t] \o q)[i] = IF i <= Len(events[t]) THEN events[t][i] ELSE q[i - Len(events[t])]
    BY <1>1, <2>2, ConcatProperties
  <2>4. FinalIsLast(events[t] \o q)
    BY <1>1, <2>1, <2>2, <2>3 DEF FinalIsLast, NoFinal
  <2> QED
    BY <2>3, <2>4 DEF q
<1>4. g \in Terminal \cup {"queued", "running"} /\ (g = "completed" => report[t])
  BY <1>1 DEF Completed
<1> HIDE DEF s, g
<1>5. f[t] = [status |-> g, events |-> s, report |-> report[t]]
      /\ \A u \in Tasks \ {t} : f[u] = [status |-> status[u], events |-> events[u], report |-> report[u]]
  BY DEF Row
<1>6. SavedAfter(n, t, stages) = [i \in DOMAIN stored |-> [id |-> stored[i], saved |-> f[stored[i]]]]
  <2>1. \A i \in DOMAIN stored :
          f[stored[i]] = IF stored[i] # t THEN Row(stored[i])
                         ELSE [status |-> IF stages[n] = "running" THEN "running" ELSE status[t],
                               events |-> events[t] \o SubSeq(stages, 1, n), report |-> report[t]]
    BY <1>1, Zenon DEF g, s
  <2> HIDE DEF f
  <2> QED
    BY <2>1 DEF SavedAfter
<1> HIDE DEF f
<1>7. \A i \in DOMAIN stored : /\ f[stored[i]] \in Saved
                               /\ f[stored[i]].status = "completed" => f[stored[i]].report
                               /\ FinalIsLast(f[stored[i]].events)
  <2> TAKE i \in DOMAIN stored
  <2>1. CASE stored[i] = t
    BY <1>1, <1>3, <1>4, <1>5, <2>1 DEF Saved
  <2>2. CASE stored[i] # t
    <3> DEFINE u == stored[i]
    <3>1. /\ u \in Tasks /\ u # t /\ status[u] \in Terminal \cup {"queued", "running"}
          /\ events[u] \in Seq(Stages) /\ report[u] \in BOOLEAN
      BY <1>1, <2>2
    <3>2. status[u] = "completed" => report[u]
      BY <1>1, <3>1 DEF Completed
    <3>3. FinalIsLast(events[u])
      BY <1>1, <3>1 DEF Finals
    <3> HIDE DEF u
    <3>4. f[u] = [status |-> status[u], events |-> events[u], report |-> report[u]]
      BY <1>5, <3>1
    <3>5. f[u] \in Saved
      BY <3>1, <3>4 DEF Saved
    <3>6. f[u].status = status[u] /\ f[u].events = events[u] /\ (f[u].report <=> report[u])
      BY <3>4
    <3> QED
      BY <3>2, <3>3, <3>5, <3>6 DEF u
  <2> QED
    BY <2>1, <2>2
<1> DEFINE d == SavedAfter(n, t, stages)
<1>8. d = [i \in DOMAIN stored |-> [id |-> stored[i], saved |-> f[stored[i]]]]
  BY <1>6
<1> HIDE DEF d
<1>9. /\ Fine(d) /\ DOMAIN d = DOMAIN stored
      /\ \A i \in DOMAIN d : d[i].id = stored[i]
  BY <1>1, <1>7, <1>8, FileOf
<1>10. \A i \in DOMAIN d : d[i].id \in Tasks /\ status[d[i].id] # "none"
  BY <1>1, <1>9
<1> QED
  BY <1>9, <1>10 DEF d

\* Emitting events changes the list of one task, and saves it if it is stored.
\* The status may have been changed together with it.
LEMMA Emitted ==
  ASSUME RecordsInv, NEW t \in Tasks, NEW stages \in Seq(Stages), Emit(t, stages),
         NEW s \in Terminal \cup {"queued", "running"},
         status' = [status EXCEPT ![t] = s], status[t] # "none",
         NEW b \in BOOLEAN, report' = [report EXCEPT ![t] = b],
         report[t] => b, s = "completed" => b,
         NEW p \in {"created", "researching", "writing", "ended"},
         runner' = [runner EXCEPT ![t] = p], runner[t] \in {"created", "researching", "writing"},
         FinalIsLast(stages), p # "ended" => NoFinal(stages),
         UNCHANGED <<process, stops, stale, client>>
  PROVE  RecordsInv' /\ \A u \in Tasks : Len(events[u]) <= Len(events'[u])
<1> USE ServiceAssumption
<1>1. /\ Typed /\ Created /\ OnDisk /\ NothingRunsWhenDown /\ Finals /\ Completed
      /\ CompletedOnDisk /\ ServiceTypeOK
  BY DEF RecordsInv, Typed
<1>2. stored' = stored /\ stored \in Seq(Tasks) /\ IsInjective(stored) /\ Len(stored) <= MaxTasks
  BY <1>1 DEF Emit, ServiceTypeOK
<1>3. /\ events \in [Tasks -> Seq(Stages)] /\ events[t] \in Seq(Stages)
      /\ events[t] \o stages \in Seq(Stages)
      /\ Len(events[t] \o stages) = Len(events[t]) + Len(stages)
      /\ \A i \in 1..(Len(events[t]) + Len(stages)) :
           (events[t] \o stages)[i] =
             IF i <= Len(events[t]) THEN events[t][i] ELSE stages[i - Len(events[t])]
  BY <1>1, ConcatProperties DEF ServiceTypeOK
<1>4. events' = events \/ events' = [events EXCEPT ![t] = events[t] \o stages]
  BY DEF Emit
<1>5. events' \in [Tasks -> Seq(Stages)] /\ \A u \in Tasks : Len(events[u]) <= Len(events'[u])
  <2>1. CASE events' = events
    BY <1>3, <2>1
  <2>2. CASE events' = [events EXCEPT ![t] = events[t] \o stages]
    <3>1. events' \in [Tasks -> Seq(Stages)]
      BY <1>3, <2>2
    <3>2. \A u \in Tasks : events'[u] = IF u = t THEN events[t] \o stages ELSE events[u]
      BY <1>3, <2>2
    <3>3. \A u \in Tasks : Len(events[u]) \in Nat
      BY <1>3
    <3>4. Len(events[t]) <= Len(events[t] \o stages)
      <4>1. Len(stages) \in Nat /\ Len(events[t]) \in Nat
        BY <3>3
      <4> QED
        BY <1>3, <4>1
    <3> QED
      BY <3>1, <3>2, <3>3, <3>4
  <2> QED
    BY <1>4, <2>1, <2>2
<1>6. /\ status' \in [Tasks -> Terminal \cup {"none", "queued", "running"}]
      /\ report' \in [Tasks -> BOOLEAN]
      /\ runner' \in [Tasks -> {"none", "created", "researching", "writing", "ended"}]
      /\ Completed'
  BY <1>1 DEF ServiceTypeOK, Completed
<1>7. \A u \in Tasks : status'[u] = "none" <=> runner'[u] = "none"
  BY <1>1 DEF Created, ServiceTypeOK, Terminal
<1>8. \A u \in Tasks : status[u] # "none" => status'[u] # "none"
  BY <1>1 DEF ServiceTypeOK, Terminal
<1>9. \A i \in DOMAIN stored' : status'[stored'[i]] # "none"
  BY <1>1, <1>2, <1>8 DEF Created
<1>10. Finals'
  <2> SUFFICES ASSUME NEW u \in Tasks
               PROVE  /\ FinalIsLast(events'[u])
                      /\ runner'[u] # "ended" => NoFinal(events'[u])
    BY DEF Finals, FinalIsLast, NoFinal
  <2>1. CASE events'[u] = events[u]
    BY <1>1, <2>1 DEF Finals, ServiceTypeOK
  <2>2. CASE u = t /\ events'[u] = events[t] \o stages
    <3>1. NoFinal(events[t]) /\ \A i \in DOMAIN events[t] : events[t][i] \notin FinalStages
      BY <1>1 DEF Finals, NoFinal
    <3>2. /\ DOMAIN events'[u] = 1..(Len(events[t]) + Len(stages))
          /\ Len(events'[u]) = Len(events[t]) + Len(stages)
          /\ Len(events[t]) \in Nat /\ Len(stages) \in Nat
      BY <1>3, <2>2
    <3>3. ASSUME NEW i \in DOMAIN events'[u], events'[u][i] \in FinalStages
          PROVE  /\ i - Len(events[t]) \in DOMAIN stages
                 /\ stages[i - Len(events[t])] \in FinalStages
      BY <1>3, <2>2, <3>1, <3>2, <3>3
    <3>4. FinalIsLast(events'[u])
      BY <3>2, <3>3 DEF FinalIsLast
    <3>5. runner'[u] = p
      BY <1>1, <2>2 DEF ServiceTypeOK
    <3> QED
      BY <3>3, <3>4, <3>5 DEF NoFinal
  <2> QED
    BY <1>3, <1>4, <2>1, <2>2
<1>11. CASE SaveSucceeds \/ SaveFails({SavedAfter(n, t, stages) : n \in 1..(Len(stages) - 1)})
  <2>1. FileOK'
    <3>1. CASE SaveSucceeds
      <4>1. \A u \in Tasks : FinalIsLast(events'[u])
        BY <1>10 DEF Finals, FinalIsLast
      <4>2. \A u \in Tasks : status'[u] = "completed" => report'[u]
        BY <1>6 DEF Completed
      <4>3. stored' \in Seq(Tasks) /\ IsInjective(stored') /\ Len(stored') <= MaxTasks
        BY <1>2
      <4> QED
        BY <1>5, <1>6, <1>9, <3>1, <4>1, <4>2, <4>3, SavedStore
    <3>2. CASE SaveFails({SavedAfter(n, t, stages) : n \in 1..(Len(stages) - 1)})
      <4>1. \A d \in {SavedAfter(n, t, stages) : n \in 1..(Len(stages) - 1)} :
              Fine(d) /\ \A i \in DOMAIN d : status'[d[i].id] # "none"
        <5> SUFFICES ASSUME NEW n \in 1..(Len(stages) - 1)
                     PROVE  /\ Fine(SavedAfter(n, t, stages))
                            /\ \A i \in DOMAIN SavedAfter(n, t, stages) :
                                 status'[SavedAfter(n, t, stages)[i].id] # "none"
          OBVIOUS
        <5> QED
          BY <1>8, EarlierSave
      <4> QED
        BY <1>8, <3>2, <4>1, FileLeft
    <3> QED
      BY <1>11, <3>1, <3>2
  <2>2. Fine(disk)' /\ Fine(disk')
    BY <2>1 DEF FileOK, Fine, FinalIsLast
  <2>3. \A i \in DOMAIN disk' : disk'[i].id \in Tasks /\ disk'[i].saved \in Saved
    <3> TAKE i \in DOMAIN disk'
    <3>1. disk'[i] \in Entry
      BY <2>2 DEF Fine
    <3> QED
      BY <3>1 DEF Entry
  <2>4. torn' \in BOOLEAN /\ behind' \in BOOLEAN /\ failures' \in 0..MaxFailures
    BY <1>1, <1>11, FileTypes
  <2>5. ServiceTypeOK'
    BY <1>1, <1>2, <1>5, <1>6, <2>3, <2>4 DEF ServiceTypeOK, client
  <2>6. Typed' /\ Created' /\ OnDisk' /\ CompletedOnDisk'
    BY <1>7, <1>9, <2>1, <2>2, <2>5 DEF Typed, Created, FileOK
  <2> QED
    BY <1>1, <1>5, <1>6, <1>10, <2>6 DEF RecordsInv, NothingRunsWhenDown, ServiceTypeOK
<1>12. CASE ~InStore(t) /\ UNCHANGED <<events, file>>
  <2>1. Typed' /\ Created' /\ OnDisk'
    BY <1>1, <1>2, <1>5, <1>6, <1>7, <1>8, <1>9, <1>12
       DEF Typed, Fine, FinalIsLast, Created, OnDisk, ServiceTypeOK, client, file
  <2>2. \A i \in DOMAIN stored : stored[i] # t /\ stored[i] \in Tasks
    BY <1>2, <1>12 DEF InStore, ToSet
  <2>3. CompletedOnDisk'
    BY <1>1, <1>2, <1>12, <2>2 DEF CompletedOnDisk, ServiceTypeOK, file
  <2> QED
    BY <1>1, <1>5, <1>6, <1>10, <2>1, <2>3 DEF RecordsInv, NothingRunsWhenDown
<1> QED
  BY <1>5, <1>11, <1>12 DEF Emit
-----------------------------------------------------------------------------
(* One lemma per kind of step: what it does to the records, and that no list *)
(* of events becomes shorter, unless a process has started from a file that  *)
(* is behind.                                                                *)

Longer == stale' \/ \A t \in Tasks : Len(events[t]) <= Len(events'[t])

LEMMA InitRecords == Init => RecordsInv
<1> SUFFICES ASSUME Init PROVE RecordsInv
  OBVIOUS
<1> USE ServiceAssumption DEF Init
<1>1. Typed
  <2>1. /\ stored \in Seq(Tasks) /\ IsInjective(stored) /\ Len(stored) <= MaxTasks
        /\ events \in [Tasks -> Seq(Stages)]
        /\ Fine(disk) /\ DOMAIN disk = {}
        /\ batch \in Seq(Nat) /\ received \in Seq(Nat)
    BY DEF IsInjective, Fine
  <2>2. /\ status \in [Tasks -> Terminal \cup {"none", "queued", "running"}]
        /\ report \in [Tasks -> BOOLEAN]
        /\ runner \in [Tasks -> {"none", "created", "researching", "writing", "ended"}]
        /\ process = "up" /\ stream = "off"
    BY DEF Terminal
  <2>3. torn \in BOOLEAN /\ behind \in BOOLEAN /\ stale \in BOOLEAN
    OBVIOUS
  <2>4. stops \in 0..MaxStops /\ failures \in 0..MaxFailures /\ lastSent \in Nat
    OBVIOUS
  <2>5. ServiceTypeOK
    BY <2>1, <2>2, <2>3, <2>4 DEF ServiceTypeOK
  <2> QED
    BY <2>1, <2>5 DEF Typed
<1>2. Created /\ OnDisk /\ NothingRunsWhenDown /\ Completed /\ CompletedOnDisk
  BY DEF Created, OnDisk, NothingRunsWhenDown, Completed, CompletedOnDisk
<1>3. Finals
  BY DEF Finals, FinalIsLast, NoFinal
<1> QED
  BY <1>1, <1>2, <1>3 DEF RecordsInv

LEMMA CreateRecords ==
  ASSUME RecordsInv, NEW t \in Tasks, CreateTask(t)
  PROVE  RecordsInv' /\ Longer
<1> USE ServiceAssumption
<1>1. /\ Typed /\ Created /\ OnDisk /\ NothingRunsWhenDown /\ Finals /\ Completed
      /\ ServiceTypeOK
  BY DEF RecordsInv, Typed
<1>2. /\ status[t] = "none" /\ runner[t] = "none"
      /\ status' = [status EXCEPT ![t] = "queued"]
      /\ runner' = [runner EXCEPT ![t] = "created"]
      /\ stored' = Newest(Append(stored, t)) /\ Save
      /\ events' = events /\ report' = report /\ process' = "up"
      /\ stale' = stale /\ stops' = stops /\ client' = client
  BY <1>1 DEF CreateTask, Created
<1>3. /\ stored \in Seq(Tasks) /\ IsInjective(stored)
      /\ \A i \in DOMAIN stored : stored[i] # t /\ stored[i] \in Tasks
  BY <1>1, <1>2 DEF ServiceTypeOK, Created
<1>4. Append(stored, t) \in Seq(Tasks) /\ IsInjective(Append(stored, t))
  BY <1>3 DEF IsInjective
<1>5. /\ stored' \in Seq(Tasks) /\ IsInjective(stored') /\ Len(stored') <= MaxTasks
      /\ \A i \in DOMAIN stored' : stored'[i] = t \/ \E j \in DOMAIN stored : stored'[i] = stored[j]
  <2>1. \A i \in DOMAIN Append(stored, t) :
          \/ Append(stored, t)[i] = t
          \/ i \in DOMAIN stored /\ Append(stored, t)[i] = stored[i]
    BY <1>3
  <2>2. /\ Newest(Append(stored, t)) \in Seq(Tasks)
        /\ IsInjective(Newest(Append(stored, t)))
        /\ Len(Newest(Append(stored, t))) <= MaxTasks
        /\ \A i \in DOMAIN Newest(Append(stored, t)) : \E j \in DOMAIN Append(stored, t) :
             Newest(Append(stored, t))[i] = Append(stored, t)[j]
    BY <1>4, NewestOfTasks
  <2>3. /\ stored' \in Seq(Tasks) /\ IsInjective(stored') /\ Len(stored') <= MaxTasks
        /\ \A i \in DOMAIN stored' : \E j \in DOMAIN Append(stored, t) :
             stored'[i] = Append(stored, t)[j]
    BY <1>2, <2>2, Zenon
  <2> QED
    BY <2>1, <2>3
<1>6. /\ status' \in [Tasks -> Terminal \cup {"none", "queued", "running"}]
      /\ events' \in [Tasks -> Seq(Stages)] /\ report' \in [Tasks -> BOOLEAN]
      /\ runner' \in [Tasks -> {"none", "created", "researching", "writing", "ended"}]
      /\ Completed'
  BY <1>1, <1>2 DEF ServiceTypeOK, Completed
<1>7. /\ \A i \in DOMAIN stored' : status'[stored'[i]] # "none"
      /\ \A u \in Tasks : status'[u] = "none" <=> runner'[u] = "none"
  BY <1>1, <1>2, <1>3, <1>5 DEF Created, ServiceTypeOK
<1>8. FileOK'
  <2>1. CASE SaveSucceeds
    <3>1. \A u \in Tasks : FinalIsLast(events'[u])
      BY <1>1, <1>2 DEF Finals
    <3>2. \A u \in Tasks : status'[u] = "completed" => report'[u]
      BY <1>6 DEF Completed
    <3> QED
      BY <1>5, <1>6, <1>7, <2>1, <3>1, <3>2, SavedStore
  <2>2. CASE SaveFails({})
    <3>1. \A u \in Tasks : status[u] # "none" => status'[u] # "none"
      BY <1>1, <1>2 DEF ServiceTypeOK
    <3> QED
      BY <2>2, <3>1, FileLeft
  <2> QED
    BY <1>2, <2>1, <2>2 DEF Save
<1>9. /\ \A i \in DOMAIN disk' : disk'[i].id \in Tasks /\ disk'[i].saved \in Saved
      /\ torn' \in BOOLEAN /\ behind' \in BOOLEAN /\ failures' \in 0..MaxFailures
  <2>1. torn' \in BOOLEAN /\ behind' \in BOOLEAN /\ failures' \in 0..MaxFailures
    BY <1>1, <1>2, FileTypes DEF Save
  <2>2. \A i \in DOMAIN disk' : disk'[i] \in Entry
    BY <1>8 DEF FileOK, Fine
  <2> QED
    BY <2>1, <2>2 DEF Entry
<1>10. ServiceTypeOK'
  BY <1>1, <1>2, <1>5, <1>6, <1>9 DEF ServiceTypeOK, client
<1>11. Typed' /\ Created'
  BY <1>7, <1>8, <1>10 DEF Typed, Created, FileOK
<1>12. NothingRunsWhenDown' /\ Longer
  BY <1>1, <1>2 DEF NothingRunsWhenDown, ServiceTypeOK, Longer
<1>13. Finals'
  BY <1>1, <1>2 DEF Finals, ServiceTypeOK, FinalIsLast, NoFinal
<1> QED
  BY <1>6, <1>8, <1>11, <1>12, <1>13 DEF RecordsInv, FileOK

LEMMA RunnerRecords ==
  ASSUME RecordsInv, NEW t \in Tasks, RunnerStep(t) \/ RunCancelled(t)
  PROVE  RecordsInv' /\ Longer
<1>1. /\ ServiceTypeOK /\ Created /\ Completed
      /\ \A u \in Tasks : /\ status[u] \in Terminal \cup {"none", "queued", "running"}
                          /\ report[u] \in BOOLEAN
      /\ status \in [Tasks -> Terminal \cup {"none", "queued", "running"}]
      /\ report = [report EXCEPT ![t] = report[t]]
      /\ runner \in [Tasks -> {"none", "created", "researching", "writing", "ended"}]
  BY DEF RecordsInv, Typed, ServiceTypeOK
<1>2. status = [status EXCEPT ![t] = status[t]]
  BY <1>1
<1>3. runner[t] # "none" =>
        status[t] # "none" /\ status[t] \in Terminal \cup {"queued", "running"}
  BY <1>1 DEF Created
<1> DEFINE Lists == {<<"queued", "running", "planner_start">>,
                     <<"queued", "running", "failed">>,
                     <<"planner_done", "worker_done", "verify_start">>,
                     <<"failed">>, <<"cancelled">>,
                     <<"verify_done", "write_done", "failed">>,
                     <<"verify_done", "write_done", "done">>}
<1>4. \A s \in Lists : s \in Seq(Stages) /\ FinalIsLast(s)
  <2>1. /\ <<"queued", "running", "planner_start">> \in Seq(Stages)
        /\ FinalIsLast(<<"queued", "running", "planner_start">>)
    BY DEF Stages, FinalStages, FinalIsLast
  <2>2. <<"queued", "running", "failed">> \in Seq(Stages) /\ FinalIsLast(<<"queued", "running", "failed">>)
    BY DEF Stages, FinalStages, FinalIsLast
  <2>3. /\ <<"planner_done", "worker_done", "verify_start">> \in Seq(Stages)
        /\ FinalIsLast(<<"planner_done", "worker_done", "verify_start">>)
    BY DEF Stages, FinalStages, FinalIsLast
  <2>4. <<"failed">> \in Seq(Stages) /\ FinalIsLast(<<"failed">>)
    BY DEF Stages, FinalStages, FinalIsLast
  <2>5. <<"cancelled">> \in Seq(Stages) /\ FinalIsLast(<<"cancelled">>)
    BY DEF Stages, FinalStages, FinalIsLast
  <2>6. /\ <<"verify_done", "write_done", "failed">> \in Seq(Stages)
        /\ FinalIsLast(<<"verify_done", "write_done", "failed">>)
    BY DEF Stages, FinalStages, FinalIsLast
  <2>7. /\ <<"verify_done", "write_done", "done">> \in Seq(Stages)
        /\ FinalIsLast(<<"verify_done", "write_done", "done">>)
    BY DEF Stages, FinalStages, FinalIsLast
  <2> QED
    BY <2>1, <2>2, <2>3, <2>4, <2>5, <2>6, <2>7 DEF Lists
<1>5. /\ NoFinal(<<"queued", "running", "planner_start">>)
      /\ NoFinal(<<"planner_done", "worker_done", "verify_start">>)
  BY DEF FinalStages, NoFinal
<1> HIDE DEF Lists
<1>6. CASE RunStarts(t)
  <2> DEFINE s == <<"queued", "running", "planner_start">>
  <2>1. s \in Seq(Stages) /\ FinalIsLast(s) /\ NoFinal(s)
    BY <1>4, <1>5 DEF Lists
  <2> HIDE DEF s
  <2>2. /\ runner[t] = "created" /\ Emit(t, s)
        /\ runner' = [runner EXCEPT ![t] = "researching"]
        /\ report' = [report EXCEPT ![t] = report[t]]
        /\ UNCHANGED <<process, stops, stale, client>>
    BY <1>1, <1>6 DEF RunStarts, s
  <2>3. PICK f \in {"queued", "running"} : status' = [status EXCEPT ![t] = f]
    BY <1>6 DEF RunStarts
  <2>4. f # "completed"
    BY <2>3
  <2> QED
    BY <1>1, <1>3, <2>1, <2>2, <2>3, <2>4, Emitted DEF Longer
<1>7. CASE ResearchSucceeds(t)
  <2> DEFINE s == <<"planner_done", "worker_done", "verify_start">>
  <2>1. s \in Seq(Stages) /\ FinalIsLast(s) /\ NoFinal(s)
    BY <1>4, <1>5 DEF Lists
  <2> HIDE DEF s
  <2>2. /\ runner[t] = "researching" /\ Emit(t, s)
        /\ status' = [status EXCEPT ![t] = status[t]]
        /\ runner' = [runner EXCEPT ![t] = "writing"]
        /\ report' = [report EXCEPT ![t] = report[t]]
        /\ UNCHANGED <<process, stops, stale, client>>
    BY <1>1, <1>2, <1>7 DEF ResearchSucceeds, s
  <2>3. status[t] = "completed" => report[t]
    BY <1>1 DEF Completed
  <2> QED
    BY <1>1, <1>3, <2>1, <2>2, <2>3, Emitted DEF Longer
<1>8. CASE \/ StartFails(t) \/ RunFails(t) \/ GateFails(t) \/ RunSucceeds(t) \/ RunCancelled(t)
  <2>1. PICK s \in Lists, f \in Terminal, b \in BOOLEAN :
          /\ runner[t] \in {"created", "researching", "writing"}
          /\ report' = [report EXCEPT ![t] = b]
          /\ report[t] => b
          /\ f = "completed" => b
          /\ EndRun(t, f, s)
          /\ UNCHANGED <<process, stops, stale, client>>
    <3>1. CASE StartFails(t)
      BY <1>1, <3>1 DEF StartFails, Lists, Terminal
    <3>2. CASE RunFails(t)
      BY <1>1, <3>2 DEF RunFails, Lists, Terminal
    <3>3. CASE GateFails(t)
      BY <1>1, <3>3 DEF GateFails, Lists, Terminal
    <3>4. CASE RunSucceeds(t)
      BY <1>1, <3>4 DEF RunSucceeds, Lists, Terminal
    <3>5. CASE RunCancelled(t)
      BY <1>1, <3>5 DEF RunCancelled, Lists, Terminal
    <3> QED
      BY <1>8, <3>1, <3>2, <3>3, <3>4, <3>5
  <2>2. /\ status' = [status EXCEPT ![t] = f]
        /\ runner' = [runner EXCEPT ![t] = "ended"]
        /\ Emit(t, s)
    BY <2>1 DEF EndRun
  <2>3. s \in Seq(Stages) /\ FinalIsLast(s) /\ status[t] # "none"
    BY <1>1, <1>4, <2>1 DEF Created
  <2> QED
    BY <2>1, <2>2, <2>3, Emitted DEF Longer
<1> QED
  BY <1>6, <1>7, <1>8 DEF RunnerStep

LEMMA CancelRecords ==
  ASSUME RecordsInv, NEW t \in Tasks, CancelTask(t)
  PROVE  RecordsInv' /\ Longer
<1>1. /\ Typed /\ Created /\ OnDisk /\ NothingRunsWhenDown /\ Finals /\ Completed
      /\ CompletedOnDisk /\ ServiceTypeOK
  BY DEF RecordsInv, Typed
<1>2. /\ status' = [status EXCEPT ![t] = "cancelled"] /\ status[t] # "none"
      /\ stored' = stored /\ events' = events /\ report' = report /\ runner' = runner
      /\ file' = file /\ process' = process /\ stops' = stops /\ stale' = stale
      /\ client' = client
  BY <1>1 DEF CancelTask, InStore, ToSet, Created
<1>3. ServiceTypeOK' /\ Longer
  BY <1>1, <1>2 DEF ServiceTypeOK, Terminal, client, file, Longer
<1>4. Typed' /\ OnDisk' /\ NothingRunsWhenDown'
  BY <1>1, <1>2, <1>3 DEF Typed, Fine, FinalIsLast, OnDisk, NothingRunsWhenDown, file
<1>5. Created'
  BY <1>1, <1>2 DEF Created, ServiceTypeOK, file
<1>6. Finals' /\ Completed'
  BY <1>1, <1>2 DEF Finals, FinalIsLast, NoFinal, Completed, ServiceTypeOK
<1>7. CompletedOnDisk'
  BY <1>1, <1>2 DEF CompletedOnDisk, ServiceTypeOK, file
<1> QED
  BY <1>3, <1>4, <1>5, <1>6, <1>7 DEF RecordsInv

LEMMA StopRecords ==
  ASSUME RecordsInv, StopProcess
  PROVE  RecordsInv' /\ Longer
<1> USE ServiceAssumption
<1>1. /\ Typed /\ Created /\ OnDisk /\ Finals /\ Completed /\ CompletedOnDisk /\ ServiceTypeOK
  BY DEF RecordsInv, Typed
<1>2. /\ process' = "down" /\ stored' = stored /\ status' = status /\ events' = events
      /\ report' = report /\ stops < MaxStops /\ stops' = stops + 1
      /\ behind' = behind /\ failures' = failures /\ stale' = stale /\ received' = received
      /\ batch' = <<>> /\ lastSent' = 0 /\ stream' \in {"closed", "off"}
      /\ \A t \in Tasks : runner'[t] = IF status[t] = "none" THEN "none" ELSE "ended"
      /\ runner' \in [Tasks -> {"none", "created", "researching", "writing", "ended"}]
  BY <1>1 DEF StopProcess, ServiceTypeOK, records
<1>3. \/ disk' = disk /\ torn' = torn
      \/ disk' = <<>> /\ torn' = TRUE
  BY DEF StopProcess, Tear
<1>4. ServiceTypeOK' /\ Longer
  <2>1. torn' \in BOOLEAN
    BY <1>1, <1>3 DEF ServiceTypeOK
  <2>2. \A i \in DOMAIN disk' : disk'[i].id \in Tasks /\ disk'[i].saved \in Saved
    BY <1>1, <1>3 DEF ServiceTypeOK
  <2>3. stops' \in 0..MaxStops /\ batch' \in Seq(Nat) /\ lastSent' \in Nat
    BY <1>1, <1>2 DEF ServiceTypeOK
  <2>4. ServiceTypeOK'
    BY <1>1, <1>2, <2>1, <2>2, <2>3 DEF ServiceTypeOK
  <2>5. \A t \in Tasks : Len(events[t]) <= Len(events'[t])
    BY <1>1, <1>2 DEF ServiceTypeOK
  <2> QED
    BY <2>4, <2>5 DEF Longer
<1>5. Typed'
  <2>1. Fine(<<>>) /\ Fine(disk)
    BY <1>1 DEF Typed, Fine
  <2>2. Fine(disk')
    BY <1>3, <2>1
  <2>3. Fine(disk)'
    BY <2>2 DEF Fine, FinalIsLast
  <2> QED
    BY <1>4, <2>3 DEF Typed
<1>6. OnDisk' /\ NothingRunsWhenDown' /\ Completed' /\ CompletedOnDisk'
  BY <1>1, <1>2, <1>3 DEF OnDisk, NothingRunsWhenDown, Completed, CompletedOnDisk
<1>7. Created'
  BY <1>1, <1>2, <1>3 DEF Created
<1>8. Finals'
  BY <1>1, <1>2 DEF Finals, FinalIsLast, NoFinal, Created
<1> QED
  BY <1>4, <1>5, <1>6, <1>7, <1>8 DEF RecordsInv

\* What a start takes from the file.
LEMMA Restored ==
  ASSUME RecordsInv, StartProcess
  PROVE  /\ \A i \in DOMAIN disk :
              LET t == disk[i].id
              IN  /\ t \in Tasks /\ disk[i].saved \in Saved /\ status[t] # "none"
                  /\ status'[t] = Recovered(disk[i].saved.status)
                  /\ events'[t] = disk[i].saved.events /\ report'[t] = disk[i].saved.report
         /\ \A t \in Tasks :
              \/ \E i \in DOMAIN disk : disk[i].id = t
              \/ status'[t] = status[t] /\ events'[t] = events[t] /\ report'[t] = report[t]
         /\ status' = [t \in Tasks |-> status'[t]]
         /\ events' = [t \in Tasks |-> events'[t]]
         /\ report' = [t \in Tasks |-> report'[t]]
<1> DEFINE row(t) == CHOOSE i \in DOMAIN disk : disk[i].id = t
           ids == {disk[i].id : i \in DOMAIN disk}
<1>1. Fine(disk) /\ Created /\ ServiceTypeOK
  BY DEF RecordsInv, Typed
<1>2. /\ status' = [t \in Tasks |->
           IF t \in ids THEN Recovered(disk[row(t)].saved.status) ELSE status[t]]
      /\ events' = [t \in Tasks |-> IF t \in ids THEN disk[row(t)].saved.events ELSE events[t]]
      /\ report' = [t \in Tasks |-> IF t \in ids THEN disk[row(t)].saved.report ELSE report[t]]
  BY DEF StartProcess
<1>3. \A i \in DOMAIN disk : /\ disk[i].id \in ids /\ row(disk[i].id) = i
                             /\ disk[i].id \in Tasks /\ disk[i].saved \in Saved
                             /\ status[disk[i].id] # "none"
  <2> TAKE i \in DOMAIN disk
  <2>1. row(disk[i].id) \in DOMAIN disk /\ disk[row(disk[i].id)].id = disk[i].id
    OBVIOUS
  <2> QED
    BY <1>1, <2>1 DEF Fine, ServiceTypeOK, Created
<1>4. \A t \in Tasks : t \in ids <=> \E i \in DOMAIN disk : disk[i].id = t
  OBVIOUS
<1> HIDE DEF row, ids
<1>5. \A i \in DOMAIN disk :
        LET t == disk[i].id
        IN  /\ status'[t] = Recovered(disk[i].saved.status)
            /\ events'[t] = disk[i].saved.events /\ report'[t] = disk[i].saved.report
  BY <1>2, <1>3
<1>6. \A t \in Tasks :
        \/ \E i \in DOMAIN disk : disk[i].id = t
        \/ status'[t] = status[t] /\ events'[t] = events[t] /\ report'[t] = report[t]
  BY <1>2, <1>4
<1>7. /\ status' = [t \in Tasks |-> status'[t]]
      /\ events' = [t \in Tasks |-> events'[t]]
      /\ report' = [t \in Tasks |-> report'[t]]
  BY <1>2
<1> QED
  BY <1>3, <1>5, <1>6, <1>7

\* A restart shortens no list of events, unless the file is behind.
LEMMA StartRecords ==
  ASSUME RecordsInv, StartProcess
  PROVE  RecordsInv' /\ Longer
<1> USE ServiceAssumption
<1>1. /\ Typed /\ Created /\ OnDisk /\ NothingRunsWhenDown /\ Finals /\ Completed
      /\ ServiceTypeOK /\ Fine(disk)
  BY DEF RecordsInv, Typed
<1>2. /\ process = "down" /\ process' = "up" /\ Save
      /\ runner' = runner /\ stops' = stops /\ client' = client
      /\ stale' = (stale \/ (behind /\ ~torn))
      /\ stored' = [i \in DOMAIN disk |-> disk[i].id]
  BY DEF StartProcess
<1>3. /\ \A i \in DOMAIN disk :
           LET t == disk[i].id
           IN  /\ t \in Tasks /\ disk[i].saved \in Saved /\ status[t] # "none"
               /\ status'[t] = Recovered(disk[i].saved.status)
               /\ events'[t] = disk[i].saved.events /\ report'[t] = disk[i].saved.report
      /\ \A t \in Tasks :
           \/ \E i \in DOMAIN disk : disk[i].id = t
           \/ status'[t] = status[t] /\ events'[t] = events[t] /\ report'[t] = report[t]
      /\ status' = [t \in Tasks |-> status'[t]]
      /\ events' = [t \in Tasks |-> events'[t]]
      /\ report' = [t \in Tasks |-> report'[t]]
  BY Restored
<1>4. \A i \in DOMAIN disk :
        /\ Recovered(disk[i].saved.status) \in Terminal
        /\ disk[i].saved.events \in Seq(Stages) /\ disk[i].saved.report \in BOOLEAN
        /\ Recovered(disk[i].saved.status) = "completed" => disk[i].saved.report
        /\ FinalIsLast(disk[i].saved.events)
  BY <1>1, <1>3 DEF Saved, Recovered, Terminal, Fine
<1>5. \A t \in Tasks :
        /\ status'[t] \in Terminal \cup {"none", "queued", "running"}
        /\ events'[t] \in Seq(Stages) /\ report'[t] \in BOOLEAN
        /\ status'[t] = "completed" => report'[t]
        /\ FinalIsLast(events'[t])
        /\ status'[t] = "none" <=> status[t] = "none"
  <2> TAKE t \in Tasks
  <2>1. CASE \E i \in DOMAIN disk : disk[i].id = t
    BY <1>3, <1>4, <2>1 DEF Terminal
  <2>2. CASE status'[t] = status[t] /\ events'[t] = events[t] /\ report'[t] = report[t]
    BY <1>1, <2>2 DEF ServiceTypeOK, Completed, Finals
  <2> QED
    BY <1>3, <2>1, <2>2
<1>6. /\ status' \in [Tasks -> Terminal \cup {"none", "queued", "running"}]
      /\ events' \in [Tasks -> Seq(Stages)] /\ report' \in [Tasks -> BOOLEAN]
      /\ Completed'
  BY <1>3, <1>5 DEF Completed
<1>7. /\ DOMAIN disk = 1..Len(disk) /\ Len(disk) \in Nat /\ Len(disk) <= MaxTasks
      /\ \A i, j \in DOMAIN disk : disk[i].id = disk[j].id => i = j
  BY <1>1 DEF Fine
<1>8. stored' \in Seq(Tasks) /\ Len(stored') = Len(disk) /\ DOMAIN stored' = DOMAIN disk
  <2>1. stored' \in [1..Len(disk) -> Tasks]
    BY <1>2, <1>3, <1>7
  <2>2. [1..Len(disk) -> Tasks] \in {[1..n -> Tasks] : n \in Nat}
    BY <1>7
  <2>3. stored' \in UNION {[1..n -> Tasks] : n \in Nat}
    BY <2>1, <2>2
  <2>4. stored' \in Seq(Tasks)
    BY <2>3, SeqDef
  <2> QED
    BY <1>7, <2>1, <2>4, LenProperties
<1>9. IsInjective(stored') /\ Len(stored') <= MaxTasks
  BY <1>2, <1>7, <1>8 DEF IsInjective
<1>10. \A i \in DOMAIN stored' : status'[stored'[i]] # "none"
  BY <1>2, <1>3, <1>5, <1>8
<1>11. FileOK'
  <2>1. CASE SaveSucceeds
    BY <1>5, <1>6, <1>8, <1>9, <1>10, <2>1, SavedStore
  <2>2. CASE SaveFails({})
    BY <1>5, <2>2, FileLeft
  <2> QED
    BY <1>2, <2>1, <2>2 DEF Save
<1>12. /\ \A i \in DOMAIN disk' : disk'[i].id \in Tasks /\ disk'[i].saved \in Saved
       /\ torn' \in BOOLEAN /\ behind' \in BOOLEAN /\ failures' \in 0..MaxFailures
       /\ stale' \in BOOLEAN
  <2>1. torn' \in BOOLEAN /\ behind' \in BOOLEAN /\ failures' \in 0..MaxFailures
    BY <1>1, <1>2, FileTypes DEF Save
  <2>2. stale' \in BOOLEAN
    BY <1>2
  <2>3. \A i \in DOMAIN disk' : disk'[i] \in Entry
    BY <1>11 DEF FileOK, Fine
  <2> QED
    BY <2>1, <2>2, <2>3 DEF Entry
<1>13. ServiceTypeOK'
  <2>1. stream' = stream /\ batch' = batch /\ lastSent' = lastSent /\ received' = received
    BY <1>2 DEF client
  <2> QED
    BY <1>1, <1>2, <1>6, <1>8, <1>9, <1>12, <2>1 DEF ServiceTypeOK
<1>14. Longer
  <2> SUFFICES ASSUME ~stale', NEW t \in Tasks
               PROVE  Len(events[t]) <= Len(events'[t])
    BY DEF Longer
  <2>1. ~behind \/ torn
    BY <1>1, <1>2 DEF ServiceTypeOK
  <2>2. events'[t] = events[t]
    BY <1>1, <1>3, <2>1 DEF OnDisk
  <2> QED
    BY <1>1, <2>2 DEF ServiceTypeOK
<1>15. Typed' /\ Created'
  BY <1>1, <1>2, <1>5, <1>10, <1>11, <1>13 DEF Typed, Created, FileOK
<1>16. NothingRunsWhenDown' /\ Finals'
  <2>1. NothingRunsWhenDown'
    BY <1>2 DEF NothingRunsWhenDown
  <2>2. \A t \in Tasks : runner'[t] # "ended" => events'[t] = events[t]
    <3> SUFFICES ASSUME NEW t \in Tasks, runner[t] # "ended" PROVE events'[t] = events[t]
      BY <1>2
    <3>1. status[t] = "none"
      BY <1>1, <1>2 DEF NothingRunsWhenDown, Created
    <3> QED
      BY <1>3, <3>1
  <2>3. \A t \in Tasks : /\ FinalIsLast(events'[t])
                         /\ runner'[t] # "ended" => NoFinal(events'[t])
    BY <1>1, <1>2, <1>5, <2>2 DEF Finals
  <2> QED
    BY <2>1, <2>3 DEF Finals, FinalIsLast, NoFinal
<1> QED
  BY <1>6, <1>11, <1>14, <1>15, <1>16 DEF RecordsInv, FileOK

\* A step that leaves records, coroutines and file alone, and does not start
\* the process.
LEMMA QuietRecords ==
  ASSUME RecordsInv, ServiceTypeOK', UNCHANGED <<records, runner, file>>,
         process' = process \/ process' = "closing"
  PROVE  RecordsInv' /\ Longer
<1>1. /\ stored' = stored /\ status' = status /\ events' = events /\ report' = report
      /\ runner' = runner /\ disk' = disk /\ torn' = torn /\ behind' = behind
  BY DEF records, file
<1>2. /\ Typed /\ Created /\ OnDisk /\ NothingRunsWhenDown /\ Finals /\ Completed
      /\ CompletedOnDisk /\ ServiceTypeOK
  BY DEF RecordsInv, Typed
<1>3. Typed' /\ Created' /\ OnDisk' /\ NothingRunsWhenDown' /\ Completed' /\ Longer
  BY <1>1, <1>2 DEF Typed, Fine, FinalIsLast, Created, OnDisk, NothingRunsWhenDown, Completed, Longer, ServiceTypeOK
<1>4. Finals' /\ CompletedOnDisk'
  BY <1>1, <1>2 DEF Finals, FinalIsLast, NoFinal, CompletedOnDisk
<1> QED
  BY <1>3, <1>4 DEF RecordsInv
-----------------------------------------------------------------------------
(* The client. *)

LEMMA InitStream == Init => Stream
BY DEF Init, Stream

\* The positions after n, of a list at least n long or not.
LEMMA FromProperties ==
  ASSUME ServiceTypeOK, NEW n \in Nat, NEW t \in Tasks
  PROVE  /\ From(n, t) \in Seq(Nat)
         /\ \A i \in DOMAIN From(n, t) : From(n, t)[i] > n /\ From(n, t)[i] <= Len(events[t])
         /\ \A i, j \in DOMAIN From(n, t) : i < j => From(n, t)[i] < From(n, t)[j]
<1> DEFINE m == IF Len(events[t]) < n THEN 0 ELSE Len(events[t]) - n
<1>1. Len(events[t]) \in Nat
  BY DEF ServiceTypeOK
<1>2. m \in Nat /\ 1..(Len(events[t]) - n) = 1..m /\ \A i \in 1..m : n + i <= Len(events[t])
  BY <1>1
<1> HIDE DEF m
<1>3. From(n, t) = [i \in 1..m |-> n + i]
  BY <1>2 DEF From
<1>4. From(n, t) \in [1..m -> Nat]
  BY <1>2, <1>3
<1>5. [1..m -> Nat] \in {[1..k -> Nat] : k \in Nat}
  BY <1>2
<1>6. From(n, t) \in UNION {[1..k -> Nat] : k \in Nat}
  BY <1>4, <1>5
<1>7. From(n, t) \in Seq(Nat)
  BY <1>6, SeqDef
<1> QED
  BY <1>2, <1>3, <1>7

\* A step that sends nothing, and shortens no list.
LEMMA StreamKept ==
  ASSUME ServiceTypeOK, ServiceTypeOK', Stream, Longer, received' = received, stale => stale',
         \/ UNCHANGED <<stream, batch, lastSent>>
         \/ batch' = <<>> /\ stream' # "poll"
  PROVE  Stream'
<1> USE ServiceAssumption
<1>1. CASE stale'
  BY <1>1 DEF Stream
<1>2. CASE ~stale'
  <2>1. ~stale /\ Len(events[Watched]) <= Len(events'[Watched])
    BY <1>2 DEF Longer
  <2>2. Len(events[Watched]) \in Nat /\ Len(events'[Watched]) \in Nat
    BY DEF ServiceTypeOK
  <2>3. \A i \in DOMAIN received : received[i] \in Nat
    <3>1. received \in Seq(Nat)
      BY DEF ServiceTypeOK
    <3> QED
      BY <3>1, ElementOfSeq
  <2>4. \A i \in DOMAIN batch : batch[i] \in Nat
    BY DEF ServiceTypeOK
  <2>5. CASE UNCHANGED <<stream, batch, lastSent>>
    BY <2>1, <2>2, <2>3, <2>4, <2>5 DEF Stream
  <2>6. CASE batch' = <<>> /\ stream' # "poll"
    BY <2>1, <2>2, <2>3, <2>6 DEF Stream
  <2> QED
    BY <2>5, <2>6
<1> QED
  BY <1>1, <1>2

\* The replay of a stream ends with what ReplayDone does.
LEMMA ReplayEnds ==
  ASSUME ServiceTypeOK, Stream, ~stale, ReplayDone, stale' = stale,
         received' = received, events' = events, batch' = <<>>
  PROVE  Stream'
<1> USE ServiceAssumption
<1>1. Len(events[Watched]) \in Nat
  BY DEF ServiceTypeOK
<1>2. \/ stream' = "closed" /\ lastSent' = lastSent
      \/ stream' = "poll" /\ lastSent' = Len(events[Watched])
  BY DEF ReplayDone
<1> QED
  BY <1>1, <1>2 DEF Stream, ServiceTypeOK

\* The types of a stream.
LEMMA StreamTypes ==
  ASSUME ServiceTypeOK, Connect \/ Yield \/ BatchSent \/ Poll
  PROVE  ServiceTypeOK' /\ UNCHANGED <<process, records, runner, file, stops, stale>>
<1> USE ServiceAssumption
<1>1. /\ UNCHANGED <<process, records, runner, file, stops, stale>>
      /\ process' = process /\ stored' = stored /\ status' = status /\ events' = events
      /\ report' = report /\ runner' = runner /\ stops' = stops /\ stale' = stale
      /\ disk' = disk /\ torn' = torn /\ behind' = behind /\ failures' = failures
  BY DEF Connect, Yield, BatchSent, Poll, records, file
<1>2. /\ Len(events[Watched]) \in Nat /\ lastSent \in Nat
      /\ batch \in Seq(Nat) /\ received \in Seq(Nat)
      /\ stream \in {"off", "replay", "poll", "send", "closed"}
  BY DEF ServiceTypeOK
<1>3. ReplayDone => stream' \in {"closed", "poll"} /\ lastSent' \in Nat
  BY <1>2 DEF ReplayDone
<1>4. \A n \in Nat : From(n, Watched) \in Seq(Nat)
  BY FromProperties
<1>5. /\ stream' \in {"off", "replay", "poll", "send", "closed"}
      /\ batch' \in Seq(Nat) /\ lastSent' \in Nat /\ received' \in Seq(Nat)
  <2>1. CASE Connect
    <3>1. (IF received # <<>> /\ Last(received) <= Len(events[Watched])
           THEN Last(received) ELSE 0) \in Nat
      BY <1>2 DEF Last
    <3> QED
      BY <1>2, <1>3, <1>4, <2>1, <3>1 DEF Connect
  <2>2. CASE Yield
    BY <1>2, <2>2 DEF Yield
  <2>3. CASE BatchSent
    BY <1>2, <1>3, <2>3 DEF BatchSent
  <2>4. CASE Poll
    BY <1>2, <1>4, <2>4 DEF Poll
  <2> QED
    BY <2>1, <2>2, <2>3, <2>4
<1> QED
  BY <1>1, <1>5 DEF ServiceTypeOK

LEMMA StreamStep ==
  ASSUME ServiceTypeOK, Stream, Connect \/ Yield \/ BatchSent \/ Poll
  PROVE  Stream'
<1> USE ServiceAssumption
<1>1. events' = events /\ stale' = stale
  BY DEF Connect, Yield, BatchSent, Poll, records
<1>2. /\ Len(events[Watched]) \in Nat /\ lastSent \in Nat
      /\ batch \in Seq(Nat) /\ received \in Seq(Nat) /\ Watched \in Tasks
  BY DEF ServiceTypeOK
<1>3. SUFFICES ASSUME ~stale PROVE Stream'
  BY <1>1 DEF Stream
<1>4. CASE Connect
  <2> DEFINE n == IF received # <<>> /\ Last(received) <= Len(events[Watched])
                  THEN Last(received) ELSE 0
  <2>1. /\ n \in Nat /\ \A i \in DOMAIN received : received[i] <= n
    <3>1. CASE received = <<>>
      BY <3>1
    <3>2. CASE received # <<>>
      <4>1. /\ Len(received) \in Nat /\ Len(received) \in DOMAIN received
            /\ Last(received) = received[Len(received)] /\ Last(received) \in Nat
            /\ \A i \in DOMAIN received : i = Len(received) \/ i < Len(received)
        BY <1>2, <3>2 DEF Last
      <4>2. n = Last(received)
        BY <1>3, <3>2, <4>1 DEF Stream
      <4>3. \A i \in DOMAIN received : received[i] <= Last(received)
        BY <1>2, <1>3, <4>1 DEF Stream
      <4> QED
        BY <4>1, <4>2, <4>3
    <3> QED
      BY <3>1, <3>2
  <2>2. /\ batch' = From(n, Watched) /\ received' = received
        /\ IF batch' = <<>> THEN ReplayDone ELSE stream' = "replay" /\ lastSent' = lastSent
    BY <1>4 DEF Connect
  <2> HIDE DEF n
  <2>3. /\ batch' \in Seq(Nat)
        /\ \A i \in DOMAIN batch' : batch'[i] > n /\ batch'[i] <= Len(events[Watched])
        /\ \A i, j \in DOMAIN batch' : i < j => batch'[i] < batch'[j]
    BY <1>2, <2>1, <2>2, FromProperties
  <2>4. CASE batch' = <<>>
    BY <1>1, <1>2, <1>3, <2>2, <2>3, <2>4, ReplayEnds
  <2>5. CASE batch' # <<>>
    <3>1. \A i \in DOMAIN batch' : \A j \in DOMAIN received : received[j] < batch'[i]
      BY <1>2, <2>1, <2>3
    <3> QED
      BY <1>1, <1>2, <1>3, <2>2, <2>3, <2>5, <3>1 DEF Stream
  <2> QED
    BY <2>4, <2>5
<1>5. CASE Yield
  <2>1. /\ stream \in {"replay", "send"} /\ batch # <<>> /\ stream' = stream
        /\ received' = Append(received, Head(batch)) /\ batch' = Tail(batch)
        /\ lastSent' = lastSent
    BY <1>5 DEF Yield
  <2>2. /\ 1 \in DOMAIN batch /\ Head(batch) = batch[1] /\ batch[1] \in Nat
        /\ Len(batch') = Len(batch) - 1 /\ batch' \in Seq(Nat)
        /\ \A i \in DOMAIN batch' : i + 1 \in DOMAIN batch /\ batch'[i] = batch[i + 1]
    BY <1>2, <2>1
  <2>3. /\ received' \in Seq(Nat) /\ Len(received') = Len(received) + 1
        /\ \A i \in DOMAIN received' : \/ i \in DOMAIN received /\ received'[i] = received[i]
                                       \/ i = Len(received) + 1 /\ received'[i] = batch[1]
    BY <1>2, <2>1, <2>2
  <2>4. \A i, j \in DOMAIN received' : i < j => received'[i] < received'[j]
    <3> SUFFICES ASSUME NEW i \in DOMAIN received', NEW j \in DOMAIN received', i < j
                 PROVE  received'[i] < received'[j]
      OBVIOUS
    <3>1. i \in DOMAIN received /\ received'[i] = received[i]
      BY <1>2, <2>3
    <3>2. CASE j \in DOMAIN received /\ received'[j] = received[j]
      BY <1>3, <3>1, <3>2 DEF Stream
    <3>3. CASE received'[j] = batch[1]
      BY <1>3, <2>2, <3>1, <3>3 DEF Stream
    <3> QED
      BY <2>3, <3>2, <3>3
  <2>5. \A i \in DOMAIN batch' : \A j \in DOMAIN received' : received'[j] < batch'[i]
    <3> TAKE i \in DOMAIN batch'
    <3> TAKE j \in DOMAIN received'
    <3>1. i + 1 \in DOMAIN batch /\ batch'[i] = batch[i + 1] /\ 1 < i + 1
      BY <1>2, <2>2
    <3>2. batch[1] < batch[i + 1]
      BY <1>3, <2>2, <3>1 DEF Stream
    <3> QED
      BY <1>3, <2>3, <3>1, <3>2 DEF Stream
  <2>6. \A i, j \in DOMAIN batch' : i < j => batch'[i] < batch'[j]
    <3> TAKE i \in DOMAIN batch', j \in DOMAIN batch'
    <3>1. i \in Int /\ j \in Int /\ (i < j => i + 1 < j + 1)
      BY <2>2
    <3> QED
      BY <1>3, <2>2, <3>1 DEF Stream
  <2>7. \A i \in DOMAIN received' : received'[i] <= Len(events[Watched])
    BY <1>3, <2>2, <2>3 DEF Stream
  <2>8. \A i \in DOMAIN batch' : batch'[i] <= Len(events[Watched])
    BY <1>3, <2>2 DEF Stream
  <2> QED
    BY <1>3, <1>1, <1>2, <2>1, <2>2, <2>3, <2>4, <2>5, <2>6, <2>7, <2>8 DEF Stream
<1>6. CASE BatchSent
  <2>1. batch = <<>> /\ batch' = batch /\ received' = received
    BY <1>6 DEF BatchSent
  <2>2. CASE stream = "replay" /\ ReplayDone
    BY <1>1, <1>2, <1>3, <2>1, <2>2, ReplayEnds
  <2>3. CASE lastSent' = Len(events[Watched]) /\ stream' \in {"closed", "poll"}
    BY <1>3, <1>1, <1>2, <2>1, <2>3 DEF Stream
  <2> QED
    BY <1>6, <2>2, <2>3 DEF BatchSent
<1>7. CASE Poll
  <2>1. stream = "poll" /\ received' = received /\ lastSent' = lastSent
    BY <1>7 DEF Poll
  <2>2. CASE batch' = From(lastSent, Watched) /\ stream' = "send"
    <3>1. /\ batch' \in Seq(Nat)
          /\ \A i \in DOMAIN batch' : batch'[i] > lastSent /\ batch'[i] <= Len(events[Watched])
          /\ \A i, j \in DOMAIN batch' : i < j => batch'[i] < batch'[j]
      BY <1>2, <2>2, FromProperties
    <3>2. \A i \in DOMAIN batch' : \A j \in DOMAIN received : received[j] < batch'[i]
      BY <1>3, <1>2, <2>1, <3>1 DEF Stream
    <3> QED
      BY <1>3, <1>1, <1>2, <2>1, <2>2, <3>1, <3>2 DEF Stream
  <2>3. CASE batch' = batch /\ stream' = "closed"
    BY <1>3, <1>1, <1>2, <2>1, <2>3 DEF Stream
  <2> QED
    BY <1>7, <2>2, <2>3 DEF Poll
<1> QED
  BY <1>4, <1>5, <1>6, <1>7
-----------------------------------------------------------------------------

LEMMA StepInv == Inv /\ [Next]_vars => Inv'
<1> SUFFICES ASSUME Inv, [Next]_vars PROVE Inv'
  OBVIOUS
<1>1. RecordsInv /\ Stream /\ ServiceTypeOK
  BY DEF Inv, RecordsInv, Typed
<1>2. \A t \in Tasks : CreateTask(t) \/ CancelTask(t) \/ RunnerStep(t) \/ RunCancelled(t) => Inv'
  <2> TAKE t \in Tasks
  <2> SUFFICES ASSUME CreateTask(t) \/ CancelTask(t) \/ RunnerStep(t) \/ RunCancelled(t)
               PROVE  Inv'
    OBVIOUS
  <2>1. RecordsInv' /\ Longer
    BY <1>1, CreateRecords, CancelRecords, RunnerRecords
  <2>2. client' = client /\ stale' = stale
    BY DEF CreateTask, CancelTask, RunnerStep, RunCancelled, RunStarts, StartFails,
           ResearchSucceeds, RunFails, GateFails, RunSucceeds
  <2>3. /\ ServiceTypeOK' /\ UNCHANGED <<stream, batch, lastSent>>
        /\ received' = received /\ (stale => stale')
    BY <2>1, <2>2 DEF RecordsInv, Typed, client
  <2> QED
    BY <1>1, <2>1, <2>3, StreamKept DEF Inv
<1>3. CASE StopProcess \/ StartProcess
  <2>1. RecordsInv' /\ Longer /\ ServiceTypeOK'
    BY <1>1, <1>3, StopRecords, StartRecords DEF RecordsInv, Typed
  <2>2. CASE StopProcess
    <3>1. received' = received /\ stale' = stale /\ batch' = <<>> /\ stream' # "poll"
      BY <2>2 DEF StopProcess
    <3> QED
      BY <1>1, <2>1, <3>1, StreamKept DEF Inv
  <2>3. CASE StartProcess
    <3>1. received' = received /\ UNCHANGED <<stream, batch, lastSent>>
      BY <2>3 DEF StartProcess, client
    <3>2. stale => stale'
      BY <2>3 DEF StartProcess
    <3> QED
      BY <1>1, <2>1, <3>1, <3>2, StreamKept DEF Inv
  <2> QED
    BY <1>3, <2>2, <2>3
<1>4. CASE CloseProcess \/ Disconnect
  <2>1. /\ UNCHANGED <<records, runner, file, stops, stale>>
        /\ process' = process \/ process' = "closing"
        /\ received' = received
        /\ batch' = <<>> /\ stream' \in {"off", "closed"} /\ lastSent' = 0
    BY <1>4 DEF CloseProcess, Disconnect
  <2>2. ServiceTypeOK'
    BY <1>1, <2>1 DEF ServiceTypeOK, records, file
  <2>3. RecordsInv' /\ Longer
    BY <1>1, <2>1, <2>2, QuietRecords
  <2> QED
    BY <1>1, <2>1, <2>2, <2>3, StreamKept DEF Inv
<1>5. CASE Connect \/ Yield \/ BatchSent \/ Poll
  <2>1. ServiceTypeOK' /\ UNCHANGED <<process, records, runner, file>>
    BY <1>1, <1>5, StreamTypes
  <2>2. Stream'
    BY <1>1, <1>5, StreamStep
  <2> QED
    BY <1>1, <2>1, <2>2, QuietRecords DEF Inv
<1>6. CASE UNCHANGED vars
  <2>1. /\ UNCHANGED <<process, records, runner, file, stops, stale, client>>
        /\ received' = received /\ UNCHANGED <<stream, batch, lastSent>>
    BY <1>6 DEF vars, client
  <2>2. ServiceTypeOK'
    BY <1>1, <2>1 DEF ServiceTypeOK, records, file
  <2>3. RecordsInv' /\ Longer
    BY <1>1, <2>1, <2>2, QuietRecords
  <2> QED
    BY <1>1, <2>1, <2>2, <2>3, StreamKept DEF Inv
<1> QED
  BY <1>2, <1>3, <1>4, <1>5, <1>6 DEF Next

LEMMA AlwaysInv == Spec => []Inv
<1>1. Init => Inv
  BY InitRecords, InitStream DEF Inv
<1> QED
  BY <1>1, StepInv, PTL DEF Spec
-----------------------------------------------------------------------------

\* The records, the file and the stream keep their types, and the store its cap
\* and its distinct ids (TaskStore of api/task_store.py).
THEOREM ServiceTypeCorrect == Spec => []ServiceTypeOK
<1>1. Inv => ServiceTypeOK
  BY DEF Inv, RecordsInv, Typed
<1> QED
  BY <1>1, AlwaysInv, PTL

\* However often the process stops and a task is cancelled or evicted, the list
\* of its events has at most one final event, at the end (ResearchRunner.run).
THEOREM TasksEndOnce == Spec => []OneFinalEvent
<1>1. Inv => OneFinalEvent
  BY DEF Inv, RecordsInv, Finals, FinalIsLast, OneFinalEvent
<1> QED
  BY <1>1, AlwaysInv, PTL

\* A completed task is completed after the next start, with its report, unless
\* its last save failed or was cut off (append_event saves after the report and
\* the status are set; _load of api/task_store.py, create_app).
THEOREM ReportsSurvive == Spec => CompletedSurvives
<1> DEFINE Survives ==
      process = "down" /\ process' = "up" /\ ~torn /\ ~behind =>
        \A t \in Tasks :
          InStore(t) /\ status[t] = "completed" =>
            InStore(t)' /\ status'[t] = "completed" /\ report'[t]
<1>1. Inv /\ [Next]_vars => [Survives]_vars
  <2> SUFFICES ASSUME Inv, [Next]_vars, process = "down", process' = "up", ~torn, ~behind,
                      NEW t \in Tasks, InStore(t), status[t] = "completed"
               PROVE  InStore(t)' /\ status'[t] = "completed" /\ report'[t]
    OBVIOUS
  <2>1. StartProcess
    BY DEF Next, vars, CreateTask, CancelTask, RunnerStep, RunCancelled, RunStarts,
           StartFails, ResearchSucceeds, RunFails, GateFails, RunSucceeds, CloseProcess,
           StopProcess, Connect, Yield, BatchSent, Poll, Disconnect
  <2>2. RecordsInv /\ Fine(disk) /\ CompletedOnDisk
    BY DEF Inv, RecordsInv, Typed
  <2>3. PICK i \in DOMAIN stored : stored[i] = t
    BY DEF InStore, ToSet
  <2>4. PICK j \in DOMAIN disk : disk[j].id = t /\ disk[j].saved.status = "completed"
    BY <2>2, <2>3 DEF CompletedOnDisk
  <2>5. /\ stored'[j] = t /\ j \in DOMAIN stored'
        /\ status'[t] = Recovered("completed") /\ report'[t] = disk[j].saved.report
    <3>1. /\ status'[disk[j].id] = Recovered(disk[j].saved.status)
          /\ report'[disk[j].id] = disk[j].saved.report
      BY <2>1, <2>2, Restored
    <3>2. stored' = [k \in DOMAIN disk |-> disk[k].id]
      BY <2>1 DEF StartProcess
    <3> QED
      BY <2>4, <3>1, <3>2
  <2>6. disk[j].saved.report
    BY <2>2, <2>4 DEF Fine
  <2>7. InStore(t)'
    BY <2>5 DEF InStore, ToSet
  <2> QED
    BY <2>5, <2>6, <2>7 DEF Recovered
<1> QED
  BY <1>1, AlwaysInv, PTL DEF Spec, CompletedSurvives

\* No event reaches the client twice or late, over any number of reconnections
\* and restarts, as long as no process starts from a file that is behind (stream
\* of api/main.py with Last-Event-ID).
THEOREM NothingTwice == Spec => []ReceivedInOrder
<1>1. Inv => ReceivedInOrder
  BY DEF Inv, Stream, ReceivedInOrder
<1> QED
  BY <1>1, AlwaysInv, PTL
=============================================================================
