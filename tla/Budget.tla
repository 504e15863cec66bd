------------------------------- MODULE Budget -------------------------------
(***************************************************************************)
(* BudgetManager (src/agents/budget.py): the token ledger the workers of   *)
(* one research run share, with its reservation tickets, the per-task      *)
(* search rounds and the replan counter.  Each action is one critical      *)
(* section: reserve, commit and release hold the asyncio lock, the other   *)
(* methods never await.                                                    *)
(*                                                                         *)
(* A caller may report any usage when it commits a ticket: the provider    *)
(* returns the real number only after the call was made.                   *)
(***************************************************************************)
EXTENDS Integers, Sequences, FiniteSets, Totals

CONSTANTS
  Tasks,         \* ids of the research tasks
  GlobalCap,     \* global_token_budget
  TaskCap,       \* per_task_token_budget, or NoCap for None
  NoCap,
  MaxRounds,     \* max_search_rounds
  MaxReplans,    \* max_replans
  WarningPct,    \* warning_ratio and critical_ratio, in percent
  CriticalPct,
  MaxTickets,    \* bound: tickets (and direct charges) in one behaviour
  Slices,        \* bound: the slices a caller may ask for
  Usages         \* bound: the usage a caller may report

\* _validate_config; the bounds only have to be numbers.
ASSUME BudgetAssumption ==
  /\ GlobalCap \in Nat \ {0}
  /\ NoCap \notin Int
  /\ TaskCap = NoCap \/ TaskCap \in Nat \ {0}
  /\ MaxRounds \in Nat \ {0}
  /\ MaxReplans \in Nat
  /\ WarningPct \in 1..99 /\ CriticalPct \in 1..100 /\ WarningPct < CriticalPct
  /\ MaxTickets \in Nat /\ Slices \subseteq Nat /\ Usages \subseteq Nat

VARIABLES
  used,          \* _used_tokens
  reserved,      \* _reserved_tokens
  overflow,      \* _overflow_tokens
  taskUsed,      \* _per_task_used, 0 for an absent key
  taskReserved,  \* _per_task_reserved, 0 for an absent key
  tickets,       \* every ticket handed out, in the order of reservation
  rounds,        \* _rounds_per_task
  replans,       \* _replans_used
  overran        \* history: tasks charged beyond what they had reserved

ledger == <<used, reserved, overflow, taskUsed, taskReserved, tickets, overran>>
vars == <<used, reserved, overflow, taskUsed, taskReserved, tickets, overran,
          rounds, replans>>

\* usage is what the ticket was charged, 0 until it is committed.  A charge of
\* record_usage, which no ticket reserved, is entered as a "direct" one.
Ticket ==
  {k \in [task : Tasks, tokens : Nat, usage : Nat,
          state : {"reserved", "committed", "released", "direct"}] :
     k.state \in {"reserved", "released"} => k.usage = 0}

TypeOK ==
  /\ used \in Nat /\ reserved \in Nat /\ overflow \in Nat
  /\ taskUsed \in [Tasks -> Nat]
  /\ taskReserved \in [Tasks -> Nat]
  /\ tickets \in Seq(Ticket)
  /\ rounds \in [Tasks -> 0..MaxRounds]
  /\ replans \in 0..MaxReplans
  /\ overran \in SUBSET Tasks

Init ==
  /\ used = 0 /\ reserved = 0 /\ overflow = 0
  /\ taskUsed = [t \in Tasks |-> 0]
  /\ taskReserved = [t \in Tasks |-> 0]
  /\ tickets = <<>>
  /\ rounds = [t \in Tasks |-> 0]
  /\ replans = 0
  /\ overran = {}

Open(i) == tickets[i].state = "reserved"

\* What a ledger with the given cap shows of n tokens.
Cut(n, cap) == IF cap # NoCap /\ n > cap THEN cap ELSE n

\* The larger of n and 0: the code's "defensive" clamp of a freed slice.
AtLeastZero(n) == IF n < 0 THEN 0 ELSE n

Exhausted == used >= GlobalCap

\* status(): the bands of remaining_ratio.
Status ==
  CASE Exhausted -> "exhausted"
    [] ~Exhausted /\ used * 100 >= CriticalPct * GlobalCap -> "critical"
    [] used * 100 >= WarningPct * GlobalCap /\ used * 100 < CriticalPct * GlobalCap -> "warning"
    [] OTHER -> "ok"

\* task_exhausted(): the worker's gate at the top of its loop.
TaskExhausted(t) == TaskCap # NoCap /\ taskUsed[t] >= TaskCap

-----------------------------------------------------------------------------
(* Wrong variants of the operators below, for the mutation checks. *)

FitsUsedOnly(t, n) ==
  /\ n <= GlobalCap - used
  /\ TaskCap # NoCap => n <= TaskCap - taskUsed[t] - taskReserved[t]

ChargeDroppingExcess(t, u) ==
  /\ used' = Cut(used + u, GlobalCap)
  /\ overflow' = overflow
  /\ taskUsed' = [taskUsed EXCEPT ![t] = Cut(@ + u, TaskCap)]
-----------------------------------------------------------------------------
(* The ledger. *)

\* The slice fits under the global budget and under the task's own.
Fits(t, n) ==
  /\ n <= GlobalCap - used - reserved
  /\ TaskCap # NoCap => n <= TaskCap - taskUsed[t] - taskReserved[t]

\* reserve: all or nothing.
Reserve(t, n) ==
  /\ Len(tickets) < MaxTickets
  /\ Fits(t, n)
  /\ reserved' = reserved + n
  /\ taskReserved' = [taskReserved EXCEPT ![t] = @ + n]
  /\ tickets' = Append(tickets, [task |-> t, tokens |-> n, state |-> "reserved", usage |-> 0])
  /\ UNCHANGED <<used, overflow, taskUsed, overran, rounds, replans>>

\* The part of commit and release that gives ticket i's own slice back.
FreeSlice(i) ==
  LET t == tickets[i].task
      n == tickets[i].tokens
  IN  /\ reserved' = AtLeastZero(reserved - n)
      /\ taskReserved' = [taskReserved EXCEPT ![t] = AtLeastZero(@ - n)]

\* _record_used_locked: both ledgers stop at their cap, and only what the
\* global one cuts off is added to the overflow.
Charge(t, u) ==
  /\ used' = Cut(used + u, GlobalCap)
  /\ overflow' = overflow + AtLeastZero((used + u) - GlobalCap)
  /\ taskUsed' = [taskUsed EXCEPT ![t] = Cut(@ + u, TaskCap)]

\* The commit closes the ticket and raises BudgetExceededError when it moved
\* the overflow.  Closing a closed ticket changes nothing.
CommitRaises(u) == used + u > GlobalCap

Commit(i, u) ==
  /\ Open(i)
  /\ FreeSlice(i)
  /\ Charge(tickets[i].task, u)
  /\ tickets' = [tickets EXCEPT ![i] = [@ EXCEPT !.state = "committed", !.usage = u]]
  /\ overran' = IF u > tickets[i].tokens THEN overran \cup {tickets[i].task} ELSE overran
  /\ UNCHANGED <<rounds, replans>>

Release(i) ==
  /\ Open(i)
  /\ FreeSlice(i)
  /\ tickets' = [tickets EXCEPT ![i] = [@ EXCEPT !.state = "released"]]
  /\ UNCHANGED <<used, overflow, taskUsed, overran, rounds, replans>>

\* record_usage charges tokens that no ticket reserved.
RecordUsage(t, u) ==
  /\ Len(tickets) < MaxTickets
  /\ Charge(t, u)
  /\ tickets' = Append(tickets, [task |-> t, tokens |-> 0, state |-> "direct", usage |-> u])
  /\ overran' = IF u > 0 THEN overran \cup {t} ELSE overran
  /\ UNCHANGED <<reserved, taskReserved, rounds, replans>>
-----------------------------------------------------------------------------
(* Rounds and replans. *)

\* begin_round counts a search round and says whether it was allowed.
RoundAllowed(t) == rounds[t] < MaxRounds

BeginRound(t) ==
  /\ RoundAllowed(t)
  /\ rounds' = [rounds EXCEPT ![t] = @ + 1]
  /\ UNCHANGED <<ledger, replans>>

\* can_replan, and record_replan inside the same replan_guard.
CanReplan == replans < MaxReplans /\ ~Exhausted

RecordReplan ==
  /\ CanReplan
  /\ replans' = replans + 1
  /\ UNCHANGED <<ledger, rounds>>

Next ==
  \/ \E t \in Tasks, n \in Slices : Reserve(t, n)
  \/ \E i \in 1..Len(tickets), u \in Usages : Commit(i, u)
  \/ \E i \in 1..Len(tickets) : Release(i)
  \/ \E t \in Tasks, u \in Usages : RecordUsage(t, u)
  \/ \E t \in Tasks : BeginRound(t)
  \/ RecordReplan

Spec == Init /\ [][Next]_vars
-----------------------------------------------------------------------------
(* Sums over the tickets. *)

OpenSlices == [i \in 1..Len(tickets) |-> IF Open(i) THEN tickets[i].tokens ELSE 0]

OpenSlicesOf(t) ==
  [i \in 1..Len(tickets) |-> IF Open(i) /\ tickets[i].task = t THEN tickets[i].tokens ELSE 0]

Charges == [i \in 1..Len(tickets) |-> tickets[i].usage]

ChargesTo(t) ==
  [i \in 1..Len(tickets) |-> IF tickets[i].task = t THEN tickets[i].usage ELSE 0]
-----------------------------------------------------------------------------
(* Properties. *)

\* The counters of reserved tokens are exactly the slices of the tickets still
\* open, over all tasks and for each task: closing a ticket frees its own slice
\* and no other, whatever the order in which the workers close theirs (the
\* module's docstring: two reservations for one task release independently).
ReservedIsOpenTickets ==
  /\ reserved = Total(OpenSlices)
  /\ \A t \in Tasks : taskReserved[t] = Total(OpenSlicesOf(t))

\* What reserve promises: while every caller stays within its slice, the tokens
\* spent and the tokens promised fit the budget together, so no commit overflows;
\* and a task that stays within its slices is safe from its own cap whatever
\* the others do.
SlicesHonoured ==
  /\ overran = {} => used + reserved <= GlobalCap /\ overflow = 0
  /\ TaskCap # NoCap =>
       \A t \in Tasks \ overran : taskUsed[t] + taskReserved[t] <= TaskCap

\* Each ledger shows everything its callers reported, every ticket once, cut
\* off at its hard cap; the overflow is exactly what the global one cut off.  So
\* no order of closings charges a ticket twice, loses a charge or passes a cap.
\* (What a task's own ledger cuts off is recorded nowhere, although the docs say
\* so: ExcessRecorded in Workers.)
LedgersShowAllCharges ==
  /\ used = Cut(Total(Charges), GlobalCap)
  /\ overflow = Total(Charges) - used
  /\ \A t \in Tasks : taskUsed[t] = Cut(Total(ChargesTo(t)), TaskCap)
=============================================================================
