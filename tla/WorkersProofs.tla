--------------------------- MODULE WorkersProofs ----------------------------
(***************************************************************************)
(* The token ledger and the workers that use it, for every set of tasks,   *)
(* every cap and every bound.                                              *)
(*                                                                         *)
(* Budget's four invariants are inductive together.  Each ledger property  *)
(* speaks of a sum over the tickets: AddTicket and CloseTicket say how the *)
(* sums change when a ticket is added or closed, by the lemmas on weighted *)
(* sums of Lemmas, and what is left is arithmetic.                         *)
(*                                                                         *)
(* Every worker step is a step of Budget, and a ticket is open exactly while *)
(* its worker extracts.  The two facts are proved together: a commit is a step *)
(* of Budget because the worker holds an open ticket, and the worker's ticket *)
(* is its own because the steps of Budget touch one ticket each.           *)
(*                                                                         *)
(* Then the worker's own results: what its loop counts, that the citation ids *)
(* of its sources are unique, and that all its facts reach the collector.  *)
(***************************************************************************)
EXTENDS Workers, Lemmas

(* The ledger. *)

\* What a ticket contributes to each of the sums.
OpenW == [k \in Ticket |-> IF k.state = "reserved" THEN k.tokens ELSE 0]
OpenOfW(t) ==
  [k \in Ticket |-> IF k.state = "reserved" /\ k.task = t THEN k.tokens ELSE 0]
ChargeW == [k \in Ticket |-> k.usage]
ChargeOfW(t) == [k \in Ticket |-> IF k.task = t THEN k.usage ELSE 0]

LEMMA WeightTypes ==
  /\ OpenW \in [Ticket -> Nat] /\ ChargeW \in [Ticket -> Nat]
  /\ \A t : OpenOfW(t) \in [Ticket -> Nat] /\ ChargeOfW(t) \in [Ticket -> Nat]
BY DEF OpenW, OpenOfW, ChargeW, ChargeOfW, Ticket

\* The model's sums are weighted sums of the tickets, in either state.
LEMMA SumsAreWeights ==
  ASSUME tickets \in Seq(Ticket)
  PROVE  /\ OpenSlices = Weigh(OpenW, tickets)
         /\ Charges = Weigh(ChargeW, tickets)
         /\ \A t : /\ OpenSlicesOf(t) = Weigh(OpenOfW(t), tickets)
                   /\ ChargesTo(t) = Weigh(ChargeOfW(t), tickets)
<1>1. \A i \in 1..Len(tickets) : tickets[i] \in Ticket
  OBVIOUS
<1> QED
  BY <1>1 DEF OpenSlices, OpenSlicesOf, Charges, ChargesTo, Weigh, Open,
              OpenW, OpenOfW, ChargeW, ChargeOfW

LEMMA SumsAreWeightsPrime ==
  ASSUME tickets' \in Seq(Ticket)
  PROVE  /\ OpenSlices' = Weigh(OpenW, tickets')
         /\ Charges' = Weigh(ChargeW, tickets')
         /\ \A t : /\ OpenSlicesOf(t)' = Weigh(OpenOfW(t), tickets')
                   /\ ChargesTo(t)' = Weigh(ChargeOfW(t), tickets')
<1>1. \A i \in 1..Len(tickets') : tickets'[i] \in Ticket
  OBVIOUS
<1> QED
  BY <1>1 DEF OpenSlices, OpenSlicesOf, Charges, ChargesTo, Weigh, Open,
              OpenW, OpenOfW, ChargeW, ChargeOfW

\* The sums are naturals.
LEMMA SumTypes ==
  ASSUME tickets \in Seq(Ticket)
  PROVE  /\ Total(OpenSlices) \in Nat /\ Total(Charges) \in Nat
         /\ \A t : Total(OpenSlicesOf(t)) \in Nat /\ Total(ChargesTo(t)) \in Nat
BY SumsAreWeights, WeightTypes, WeighType, TotalNat

\* A ticket added to the ledger adds to the sums what it holds.
LEMMA AddTicket ==
  ASSUME tickets \in Seq(Ticket), NEW k \in Ticket, tickets' = Append(tickets, k)
  PROVE  /\ tickets' \in Seq(Ticket)
         /\ Total(OpenSlices)' = Total(OpenSlices) + OpenW[k]
         /\ Total(Charges)' = Total(Charges) + ChargeW[k]
         /\ \A t : /\ Total(OpenSlicesOf(t))' = Total(OpenSlicesOf(t)) + OpenOfW(t)[k]
                   /\ Total(ChargesTo(t))' = Total(ChargesTo(t)) + ChargeOfW(t)[k]
<1>1. tickets' \in Seq(Ticket)
  OBVIOUS
<1>2. \A W \in [Ticket -> Nat] :
        Total(Weigh(W, tickets')) = Total(Weigh(W, tickets)) + W[k]
  BY WeighAppend
<1> QED
  BY <1>1, <1>2, SumsAreWeights, SumsAreWeightsPrime, WeightTypes

\* A ticket replaced in the ledger exchanges its parts of the sums.
LEMMA CloseTicket ==
  ASSUME tickets \in Seq(Ticket), NEW i \in 1..Len(tickets), NEW k \in Ticket,
         tickets' = [tickets EXCEPT ![i] = k]
  PROVE  /\ tickets' \in Seq(Ticket)
         /\ Total(OpenSlices)' = (Total(OpenSlices) - OpenW[tickets[i]]) + OpenW[k]
         /\ OpenW[tickets[i]] <= Total(OpenSlices)
         /\ Total(Charges)' = (Total(Charges) - ChargeW[tickets[i]]) + ChargeW[k]
         /\ \A t : /\ Total(OpenSlicesOf(t))' =
                        (Total(OpenSlicesOf(t)) - OpenOfW(t)[tickets[i]]) + OpenOfW(t)[k]
                   /\ OpenOfW(t)[tickets[i]] <= Total(OpenSlicesOf(t))
                   /\ Total(ChargesTo(t))' =
                        (Total(ChargesTo(t)) - ChargeOfW(t)[tickets[i]]) + ChargeOfW(t)[k]
<1>1. tickets' \in Seq(Ticket)
  OBVIOUS
<1>2. \A W \in [Ticket -> Nat] :
        /\ Total(Weigh(W, tickets')) = (Total(Weigh(W, tickets)) - W[tickets[i]]) + W[k]
        /\ W[tickets[i]] <= Total(Weigh(W, tickets))
  BY WeighExcept
<1> QED
  BY <1>1, <1>2, SumsAreWeights, SumsAreWeightsPrime, WeightTypes
-----------------------------------------------------------------------------
(* The inductive invariant. *)

IInv == TypeOK /\ ReservedIsOpenTickets /\ LedgersShowAllCharges /\ SlicesHonoured

LEMMA InitIInv == Init => IInv
<1> SUFFICES ASSUME Init PROVE IInv
  OBVIOUS
<1> USE BudgetAssumption DEF Init
<1>1. TypeOK
  BY DEF TypeOK
<1>2. /\ OpenSlices = <<>> /\ Charges = <<>>
      /\ \A t : OpenSlicesOf(t) = <<>> /\ ChargesTo(t) = <<>>
  BY DEF OpenSlices, OpenSlicesOf, Charges, ChargesTo
<1>3. ReservedIsOpenTickets
  BY <1>2, TotalEmpty DEF ReservedIsOpenTickets
<1>4. LedgersShowAllCharges
  BY <1>2, TotalEmpty DEF LedgersShowAllCharges, Cut
<1>5. SlicesHonoured
  BY DEF SlicesHonoured
<1> QED
  BY <1>1, <1>3, <1>4, <1>5 DEF IInv

\* Charging u to t moves both ledgers to what they show of the larger totals.
LEMMA ChargeLemma ==
  ASSUME TypeOK, LedgersShowAllCharges, NEW t \in Tasks, NEW u \in Nat, Charge(t, u)
  PROVE  /\ used' \in Nat /\ overflow' \in Nat /\ taskUsed' \in [Tasks -> Nat]
         /\ used' = Cut(Total(Charges) + u, GlobalCap)
         /\ overflow' = (Total(Charges) + u) - used'
         /\ used' <= used + u
         /\ used + u <= GlobalCap => overflow' = overflow
         /\ taskUsed' = [taskUsed EXCEPT ![t] = Cut(Total(ChargesTo(t)) + u, TaskCap)]
         /\ taskUsed'[t] <= taskUsed[t] + u
<1> DEFINE whole == Total(Charges)
           own == Total(ChargesTo(t))
<1>1. whole \in Nat /\ own \in Nat
  BY SumTypes DEF TypeOK
<1>2. /\ used \in Nat /\ overflow \in Nat /\ taskUsed \in [Tasks -> Nat]
      /\ used = Cut(whole, GlobalCap) /\ overflow = whole - used
      /\ taskUsed[t] = Cut(own, TaskCap)
  BY DEF TypeOK, LedgersShowAllCharges
<1>3. /\ used' = Cut(used + u, GlobalCap)
      /\ overflow' = overflow + AtLeastZero((used + u) - GlobalCap)
      /\ taskUsed' = [taskUsed EXCEPT ![t] = Cut(taskUsed[t] + u, TaskCap)]
  BY DEF Charge
<1> HIDE DEF whole, own
<1>4. /\ used' = Cut(whole + u, GlobalCap) /\ overflow' = (whole + u) - used'
      /\ used' \in Nat /\ overflow' \in Nat /\ used' <= used + u
      /\ used + u <= GlobalCap => overflow' = overflow
  BY <1>1, <1>2, <1>3, BudgetAssumption DEF Cut, AtLeastZero
<1>5. /\ Cut(taskUsed[t] + u, TaskCap) = Cut(own + u, TaskCap)
      /\ Cut(taskUsed[t] + u, TaskCap) \in Nat
      /\ Cut(taskUsed[t] + u, TaskCap) <= taskUsed[t] + u
  BY <1>1, <1>2, BudgetAssumption DEF Cut
<1> QED
  BY <1>2, <1>3, <1>4, <1>5 DEF whole, own

\* Freeing ticket i takes exactly its slice off both counters: the clamp at
\* zero never bites, because the slice is part of what is reserved.
LEMMA FreeSliceLemma ==
  ASSUME TypeOK, ReservedIsOpenTickets, NEW i \in 1..Len(tickets), Open(i), FreeSlice(i),
         NEW k \in Ticket, k.task = tickets[i].task, k.state # "reserved",
         tickets' = [tickets EXCEPT ![i] = k]
  PROVE  /\ reserved' = reserved - tickets[i].tokens /\ reserved' \in Nat
         /\ taskReserved' = [taskReserved EXCEPT ![k.task] = @ - tickets[i].tokens]
         /\ taskReserved' \in [Tasks -> Nat]
         /\ ReservedIsOpenTickets'
<1> DEFINE n == tickets[i].tokens
           t == k.task
<1>1. /\ tickets \in Seq(Ticket) /\ tickets[i] \in Ticket /\ n \in Nat /\ t \in Tasks
      /\ reserved \in Nat /\ taskReserved \in [Tasks -> Nat]
  <2>1. tickets \in Seq(Ticket) /\ reserved \in Nat /\ taskReserved \in [Tasks -> Nat]
    BY DEF TypeOK
  <2>2. tickets[i] \in Ticket
    BY <2>1
  <2> QED
    BY <2>1, <2>2 DEF Ticket
<1>2. /\ OpenW[tickets[i]] = n /\ OpenW[k] = 0
      /\ \A s : /\ OpenOfW(s)[tickets[i]] = IF s = t THEN n ELSE 0
                /\ OpenOfW(s)[k] = 0
  BY <1>1 DEF OpenW, OpenOfW, Open
<1>c. /\ Total(OpenSlices)' = (Total(OpenSlices) - OpenW[tickets[i]]) + OpenW[k]
      /\ OpenW[tickets[i]] <= Total(OpenSlices)
      /\ \A s : /\ Total(OpenSlicesOf(s))' =
                     (Total(OpenSlicesOf(s)) - OpenOfW(s)[tickets[i]]) + OpenOfW(s)[k]
                /\ OpenOfW(s)[tickets[i]] <= Total(OpenSlicesOf(s))
  BY <1>1, CloseTicket
<1>s. Total(OpenSlices) \in Nat /\ \A s : Total(OpenSlicesOf(s)) \in Nat
  BY <1>1, SumTypes
<1> HIDE DEF n, t
<1>3. /\ Total(OpenSlices)' = Total(OpenSlices) - n
      /\ n <= Total(OpenSlices)
  BY <1>1, <1>2, <1>c, <1>s
<1>4. \A s \in Tasks :
        /\ s = t => /\ Total(OpenSlicesOf(s))' = Total(OpenSlicesOf(s)) - n
                    /\ n <= Total(OpenSlicesOf(s))
        /\ s # t => Total(OpenSlicesOf(s))' = Total(OpenSlicesOf(s))
  BY <1>1, <1>2, <1>c, <1>s
<1>f. /\ reserved' = AtLeastZero(reserved - n)
      /\ taskReserved' = [taskReserved EXCEPT ![t] = AtLeastZero(taskReserved[t] - n)]
  BY Zenon DEF FreeSlice, n, t
<1>5. reserved' = reserved - n /\ reserved' \in Nat
  BY <1>1, <1>3, <1>f DEF ReservedIsOpenTickets, AtLeastZero
<1>6. /\ taskReserved' = [taskReserved EXCEPT ![t] = @ - n]
      /\ taskReserved' \in [Tasks -> Nat]
  <2>1. n <= taskReserved[t]
    BY <1>1, <1>4 DEF ReservedIsOpenTickets
  <2>2. AtLeastZero(taskReserved[t] - n) = taskReserved[t] - n
    BY <1>1, <2>1 DEF AtLeastZero
  <2>3. taskReserved[t] - n \in Nat
    BY <1>1, <2>1
  <2>4. taskReserved' = [taskReserved EXCEPT ![t] = taskReserved[t] - n]
    BY <1>f, <2>2, Zenon
  <2> QED
    BY <1>1, <2>3, <2>4
<1>7. ReservedIsOpenTickets'
  BY <1>1, <1>3, <1>4, <1>5, <1>6 DEF ReservedIsOpenTickets
<1> QED
  BY <1>5, <1>6, <1>7 DEF n, t
-----------------------------------------------------------------------------
(* One lemma per action. *)

LEMMA ReserveStep ==
  ASSUME IInv, NEW t \in Tasks, NEW n \in Slices, Reserve(t, n)
  PROVE  IInv'
<1> USE BudgetAssumption
<1> DEFINE k == [task |-> t, tokens |-> n, state |-> "reserved", usage |-> 0]
<1>1. /\ TypeOK /\ ReservedIsOpenTickets /\ LedgersShowAllCharges /\ SlicesHonoured
      /\ n \in Nat /\ k \in Ticket
  BY DEF IInv, Ticket
<1>2. /\ tickets' = Append(tickets, k)
      /\ reserved' = reserved + n
      /\ taskReserved' = [taskReserved EXCEPT ![t] = taskReserved[t] + n]
      /\ used' = used /\ overflow' = overflow /\ taskUsed' = taskUsed
      /\ overran' = overran /\ rounds' = rounds /\ replans' = replans
  BY DEF Reserve
<1>3. /\ OpenW[k] = n /\ ChargeW[k] = 0
      /\ \A s : /\ OpenOfW(s)[k] = IF s = t THEN n ELSE 0
                /\ ChargeOfW(s)[k] = 0
  BY <1>1 DEF OpenW, OpenOfW, ChargeW, ChargeOfW
<1>4. tickets \in Seq(Ticket)
  BY <1>1 DEF TypeOK
<1> HIDE DEF k
<1>5. /\ tickets' \in Seq(Ticket)
      /\ Total(OpenSlices)' = Total(OpenSlices) + n
      /\ Total(Charges)' = Total(Charges)
      /\ \A s : /\ Total(OpenSlicesOf(s))' =
                     Total(OpenSlicesOf(s)) + (IF s = t THEN n ELSE 0)
                /\ Total(ChargesTo(s))' = Total(ChargesTo(s))
  <2>1. /\ tickets' \in Seq(Ticket)
        /\ Total(OpenSlices)' = Total(OpenSlices) + OpenW[k]
        /\ Total(Charges)' = Total(Charges) + ChargeW[k]
        /\ \A s : /\ Total(OpenSlicesOf(s))' = Total(OpenSlicesOf(s)) + OpenOfW(s)[k]
                  /\ Total(ChargesTo(s))' = Total(ChargesTo(s)) + ChargeOfW(s)[k]
    BY <1>1, <1>2, <1>4, AddTicket
  <2>2. /\ Total(OpenSlices) \in Nat /\ Total(Charges) \in Nat
        /\ \A s : Total(OpenSlicesOf(s)) \in Nat /\ Total(ChargesTo(s)) \in Nat
    BY <1>4, SumTypes
  <2>3. \A s : /\ Total(OpenSlicesOf(s))' = Total(OpenSlicesOf(s)) + (IF s = t THEN n ELSE 0)
               /\ Total(ChargesTo(s))' = Total(ChargesTo(s))
    <3> TAKE s
    <3>1. Total(OpenSlicesOf(s))' = Total(OpenSlicesOf(s)) + (IF s = t THEN n ELSE 0)
      BY <1>1, <1>3, <2>1, <2>2
    <3>2. Total(ChargesTo(s))' = Total(ChargesTo(s))
      BY <1>1, <1>3, <2>1, <2>2
    <3> QED
      BY <3>1, <3>2
  <2> QED
    BY <1>1, <1>3, <2>1, <2>2, <2>3
<1>6. TypeOK'
  BY <1>1, <1>2, <1>5 DEF TypeOK
<1>7. ReservedIsOpenTickets'
  BY <1>1, <1>2, <1>5 DEF ReservedIsOpenTickets, TypeOK
<1>8. LedgersShowAllCharges'
  BY <1>1, <1>2, <1>5 DEF LedgersShowAllCharges, Cut
<1>9. SlicesHonoured'
  <2>1. Fits(t, n)
    BY DEF Reserve
  <2> QED
    BY <1>1, <1>2, <2>1 DEF SlicesHonoured, Fits, TypeOK
<1> QED
  BY <1>6, <1>7, <1>8, <1>9 DEF IInv

LEMMA CommitStep ==
  ASSUME IInv, NEW i \in 1..Len(tickets), NEW u \in Usages, Commit(i, u)
  PROVE  IInv'
<1> USE BudgetAssumption
<1> DEFINE old == tickets[i]
           k == [old EXCEPT !.state = "committed", !.usage = u]
           t == old.task
           n == old.tokens
<1>1. /\ TypeOK /\ ReservedIsOpenTickets /\ LedgersShowAllCharges /\ SlicesHonoured
      /\ u \in Nat /\ tickets \in Seq(Ticket)
  BY DEF IInv, TypeOK
<1>2. /\ Open(i) /\ FreeSlice(i) /\ Charge(t, u)
      /\ tickets' = [tickets EXCEPT ![i] = k]
      /\ overran' = IF u > n THEN overran \cup {t} ELSE overran
      /\ rounds' = rounds /\ replans' = replans
  BY DEF Commit
<1>3. /\ old \in Ticket /\ t \in Tasks /\ n \in Nat /\ old.usage = 0
      /\ old.state = "reserved"
  <2>1. old \in Ticket /\ old.state = "reserved"
    BY <1>1, <1>2 DEF Open
  <2> HIDE DEF old
  <2> QED
    BY <2>1 DEF Ticket
<1>4. k \in Ticket /\ k.task = t /\ k.state = "committed" /\ k.usage = u
  <2> HIDE DEF old
  <2> QED
    BY <1>1, <1>3 DEF Ticket
<1>5. /\ ChargeW[old] = 0 /\ ChargeW[k] = u
      /\ \A s : /\ ChargeOfW(s)[old] = 0
                /\ ChargeOfW(s)[k] = IF s = t THEN u ELSE 0
  <2> HIDE DEF old, k
  <2> QED
    BY <1>3, <1>4 DEF ChargeW, ChargeOfW
<1> HIDE DEF old, k, t, n
<1>6. /\ tickets' \in Seq(Ticket)
      /\ Total(Charges)' = Total(Charges) + u
      /\ \A s : Total(ChargesTo(s))' = Total(ChargesTo(s)) + (IF s = t THEN u ELSE 0)
  <2>1. /\ tickets' \in Seq(Ticket)
        /\ Total(Charges)' = (Total(Charges) - ChargeW[old]) + ChargeW[k]
        /\ \A s : Total(ChargesTo(s))' =
                    (Total(ChargesTo(s)) - ChargeOfW(s)[old]) + ChargeOfW(s)[k]
    BY <1>1, <1>2, <1>4, CloseTicket DEF old
  <2>2. Total(Charges) \in Nat /\ \A s : Total(ChargesTo(s)) \in Nat
    BY <1>1, SumTypes
  <2>3. Total(Charges)' = Total(Charges) + u
    BY <1>1, <1>5, <2>1, <2>2
  <2>4. ASSUME NEW s
        PROVE  Total(ChargesTo(s))' = Total(ChargesTo(s)) + (IF s = t THEN u ELSE 0)
    <3>1. /\ ChargeOfW(s)[old] = 0 /\ ChargeOfW(s)[k] = IF s = t THEN u ELSE 0
          /\ Total(ChargesTo(s))' =
               (Total(ChargesTo(s)) - ChargeOfW(s)[old]) + ChargeOfW(s)[k]
          /\ Total(ChargesTo(s)) \in Nat
      BY <1>5, <2>1, <2>2
    <3> QED
      BY <1>1, <3>1
  <2> QED
    BY <2>1, <2>3, <2>4
<1>7. /\ used' \in Nat /\ overflow' \in Nat /\ taskUsed' \in [Tasks -> Nat]
      /\ used' = Cut(Total(Charges) + u, GlobalCap)
      /\ overflow' = (Total(Charges) + u) - used'
      /\ used' <= used + u
      /\ used + u <= GlobalCap => overflow' = overflow
      /\ taskUsed' = [taskUsed EXCEPT ![t] = Cut(Total(ChargesTo(t)) + u, TaskCap)]
      /\ taskUsed'[t] <= taskUsed[t] + u
  BY <1>1, <1>2, <1>3, ChargeLemma
<1>8. /\ reserved' = reserved - n /\ reserved' \in Nat
      /\ taskReserved' = [taskReserved EXCEPT ![t] = taskReserved[t] - n]
      /\ taskReserved' \in [Tasks -> Nat]
      /\ ReservedIsOpenTickets'
  <2>1. k.state # "reserved"
    BY <1>4
  <2> QED
    BY <1>1, <1>2, <1>4, <2>1, FreeSliceLemma DEF old, n, t
<1>9. TypeOK'
  BY <1>1, <1>2, <1>3, <1>6, <1>7, <1>8 DEF TypeOK
<1>10. LedgersShowAllCharges'
  <2>1. used' = Cut(Total(Charges)', GlobalCap) /\ overflow' = Total(Charges)' - used'
    BY <1>6, <1>7
  <2>2. ASSUME NEW s \in Tasks PROVE taskUsed'[s] = Cut(Total(ChargesTo(s))', TaskCap)
    <3>1. taskUsed \in [Tasks -> Nat] /\ taskUsed[s] = Cut(Total(ChargesTo(s)), TaskCap)
      BY <1>1 DEF TypeOK, LedgersShowAllCharges
    <3>2. Total(ChargesTo(s)) \in Nat
      BY <1>1, SumTypes
    <3>3. CASE s = t
      BY <1>3, <1>6, <1>7, <3>1, <3>3
    <3>4. CASE s # t
      BY <1>3, <1>6, <1>7, <3>1, <3>2, <3>4
    <3> QED
      BY <3>3, <3>4
  <2> QED
    BY <2>1, <2>2 DEF LedgersShowAllCharges
<1>11. SlicesHonoured'
  <2>1. /\ used \in Nat /\ reserved \in Nat /\ overran \in SUBSET Tasks
        /\ taskUsed \in [Tasks -> Nat] /\ taskReserved \in [Tasks -> Nat]
    BY <1>1 DEF TypeOK
  <2>2. ASSUME overran' = {} PROVE used' + reserved' <= GlobalCap /\ overflow' = 0
    <3>1. overran = {} /\ u <= n
      <4>1. ~(u > n)
        <5>1. u > n => t \in overran'
          BY <1>2
        <5> QED
          BY <2>2, <5>1
      <4> QED
        BY <1>1, <1>2, <1>3, <2>2, <4>1
    <3>2. used + reserved <= GlobalCap /\ overflow = 0
      BY <1>1, <3>1 DEF SlicesHonoured
    <3>3. reserved' = reserved - n /\ reserved' \in Nat /\ used' \in Nat /\ used' <= used + u
      BY <1>7, <1>8
    <3>4. used + u <= GlobalCap
      BY <1>1, <1>3, <2>1, <3>1, <3>2, <3>3
    <3> QED
      BY <1>1, <1>3, <1>7, <2>1, <3>1, <3>2, <3>3, <3>4
  <2>3. ASSUME TaskCap # NoCap, NEW s \in Tasks \ overran'
        PROVE  taskUsed'[s] + taskReserved'[s] <= TaskCap
    <3>1. /\ s \notin overran /\ taskUsed[s] + taskReserved[s] <= TaskCap
          /\ s = t => u <= n
      BY <1>1, <1>2, <1>3, <2>3 DEF SlicesHonoured
    <3>2. CASE s = t
      BY <1>1, <1>3, <1>7, <1>8, <2>1, <2>3, <3>1, <3>2
    <3>3. CASE s # t
      BY <1>3, <1>7, <1>8, <2>1, <3>1, <3>3
    <3> QED
      BY <3>2, <3>3
  <2> QED
    BY <2>2, <2>3 DEF SlicesHonoured
<1> QED
  BY <1>8, <1>9, <1>10, <1>11 DEF IInv

LEMMA ReleaseStep ==
  ASSUME IInv, NEW i \in 1..Len(tickets), Release(i)
  PROVE  IInv'
<1> USE BudgetAssumption
<1> DEFINE old == tickets[i]
           k == [old EXCEPT !.state = "released"]
           t == old.task
           n == old.tokens
<1>1. /\ TypeOK /\ ReservedIsOpenTickets /\ LedgersShowAllCharges /\ SlicesHonoured
      /\ tickets \in Seq(Ticket)
  BY DEF IInv, TypeOK
<1>2. /\ Open(i) /\ FreeSlice(i)
      /\ tickets' = [tickets EXCEPT ![i] = k]
      /\ used' = used /\ overflow' = overflow /\ taskUsed' = taskUsed
      /\ overran' = overran /\ rounds' = rounds /\ replans' = replans
  BY DEF Release
<1>3. /\ old \in Ticket /\ t \in Tasks /\ n \in Nat /\ old.usage = 0
      /\ old.state = "reserved"
  <2>1. old \in Ticket /\ old.state = "reserved"
    BY <1>1, <1>2 DEF Open
  <2> HIDE DEF old
  <2> QED
    BY <2>1 DEF Ticket
<1>4. k \in Ticket /\ k.task = t /\ k.state = "released" /\ k.usage = 0
  <2> HIDE DEF old
  <2> QED
    BY <1>1, <1>3 DEF Ticket
<1>5. /\ ChargeW[old] = 0 /\ ChargeW[k] = 0
      /\ \A s : ChargeOfW(s)[old] = 0 /\ ChargeOfW(s)[k] = 0
  <2> HIDE DEF old, k
  <2> QED
    BY <1>3, <1>4 DEF ChargeW, ChargeOfW
<1> HIDE DEF old, k, t, n
<1>6. /\ tickets' \in Seq(Ticket)
      /\ Total(Charges)' = Total(Charges)
      /\ \A s : Total(ChargesTo(s))' = Total(ChargesTo(s))
  <2>1. /\ tickets' \in Seq(Ticket)
        /\ Total(Charges)' = (Total(Charges) - ChargeW[old]) + ChargeW[k]
        /\ \A s : Total(ChargesTo(s))' =
                    (Total(ChargesTo(s)) - ChargeOfW(s)[old]) + ChargeOfW(s)[k]
    BY <1>1, <1>2, <1>4, CloseTicket DEF old
  <2>2. Total(Charges) \in Nat /\ \A s : Total(ChargesTo(s)) \in Nat
    BY <1>1, SumTypes
  <2> QED
    BY <1>1, <1>5, <2>1, <2>2
<1>7. /\ reserved' = reserved - n /\ reserved' \in Nat
      /\ taskReserved' = [taskReserved EXCEPT ![t] = taskReserved[t] - n]
      /\ taskReserved' \in [Tasks -> Nat]
      /\ ReservedIsOpenTickets'
  <2>1. k.state # "reserved"
    BY <1>4
  <2> QED
    BY <1>1, <1>2, <1>4, <2>1, FreeSliceLemma DEF old, n, t
<1>8. TypeOK'
  BY <1>1, <1>2, <1>6, <1>7 DEF TypeOK
<1>9. LedgersShowAllCharges'
  BY <1>1, <1>2, <1>6 DEF LedgersShowAllCharges, Cut
<1>10. SlicesHonoured'
  BY <1>1, <1>2, <1>3, <1>7 DEF SlicesHonoured, TypeOK
<1> QED
  BY <1>7, <1>8, <1>9, <1>10 DEF IInv

LEMMA RecordUsageStep ==
  ASSUME IInv, NEW t \in Tasks, NEW u \in Usages, RecordUsage(t, u)
  PROVE  IInv'
<1> USE BudgetAssumption
<1> DEFINE k == [task |-> t, tokens |-> 0, state |-> "direct", usage |-> u]
<1>1. /\ TypeOK /\ ReservedIsOpenTickets /\ LedgersShowAllCharges /\ SlicesHonoured
      /\ u \in Nat /\ k \in Ticket /\ tickets \in Seq(Ticket)
  BY DEF IInv, Ticket, TypeOK
<1>2. /\ Charge(t, u) /\ tickets' = Append(tickets, k)
      /\ overran' = IF u > 0 THEN overran \cup {t} ELSE overran
      /\ reserved' = reserved /\ taskReserved' = taskReserved
      /\ rounds' = rounds /\ replans' = replans
  BY DEF RecordUsage
<1>3. /\ OpenW[k] = 0 /\ ChargeW[k] = u
      /\ \A s : /\ OpenOfW(s)[k] = 0
                /\ ChargeOfW(s)[k] = IF s = t THEN u ELSE 0
  BY <1>1 DEF OpenW, OpenOfW, ChargeW, ChargeOfW
<1> HIDE DEF k
<1>4. /\ tickets' \in Seq(Ticket)
      /\ Total(OpenSlices)' = Total(OpenSlices)
      /\ Total(Charges)' = Total(Charges) + u
      /\ \A s : /\ Total(OpenSlicesOf(s))' = Total(OpenSlicesOf(s))
                /\ Total(ChargesTo(s))' =
                     Total(ChargesTo(s)) + (IF s = t THEN u ELSE 0)
  <2>1. /\ tickets' \in Seq(Ticket)
        /\ Total(OpenSlices)' = Total(OpenSlices) + OpenW[k]
        /\ Total(Charges)' = Total(Charges) + ChargeW[k]
        /\ \A s : /\ Total(OpenSlicesOf(s))' = Total(OpenSlicesOf(s)) + OpenOfW(s)[k]
                  /\ Total(ChargesTo(s))' = Total(ChargesTo(s)) + ChargeOfW(s)[k]
    BY <1>1, <1>2, AddTicket
  <2>2. /\ Total(OpenSlices) \in Nat /\ Total(Charges) \in Nat
        /\ \A s : Total(OpenSlicesOf(s)) \in Nat /\ Total(ChargesTo(s)) \in Nat
    BY <1>1, SumTypes
  <2>3. \A s : /\ Total(OpenSlicesOf(s))' = Total(OpenSlicesOf(s))
               /\ Total(ChargesTo(s))' = Total(ChargesTo(s)) + (IF s = t THEN u ELSE 0)
    <3> TAKE s
    <3>1. Total(OpenSlicesOf(s))' = Total(OpenSlicesOf(s))
      BY <1>1, <1>3, <2>1, <2>2
    <3>2. Total(ChargesTo(s))' = Total(ChargesTo(s)) + (IF s = t THEN u ELSE 0)
      BY <1>1, <1>3, <2>1, <2>2
    <3> QED
      BY <3>1, <3>2
  <2> QED
    BY <1>1, <1>3, <2>1, <2>2, <2>3
<1>5. /\ used' \in Nat /\ overflow' \in Nat /\ taskUsed' \in [Tasks -> Nat]
      /\ used' = Cut(Total(Charges) + u, GlobalCap)
      /\ overflow' = (Total(Charges) + u) - used'
      /\ used' <= used + u
      /\ used + u <= GlobalCap => overflow' = overflow
      /\ taskUsed' = [taskUsed EXCEPT ![t] = Cut(Total(ChargesTo(t)) + u, TaskCap)]
      /\ taskUsed'[t] <= taskUsed[t] + u
  BY <1>1, <1>2, ChargeLemma
<1>6. TypeOK'
  BY <1>1, <1>2, <1>4, <1>5 DEF TypeOK
<1>7. ReservedIsOpenTickets'
  BY <1>1, <1>2, <1>4 DEF ReservedIsOpenTickets
<1>8. LedgersShowAllCharges'
  <2>1. used' = Cut(Total(Charges)', GlobalCap) /\ overflow' = Total(Charges)' - used'
    BY <1>4, <1>5
  <2>2. ASSUME NEW s \in Tasks PROVE taskUsed'[s] = Cut(Total(ChargesTo(s))', TaskCap)
    <3>1. taskUsed \in [Tasks -> Nat] /\ taskUsed[s] = Cut(Total(ChargesTo(s)), TaskCap)
      BY <1>1 DEF TypeOK, LedgersShowAllCharges
    <3>2. Total(ChargesTo(s)) \in Nat
      BY <1>1, SumTypes
    <3>3. CASE s = t
      BY <1>4, <1>5, <3>1, <3>3
    <3>4. CASE s # t
      BY <1>4, <1>5, <3>1, <3>2, <3>4
    <3> QED
      BY <3>3, <3>4
  <2> QED
    BY <2>1, <2>2 DEF LedgersShowAllCharges
<1>9. SlicesHonoured'
  <2>1. /\ used \in Nat /\ reserved \in Nat /\ overran \in SUBSET Tasks
        /\ taskUsed \in [Tasks -> Nat] /\ taskReserved \in [Tasks -> Nat]
    BY <1>1 DEF TypeOK
  <2>2. ASSUME overran' = {} PROVE used' + reserved' <= GlobalCap /\ overflow' = 0
    <3>1. overran = {} /\ u = 0
      <4>1. ~(u > 0)
        <5>1. u > 0 => t \in overran'
          BY <1>2
        <5> QED
          BY <2>2, <5>1
      <4> QED
        BY <1>1, <1>2, <2>2, <4>1
    <3>2. used + reserved <= GlobalCap /\ overflow = 0
      BY <1>1, <3>1 DEF SlicesHonoured
    <3> QED
      BY <1>2, <1>5, <2>1, <3>1, <3>2
  <2>3. ASSUME TaskCap # NoCap, NEW s \in Tasks \ overran'
        PROVE  taskUsed'[s] + taskReserved'[s] <= TaskCap
    <3>1. /\ s \notin overran /\ taskUsed[s] + taskReserved[s] <= TaskCap
          /\ s = t => u = 0
      BY <1>1, <1>2, <2>3 DEF SlicesHonoured
    <3>2. CASE s = t
      BY <1>1, <1>2, <1>5, <2>1, <2>3, <3>1, <3>2
    <3>3. CASE s # t
      BY <1>2, <1>5, <2>1, <3>1, <3>3
    <3> QED
      BY <3>2, <3>3
  <2> QED
    BY <2>2, <2>3 DEF SlicesHonoured
<1> QED
  BY <1>6, <1>7, <1>8, <1>9 DEF IInv

\* A step that leaves the ledger alone.
LEMMA LedgerUnchanged ==
  ASSUME IInv, UNCHANGED ledger, rounds' \in [Tasks -> 0..MaxRounds], replans' \in 0..MaxReplans
  PROVE  IInv'
<1>1. /\ OpenSlices' = OpenSlices /\ Charges' = Charges
      /\ \A t : OpenSlicesOf(t)' = OpenSlicesOf(t) /\ ChargesTo(t)' = ChargesTo(t)
  BY DEF ledger, OpenSlices, Charges, OpenSlicesOf, ChargesTo, Open
<1>2. TypeOK'
  BY DEF IInv, TypeOK, ledger
<1>3. ReservedIsOpenTickets'
  BY <1>1 DEF IInv, ReservedIsOpenTickets, ledger
<1>4. LedgersShowAllCharges'
  BY <1>1 DEF IInv, LedgersShowAllCharges, Cut, ledger
<1>5. SlicesHonoured'
  BY DEF IInv, SlicesHonoured, ledger
<1> QED
  BY <1>2, <1>3, <1>4, <1>5 DEF IInv

LEMMA NextIInv == IInv /\ [Next]_vars => IInv'
<1> SUFFICES ASSUME IInv, [Next]_vars PROVE IInv'
  OBVIOUS
<1> USE BudgetAssumption
<1>1. ASSUME NEW t \in Tasks, NEW n \in Slices, Reserve(t, n) PROVE IInv'
  BY <1>1, ReserveStep
<1>2. ASSUME NEW i \in 1..Len(tickets), NEW u \in Usages, Commit(i, u) PROVE IInv'
  BY <1>2, CommitStep
<1>3. ASSUME NEW i \in 1..Len(tickets), Release(i) PROVE IInv'
  BY <1>3, ReleaseStep
<1>4. ASSUME NEW t \in Tasks, NEW u \in Usages, RecordUsage(t, u) PROVE IInv'
  BY <1>4, RecordUsageStep
<1>5. ASSUME NEW t \in Tasks, BeginRound(t) PROVE IInv'
  <2>1. rounds' \in [Tasks -> 0..MaxRounds] /\ replans' \in 0..MaxReplans
    BY <1>5 DEF BeginRound, RoundAllowed, IInv, TypeOK
  <2> QED
    BY <1>5, <2>1, LedgerUnchanged DEF BeginRound
<1>6. CASE RecordReplan
  <2>1. rounds' \in [Tasks -> 0..MaxRounds] /\ replans' \in 0..MaxReplans
    BY <1>6 DEF RecordReplan, CanReplan, IInv, TypeOK
  <2> QED
    BY <1>6, <2>1, LedgerUnchanged DEF RecordReplan
<1>7. CASE UNCHANGED vars
  <2>1. UNCHANGED ledger /\ rounds' = rounds /\ replans' = replans
    BY <1>7 DEF vars, ledger
  <2>2. rounds' \in [Tasks -> 0..MaxRounds] /\ replans' \in 0..MaxReplans
    BY <2>1 DEF IInv, TypeOK
  <2> QED
    BY <2>1, <2>2, LedgerUnchanged
<1> QED
  BY <1>1, <1>2, <1>3, <1>4, <1>5, <1>6, <1>7 DEF Next

LEMMA Inductive == Spec => []IInv
BY InitIInv, NextIInv, PTL DEF Spec
-----------------------------------------------------------------------------
(* The theorems. *)

\* The ledger's variables keep their types: no counter of BudgetManager ever
\* becomes negative, and rounds and replans stay within their limits.
THEOREM TypeCorrect == Spec => []TypeOK
BY Inductive, PTL DEF IInv

\* Closing a ticket frees its own slice and nothing else, in any interleaving
\* of reserve, commit, release and record_usage.
THEOREM ReservationsAreIsolated == Spec => []ReservedIsOpenTickets
BY Inductive, PTL DEF IInv

\* Callers that stay within their slices never meet the global or their own
\* hard cap after reserve has let them through.
THEOREM ReservePromise == Spec => []SlicesHonoured
BY Inductive, PTL DEF IInv

\* The ledgers are the charges cut off at the caps, and the overflow is what
\* the global cap cut off.
THEOREM LedgersExact == Spec => []LedgersShowAllCharges
BY Inductive, PTL DEF IInv

-----------------------------------------------------------------------------

(* The workers as users of the ledger. *)

Places == Working \cup {"idle", "finished", "killed"}
Holding == {"extract", "abort"}

PlacesOK ==
  /\ pc \in [Tasks -> Places]
  /\ held \in [Tasks -> Nat]

WorkersIInv == IInv /\ PlacesOK /\ TicketsClosed

LEMMA WorkersInitIInv == WorkersInit => WorkersIInv
<1> SUFFICES ASSUME WorkersInit PROVE WorkersIInv
  OBVIOUS
<1>1. IInv
  BY InitIInv DEF WorkersInit
<1>2. PlacesOK
  BY DEF WorkersInit, PlacesOK, Places
<1>3. tickets = <<>> /\ held = [t \in Tasks |-> 0] /\ pc = [t \in Tasks |-> "idle"]
  BY DEF WorkersInit, Init
<1>4. TicketsClosed
  BY <1>3 DEF TicketsClosed
<1> QED
  BY <1>1, <1>2, <1>4 DEF WorkersIInv
-----------------------------------------------------------------------------
(* The five ways a step can touch the tickets. *)

\* A worker that holds no ticket moves to a place where it holds none.
LEMMA MoveStep ==
  ASSUME WorkersIInv, NEW t \in Tasks, NEW where \in Places \ Holding,
         pc[t] \notin Holding \cup {"killed"},
         pc' = [pc EXCEPT ![t] = where], held' = held, tickets' = tickets
  PROVE  PlacesOK' /\ TicketsClosed'
<1>1. PlacesOK'
  BY DEF WorkersIInv, PlacesOK
<1>2. held[t] = 0
  BY DEF WorkersIInv, TicketsClosed, Holding
<1>3. \A s \in Tasks : s # t => pc'[s] = pc[s]
  BY DEF WorkersIInv, PlacesOK
<1>4. pc'[t] = where
  BY DEF WorkersIInv, PlacesOK
<1> QED
  BY <1>1, <1>2, <1>3, <1>4 DEF WorkersIInv, TicketsClosed, Holding, Open

\* No worker moves into or out of an extraction except into "killed", and one
\* that is being aborted stays where it is.
LEMMA KillStep ==
  ASSUME WorkersIInv, HardTimeout
  PROVE  PlacesOK' /\ TicketsClosed'
<1>1. held' = held /\ tickets' = tickets
  BY DEF HardTimeout, locals, vars
<1>2. pc' = [t \in Tasks |-> IF pc[t] \in Working \ {"abort"} THEN "killed" ELSE pc[t]]
  BY DEF HardTimeout
<1>3. PlacesOK'
  BY <1>1, <1>2 DEF WorkersIInv, PlacesOK, Places
<1>4. \A t \in Tasks : pc'[t] \in Holding => pc[t] \in Holding
  BY <1>2 DEF Holding, Working
<1>5. \A t \in Tasks : pc[t] \in Holding \cup {"killed"} => pc'[t] \in {"abort", "killed"}
  BY <1>2 DEF Holding, Working
<1> QED
  BY <1>1, <1>3, <1>4, <1>5 DEF WorkersIInv, TicketsClosed, Holding, Open

\* A reservation appends the ticket its worker will hold.
LEMMA ReserveHolds ==
  ASSUME WorkersIInv, NEW t \in Tasks, NEW n \in Nat, NEW where \in Holding,
         Reserve(t, n), pc[t] \notin Holding \cup {"killed"},
         pc' = [pc EXCEPT ![t] = where],
         held' = [held EXCEPT ![t] = Len(tickets) + 1]
  PROVE  PlacesOK' /\ TicketsClosed'
<1> DEFINE new == [task |-> t, tokens |-> n, state |-> "reserved", usage |-> 0]
<1>1. tickets \in Seq(Ticket) /\ tickets' = Append(tickets, new) /\ new \in Ticket
  BY DEF Reserve, WorkersIInv, IInv, TypeOK, Ticket
<1>2. Len(tickets') = Len(tickets) + 1 /\ tickets'[Len(tickets) + 1] = new
      /\ \A i \in 1..Len(tickets) : tickets'[i] = tickets[i]
  BY <1>1
<1>3. Len(tickets) \in Nat
  BY <1>1
<1>4. PlacesOK'
  BY <1>3 DEF WorkersIInv, PlacesOK, Places, Holding, Working
<1>5. pc'[t] = where /\ held'[t] = Len(tickets) + 1
  BY DEF WorkersIInv, PlacesOK
<1>6. \A s \in Tasks : s # t => pc'[s] = pc[s] /\ held'[s] = held[s]
  BY DEF WorkersIInv, PlacesOK
<1>7. held[t] = 0
  BY DEF WorkersIInv, TicketsClosed, Holding
<1>8. \A s \in Tasks : held[s] \in Nat
  BY DEF WorkersIInv, PlacesOK
<1>9. new.task = t /\ new.state = "reserved"
  OBVIOUS
<1> HIDE DEF new
<1>10. \A s \in Tasks : pc'[s] \in Holding => held'[s] # 0
  BY <1>3, <1>5, <1>6 DEF WorkersIInv, TicketsClosed, Holding
<1>11. ASSUME NEW s \in Tasks, held'[s] # 0
       PROVE  /\ pc'[s] \in Holding \cup {"killed"}
              /\ held'[s] <= Len(tickets') /\ Open(held[s])'
              /\ tickets'[held'[s]].task = s
  <2>1. CASE s = t
    BY <2>1, <1>2, <1>3, <1>5, <1>9 DEF Open
  <2>2. CASE s # t
    <3>1. held'[s] = held[s] /\ held[s] # 0 /\ pc'[s] = pc[s]
      BY <2>2, <1>6, <1>11
    <3>2. held[s] <= Len(tickets) /\ Open(held[s]) /\ tickets[held[s]].task = s
          /\ pc[s] \in Holding \cup {"killed"}
      BY <3>1 DEF WorkersIInv, TicketsClosed, Holding
    <3>3. held[s] \in 1..Len(tickets)
      BY <3>1, <3>2, <1>3, <1>8
    <3> QED
      BY <3>1, <3>2, <3>3, <1>2, <1>3 DEF Open
  <2> QED
    BY <2>1, <2>2
<1>12. ASSUME NEW i \in 1..Len(tickets'), Open(i)'
       PROVE  held'[tickets'[i].task] = i
  <2>1. CASE i = Len(tickets) + 1
    BY <2>1, <1>2, <1>5, <1>9
  <2>2. CASE i # Len(tickets) + 1
    <3>1. i \in 1..Len(tickets)
      BY <2>2, <1>2, <1>3
    <3>2. Open(i) /\ tickets'[i] = tickets[i]
      BY <3>1, <1>2, <1>12 DEF Open
    <3>3. held[tickets[i].task] = i /\ tickets[i].task \in Tasks
      BY <3>1, <3>2, <1>1 DEF WorkersIInv, TicketsClosed, Ticket
    <3>4. tickets[i].task # t
      BY <3>1, <3>3, <1>7
    <3> QED
      BY <3>2, <3>3, <3>4, <1>6
  <2> QED
    BY <2>1, <2>2
<1> QED
  BY <1>4, <1>10, <1>11, <1>12 DEF TicketsClosed, Holding, Open

\* Closing the ticket a worker holds touches no other worker's ticket.
LEMMA CloseHolds ==
  ASSUME WorkersIInv, NEW t \in Tasks, NEW k, NEW where \in Places \ Holding,
         pc[t] \in Holding,
         k.state # "reserved", k.task = t,
         tickets' = [tickets EXCEPT ![held[t]] = k],
         pc' = [pc EXCEPT ![t] = where],
         held' = [held EXCEPT ![t] = 0]
  PROVE  PlacesOK' /\ TicketsClosed'
<1>1. tickets \in Seq(Ticket) /\ Len(tickets) \in Nat
  BY DEF WorkersIInv, IInv, TypeOK
<1>2. held[t] \in 1..Len(tickets)
  BY <1>1 DEF WorkersIInv, PlacesOK, TicketsClosed, Holding
<1>3. Len(tickets') = Len(tickets) /\ tickets'[held[t]] = k
      /\ \A i \in 1..Len(tickets) : i # held[t] => tickets'[i] = tickets[i]
  BY <1>1, <1>2
<1>4. PlacesOK'
  BY DEF WorkersIInv, PlacesOK
<1>5. pc'[t] = where /\ held'[t] = 0
  BY DEF WorkersIInv, PlacesOK
<1>6. \A s \in Tasks : s # t => pc'[s] = pc[s] /\ held'[s] = held[s]
  BY DEF WorkersIInv, PlacesOK
<1>7. \A s \in Tasks : pc'[s] \in Holding => held'[s] # 0
  BY <1>5, <1>6 DEF WorkersIInv, TicketsClosed, Holding
<1>8. ASSUME NEW s \in Tasks, held'[s] # 0
      PROVE  /\ pc'[s] \in Holding \cup {"killed"}
             /\ held'[s] <= Len(tickets') /\ Open(held[s])'
             /\ tickets'[held'[s]].task = s
  <2>1. s # t /\ held'[s] = held[s] /\ held[s] # 0 /\ pc'[s] = pc[s]
    BY <1>5, <1>6, <1>8
  <2>2. held[s] <= Len(tickets) /\ Open(held[s]) /\ tickets[held[s]].task = s
        /\ pc[s] \in Holding \cup {"killed"}
    BY <2>1 DEF WorkersIInv, TicketsClosed, Holding
  <2>3. held[s] \in 1..Len(tickets)
    BY <2>1, <2>2, <1>1 DEF WorkersIInv, PlacesOK
  <2>4. tickets[held[t]].task = t
    BY <1>1, <1>2 DEF WorkersIInv, TicketsClosed
  <2>5. held[s] # held[t]
    BY <2>1, <2>2, <2>4
  <2> QED
    BY <2>1, <2>2, <2>3, <2>5, <1>3 DEF Open
<1>9. ASSUME NEW i \in 1..Len(tickets'), Open(i)'
      PROVE  held'[tickets'[i].task] = i
  <2>1. i \in 1..Len(tickets) /\ i # held[t]
    BY <1>3, <1>9 DEF Open
  <2>2. tickets'[i] = tickets[i] /\ Open(i)
    BY <2>1, <1>3, <1>9 DEF Open
  <2>3. held[tickets[i].task] = i /\ tickets[i].task \in Tasks
    BY <2>1, <2>2, <1>1 DEF WorkersIInv, TicketsClosed, Ticket
  <2> QED
    BY <2>1, <2>2, <2>3, <1>6
<1> QED
  BY <1>4, <1>7, <1>8, <1>9 DEF TicketsClosed, Holding, Open
-----------------------------------------------------------------------------
(* The steps of the workers. *)

\* What one step has to show.
Good == [Next]_vars /\ PlacesOK' /\ TicketsClosed'

LEMMA QuietStep ==
  ASSUME WorkersIInv, NEW t \in Tasks, pc[t] \in Places \ (Holding \cup {"killed"}),
         NEW where \in Places \ Holding, pc' = [pc EXCEPT ![t] = where],
         UNCHANGED vars, held' = held
  PROVE  Good
<1>1. tickets' = tickets
  BY DEF vars
<1> QED
  BY <1>1, MoveStep DEF Good

\* The steps that leave the ledger alone.
LEMMA LedgerFreeSteps ==
  ASSUME WorkersIInv, NEW t \in Tasks,
         \/ Start(t) \/ Stop(t) \/ SearchAnswers(t) \/ SearchRefused(t) \/ SearchFails(t)
         \/ Fetch(t) \/ FetchEnds(t) \/ NothingToExtract(t) \/ ReserveRefused(t)
         \/ CancelAwait(t)
  PROVE  Good
<1> USE DEF Places, Holding, Working
<1>1. UNCHANGED vars /\ held' = held
  BY DEF Start, Stop, SearchAnswers, SearchRefused, SearchFails, Fetch, FetchEnds,
         NothingToExtract, ReserveRefused, CancelAwait, locals
<1>2. pc[t] \in Places \ (Holding \cup {"killed"})
  BY DEF Start, Stop, SearchAnswers, SearchRefused, SearchFails, Fetch, FetchEnds,
         NothingToExtract, Gathered, ReserveRefused, CancelAwait
<1>3. \E where \in Places \ Holding : pc' = [pc EXCEPT ![t] = where]
  <2>1. CASE \/ Start(t) \/ SearchAnswers(t) \/ FetchEnds(t)
    BY <2>1 DEF Start, SearchAnswers, FetchEnds, GoTo
  <2>2. CASE \/ Stop(t) \/ SearchRefused(t) \/ ReserveRefused(t) \/ CancelAwait(t)
    BY <2>2 DEF Stop, SearchRefused, ReserveRefused, CancelAwait, Finish
  <2>3. CASE SearchFails(t)
    BY <2>3 DEF SearchFails, Finish, NextRound, GoTo
  <2>4. CASE Fetch(t)
    BY <2>4 DEF Fetch, Finish, GoTo
  <2>5. CASE NothingToExtract(t)
    BY <2>5 DEF NothingToExtract, Reflect, Finish, NextRound, GoTo
  <2> QED
    BY <2>1, <2>2, <2>3, <2>4, <2>5
<1> QED
  BY <1>1, <1>2, <1>3, QuietStep

LEMMA SearchStep ==
  ASSUME WorkersIInv, NEW t \in Tasks, Search(t)
  PROVE  Good
<1>1. Next
  BY DEF Search, Next
<1>2. tickets' = tickets /\ held' = held
  BY DEF Search, BeginRound, ledger, locals
<1>3. pc[t] = "top" /\ \E where \in {"search", "finished"} : pc' = [pc EXCEPT ![t] = where]
  BY DEF Search, GoTo, Finish
<1> QED
  BY <1>1, <1>2, <1>3, MoveStep DEF Good, Places, Holding, Working

LEMMA ReserveSliceStep ==
  ASSUME WorkersIInv, NEW t \in Tasks, ReserveSlice(t)
  PROVE  Good
<1>1. PICK n \in Slices : Reserve(t, n)
  BY DEF ReserveSlice
<1>2. n \in Slices /\ n \in Nat
  BY BudgetAssumption DEF BudgetAssumption
<1>3. Next
  BY <1>1, <1>2 DEF Next
<1>4. pc[t] = "gather" /\ \E where \in Holding : pc' = [pc EXCEPT ![t] = where]
  BY DEF ReserveSlice, Gathered, GoTo, Holding
<1>5. held' = [held EXCEPT ![t] = Len(tickets) + 1]
  BY DEF ReserveSlice
<1> QED
  BY <1>1, <1>2, <1>3, <1>4, <1>5, ReserveHolds DEF Good, Holding

LEMMA HeldIndex ==
  ASSUME WorkersIInv, NEW t \in Tasks, pc[t] \in Holding
  PROVE  /\ held[t] \in 1..Len(tickets)
         /\ tickets[held[t]].task = t
         /\ tickets \in Seq(Ticket)
<1>1. tickets \in Seq(Ticket)
  BY DEF WorkersIInv, IInv, TypeOK
<1> QED
  BY <1>1 DEF WorkersIInv, PlacesOK, TicketsClosed, Holding

LEMMA HeldReleased ==
  ASSUME WorkersIInv, NEW t \in Tasks, NEW where \in Places \ Holding,
         pc[t] \in Holding, Release(held[t]), CloseHeld(t),
         pc' = [pc EXCEPT ![t] = where]
  PROVE  Good
<1> DEFINE i == held[t]
           k == [tickets[i] EXCEPT !.state = "released"]
<1>1. i \in 1..Len(tickets) /\ tickets[i].task = t /\ tickets[i] \in Ticket
  BY HeldIndex
<1>2. Next
  BY <1>1 DEF Next
<1>3. tickets' = [tickets EXCEPT ![i] = k]
  BY Zenon DEF Release
<1>4. k.state # "reserved" /\ k.task = t
  BY <1>1 DEF Ticket
<1>5. held' = [held EXCEPT ![t] = 0]
  BY DEF CloseHeld
<1> QED
  BY <1>2, <1>3, <1>4, <1>5, CloseHolds DEF Good

LEMMA HeldCommitted ==
  ASSUME WorkersIInv, NEW t \in Tasks, NEW where \in Places \ Holding,
         NEW u \in Usages,
         pc[t] \in Holding, Commit(held[t], u), CloseHeld(t),
         pc' = [pc EXCEPT ![t] = where]
  PROVE  Good
<1> DEFINE i == held[t]
           k == [tickets[i] EXCEPT !.state = "committed", !.usage = u]
<1>1. i \in 1..Len(tickets) /\ tickets[i].task = t /\ tickets[i] \in Ticket
  BY HeldIndex
<1>2. u \in Usages
  BY BudgetAssumption DEF BudgetAssumption
<1>3. Next
  BY <1>1, <1>2 DEF Next
<1>4. tickets' = [tickets EXCEPT ![i] = k]
  BY Zenon DEF Commit
<1>5. k.state # "reserved" /\ k.task = t
  BY <1>1 DEF Ticket
<1>6. held' = [held EXCEPT ![t] = 0]
  BY DEF CloseHeld
<1> QED
  BY <1>3, <1>4, <1>5, <1>6, CloseHolds DEF Good

LEMMA ExtractSteps ==
  ASSUME WorkersIInv, NEW t \in Tasks,
         ExtractAnswers(t) \/ ExtractFails(t) \/ CancelExtract(t)
  PROVE  Good
<1> USE DEF Places, Holding, Working
<1>1. CASE ExtractAnswers(t)
  <2>1. PICK u \in Usages :
          /\ Commit(held[t], u)
          /\ \E where \in {"finished", "top"} : pc' = [pc EXCEPT ![t] = where]
    BY <1>1 DEF ExtractAnswers, Reflect, Finish, NextRound, GoTo
  <2>2. pc[t] \in Holding /\ CloseHeld(t)
    BY <1>1 DEF ExtractAnswers
  <2> QED
    BY <2>1, <2>2, HeldCommitted
<1>2. CASE ExtractFails(t)
  BY <1>2, HeldReleased DEF ExtractFails, NextRound, GoTo
<1>3. CASE CancelExtract(t)
  BY <1>3, HeldReleased DEF CancelExtract, Finish
<1> QED
  BY <1>1, <1>2, <1>3

LEMMA EveryStep ==
  ASSUME WorkersIInv, [WorkersNext]_all
  PROVE  Good
<1>1. ASSUME NEW t \in Tasks, Start(t) \/ Steps(t) \/ Answers(t) PROVE Good
  BY <1>1, LedgerFreeSteps, SearchStep, ReserveSliceStep, ExtractSteps DEF Steps, Answers
<1>2. CASE RequestCancel \/ UNCHANGED all
  <2>1. UNCHANGED vars /\ pc' = pc /\ held' = held /\ tickets' = tickets
    BY <1>2 DEF RequestCancel, all, workers, locals, vars
  <2> QED
    BY <2>1 DEF Good, WorkersIInv, PlacesOK, TicketsClosed, Open
<1>3. CASE HardTimeout
  BY <1>3, KillStep DEF Good, HardTimeout
<1>4. CASE Replan
  <2>1. Next /\ pc' = pc /\ held' = held /\ tickets' = tickets
    BY <1>4 DEF Replan, Next, RecordReplan, ledger, workers, locals
  <2> QED
    BY <2>1 DEF Good, WorkersIInv, PlacesOK, TicketsClosed, Open
<1> QED
  BY <1>1, <1>2, <1>3, <1>4 DEF WorkersNext

LEMMA WorkersNextIInv == WorkersIInv /\ [WorkersNext]_all => WorkersIInv'
<1> SUFFICES ASSUME WorkersIInv, [WorkersNext]_all PROVE WorkersIInv'
  OBVIOUS
<1>1. Good
  BY EveryStep
<1>2. IInv'
  BY <1>1, NextIInv DEF Good, WorkersIInv
<1> QED
  BY <1>1, <1>2 DEF Good, WorkersIInv

LEMMA WorkersInductive == WorkersSpec => []WorkersIInv
BY WorkersInitIInv, WorkersNextIInv, PTL DEF WorkersSpec
-----------------------------------------------------------------------------
(* The theorems. *)

\* A ticket is open exactly while the worker that reserved it extracts, on every
\* path out of the extraction but the hard timeout's.
THEOREM NoTicketLeaks == WorkersSpec => []TicketsClosed
BY WorkersInductive, PTL DEF WorkersIInv

\* No slice outlives the worker that reserved it.
THEOREM SlicesComeBack == WorkersSpec => []NothingLeftReserved
<1>1. WorkersIInv => NothingLeftReserved
  <2> SUFFICES ASSUME WorkersIInv, \A t \in Tasks : pc[t] \in {"idle", "finished"}
               PROVE  reserved = 0 /\ \A t \in Tasks : taskReserved[t] = 0
    BY DEF NothingLeftReserved
  <2>1. tickets \in Seq(Ticket) /\ Len(tickets) \in Nat
    BY DEF WorkersIInv, IInv, TypeOK
  <2>2. \A t \in Tasks : held[t] = 0
    BY DEF WorkersIInv, TicketsClosed
  <2>3. \A i \in 1..Len(tickets) : ~Open(i)
    <3>1. SUFFICES ASSUME NEW i \in 1..Len(tickets), Open(i) PROVE FALSE
      OBVIOUS
    <3>2. tickets[i].task \in Tasks
      BY <2>1 DEF Ticket
    <3> QED
      BY <3>1, <3>2, <2>2 DEF WorkersIInv, TicketsClosed
  <2>4. OpenSlices \in Seq(Nat) /\ Len(OpenSlices) = Len(tickets)
        /\ \A i \in 1..Len(tickets) : OpenSlices[i] = 0
    BY <2>1, <2>3 DEF OpenSlices
  <2>5. ASSUME NEW t \in Tasks
        PROVE  /\ OpenSlicesOf(t) \in Seq(Nat) /\ Len(OpenSlicesOf(t)) = Len(tickets)
               /\ \A i \in 1..Len(tickets) : OpenSlicesOf(t)[i] = 0
    BY <2>1, <2>3 DEF OpenSlicesOf
  <2>6. Total(OpenSlices) = 0 /\ \A t \in Tasks : Total(OpenSlicesOf(t)) = 0
    BY <2>4, <2>5, TotalZeros
  <2> QED
    BY <2>6 DEF WorkersIInv, IInv, ReservedIsOpenTickets
<1> QED
  BY <1>1, WorkersInductive, PTL

\* The workers use the ledger as its specification says.
LEMMA WorkersUseBudget == WorkersSpec => Spec
<1>1. WorkersInit => Init
  BY DEF WorkersInit
<1>2. WorkersIInv /\ [WorkersNext]_all => [Next]_vars
  BY EveryStep DEF Good
<1> QED
  BY <1>1, <1>2, WorkersInductive, PTL DEF WorkersSpec, Spec

\* So what is proved of the ledger holds while the workers run.
THEOREM LedgerOfWorkers ==
  WorkersSpec => [](ReservedIsOpenTickets /\ SlicesHonoured /\ LedgersShowAllCharges)
BY WorkersUseBudget, ReservationsAreIsolated, ReservePromise, LedgersExact, PTL

-----------------------------------------------------------------------------

(* The loop's counters. *)

Inside == Working \ {"top"}

\* A worker that has passed the gates may use one more iteration, and it has not
\* failed more often than it has begun a new turn.
LoopCounts ==
  /\ iteration \in [Tasks -> 0..MaxIterations]
  /\ failures \in [Tasks -> 0..MaxIterations]
  /\ \A t \in Tasks : pc[t] \in Inside => iteration[t] < MaxIterations
  /\ \A t \in Tasks : pc[t] \in Working \cup {"idle"} => failures[t] <= iteration[t]

\* A step of t that leaves the counters alone.
LEMMA CountsMove ==
  ASSUME LoopCounts, PlacesOK, NEW t \in Tasks, NEW where \in Places \ {"idle"},
         pc' = [pc EXCEPT ![t] = where], iteration' = iteration, failures' = failures,
         pc[t] \in Working \cup {"idle"},
         where \in Inside => pc[t] \in Inside \/ iteration[t] < MaxIterations
  PROVE  LoopCounts'
<1>1. pc'[t] = where /\ \A s \in Tasks \ {t} : pc'[s] = pc[s]
  BY DEF PlacesOK
<1> QED
  BY <1>1 DEF LoopCounts

\* A step of t that ends a turn, with one more failure, with as many as before or
\* with none any more.
LEMMA CountsTurn ==
  ASSUME LoopCounts, PlacesOK, NEW t \in Tasks, pc[t] \in Inside,
         NEW m \in {0, failures[t], failures[t] + 1},
         failures' = [failures EXCEPT ![t] = m],
         \/ /\ pc' = [pc EXCEPT ![t] = "top"]
            /\ iteration' = [iteration EXCEPT ![t] = @ + 1]
         \/ /\ pc' = [pc EXCEPT ![t] = "finished"]
            /\ iteration' = iteration
  PROVE  LoopCounts'
<1>1. /\ iteration[t] \in Nat /\ failures[t] \in Nat /\ MaxIterations \in Nat
      /\ iteration[t] < MaxIterations /\ failures[t] <= iteration[t]
  BY WorkersAssumption DEF LoopCounts, WorkersAssumption, Inside
<1>2. failures' \in [Tasks -> 0..MaxIterations]
  BY <1>1 DEF LoopCounts
<1>3. failures'[t] = m /\ \A s \in Tasks \ {t} : failures'[s] = failures[s]
  BY DEF LoopCounts
<1>4. CASE /\ pc' = [pc EXCEPT ![t] = "top"]
           /\ iteration' = [iteration EXCEPT ![t] = @ + 1]
  <2>1. iteration' \in [Tasks -> 0..MaxIterations]
    BY <1>1, <1>4 DEF LoopCounts
  <2>2. /\ pc'[t] = "top" /\ iteration'[t] = iteration[t] + 1
        /\ \A s \in Tasks \ {t} : pc'[s] = pc[s] /\ iteration'[s] = iteration[s]
    BY <1>4 DEF LoopCounts, PlacesOK
  <2>3. failures'[t] <= iteration'[t]
    BY <1>1, <1>3, <2>2
  <2> QED
    BY <1>2, <1>3, <2>1, <2>2, <2>3 DEF LoopCounts, Inside
<1>5. CASE /\ pc' = [pc EXCEPT ![t] = "finished"]
           /\ iteration' = iteration
  <2>1. pc'[t] = "finished" /\ \A s \in Tasks \ {t} : pc'[s] = pc[s]
    BY <1>5 DEF PlacesOK
  <2> QED
    BY <1>2, <1>3, <1>5, <2>1 DEF LoopCounts, Inside, Working
<1> QED
  BY <1>4, <1>5

\* Every worker step keeps the loop's counts.
LEMMA LoopCountsNext ==
  ASSUME WorkersIInv, LoopCounts, [WorkersNext]_all
  PROVE  LoopCounts'
<1> USE DEF Places, Working
<1>1. PlacesOK
  BY DEF WorkersIInv
<1>2. ASSUME NEW t \in Tasks, Start(t) \/ Steps(t) \/ Answers(t)
      PROVE  LoopCounts'
  <2>1. CASE \/ Start(t) \/ Stop(t) \/ SearchRefused(t) \/ ReserveRefused(t) \/ CancelAwait(t)
             \/ FetchEnds(t) \/ SearchAnswers(t)
    <3>1. iteration' = iteration /\ failures' = failures
      BY <2>1 DEF Start, Stop, SearchRefused, ReserveRefused, CancelAwait, FetchEnds,
                  SearchAnswers, locals
    <3>2. PICK where \in {"top", "finished", "gather"} :
            /\ pc' = [pc EXCEPT ![t] = where]
            /\ where = "gather" => pc[t] \in Inside
      BY <2>1 DEF Start, Stop, SearchRefused, ReserveRefused, CancelAwait, FetchEnds,
                  SearchAnswers, GoTo, Finish, Inside
    <3>3. pc[t] \in Working \cup {"idle"}
      BY <2>1 DEF Start, Stop, SearchRefused, ReserveRefused, Gathered, CancelAwait, FetchEnds,
                  SearchAnswers
    <3> QED
      BY <1>1, <3>1, <3>2, <3>3, CountsMove DEF Inside
  <2>2. CASE Search(t)
    <3>1. iteration[t] < MaxIterations
      <4>1. iteration[t] \in Nat /\ MaxIterations \in Nat
        BY WorkersAssumption DEF LoopCounts, WorkersAssumption
      <4> QED
        BY <2>2, <4>1 DEF Search, Gate
    <3>2. \E where \in {"search", "finished"} : pc' = [pc EXCEPT ![t] = where]
      BY <2>2 DEF Search, GoTo, Finish
    <3>3. iteration' = iteration /\ failures' = failures /\ pc[t] = "top"
      BY <2>2 DEF Search, locals
    <3> QED
      BY <1>1, <3>1, <3>2, <3>3, CountsMove DEF Inside
  <2>3. CASE Fetch(t) \/ ReserveSlice(t) \/ CancelExtract(t)
    <3>1. \E where \in {"finished", "fetch", "abort", "extract"} : pc' = [pc EXCEPT ![t] = where]
      BY <2>3 DEF Fetch, ReserveSlice, CancelExtract, GoTo, Finish
    <3>2. iteration' = iteration /\ failures' = failures /\ pc[t] \in Inside
      BY <2>3 DEF Fetch, ReserveSlice, Gathered, CancelExtract, Inside
    <3> QED
      BY <1>1, <3>1, <3>2, CountsMove DEF Inside
  <2>4. CASE SearchFails(t)
    <3>1. pc[t] \in Inside /\ failures' = [failures EXCEPT ![t] = failures[t] + 1]
      BY <2>4 DEF SearchFails, Inside
    <3>2. \/ /\ pc' = [pc EXCEPT ![t] = "top"]
             /\ iteration' = [iteration EXCEPT ![t] = @ + 1]
          \/ /\ pc' = [pc EXCEPT ![t] = "finished"]
             /\ iteration' = iteration
      BY <2>4 DEF SearchFails, NextRound, GoTo, Finish
    <3>3. failures[t] \in Nat
      BY DEF LoopCounts
    <3> QED
      BY <1>1, <3>1, <3>2, <3>3, CountsTurn
  <2>5. CASE NothingToExtract(t)
    <3>1. pc[t] \in Inside /\ failures' = [failures EXCEPT ![t] = failures[t]]
      BY <2>5 DEF NothingToExtract, Gathered, LoopCounts, Inside
    <3>2. \/ /\ pc' = [pc EXCEPT ![t] = "top"]
             /\ iteration' = [iteration EXCEPT ![t] = @ + 1]
          \/ /\ pc' = [pc EXCEPT ![t] = "finished"]
             /\ iteration' = iteration
      BY <2>5 DEF NothingToExtract, Reflect, NextRound, GoTo, Finish
    <3>3. failures[t] \in Nat
      BY DEF LoopCounts
    <3> QED
      BY <1>1, <3>1, <3>2, <3>3, CountsTurn
  <2>6. CASE ExtractFails(t)
    <3>1. /\ pc[t] \in Inside /\ failures' = [failures EXCEPT ![t] = failures[t] + 1]
          /\ pc' = [pc EXCEPT ![t] = "top"]
          /\ iteration' = [iteration EXCEPT ![t] = @ + 1]
      BY <2>6 DEF ExtractFails, NextRound, GoTo, Inside
    <3>2. failures[t] \in Nat
      BY DEF LoopCounts
    <3> QED
      BY <1>1, <3>1, <3>2, CountsTurn
  <2>7. CASE ExtractAnswers(t)
    <3>1. pc[t] \in Inside /\ failures[t] \in Nat
      BY <2>7 DEF ExtractAnswers, LoopCounts, Inside
    <3>2. \E m \in {0, failures[t]} : failures' = [failures EXCEPT ![t] = m]
      BY <2>7 DEF ExtractAnswers, LoopCounts
    <3>3. \/ /\ pc' = [pc EXCEPT ![t] = "top"]
             /\ iteration' = [iteration EXCEPT ![t] = @ + 1]
          \/ /\ pc' = [pc EXCEPT ![t] = "finished"]
             /\ iteration' = iteration
      BY <2>7 DEF ExtractAnswers, Reflect, NextRound, GoTo, Finish
    <3> QED
      BY <1>1, <3>1, <3>2, <3>3, CountsTurn
  <2> QED
    BY <1>2, <2>1, <2>2, <2>3, <2>4, <2>5, <2>6, <2>7 DEF Steps, Answers
<1>3. CASE RequestCancel \/ Replan \/ UNCHANGED all
  BY <1>3 DEF RequestCancel, Replan, all, workers, locals, LoopCounts, Inside
<1>4. CASE HardTimeout
  BY <1>1, <1>4 DEF HardTimeout, locals, LoopCounts, PlacesOK, Inside
<1> QED
  BY <1>2, <1>3, <1>4 DEF WorkersNext

LEMMA LoopCountsInit == WorkersInit => LoopCounts
<1>1. MaxIterations \in Nat /\ MaxIterations > 0
  BY WorkersAssumption DEF WorkersAssumption
<1> QED
  BY <1>1 DEF WorkersInit, LoopCounts, Inside, Working
-----------------------------------------------------------------------------
(* The sources of a worker and the numbers of their citations. *)

Cited(t) == citations[t] \cup fetching[t]

Fetching(t) == IF pc[t] = "fetch" THEN 1 ELSE 0

SourcesOK ==
  /\ hits \in [Tasks -> SUBSET Urls] /\ seen \in [Tasks -> SUBSET Urls]
  /\ gotHits \in [Tasks -> BOOLEAN] /\ docs \in [Tasks -> Nat]
  /\ fetching \in [Tasks -> SUBSET Citation] /\ citations \in [Tasks -> SUBSET Citation]

\* The number of a citation, given or being fetched, is that of the sources seen
\* when it was made, so no two sources share one; and a source is fetched once.
Numbered(t) ==
  /\ hits[t] \cap seen[t] = {}
  /\ docs[t] + Fetching(t) <= Cardinality(seen[t])
  /\ \A c \in Cited(t) : c.url \in seen[t] /\ c.number <= Cardinality(seen[t])
  /\ \A c, d \in Cited(t) : c.url = d.url <=> c.number = d.number

SourcesIInv == SourcesOK /\ \A t \in Tasks : Numbered(t)

\* A worker has used finitely many sources.
LEMMA SeenIsFinite ==
  ASSUME NEW S \in SUBSET Urls
  PROVE  /\ IsFiniteSet(S) /\ Cardinality(S) \in Nat /\ Cardinality(Urls) \in Nat
         /\ Cardinality(S) <= Cardinality(Urls)
BY WorkersAssumption, FS_Subset, FS_CardinalityType DEF WorkersAssumption

LEMMA SourcesInit == WorkersInit => SourcesIInv
BY FS_EmptySet DEF WorkersInit, SourcesIInv, SourcesOK, Numbered, Cited, Fetching

\* Marking an unseen source gives its citation the next number.
LEMMA FetchSources ==
  ASSUME SourcesIInv, PlacesOK, NEW t \in Tasks, Fetch(t)
  PROVE  SourcesIInv'
<1>1. PICK url \in hits[t] :
        /\ hits' = [hits EXCEPT ![t] = @ \ {url}]
        /\ seen' = [seen EXCEPT ![t] = @ \cup {url}]
        /\ fetching' = [fetching EXCEPT ![t] = {NewCitation(t, url)}]
  BY DEF Fetch
<1>2. docs' = docs /\ gotHits' = gotHits /\ citations' = citations
  BY DEF Fetch
<1>3. PICK where \in {"fetch", "finished"} : pc' = [pc EXCEPT ![t] = where]
  BY DEF Fetch, Finish, GoTo
<1> DEFINE S == seen[t]
           n == Cardinality(S)
           new == NewCitation(t, url)
<1>4. S \in SUBSET Urls /\ url \in Urls /\ url \notin S
  BY DEF SourcesIInv, SourcesOK, Numbered
<1>5. /\ n \in Nat /\ Cardinality(Urls) \in Nat
      /\ Cardinality(S \cup {url}) = n + 1 /\ n + 1 <= Cardinality(Urls)
  <2>1. S \cup {url} \in SUBSET Urls
    BY <1>4
  <2>2. IsFiniteSet(S)
    BY <1>4, SeenIsFinite
  <2>3. Cardinality(S \cup {url}) = n + 1
    BY <1>4, <2>2, FS_AddElement
  <2> QED
    BY <1>4, <2>1, <2>3, SeenIsFinite
<1>6. /\ hits'[t] = hits[t] \ {url} /\ seen'[t] = S \cup {url} /\ fetching'[t] = {new}
      /\ docs'[t] = docs[t] /\ citations'[t] = citations[t] /\ pc'[t] = where
  BY <1>1, <1>2, <1>3 DEF SourcesIInv, SourcesOK, PlacesOK
<1>7. new = [url |-> url, number |-> n + 1] /\ new \in Citation
  <2>1. new = [url |-> url, number |-> n + 1]
    BY <1>5, <1>6 DEF NewCitation
  <2> QED
    BY <1>4, <1>5, <2>1 DEF Citation
<1> HIDE DEF n, new
<1>8. SourcesOK'
  <2>1. hits' \in [Tasks -> SUBSET Urls] /\ seen' \in [Tasks -> SUBSET Urls]
    BY <1>1, <1>4 DEF SourcesIInv, SourcesOK
  <2>2. fetching' \in [Tasks -> SUBSET Citation]
    <3>1. fetching' = [fetching EXCEPT ![t] = {new}]
      BY <1>1 DEF new
    <3> QED
      BY <1>7, <3>1 DEF SourcesIInv, SourcesOK
  <2> QED
    BY <1>2, <2>1, <2>2 DEF SourcesIInv, SourcesOK
<1>9. \A c \in citations[t] : /\ c \in Citation /\ c.url \in S
                              /\ c.number \in Nat /\ c.number <= n
  BY <1>5 DEF SourcesIInv, SourcesOK, Numbered, Cited, Citation, n
<1>10. Numbered(t)'
  <2>1. Cited(t)' = citations[t] \cup {new}
    BY <1>6 DEF Cited
  <2>2. Cardinality(seen'[t]) = n + 1
    BY <1>5, <1>6
  <2>3. (hits[t] \ {url}) \cap (S \cup {url}) = {}
    BY DEF SourcesIInv, Numbered
  <2>4. docs[t] \in Nat /\ docs[t] <= n
    BY <1>5 DEF SourcesIInv, SourcesOK, Numbered, Fetching, n
  <2>5. docs'[t] + Fetching(t)' <= n + 1
    BY <1>5, <1>6, <2>4 DEF Fetching
  <2>6. \A c \in Cited(t)' : c.url \in seen'[t] /\ c.number <= n + 1
    BY <1>5, <1>6, <1>7, <1>9, <2>1
  <2>7. \A c, d \in citations[t] : c.url = d.url <=> c.number = d.number
    BY DEF SourcesIInv, Numbered, Cited
  <2>8. \A c \in citations[t] : c.url # new.url /\ c.number # new.number
    BY <1>4, <1>5, <1>7, <1>9
  <2>9. \A c, d \in Cited(t)' : c.url = d.url <=> c.number = d.number
    BY <2>1, <2>7, <2>8
  <2> QED
    BY <1>6, <2>2, <2>3, <2>5, <2>6, <2>9 DEF Numbered
<1>11. ASSUME NEW s \in Tasks, s # t PROVE Numbered(s)'
  <2>1. /\ hits'[s] = hits[s] /\ seen'[s] = seen[s] /\ fetching'[s] = fetching[s]
        /\ docs'[s] = docs[s] /\ citations'[s] = citations[s] /\ pc'[s] = pc[s]
    BY <1>1, <1>2, <1>3, <1>11 DEF SourcesIInv, SourcesOK, PlacesOK
  <2> QED
    BY <2>1 DEF SourcesIInv, Numbered, Cited, Fetching
<1> QED
  BY <1>8, <1>10, <1>11 DEF SourcesIInv

\* The end of a fetch adds its citation to those of the worker.
LEMMA FetchEndsSources ==
  ASSUME SourcesIInv, PlacesOK, NEW t \in Tasks, FetchEnds(t)
  PROVE  SourcesIInv'
<1>1. /\ pc[t] = "fetch" /\ hits' = hits /\ seen' = seen /\ gotHits' = gotHits
      /\ citations' = [citations EXCEPT ![t] = @ \cup fetching[t]]
      /\ fetching' = [fetching EXCEPT ![t] = {}]
      /\ pc' = [pc EXCEPT ![t] = "gather"]
  BY DEF FetchEnds, GoTo
<1>2. PICK ok \in BOOLEAN : docs' = [docs EXCEPT ![t] = IF ok THEN @ + 1 ELSE @]
  BY DEF FetchEnds
<1>3. SourcesOK'
  BY <1>1, <1>2 DEF SourcesIInv, SourcesOK
<1>4. ASSUME NEW s \in Tasks PROVE Numbered(s)'
  <2>1. Cited(s)' = Cited(s)
    BY <1>1 DEF SourcesIInv, SourcesOK, Cited
  <2>2. docs'[s] + Fetching(s)' <= docs[s] + Fetching(s) /\ Cardinality(seen[s]) \in Nat
    <3>1. docs[s] \in Nat /\ seen[s] \in SUBSET Urls
      BY DEF SourcesIInv, SourcesOK
    <3>2. CASE s = t
      <4>1. docs'[s] \in {docs[s], docs[s] + 1} /\ Fetching(s) = 1 /\ Fetching(s)' = 0
        BY <1>1, <1>2, <3>2 DEF SourcesIInv, SourcesOK, Fetching, PlacesOK
      <4> QED
        BY <3>1, <4>1, SeenIsFinite
    <3>3. CASE s # t
      <4>1. docs'[s] = docs[s] /\ Fetching(s)' = Fetching(s)
        BY <1>1, <1>2, <3>3 DEF SourcesIInv, SourcesOK, Fetching, PlacesOK
      <4> QED
        BY <3>1, <4>1, SeenIsFinite DEF Fetching
    <3> QED
      BY <3>2, <3>3
  <2>3. /\ docs[s] \in Nat /\ docs'[s] \in Nat /\ Fetching(s) \in {0, 1} /\ Fetching(s)' \in {0, 1}
    BY <1>3 DEF SourcesIInv, SourcesOK, Fetching
  <2> QED
    BY <1>1, <2>1, <2>2, <2>3 DEF SourcesIInv, Numbered
<1> QED
  BY <1>3, <1>4 DEF SourcesIInv

\* A new round's hits leave out what has been seen.
LEMMA SearchAnswersSources ==
  ASSUME SourcesIInv, PlacesOK, NEW t \in Tasks, SearchAnswers(t)
  PROVE  SourcesIInv'
<1>1. PICK found \in SUBSET Urls :
        /\ hits' = [hits EXCEPT ![t] = found \ seen[t]]
        /\ gotHits' = [gotHits EXCEPT ![t] = found # {}]
  BY WorkersAssumption DEF WorkersAssumption, SearchAnswers
<1>2. /\ docs' = [docs EXCEPT ![t] = 0] /\ pc' = [pc EXCEPT ![t] = "gather"]
      /\ seen' = seen /\ fetching' = fetching /\ citations' = citations
  BY DEF SearchAnswers, GoTo
<1>3. SourcesOK'
  BY <1>1, <1>2 DEF SourcesIInv, SourcesOK
<1>4. ASSUME NEW s \in Tasks PROVE Numbered(s)'
  <2>1. Cited(s)' = Cited(s)
    BY <1>2 DEF Cited
  <2>2. hits'[s] \in {hits[s], found \ seen[s]}
    BY <1>1 DEF SourcesIInv, SourcesOK
  <2>3. docs'[s] + Fetching(s)' <= Cardinality(seen[s])
    <3>1. seen[s] \in SUBSET Urls /\ Cardinality(seen[s]) \in Nat
      BY SeenIsFinite DEF SourcesIInv, SourcesOK
    <3>2. CASE s = t
      BY <1>2, <3>1, <3>2 DEF SourcesIInv, SourcesOK, PlacesOK, Fetching
    <3>3. CASE s # t
      BY <1>2, <3>1, <3>3 DEF SourcesIInv, SourcesOK, PlacesOK, Fetching, Numbered
    <3> QED
      BY <3>2, <3>3
  <2>4. hits'[s] \cap seen[s] = {}
    BY <2>2 DEF SourcesIInv, Numbered
  <2> QED
    BY <1>2, <2>1, <2>3, <2>4 DEF SourcesIInv, Numbered
<1> QED
  BY <1>3, <1>4 DEF SourcesIInv

\* Every other step leaves the sources alone and starts no fetch.
LEMMA OtherSources ==
  ASSUME SourcesIInv, PlacesOK,
         UNCHANGED <<hits, gotHits, docs, seen, fetching, citations>>,
         \A s \in Tasks : pc'[s] = "fetch" => pc[s] = "fetch"
  PROVE  SourcesIInv'
<1>1. ASSUME NEW s \in Tasks PROVE Numbered(s)'
  <2>1. Cited(s)' = Cited(s)
    BY DEF Cited
  <2>2. /\ Fetching(s)' <= Fetching(s) /\ Fetching(s) \in {0, 1} /\ Fetching(s)' \in {0, 1}
    BY DEF Fetching
  <2>3. docs[s] \in Nat /\ seen[s] \in SUBSET Urls
    BY DEF SourcesIInv, SourcesOK
  <2>4. docs'[s] + Fetching(s)' <= Cardinality(seen[s])
    BY <2>2, <2>3, SeenIsFinite DEF SourcesIInv, Numbered
  <2> QED
    BY <2>1, <2>4 DEF SourcesIInv, Numbered
<1> QED
  BY <1>1 DEF SourcesIInv, SourcesOK

\* Every worker step keeps the sources and their ids.
LEMMA SourcesNext ==
  ASSUME WorkersIInv, SourcesIInv, [WorkersNext]_all
  PROVE  SourcesIInv'
<1>1. PlacesOK
  BY DEF WorkersIInv
<1> DEFINE untouched == UNCHANGED <<hits, gotHits, docs, seen, fetching, citations>>
<1>2. ASSUME NEW t \in Tasks, Start(t) \/ Steps(t) \/ Answers(t)
      PROVE  SourcesIInv'
  <2>1. CASE Fetch(t) \/ FetchEnds(t) \/ SearchAnswers(t)
    BY <1>1, <2>1, FetchSources, FetchEndsSources, SearchAnswersSources
  <2>2. CASE \/ Start(t) \/ Stop(t) \/ Search(t) \/ SearchRefused(t) \/ ReserveRefused(t)
             \/ ReserveSlice(t) \/ CancelAwait(t) \/ CancelExtract(t)
    <3>1. untouched
      BY <2>2 DEF Start, Stop, Search, SearchRefused, ReserveRefused, ReserveSlice, CancelAwait,
                  CancelExtract, locals
    <3>2. \E where \in Places \ {"fetch"} : pc' = [pc EXCEPT ![t] = where]
      BY <2>2 DEF Start, Stop, Search, SearchRefused, ReserveRefused, ReserveSlice, CancelAwait,
                  CancelExtract, GoTo, Finish, Places, Working
    <3>3. \A s \in Tasks : pc'[s] = "fetch" => pc[s] = "fetch"
      BY <1>1, <3>2 DEF PlacesOK
    <3> QED
      BY <1>1, <3>1, <3>3, OtherSources
  <2>3. CASE SearchFails(t) \/ NothingToExtract(t) \/ ExtractFails(t) \/ ExtractAnswers(t)
    <3>1. untouched
      BY <2>3 DEF SearchFails, NothingToExtract, ExtractFails, ExtractAnswers
    <3>2. \E where \in {"top", "finished"} : pc' = [pc EXCEPT ![t] = where]
      BY <2>3 DEF SearchFails, NothingToExtract, ExtractFails, ExtractAnswers, Reflect,
                  NextRound, GoTo, Finish
    <3>3. \A s \in Tasks : pc'[s] = "fetch" => pc[s] = "fetch"
      BY <1>1, <3>2 DEF PlacesOK
    <3> QED
      BY <1>1, <3>1, <3>3, OtherSources
  <2> QED
    BY <1>2, <2>1, <2>2, <2>3 DEF Steps, Answers
<1>3. CASE RequestCancel \/ Replan \/ UNCHANGED all
  <2>1. untouched /\ pc' = pc
    BY <1>3 DEF RequestCancel, Replan, all, workers, locals
  <2> QED
    BY <1>1, <2>1, OtherSources
<1>4. CASE HardTimeout
  <2>1. untouched /\ \A s \in Tasks : pc'[s] \in {"killed", pc[s]}
    BY <1>4 DEF HardTimeout, locals
  <2> QED
    BY <1>1, <2>1, OtherSources
<1> QED
  BY <1>2, <1>3, <1>4 DEF WorkersNext
-----------------------------------------------------------------------------
(* What a worker hands over. *)

Results == {NoResult} \cup
  [status : {"completed", "partial", "failed", "cancelled"}, reason : StopReasons]

\* Until a worker finishes it has all the facts that were extracted.
FactsIInv ==
  /\ facts \in [Tasks -> Nat] /\ extracted \in [Tasks -> Nat]
  /\ result \in [Tasks -> Results]
  /\ \A t \in Tasks : pc[t] # "finished" => extracted[t] = facts[t]
  /\ FactsDelivered

LEMMA FactsInit == WorkersInit => FactsIInv
BY DEF WorkersInit, FactsIInv, FactsDelivered, Results

\* The status of a result is one of the terminal statuses.
LEMMA StatusType ==
  ASSUME NEW reason \in StopReasons, NEW had
  PROVE  StatusFor(reason, had) \in {"completed", "partial", "failed", "cancelled"}
BY DEF StatusFor, StopReasons

\* What run_task returns is typed.
LEMMA FinishResult ==
  ASSUME NEW t \in Tasks, NEW reason \in StopReasons, NEW n \in Nat, Finish(t, reason, n),
         result \in [Tasks -> Results]
  PROVE  /\ pc' = [pc EXCEPT ![t] = "finished"] /\ result' \in [Tasks -> Results]
         /\ result'[t].reason = reason
         /\ \A s \in Tasks \ {t} : result'[s] = result[s]
<1> DEFINE r == [status |-> StatusFor(reason, n > 0), reason |-> reason]
<1>1. r \in Results /\ r.reason = reason
  <2>1. StatusFor(reason, n > 0) \in {"completed", "partial", "failed", "cancelled"}
    BY StatusType
  <2> QED
    BY <2>1 DEF Results
<1>2. pc' = [pc EXCEPT ![t] = "finished"] /\ result' = [result EXCEPT ![t] = r]
  BY DEF Finish
<1> HIDE DEF r
<1> QED
  BY <1>1, <1>2

\* A worker that moves or finishes with the facts it has.
LEMMA FactsStay ==
  ASSUME FactsIInv, PlacesOK, NEW t \in Tasks, pc[t] # "finished",
         facts' = facts, extracted' = extracted,
         \/ \E where \in Places \ {"finished"} : GoTo(t, where)
         \/ \E reason \in StopReasons : Finish(t, reason, facts[t])
  PROVE  FactsIInv'
<1>1. CASE \E where \in Places \ {"finished"} : GoTo(t, where)
  BY <1>1 DEF GoTo, FactsIInv, FactsDelivered, PlacesOK
<1>2. CASE \E reason \in StopReasons : Finish(t, reason, facts[t])
  <2>1. PICK reason \in StopReasons : Finish(t, reason, facts[t])
    BY <1>2
  <2>2. facts[t] \in Nat /\ extracted[t] = facts[t]
    BY DEF FactsIInv
  <2>3. pc' = [pc EXCEPT ![t] = "finished"] /\ result' \in [Tasks -> Results]
        /\ \A s \in Tasks \ {t} : result'[s] = result[s]
    BY <2>1, FinishResult DEF FactsIInv
  <2> QED
    BY <2>2, <2>3 DEF FactsIInv, FactsDelivered, PlacesOK
<1> QED
  BY <1>1, <1>2

\* A worker whose extraction answers: the facts join the others, or are lost with
\* the commit that raises.
LEMMA FactsAdded ==
  ASSUME FactsIInv, PlacesOK, NEW t \in Tasks, ExtractAnswers(t)
  PROVE  FactsIInv'
<1>1. PICK k \in FactCounts, u \in Usages :
        /\ extracted' = [extracted EXCEPT ![t] = @ + k]
        /\ \/ /\ facts' = facts
              /\ Finish(t, "budget_exhausted", facts[t])
           \/ /\ facts' = [facts EXCEPT ![t] = AllFacts(t, k)]
              /\ Reflect(t)
  BY DEF ExtractAnswers
<1>2. k \in Nat /\ facts[t] \in Nat /\ extracted[t] = facts[t]
  BY WorkersAssumption DEF WorkersAssumption, FactsIInv, ExtractAnswers
<1>3. extracted' \in [Tasks -> Nat] /\ extracted'[t] = facts[t] + k
      /\ \A s \in Tasks \ {t} : extracted'[s] = extracted[s]
  BY <1>1, <1>2 DEF FactsIInv
<1>4. CASE facts' = facts /\ Finish(t, "budget_exhausted", facts[t])
  <2>1. /\ pc' = [pc EXCEPT ![t] = "finished"] /\ result' \in [Tasks -> Results]
        /\ result'[t].reason = "budget_exhausted"
        /\ \A s \in Tasks \ {t} : result'[s] = result[s]
    BY <1>2, <1>4, FinishResult DEF FactsIInv, StopReasons
  <2>2. extracted'[t] - facts'[t] = k
    BY <1>2, <1>3, <1>4
  <2> QED
    BY <1>3, <1>4, <2>1, <2>2 DEF FactsIInv, FactsDelivered, PlacesOK
<1>5. CASE facts' = [facts EXCEPT ![t] = AllFacts(t, k)] /\ Reflect(t)
  <2>1. facts' \in [Tasks -> Nat] /\ facts'[t] = facts[t] + k
        /\ \A s \in Tasks \ {t} : facts'[s] = facts[s]
    BY <1>2, <1>5 DEF FactsIInv, AllFacts
  <2>2. \/ pc' = [pc EXCEPT ![t] = "top"] /\ result' = result
        \/ \E reason \in StopReasons : Finish(t, reason, facts'[t])
    <3>1. CASE Reflection(t) = ""
      BY <1>5, <3>1 DEF Reflect, NextRound, GoTo
    <3>2. CASE Reflection(t) # ""
      <4>1. Reflection(t) \in StopReasons
        BY <3>2 DEF Reflection, StopReasons
      <4> QED
        BY <1>5, <3>2, <4>1 DEF Reflect
    <3> QED
      BY <3>1, <3>2
  <2>3. CASE pc' = [pc EXCEPT ![t] = "top"] /\ result' = result
    BY <1>2, <1>3, <2>1, <2>3 DEF FactsIInv, FactsDelivered, PlacesOK
  <2>4. CASE \E reason \in StopReasons : Finish(t, reason, facts'[t])
    <3>1. /\ pc' = [pc EXCEPT ![t] = "finished"] /\ result' \in [Tasks -> Results]
          /\ \A s \in Tasks \ {t} : result'[s] = result[s]
      BY <2>1, <2>4, FinishResult DEF FactsIInv
    <3>2. extracted'[t] - facts'[t] = 0
      BY <1>2, <1>3, <2>1
    <3> QED
      BY <1>3, <2>1, <3>1, <3>2 DEF FactsIInv, FactsDelivered, PlacesOK
  <2> QED
    BY <2>2, <2>3, <2>4
<1> QED
  BY <1>1, <1>4, <1>5

\* Every worker step keeps the facts and what was delivered of them.
LEMMA FactsNext ==
  ASSUME WorkersIInv, FactsIInv, [WorkersNext]_all
  PROVE  FactsIInv'
<1>1. PlacesOK
  BY DEF WorkersIInv
<1> DEFINE kept == facts' = facts /\ extracted' = extracted
           moves(t) == \E where \in Places \ {"finished"} : GoTo(t, where)
           ends(t) == \E reason \in StopReasons : Finish(t, reason, facts[t])
<1>2. ASSUME NEW t \in Tasks, Start(t) \/ Steps(t) \/ Answers(t)
      PROVE  FactsIInv'
  <2>1. CASE ExtractAnswers(t)
    BY <1>1, <2>1, FactsAdded
  <2>2. CASE \/ Start(t) \/ Search(t) \/ SearchAnswers(t) \/ Fetch(t) \/ FetchEnds(t)
             \/ ReserveSlice(t) \/ ExtractFails(t) \/ SearchFails(t)
    <3>1. kept /\ pc[t] # "finished"
      BY <2>2 DEF Start, Search, SearchAnswers, Fetch, FetchEnds, ReserveSlice, Gathered,
                  ExtractFails, SearchFails, locals
    <3>2. moves(t) \/ ends(t)
      BY <2>2 DEF Start, Search, SearchAnswers, Fetch, FetchEnds, ReserveSlice,
                  ExtractFails, SearchFails, NextRound, Places, Working, StopReasons
    <3> QED
      BY <1>1, <3>1, <3>2, FactsStay
  <2>3. CASE Stop(t) \/ NothingToExtract(t)
    <3>1. kept /\ pc[t] # "finished"
      BY <2>3 DEF Stop, NothingToExtract, Gathered, locals
    <3>2. Gate(t) # "" => Gate(t) \in StopReasons
      BY DEF Gate, StopReasons
    <3>3. Reflection(t) # "" => Reflection(t) \in StopReasons
      BY DEF Reflection, StopReasons
    <3>4. moves(t) \/ ends(t)
      BY <2>3, <3>1, <3>2, <3>3 DEF Stop, NothingToExtract, Reflect, NextRound, Places, Working
    <3> QED
      BY <1>1, <3>1, <3>4, FactsStay
  <2>4. CASE SearchRefused(t) \/ ReserveRefused(t) \/ CancelAwait(t) \/ CancelExtract(t)
    <3>1. kept /\ pc[t] # "finished"
      BY <2>4 DEF SearchRefused, ReserveRefused, Gathered, CancelAwait, CancelExtract, locals
    <3>2. ends(t)
      BY <2>4 DEF SearchRefused, ReserveRefused, CancelAwait, CancelExtract, StopReasons
    <3> QED
      BY <1>1, <3>1, <3>2, FactsStay
  <2> QED
    BY <1>2, <2>1, <2>2, <2>3, <2>4 DEF Steps, Answers
<1>3. CASE RequestCancel \/ Replan \/ UNCHANGED all
  BY <1>3 DEF RequestCancel, Replan, all, workers, locals, FactsIInv, FactsDelivered
<1>4. CASE HardTimeout
  <2>1. kept /\ result' = result
    BY <1>4 DEF HardTimeout, locals
  <2>2. \A s \in Tasks : pc'[s] = "finished" <=> pc[s] = "finished"
    BY <1>4 DEF HardTimeout, Working
  <2> QED
    BY <2>1, <2>2 DEF FactsIInv, FactsDelivered
<1> QED
  BY <1>2, <1>3, <1>4 DEF WorkersNext
-----------------------------------------------------------------------------
(* The theorems. *)

LEMMA CountersInductive == WorkersSpec => []LoopCounts
BY LoopCountsInit, LoopCountsNext, WorkersInductive, PTL DEF WorkersSpec

LEMMA SourcesInductive == WorkersSpec => []SourcesIInv
BY SourcesInit, SourcesNext, WorkersInductive, PTL DEF WorkersSpec

LEMMA FactsInductive == WorkersSpec => []FactsIInv
BY FactsInit, FactsNext, WorkersInductive, PTL DEF WorkersSpec

LEMMA CancelInductive == WorkersSpec => [](cancel \in BOOLEAN)
<1>1. WorkersInit => cancel \in BOOLEAN
  BY DEF WorkersInit
<1>2. cancel \in BOOLEAN /\ [WorkersNext]_all => (cancel \in BOOLEAN)'
  BY DEF WorkersNext, Start, Steps, Answers, RequestCancel, HardTimeout, Replan, Stop, Search, Fetch,
         NothingToExtract, ReserveSlice, ReserveRefused, CancelAwait, CancelExtract,
         SearchAnswers, SearchRefused, SearchFails, FetchEnds, ExtractAnswers, ExtractFails,
         all, workers
<1> QED
  BY <1>1, <1>2, PTL DEF WorkersSpec

\* Every variable of the workers keeps its type: the loop never passes its last
\* iteration, no more documents are fetched in a round than there are sources,
\* and a held ticket is one of the ledger's.
THEOREM WorkersTypeCorrect == WorkersSpec => []WorkersTypeOK
<1>1. ASSUME cancel \in BOOLEAN, WorkersIInv, LoopCounts, SourcesIInv, FactsIInv
      PROVE  WorkersTypeOK
  <2>1. docs \in [Tasks -> 0..Cardinality(Urls)]
    <3>1. ASSUME NEW t \in Tasks PROVE docs[t] \in 0..Cardinality(Urls)
      <4>1. docs[t] \in Nat /\ seen[t] \in SUBSET Urls /\ Fetching(t) \in {0, 1}
        BY <1>1 DEF SourcesIInv, SourcesOK, Fetching
      <4> QED
        BY <1>1, <4>1, SeenIsFinite DEF SourcesIInv, Numbered
    <3> QED
      BY <1>1, <3>1 DEF SourcesIInv, SourcesOK
  <2>2. held \in [Tasks -> 0..Len(tickets)]
    <3>1. ASSUME NEW t \in Tasks PROVE held[t] \in 0..Len(tickets)
      <4>1. held[t] \in Nat /\ Len(tickets) \in Nat
        BY <1>1 DEF WorkersIInv, PlacesOK, IInv, TypeOK
      <4> QED
        BY <1>1, <4>1 DEF WorkersIInv, TicketsClosed
    <3> QED
      BY <1>1, <3>1 DEF WorkersIInv, PlacesOK
  <2> QED
    BY <1>1, <2>1, <2>2 DEF WorkersTypeOK, LoopCounts, SourcesIInv, SourcesOK, FactsIInv,
                            Results, WorkersIInv, PlacesOK, Places
<1> QED
  BY <1>1, WorkersInductive, CountersInductive, SourcesInductive, FactsInductive,
     CancelInductive, PTL

\* Within a task a citation id names one source and a source has one id, over all
\* rounds and failed fetches: the numbers count the sources seen, and a source
\* is seen once.
THEOREM CitationIdsAreUnique == WorkersSpec => []CitationsUnique
<1>1. SourcesIInv => CitationsUnique
  BY DEF SourcesIInv, Numbered, Cited, CitationsUnique
<1> QED
  BY <1>1, SourcesInductive, PTL

\* However it ends, a worker hands over what its extractions found, less at most
\* the facts of the call whose commit breached the global cap.
THEOREM FactsAreDelivered == WorkersSpec => []FactsDelivered
BY FactsInductive, PTL DEF FactsIInv
=============================================================================
