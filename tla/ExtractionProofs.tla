-------------------------- MODULE ExtractionProofs --------------------------
(***************************************************************************)
(* Extraction for any number of calls, slots, retries and documents: no slot *)
(* of the limiter is lost or given back twice, however a call ends; only the *)
(* text before the documents can make a message list too long; and the usage *)
(* of the extractions that succeeded adds up to what was recorded.         *)
(*                                                                         *)
(* The argument for the slots: a step moves one call, and it changes the   *)
(* number of free slots exactly when the call starts or stops sending.     *)
(*                                                                         *)
(* The argument for the usage: Held is what the provider has reported for an *)
(* extraction.  A recorded event adds its tokens to both sides; an extraction *)
(* that is cancelled or raises gives its tokens up, and from then on is not *)
(* among those that kept theirs.  Left bounds the events: two for an       *)
(* extraction that has not been answered, one for its repair.              *)
(***************************************************************************)
EXTENDS Extraction, Lemmas

Places == InProvider \cup {"start", "closing", "fallback", "done"}
Sending == {c \in Calls : pc[c] = "sending"}

XInv ==
  /\ pc \in [Calls -> Places]
  /\ DOMAIN result = Calls
  /\ free \in Nat /\ SlotsAreHeld

LEMMA InitXInv == ExtractionInit => XInv
<1> SUFFICES ASSUME ExtractionInit PROVE XInv
  OBVIOUS
<1>1. /\ pc = [c \in Calls |-> "start"] /\ free = InFlight
      /\ result = [c \in Calls |-> NoResult]
  BY DEF ExtractionInit
<1>2. Sending = {}
  BY <1>1 DEF Sending
<1>3. SlotsAreHeld /\ free \in Nat
  <2>1. InFlight \in Nat
    BY ExtractionAssumption
  <2>2. Cardinality(Sending) = 0
    BY <1>2, FS_EmptySet
  <2> QED
    BY <1>1, <2>1, <2>2 DEF SlotsAreHeld, Sending
<1> QED
  BY <1>1, <1>3 DEF XInv, Places

\* A step of one call takes a slot when it starts to send and gives it back when
\* it stops.
Balanced(c, where) ==
  /\ pc' = [pc EXCEPT ![c] = where]
  /\ free' = CASE pc[c] # "sending" /\ where = "sending" -> free - 1
               [] pc[c] = "sending" /\ where # "sending" -> free + 1
               [] OTHER -> free

LEMMA SlotStep ==
  ASSUME XInv, NEW c \in Calls, NEW where \in Places, Balanced(c, where),
         where = "sending" => free > 0
  PROVE  pc' \in [Calls -> Places] /\ free' \in Nat /\ SlotsAreHeld'
<1>1. pc \in [Calls -> Places] /\ free \in Nat /\ IsFiniteSet(Sending)
  <2>1. IsFiniteSet(Calls) /\ Sending \subseteq Calls
    BY ExtractionAssumption DEF Sending
  <2> QED
    BY <2>1, FS_Subset DEF XInv
<1>2. pc' \in [Calls -> Places]
  BY <1>1 DEF Balanced
<1>3. Cardinality(Sending) \in Nat /\ free + Cardinality(Sending) = InFlight
  BY <1>1, FS_CardinalityType DEF XInv, SlotsAreHeld, Sending
<1>4. CASE pc[c] # "sending" /\ where = "sending"
  <2>1. Sending' = Sending \cup {c} /\ c \notin Sending
    BY <1>1, <1>4 DEF Sending, Balanced
  <2>2. Cardinality(Sending') = Cardinality(Sending) + 1
    BY <1>1, <2>1, FS_AddElement
  <2>3. free' = free - 1
    BY <1>4 DEF Balanced
  <2>4. free' \in Nat /\ free' + Cardinality(Sending') = InFlight
    BY <1>1, <1>3, <1>4, <2>2, <2>3
  <2> QED
    BY <1>2, <2>4 DEF SlotsAreHeld, Sending
<1>5. CASE pc[c] = "sending" /\ where # "sending"
  <2>1. Sending' = Sending \ {c} /\ c \in Sending
    BY <1>1, <1>5 DEF Sending, Balanced
  <2>2. Cardinality(Sending') = Cardinality(Sending) - 1
    BY <1>1, <2>1, FS_RemoveElement
  <2>3. free' = free + 1
    BY <1>5 DEF Balanced
  <2>4. free' \in Nat /\ free' + Cardinality(Sending') = InFlight
    BY <1>1, <1>3, <2>2, <2>3
  <2> QED
    BY <1>2, <2>4 DEF SlotsAreHeld, Sending
<1>6. CASE (pc[c] = "sending") <=> (where = "sending")
  <2>1. Sending' = Sending
    BY <1>1, <1>6 DEF Sending, Balanced
  <2>2. free' = free
    BY <1>6 DEF Balanced
  <2> QED
    BY <1>1, <1>2, <1>3, <2>1, <2>2 DEF SlotsAreHeld, Sending
<1> QED
  BY <1>4, <1>5, <1>6

\* A step that returns nothing.
LEMMA MoveStep ==
  ASSUME XInv, NEW c \in Calls, NEW where \in Places, Balanced(c, where),
         where = "sending" => free > 0, result' = result
  PROVE  XInv'
BY SlotStep DEF XInv

\* A step that returns something.
LEMMA ReturnStep ==
  ASSUME XInv, NEW c \in Calls, NEW r, Return(c, r), pc[c] # "sending", free' = free
  PROVE  XInv'
<1>1. Balanced(c, "done")
  BY DEF Return, Goto, Balanced
<1>2. result' = [result EXCEPT ![c] = r]
  BY DEF Return
<1>3. DOMAIN result' = Calls
  BY <1>2 DEF XInv
<1>4. "done" \in Places
  BY DEF Places
<1> QED
  BY <1>1, <1>3, <1>4, SlotStep DEF XInv
-----------------------------------------------------------------------------

LEMMA ProviderSteps ==
  ASSUME XInv, NEW c \in Calls, ProviderStep(c)
  PROVE  XInv'
<1>0. {"loop", "queued", "sending", "sleeping", "closing"} \subseteq Places
  BY DEF Places, InProvider
<1>1. CASE Tick(c)
  <2>1. UNCHANGED <<pc, free, result>>
    BY <1>1 DEF Tick
  <2> QED
    BY <2>1 DEF XInv, SlotsAreHeld
<1>2. CASE Loop(c)
  <2>1. \E where \in {"closing", "queued"} : Balanced(c, where)
    BY <1>2 DEF Loop, CallEnds, Goto, Balanced
  <2> QED
    BY <1>0, <1>2, <2>1, MoveStep DEF Loop, inputs
<1>3. CASE Acquire(c)
  <2>1. Balanced(c, "sending") /\ free > 0
    BY <1>3 DEF Acquire, Goto, Balanced
  <2> QED
    BY <1>0, <1>3, <2>1, MoveStep DEF Acquire, inputs
<1>4. CASE TransportError(c)
  <2>1. \E where \in {"closing", "sleeping"} : Balanced(c, where)
    BY <1>4 DEF TransportError, BackOff, CallEnds, Goto, Balanced
  <2> QED
    BY <1>0, <1>4, <2>1, MoveStep DEF TransportError, inputs
<1>5. CASE Wake(c)
  <2>1. Balanced(c, "loop")
    BY <1>5 DEF Wake, Goto, Balanced
  <2> QED
    BY <1>0, <1>5, <2>1, MoveStep DEF Wake, inputs
<1>6. CASE Answers(c)
  <2>1. Balanced(c, "closing")
    BY <1>6 DEF Answers, CallEnds, Goto, Balanced
  <2> QED
    BY <1>0, <1>6, <2>1, MoveStep DEF Answers, inputs
<1>7. CASE TimeUp(c)
  <2>1. Balanced(c, "closing")
    BY <1>7 DEF TimeUp, CallEnds, Goto, Balanced
  <2> QED
    BY <1>0, <1>7, <2>1, MoveStep DEF TimeUp, inputs
<1> QED
  BY <1>1, <1>2, <1>3, <1>4, <1>5, <1>6, <1>7 DEF ProviderStep

LEMMA ExtractSteps ==
  ASSUME XInv, NEW c \in Calls, ExtractStep(c) \/ Cancel(c)
  PROVE  XInv'
<1>0. {"loop", "closing", "fallback"} \subseteq Places
  BY DEF Places, InProvider
<1>1. CASE Begin(c)
  <2>1. CASE valid[c] = {}
    BY <1>1, <2>1, ReturnStep DEF Begin, NoResult, inputs
  <2>2. CASE valid[c] # {}
    <3>1. Balanced(c, "loop") /\ result' = result
      BY <1>1, <2>2 DEF Begin, BeginCall, Goto, Balanced, inputs
    <3> QED
      BY <1>0, <3>1, MoveStep
  <2> QED
    BY <2>1, <2>2
<1>2. CASE Fails(c)
  <2>1. Balanced(c, "fallback") /\ result' = result
    BY <1>2 DEF Fails, FallBack, Goto, Balanced, inputs
  <2> QED
    BY <1>0, <2>1, MoveStep
<1>3. CASE Parses(c) \/ NullContent(c) \/ Heuristic(c)
  <2>1. pc[c] # "sending" /\ free' = free /\ \E r : Return(c, r)
    BY <1>3 DEF Parses, NullContent, Heuristic
  <2> QED
    BY <2>1, ReturnStep
<1>4. CASE Unparseable(c)
  <2>1. \E where \in {"loop", "fallback"} : Balanced(c, where)
    BY <1>4 DEF Unparseable, BeginCall, FallBack, Goto, Balanced
  <2>2. result' = result
    BY <1>4 DEF Unparseable
  <2> QED
    BY <1>0, <2>1, <2>2, MoveStep
<1>6. CASE CancelledCloses(c)
  BY <1>6, ReturnStep DEF CancelledCloses, Cancelled, NoResult, inputs
<1>7. CASE Cancel(c)
  <2>1. CASE pc[c] \in InProvider
    <3>1. Balanced(c, "closing") /\ result' = result
      BY <1>7, <2>1 DEF Cancel, CallEnds, Goto, Balanced, inputs
    <3> QED
      BY <1>0, <3>1, MoveStep
  <2>2. CASE pc[c] \notin InProvider
    BY <1>7, <2>2, ReturnStep DEF Cancel, Cancelled, NoResult, InProvider, inputs
  <2> QED
    BY <2>1, <2>2
<1> QED
  BY <1>1, <1>2, <1>3, <1>4, <1>6, <1>7 DEF ExtractStep

LEMMA NextXInv == XInv /\ [ExtractionNext]_extractionVars => XInv'
<1>1. XInv /\ UNCHANGED extractionVars => XInv'
  BY DEF extractionVars, XInv, SlotsAreHeld
<1> QED
  BY <1>1, ProviderSteps, ExtractSteps DEF ExtractionNext, Rest

LEMMA ExtractionInductive == ExtractionSpec => []XInv
BY InitXInv, NextXInv, PTL DEF ExtractionSpec
-----------------------------------------------------------------------------
(* The theorems. *)

\* No slot of the limiter is lost or given back twice, however a call ends.
THEOREM SlotsComeBack == ExtractionSpec => []SlotsAreHeld
<1>1. XInv => SlotsAreHeld
  BY DEF XInv
<1> QED
  BY <1>1, ExtractionInductive, PTL

-----------------------------------------------------------------------------

(* The lengths of the messages, and the usage. *)

Results == [by : {"none", "empty", "llm", "heuristic", "cancelled", "raised"},
            facts : SUBSET Facts, tokens : 0..2, estimated : BOOLEAN, reported : 0..2]

InputsOK == valid \in [Calls -> SUBSET Docs] /\ size \in [Docs -> Sizes] /\ intro \in Intros

LengthOK(k) == k.sent > Bound => k.sent = TextAlone(k.stage)

\* An extraction at p with the provider call k and the result r.
Good(p, k, r) ==
  /\ p \in Places /\ k \in CallState /\ r \in Results
  /\ p = "sleeping" => k.attempt < MaxRetries
  /\ p \in {"start", "done"} => k = NoCall
  /\ p = "fallback" => k.stage = "none"
  /\ p \notin {"start", "fallback", "done"} => k.stage \in {"first", "repair"}
  /\ k.stage = "first" => k.reported = 0
  /\ k.stage = "repair" => k.reported <= 1
  /\ p # "done" => r = NoResult
  /\ p = "done" => r.by # "none"
  /\ r.by = "llm" => r.tokens = r.reported
  /\ ~r.estimated => r.tokens > 0 /\ r.by = "llm"

\* The events it may still record, and what was reported for it so far.
Left(p, k) ==
  IF p = "start" \/ k.stage = "first" THEN 2 ELSE IF k.stage = "repair" THEN 1 ELSE 0
Held(k, r) == k.reported + r.reported

\* It has not given up a reported usage.
Kept(r) == r.by \notin {"cancelled", "raised"}

LeftIn == [c \in Calls |-> Left(pc[c], call[c])]
HeldIn == [c \in Calls |-> Held(call[c], result[c])]

EInv ==
  /\ XInv /\ InputsOK
  /\ call \in [Calls -> CallState] /\ result \in [Calls -> Results]
  /\ \A c \in Calls : Good(pc[c], call[c], result[c])
  /\ OnlyTextExceeds
  /\ collector \in [events : Nat, tokens : Nat]
  /\ collector.tokens <= collector.events
  /\ collector.events + SumFunctionOnSet(LeftIn, Calls) <= 2 * Cardinality(Calls)
  /\ SumFunctionOnSet(HeldIn, Calls) <= collector.tokens
  /\ (\A c \in Calls : Kept(result[c])) => SumFunctionOnSet(HeldIn, Calls) = collector.tokens

\* The documents that are kept fit the room that is left for them, or none is.
LEMMA FitsRoom ==
  ASSUME InputsOK, NEW c \in Calls, NEW room \in Nat
  PROVE  /\ User(c, room) \in Nat /\ intro <= User(c, room)
         /\ User(c, room) <= room \/ User(c, room) = intro
<1> DEFINE F == Fitting(c, room)
           Upto(d) == {e \in valid[c] : e <= d}
<1>1. IsFiniteSet(Docs) /\ valid[c] \in SUBSET Docs /\ Docs \in SUBSET Nat /\ F \in SUBSET valid[c]
  <2>1. NDocs \in Int /\ Docs \subseteq Nat
    BY ExtractionAssumption DEF Docs
  <2>2. IsFiniteSet(Docs)
    BY <2>1, FS_Interval DEF Docs
  <2>3. valid[c] \subseteq Docs
    BY DEF InputsOK
  <2>4. F \subseteq valid[c]
    BY DEF Fitting
  <2> HIDE DEF F
  <2> QED
    BY <2>1, <2>2, <2>3, <2>4
<1>2. IsFiniteSet(valid[c]) /\ IsFiniteSet(F)
  BY <1>1, FS_Subset
<1>3. \A d \in Docs : size[d] \in Nat
  BY ExtractionAssumption DEF InputsOK
<1>4. intro \in Nat
  BY ExtractionAssumption DEF InputsOK
<1>5. Length(F) \in Nat
  BY <1>1, <1>2, <1>3, SumTakesOut DEF Length
<1>6. CASE F = {}
  <2>1. Length(F) = 0
    BY <1>6, SumEmpty DEF Length
  <2>2. User(c, room) = intro + Length(F)
    BY DEF User
  <2> HIDE DEF F
  <2> QED
    BY <1>4, <2>1, <2>2
<1>7. CASE F # {}
  <2>1. F \in SUBSET Int
    <3>1. \A x \in Nat : x \in Int
      OBVIOUS
    <3> HIDE DEF F
    <3> QED
      BY <1>1, <3>1
  <2>2. PICK m \in F : \A d \in F : d <= m
    <3> HIDE DEF F
    <3> QED
      BY <1>2, <1>7, <2>1, GreatestElement
  <2>3. F \in SUBSET Upto(m)
    BY <1>1, <2>2
  <2>4. IsFiniteSet(Upto(m)) /\ \A d \in Upto(m) : size[d] \in Nat
    <3>1. Upto(m) \subseteq valid[c]
      OBVIOUS
    <3> QED
      BY <1>1, <1>2, <1>3, <3>1, FS_Subset
  <2>5. intro + Length(Upto(m)) <= room
    BY <2>2 DEF Fitting
  <2>6. Length(F) <= Length(Upto(m)) /\ Length(Upto(m)) \in Nat
    <3>1. Length(Upto(m)) \in Nat
      BY <2>4, SumTakesOut DEF Length
    <3>2. Length(F) <= Length(Upto(m))
      <4> HIDE DEF F, Upto
      <4> QED
        BY <2>3, <2>4, SumOfFewer DEF Length
    <3> QED
      BY <3>1, <3>2
  <2> HIDE DEF F, Upto
  <2>7. intro + Length(F) \in Nat /\ intro + Length(F) <= room /\ intro <= intro + Length(F)
    BY <1>4, <1>5, <2>5, <2>6
  <2> QED
    BY <2>7 DEF User, F
<1> QED
  BY <1>6, <1>7

\* So only the text before them can make the messages of a call too long.
LEMMA FirstFits ==
  ASSUME InputsOK, NEW c \in Calls
  PROVE  /\ FirstLength(c) \in Nat
         /\ FirstLength(c) <= Bound \/ FirstLength(c) = TextAlone("first")
<1>1. Bound \in Nat /\ System \in Nat /\ intro \in Nat
  BY ExtractionAssumption DEF InputsOK
<1>2. Room(System) \in Nat /\ (System <= Bound => Room(System) = Bound - System)
      /\ (System > Bound => Room(System) = 0)
  BY <1>1 DEF Room
<1> DEFINE u == User(c, Room(System))
<1>3. u \in Nat /\ intro <= u /\ (u <= Room(System) \/ u = intro)
  BY <1>2, FitsRoom
<1>4. FirstLength(c) = Fitted(System + u, 0) /\ TextAlone("first") = System + intro + 0
  BY DEF FirstLength, TextAlone
<1> HIDE DEF u
<1>5. Fitted(System + u, 0) = System + u
  BY <1>1, <1>3 DEF Fitted, Room
<1> QED
  BY <1>1, <1>2, <1>3, <1>4, <1>5

LEMMA RepairFits ==
  ASSUME InputsOK, NEW c \in Calls, NEW reply \in 0..Bound
  PROVE  /\ RepairLength(c, reply) \in Nat
         /\ RepairLength(c, reply) <= Bound \/ RepairLength(c, reply) = TextAlone("repair")
<1>1. Bound \in Nat /\ System \in Nat /\ Repair \in Nat /\ intro \in Nat
  BY ExtractionAssumption DEF InputsOK
<1> DEFINE n == System + Repair
           u == User(c, Room(n))
           fixed == n + u
           echo == IF reply <= Room(fixed) THEN reply ELSE Room(fixed)
<1>2. n \in Nat /\ Room(n) \in Nat /\ (n <= Bound => Room(n) = Bound - n)
      /\ (n > Bound => Room(n) = 0)
  BY <1>1 DEF Room
<1>3. u \in Nat /\ intro <= u /\ (u <= Room(n) \/ u = intro)
  BY <1>2, FitsRoom
<1>4. RepairLength(c, reply) = Fitted(fixed, echo)
  BY DEF RepairLength
<1>5. TextAlone("repair") = System + intro + Repair
  BY DEF TextAlone
<1> HIDE DEF u
<1>6. fixed \in Nat
  BY <1>2, <1>3
<1>7. fixed <= Bound \/ fixed = TextAlone("repair")
  BY <1>1, <1>2, <1>3, <1>5
<1> HIDE DEF n, fixed
<1>8. CASE fixed <= Bound
  <2>1. Room(fixed) = Bound - fixed /\ echo \in Nat /\ echo <= Bound - fixed
    BY <1>1, <1>6, <1>8 DEF Room
  <2> HIDE DEF echo
  <2>2. Fitted(fixed, echo) = fixed + echo
    BY <1>1, <1>6, <1>8, <2>1 DEF Fitted
  <2> QED
    BY <1>1, <1>4, <1>6, <2>1, <2>2
<1>9. CASE fixed > Bound
  <2>1. Room(fixed) = 0 /\ echo = 0
    BY <1>1, <1>6, <1>9 DEF Room
  <2> HIDE DEF echo
  <2>2. Fitted(fixed, echo) = fixed
    BY <1>1, <1>6, <1>9, <2>1 DEF Fitted
  <2> QED
    BY <1>1, <1>4, <1>6, <1>7, <1>9, <2>2
<1> QED
  BY <1>1, <1>6, <1>8, <1>9

LEMMA GoodNumbers ==
  ASSUME NEW p, NEW k, NEW r, Good(p, k, r)
  PROVE  Left(p, k) \in Nat /\ Held(k, r) \in Nat
BY DEF Good, Left, Held, CallState, Results

LEMMA InitEInv == ExtractionInit => EInv
<1> SUFFICES ASSUME ExtractionInit PROVE EInv
  OBVIOUS
<1>1. XInv /\ InputsOK
  BY InitXInv DEF ExtractionInit, InputsOK
<1>2. /\ pc = [c \in Calls |-> "start"] /\ call = [c \in Calls |-> NoCall]
      /\ result = [c \in Calls |-> NoResult] /\ collector = [events |-> 0, tokens |-> 0]
  BY DEF ExtractionInit
<1>3. NoCall \in CallState /\ NoResult \in Results
  BY ExtractionAssumption DEF NoCall, CallState, NoResult, Results
<1>4. Good("start", NoCall, NoResult) /\ OnlyTextExceeds
  BY <1>2, <1>3, ExtractionAssumption DEF Good, NoCall, NoResult, Places, OnlyTextExceeds
<1>5. IsFiniteSet(Calls) /\ Cardinality(Calls) \in Nat
  BY ExtractionAssumption, FS_CardinalityType
<1>6. SumFunctionOnSet(LeftIn, Calls) = 2 * Cardinality(Calls)
  <2>1. \A c \in Calls : LeftIn[c] = 2
    BY <1>2 DEF LeftIn, Left
  <2> QED
    BY <1>5, <2>1, SumOfConstant
<1>7. SumFunctionOnSet(HeldIn, Calls) = 0
  <2>1. \A c \in Calls : HeldIn[c] = 0
    BY <1>2 DEF HeldIn, Held, NoCall, NoResult
  <2> QED
    BY <1>5, <2>1, SumOfConstant
<1> QED
  BY <1>1, <1>2, <1>3, <1>4, <1>5, <1>6, <1>7 DEF EInv

\* A step of one call, from p, k, r to p1, k1, r1, that records e events with t
\* tokens.
LEMMA UsageStep ==
  ASSUME EInv, XInv', UNCHANGED inputs, NEW c \in Calls, NEW p1, NEW k1, NEW r1,
         pc' = [pc EXCEPT ![c] = p1], call' = [call EXCEPT ![c] = k1],
         result' = [result EXCEPT ![c] = r1], Good(p1, k1, r1), LengthOK(k1),
         NEW e \in Nat, NEW t \in Nat, t <= e,
         collector' = [events |-> collector.events + e, tokens |-> collector.tokens + t],
         Left(p1, k1) + e <= Left(pc[c], call[c]),
         Held(k1, r1) <= Held(call[c], result[c]) + t,
         Kept(r1) => Kept(result[c]) /\ Held(k1, r1) = Held(call[c], result[c]) + t
  PROVE  EInv'
<1>1. InputsOK'
  BY DEF EInv, InputsOK, inputs
<1>2. /\ pc \in [Calls -> Places] /\ call \in [Calls -> CallState] /\ result \in [Calls -> Results]
      /\ collector.events \in Nat /\ collector.tokens \in Nat
      /\ IsFiniteSet(Calls) /\ Cardinality(Calls) \in Nat
  BY ExtractionAssumption, FS_CardinalityType DEF EInv, XInv
<1>3. /\ call' \in [Calls -> CallState] /\ result' \in [Calls -> Results]
  BY <1>2 DEF Good
<1>4. /\ pc'[c] = p1 /\ call'[c] = k1 /\ result'[c] = r1
      /\ \A d \in Calls \ {c} : pc'[d] = pc[d] /\ call'[d] = call[d] /\ result'[d] = result[d]
  BY <1>2
<1>5. \A d \in Calls : Good(pc'[d], call'[d], result'[d])
  BY <1>4 DEF EInv
<1>18. OnlyTextExceeds'
  <2>1. intro' = intro
    BY DEF inputs
  <2>2. \A d \in Calls : call'[d].sent > Bound => call'[d].sent = TextAlone(call'[d].stage)
    BY <1>4 DEF EInv, OnlyTextExceeds, LengthOK
  <2> QED
    BY <2>1, <2>2 DEF OnlyTextExceeds, TextAlone
<1>6. /\ collector' \in [events : Nat, tokens : Nat]
      /\ collector'.events = collector.events + e /\ collector'.tokens = collector.tokens + t
  BY <1>2
<1>7. collector'.tokens <= collector'.events
  BY <1>2, <1>6 DEF EInv
<1>8. \A d \in Calls : LeftIn[d] \in Nat /\ HeldIn[d] \in Nat /\ (LeftIn')[d] \in Nat /\ (HeldIn')[d] \in Nat
  <2> TAKE d \in Calls
  <2>1. Good(pc[d], call[d], result[d]) /\ Good(pc'[d], call'[d], result'[d])
    BY <1>5 DEF EInv
  <2> QED
    BY <2>1, GoodNumbers DEF LeftIn, HeldIn
<1>9. /\ LeftIn[c] = Left(pc[c], call[c]) /\ (LeftIn')[c] = Left(p1, k1)
      /\ HeldIn[c] = Held(call[c], result[c]) /\ (HeldIn')[c] = Held(k1, r1)
  BY <1>4 DEF LeftIn, HeldIn
<1>10. \A d \in Calls \ {c} : (LeftIn')[d] = LeftIn[d] /\ (HeldIn')[d] = HeldIn[d]
  BY <1>4 DEF LeftIn, HeldIn
<1> DEFINE L == SumFunctionOnSet(LeftIn, Calls)
           H == SumFunctionOnSet(HeldIn, Calls)
<1>11. SumFunctionOnSet(LeftIn', Calls) + LeftIn[c] = L + (LeftIn')[c]
  BY <1>2, <1>8, <1>10, SumReplaces
<1>12. SumFunctionOnSet(HeldIn', Calls) + HeldIn[c] = H + (HeldIn')[c]
  BY <1>2, <1>8, <1>10, SumReplaces
<1>13. /\ L \in Nat /\ H \in Nat
       /\ SumFunctionOnSet(LeftIn', Calls) \in Nat /\ SumFunctionOnSet(HeldIn', Calls) \in Nat
  BY <1>2, <1>8, SumTakesOut
<1>14. (SumFunctionOnSet(LeftIn, Calls))' = SumFunctionOnSet(LeftIn', Calls)
       /\ (SumFunctionOnSet(HeldIn, Calls))' = SumFunctionOnSet(HeldIn', Calls)
  OBVIOUS
<1> HIDE DEF L, H
<1>15. collector'.events + SumFunctionOnSet(LeftIn', Calls) <= 2 * Cardinality(Calls)
  <2>1. collector.events + L <= 2 * Cardinality(Calls)
    BY DEF EInv, L
  <2>2. SumFunctionOnSet(LeftIn', Calls) + e <= L
    BY <1>8, <1>9, <1>11, <1>13
  <2>3. 2 * Cardinality(Calls) \in Nat
    BY <1>2
  <2> QED
    BY <1>2, <1>6, <1>13, <2>1, <2>2, <2>3
<1>16. SumFunctionOnSet(HeldIn', Calls) <= collector'.tokens
  <2>1. H <= collector.tokens
    BY DEF EInv, H
  <2>2. SumFunctionOnSet(HeldIn', Calls) <= H + t
    BY <1>8, <1>9, <1>12, <1>13
  <2> QED
    BY <1>2, <1>6, <1>13, <2>1, <2>2
<1>17. ASSUME \A d \in Calls : Kept(result'[d])
       PROVE  SumFunctionOnSet(HeldIn', Calls) = collector'.tokens
  <2>1. Kept(r1)
    BY <1>4, <1>17
  <2>2. \A d \in Calls : Kept(result[d])
    BY <1>4, <1>17, <2>1
  <2>3. H = collector.tokens
    BY <2>2 DEF EInv, H
  <2>4. SumFunctionOnSet(HeldIn', Calls) = H + t
    BY <1>8, <1>9, <1>12, <1>13, <2>1
  <2> QED
    BY <1>6, <2>3, <2>4
<1> QED
  BY <1>1, <1>3, <1>5, <1>6, <1>7, <1>14, <1>15, <1>16, <1>17, <1>18 DEF EInv

\* A step that records nothing.
LEMMA QuietStep ==
  ASSUME EInv, XInv', UNCHANGED <<inputs, collector>>, NEW c \in Calls, NEW p1, NEW k1, NEW r1,
         pc' = [pc EXCEPT ![c] = p1], call' = [call EXCEPT ![c] = k1],
         result' = [result EXCEPT ![c] = r1], Good(p1, k1, r1), LengthOK(k1),
         Left(p1, k1) <= Left(pc[c], call[c]),
         Held(k1, r1) <= Held(call[c], result[c]),
         Kept(r1) => Kept(result[c]) /\ Held(k1, r1) = Held(call[c], result[c])
  PROVE  EInv'
<1>1. Good(pc[c], call[c], result[c]) /\ collector \in [events : Nat, tokens : Nat]
  BY DEF EInv
<1>2. /\ Left(p1, k1) \in Nat /\ Held(k1, r1) \in Nat
      /\ Left(pc[c], call[c]) \in Nat /\ Held(call[c], result[c]) \in Nat
  BY <1>1, GoodNumbers
<1>3. collector' = [events |-> collector.events + 0, tokens |-> collector.tokens + 0]
  BY <1>1
<1>4. UNCHANGED inputs
  BY DEF inputs
<1>5. /\ Left(p1, k1) + 0 <= Left(pc[c], call[c])
      /\ Held(k1, r1) <= Held(call[c], result[c]) + 0
      /\ Kept(r1) => Kept(result[c]) /\ Held(k1, r1) = Held(call[c], result[c]) + 0
  BY <1>2
<1>6. 0 \in Nat /\ 0 <= 0
  OBVIOUS
<1> QED
  BY <1>3, <1>4, <1>5, <1>6, UsageStep

\* A step inside a provider call: the call keeps its stage and its usage.
LEMMA InsideStep ==
  ASSUME EInv, XInv', UNCHANGED <<inputs, collector, result>>, NEW c \in Calls,
         pc[c] \notin {"start", "fallback", "done"},
         NEW p1 \in Places \ {"start", "fallback", "done"}, NEW k1 \in CallState,
         pc' = [pc EXCEPT ![c] = p1], call' = [call EXCEPT ![c] = k1],
         k1.stage = call[c].stage, k1.sent = call[c].sent, k1.reported = call[c].reported,
         p1 = "sleeping" => k1.attempt < MaxRetries
  PROVE  EInv'
<1>1. Good(pc[c], call[c], result[c]) /\ result \in [Calls -> Results]
  BY DEF EInv
<1>2. result' = [result EXCEPT ![c] = result[c]]
  BY <1>1
<1>3. LengthOK(k1)
  BY DEF EInv, OnlyTextExceeds, LengthOK
<1>4. Good(p1, k1, result[c])
  BY <1>1 DEF Good
<1>5. Left(p1, k1) = Left(pc[c], call[c]) /\ Held(k1, result[c]) = Held(call[c], result[c])
  BY DEF Left, Held
<1>6. Kept(result[c]) /\ Kept(result[c])
  BY <1>1 DEF Kept, Good, NoResult
<1>7. Left(p1, k1) \in Nat /\ Held(k1, result[c]) \in Nat
  BY <1>4, GoodNumbers
<1>8. Left(p1, k1) <= Left(pc[c], call[c]) /\ Held(k1, result[c]) <= Held(call[c], result[c])
  BY <1>5, <1>7
<1>9. UNCHANGED <<inputs, collector>>
  OBVIOUS
<1> QED
  BY <1>2, <1>3, <1>4, <1>5, <1>6, <1>8, <1>9, QuietStep
-----------------------------------------------------------------------------

\* The changes of a call that keep its type.
LEMMA CallFields ==
  ASSUME NEW k \in CallState
  PROVE  /\ \A how \in {"reply", "failed", "cancelled"} :
              LET k1 == [k EXCEPT !.outcome = how, !.late = FALSE, !.attempt = 0]
              IN  k1 \in CallState /\ k1.stage = k.stage /\ k1.sent = k.sent /\ k1.reported = k.reported
         /\ LET k1 == [k EXCEPT !.late = TRUE]
            IN  /\ k1 \in CallState /\ k1.stage = k.stage /\ k1.sent = k.sent
                /\ k1.reported = k.reported /\ k1.attempt = k.attempt
         /\ k.attempt < MaxRetries =>
              LET k1 == [k EXCEPT !.attempt = @ + 1]
              IN  k1 \in CallState /\ k1.stage = k.stage /\ k1.sent = k.sent /\ k1.reported = k.reported
<1>1. MaxRetries \in Nat /\ 0 \in 0..MaxRetries
  BY ExtractionAssumption
<1>2. ASSUME NEW how \in {"reply", "failed", "cancelled"}
      PROVE  LET k1 == [k EXCEPT !.outcome = how, !.late = FALSE, !.attempt = 0]
             IN  k1 \in CallState /\ k1.stage = k.stage /\ k1.sent = k.sent /\ k1.reported = k.reported
  BY <1>1 DEF CallState
<1>3. LET k1 == [k EXCEPT !.late = TRUE]
      IN  /\ k1 \in CallState /\ k1.stage = k.stage /\ k1.sent = k.sent
          /\ k1.reported = k.reported /\ k1.attempt = k.attempt
  BY DEF CallState
<1>4. ASSUME k.attempt < MaxRetries
      PROVE  LET k1 == [k EXCEPT !.attempt = @ + 1]
             IN  k1 \in CallState /\ k1.stage = k.stage /\ k1.sent = k.sent /\ k1.reported = k.reported
  <2>1. k.attempt + 1 \in 0..MaxRetries
    BY <1>1, <1>4 DEF CallState
  <2> QED
    BY <2>1 DEF CallState
<1> QED
  BY <1>2, <1>3, <1>4

\* A provider call that is over.
LEMMA EndsStep ==
  ASSUME EInv, XInv', UNCHANGED <<inputs, collector, result>>, NEW c \in Calls,
         pc[c] \in InProvider, NEW how \in {"reply", "failed", "cancelled"}, CallEnds(c, how)
  PROVE  EInv'
<1> DEFINE k1 == [call[c] EXCEPT !.outcome = how, !.late = FALSE, !.attempt = 0]
<1>1. call \in [Calls -> CallState] /\ call[c] \in CallState
  BY DEF EInv
<1>2. /\ k1 \in CallState /\ k1.stage = call[c].stage /\ k1.sent = call[c].sent
      /\ k1.reported = call[c].reported
  BY <1>1, CallFields
<1>3. call' = [call EXCEPT ![c] = k1] /\ pc' = [pc EXCEPT ![c] = "closing"]
  BY <1>1 DEF CallEnds, Goto
<1>4. "closing" \in Places \ {"start", "fallback", "done"} /\ pc[c] \notin {"start", "fallback", "done"}
  BY DEF Places, InProvider
<1> HIDE DEF k1
<1> QED
  BY <1>2, <1>3, <1>4, InsideStep

\* A move inside a provider call.
LEMMA GotoStep ==
  ASSUME EInv, XInv', UNCHANGED <<inputs, collector, result, call>>, NEW c \in Calls,
         pc[c] \in InProvider, NEW p1 \in InProvider, Goto(c, p1),
         p1 = "sleeping" => call[c].attempt < MaxRetries
  PROVE  EInv'
<1>1. call \in [Calls -> CallState] /\ call[c] \in CallState
  BY DEF EInv
<1>2. call' = [call EXCEPT ![c] = call[c]]
  BY <1>1
<1>3. p1 \in Places \ {"start", "fallback", "done"} /\ pc[c] \notin {"start", "fallback", "done"}
  BY DEF Places, InProvider
<1> QED
  BY <1>1, <1>2, <1>3, InsideStep DEF Goto

\* No step inside a provider call changes what is held.
LEMMA ProviderUsage ==
  ASSUME EInv, XInv', NEW c \in Calls, ProviderStep(c)
  PROVE  EInv'
<1>1. call \in [Calls -> CallState] /\ call[c] \in CallState /\ Good(pc[c], call[c], result[c])
  BY DEF EInv
<1>2. pc \in [Calls -> Places]
  BY DEF EInv, XInv
<1>3. CASE Tick(c)
  <2> DEFINE k1 == [call[c] EXCEPT !.late = TRUE]
  <2>1. /\ k1 \in CallState /\ k1.stage = call[c].stage /\ k1.sent = call[c].sent
        /\ k1.reported = call[c].reported /\ k1.attempt = call[c].attempt
    BY <1>1, CallFields
  <2>2. call' = [call EXCEPT ![c] = k1] /\ pc' = [pc EXCEPT ![c] = pc[c]]
    BY <1>1, <1>2, <1>3 DEF Tick
  <2>3. pc[c] \in Places \ {"start", "fallback", "done"} /\ UNCHANGED <<inputs, collector, result>>
    BY <1>3 DEF Tick, Places, InProvider
  <2>4. pc[c] = "sleeping" => k1.attempt < MaxRetries
    BY <1>1, <2>1 DEF Good
  <2> HIDE DEF k1
  <2> QED
    BY <2>1, <2>2, <2>3, <2>4, InsideStep
<1>4. CASE Loop(c)
  <2>1. pc[c] \in InProvider /\ "queued" \in InProvider /\ UNCHANGED <<inputs, collector, result>>
    BY <1>4 DEF Loop, InProvider
  <2>2. CASE call[c].late
    BY <1>4, <2>1, <2>2, EndsStep DEF Loop
  <2>3. CASE ~call[c].late
    BY <1>4, <2>1, <2>3, GotoStep DEF Loop
  <2> QED
    BY <2>2, <2>3
<1>5. CASE Acquire(c)
  <2>1. /\ pc[c] \in InProvider /\ "sending" \in InProvider
        /\ UNCHANGED <<inputs, collector, result, call>> /\ Goto(c, "sending")
    BY <1>5 DEF Acquire, InProvider
  <2> QED
    BY <2>1, GotoStep
<1>6. CASE TransportError(c)
  <2>1. pc[c] \in InProvider /\ "sleeping" \in InProvider /\ UNCHANGED <<inputs, collector, result>>
    BY <1>6 DEF TransportError, InProvider
  <2>2. CASE CallEnds(c, "failed")
    BY <2>1, <2>2, EndsStep
  <2>3. CASE call[c].attempt < MaxRetries /\ Goto(c, "sleeping") /\ UNCHANGED call
    BY <2>1, <2>3, GotoStep
  <2> QED
    BY <1>6, <2>2, <2>3 DEF TransportError, BackOff
<1>7. CASE Wake(c)
  <2> DEFINE k1 == [call[c] EXCEPT !.attempt = @ + 1]
  <2>1. /\ k1 \in CallState /\ k1.stage = call[c].stage /\ k1.sent = call[c].sent
        /\ k1.reported = call[c].reported
    BY <1>1, <1>7, CallFields DEF Good, Wake
  <2>2. call' = [call EXCEPT ![c] = k1] /\ pc' = [pc EXCEPT ![c] = "loop"]
    BY <1>1, <1>7 DEF Wake, Goto
  <2>3. /\ "loop" \in Places \ {"start", "fallback", "done"} /\ UNCHANGED <<inputs, collector, result>>
        /\ pc[c] \notin {"start", "fallback", "done"}
    BY <1>7 DEF Wake, Places, InProvider
  <2> HIDE DEF k1
  <2> QED
    BY <2>1, <2>2, <2>3, InsideStep
<1>8. CASE Answers(c)
  <2>1. pc[c] \in InProvider /\ UNCHANGED <<inputs, collector, result>>
    BY <1>8 DEF Answers, InProvider
  <2>2. PICK how \in {"reply", "failed"} : CallEnds(c, how)
    BY <1>8 DEF Answers
  <2> QED
    BY <2>1, <2>2, EndsStep
<1>9. CASE TimeUp(c)
  <2>1. pc[c] \in InProvider /\ UNCHANGED <<inputs, collector, result>> /\ CallEnds(c, "failed")
    BY <1>9 DEF TimeUp, InProvider
  <2> QED
    BY <2>1, EndsStep
<1> QED
  BY <1>3, <1>4, <1>5, <1>6, <1>7, <1>8, <1>9 DEF ProviderStep

\* The results without facts.
LEMMA ResultBy ==
  ASSUME NEW by \in {"empty", "cancelled", "raised"}
  PROVE  LET r == [NoResult EXCEPT !.by = by]
         IN  r \in Results /\ r.by = by /\ r.reported = 0 /\ r.estimated
<1>1. NoResult \in Results /\ NoResult.reported = 0 /\ NoResult.estimated
  BY DEF NoResult, Results
<1>2. ASSUME NEW r0 \in Results
      PROVE  LET r == [r0 EXCEPT !.by = by]
             IN  /\ r \in Results /\ r.by = by /\ r.reported = r0.reported
                 /\ r.estimated = r0.estimated
  BY DEF Results
<1> QED
  BY <1>1, <1>2

\* An extraction that returns, without an event or after that of its last reply.
\* It keeps what was reported for it, or gives it up.
LEMMA ReturnUsage ==
  ASSUME EInv, XInv', UNCHANGED inputs, NEW c \in Calls, pc[c] # "done", NEW r \in Results,
         Return(c, r), r.by # "none",
         r.by = "llm" => r.tokens = r.reported,
         ~r.estimated => r.tokens > 0 /\ r.by = "llm",
         \/ /\ collector' = collector /\ r.reported <= call[c].reported
            /\ Kept(r) => r.reported = call[c].reported
         \/ /\ pc[c] = "closing"
            /\ \E t \in {0, 1} : /\ Collect(t) /\ r.reported <= call[c].reported + t
                                 /\ Kept(r) => r.reported = call[c].reported + t
  PROVE  EInv'
<1>1. Good(pc[c], call[c], result[c])
  BY DEF EInv
<1>2. /\ NoCall \in CallState /\ NoCall.sent = 0 /\ NoCall.reported = 0 /\ NoCall.stage = "none"
      /\ LengthOK(NoCall)
  BY ExtractionAssumption DEF NoCall, CallState, LengthOK
<1>3. Good("done", NoCall, r)
  BY <1>2 DEF Good, Places
<1>4. /\ pc' = [pc EXCEPT ![c] = "done"] /\ call' = [call EXCEPT ![c] = NoCall]
      /\ result' = [result EXCEPT ![c] = r]
  BY DEF Return, Goto
<1>5. /\ Left("done", NoCall) = 0 /\ Held(NoCall, r) = r.reported /\ r.reported \in Nat
      /\ Held(call[c], result[c]) = call[c].reported /\ call[c].reported \in Nat
      /\ Left(pc[c], call[c]) \in Nat
  <2>1. Left("done", NoCall) = 0
    BY <1>2 DEF Left
  <2>2. Held(NoCall, r) = r.reported /\ r.reported \in Nat
    BY <1>2 DEF Held, Results
  <2>3. call[c].reported \in Nat
    BY <1>1 DEF Good, CallState
  <2>4. Held(call[c], result[c]) = call[c].reported
    BY <1>1, <2>3 DEF Held, Good, NoResult
  <2> QED
    BY <1>1, <2>1, <2>2, <2>3, <2>4, GoodNumbers
<1>6. Kept(result[c])
  BY <1>1 DEF Good, Kept, NoResult
<1>7. CASE /\ collector' = collector /\ r.reported <= call[c].reported
           /\ Kept(r) => r.reported = call[c].reported
  <2>1. Left("done", NoCall) <= Left(pc[c], call[c]) /\ Held(NoCall, r) <= Held(call[c], result[c])
    BY <1>5, <1>7
  <2>2. Kept(r) => Kept(result[c]) /\ Held(NoCall, r) = Held(call[c], result[c])
    BY <1>5, <1>6, <1>7
  <2>3. UNCHANGED <<inputs, collector>>
    BY <1>7
  <2> QED
    BY <1>2, <1>3, <1>4, <2>1, <2>2, <2>3, QuietStep
<1>8. CASE /\ pc[c] = "closing"
           /\ \E t \in {0, 1} : /\ Collect(t) /\ r.reported <= call[c].reported + t
                                /\ Kept(r) => r.reported = call[c].reported + t
  <2>1. PICK t \in {0, 1} : /\ Collect(t) /\ r.reported <= call[c].reported + t
                            /\ Kept(r) => r.reported = call[c].reported + t
    BY <1>8
  <2>2. /\ t \in Nat /\ 1 \in Nat /\ t <= 1
        /\ collector' = [events |-> collector.events + 1, tokens |-> collector.tokens + t]
    BY <2>1 DEF Collect
  <2>3. 1 <= Left(pc[c], call[c])
    BY <1>1, <1>8 DEF Good, Left
  <2>4. Left("done", NoCall) + 1 <= Left(pc[c], call[c])
    BY <1>5, <2>3
  <2>5. /\ Held(NoCall, r) <= Held(call[c], result[c]) + t
        /\ Kept(r) => Kept(result[c]) /\ Held(NoCall, r) = Held(call[c], result[c]) + t
    BY <1>5, <1>6, <2>1, <2>2
  <2> QED
    BY <1>2, <1>3, <1>4, <2>2, <2>4, <2>5, UsageStep
<1> QED
  BY <1>7, <1>8

\* A provider call begins.
LEMMA BeginStep ==
  ASSUME NEW k1 \in CallState, k1.stage \in {"first", "repair"},
         k1.stage = "first" => k1.reported = 0,
         k1.stage = "repair" => k1.reported <= 1
  PROVE  Good("loop", k1, NoResult)
<1>1. NoResult \in Results /\ NoResult.estimated /\ NoResult.by = "none"
  BY DEF NoResult, Results
<1>2. "loop" \in Places
  BY DEF Places, InProvider
<1> QED
  BY <1>1, <1>2 DEF Good

\* The provider calls of an extraction are over, and the heuristic is next.
LEMMA FallBackStep ==
  ASSUME NEW calls \in 0..2, NEW reported \in 0..2
  PROVE  LET k1 == [NoCall EXCEPT !.calls = calls, !.reported = reported]
         IN  /\ k1 \in CallState /\ k1.reported = reported /\ LengthOK(k1)
             /\ Good("fallback", k1, NoResult)
             /\ Left("fallback", k1) = 0 /\ Held(k1, NoResult) = reported
<1> DEFINE k1 == [NoCall EXCEPT !.calls = calls, !.reported = reported]
<1>1. /\ k1 \in CallState /\ k1.stage = "none" /\ k1.sent = 0 /\ k1.reported = reported
  <2>1. NoCall \in CallState /\ NoCall.stage = "none" /\ NoCall.sent = 0
    BY ExtractionAssumption DEF NoCall, CallState
  <2>2. ASSUME NEW k \in CallState
        PROVE  LET k2 == [k EXCEPT !.calls = calls, !.reported = reported]
               IN  /\ k2 \in CallState /\ k2.stage = k.stage /\ k2.sent = k.sent
                   /\ k2.reported = reported
    BY DEF CallState
  <2> QED
    BY <2>1, <2>2
<1>2. NoResult \in Results /\ NoResult.estimated /\ NoResult.by = "none" /\ NoResult.reported = 0
  BY DEF NoResult, Results
<1> HIDE DEF k1
<1>3. LengthOK(k1)
  BY <1>1, ExtractionAssumption DEF LengthOK
<1>4. Good("fallback", k1, NoResult)
  BY <1>1, <1>2 DEF Good, Places
<1>5. Left("fallback", k1) = 0 /\ Held(k1, NoResult) = reported
  BY <1>1, <1>2 DEF Left, Held
<1> QED
  BY <1>1, <1>3, <1>4, <1>5 DEF k1

\* An extraction counts every event it records.
LEMMA ExtractUsage ==
  ASSUME EInv, XInv', NEW c \in Calls, ExtractStep(c) \/ Cancel(c)
  PROVE  EInv'
<1>0. 0 \in 0..MaxRetries
  BY ExtractionAssumption
<1>1. /\ call[c] \in CallState /\ Good(pc[c], call[c], result[c]) /\ InputsOK
      /\ result \in [Calls -> Results] /\ call \in [Calls -> CallState] /\ pc \in [Calls -> Places]
  BY DEF EInv, XInv
<1>2. call[c].reported \in 0..2 /\ call[c].calls \in 0..2
  BY <1>1 DEF CallState
<1>3. /\ Left(pc[c], call[c]) \in Nat /\ Held(call[c], result[c]) \in Nat
  BY <1>1, GoodNumbers
<1>4. pc[c] # "done" => /\ result[c] = NoResult /\ result = [result EXCEPT ![c] = NoResult]
                        /\ Kept(result[c]) /\ Held(call[c], result[c]) = call[c].reported
  BY <1>1, <1>2 DEF Good, Kept, NoResult, Held
<1>5. CASE Begin(c)
  <2>1. UNCHANGED <<inputs, collector>> /\ pc[c] = "start" /\ UNCHANGED inputs /\ collector' = collector
    BY <1>5 DEF Begin, inputs
  <2>2. call[c] = NoCall /\ call[c].reported = 0
    BY <1>1, <2>1 DEF Good, NoCall
  <2>3. CASE valid[c] = {}
    <3> DEFINE r == [NoResult EXCEPT !.by = "empty"]
    <3>1. r \in Results /\ r.by = "empty" /\ r.reported = 0 /\ r.estimated
      BY ResultBy
    <3>2. Return(c, r)
      BY <1>5, <2>3 DEF Begin
    <3> HIDE DEF r
    <3> QED
      BY <2>1, <2>2, <3>1, <3>2, ReturnUsage
  <2>4. CASE valid[c] # {}
    <3> DEFINE k1 == [stage |-> "first", attempt |-> 0, late |-> FALSE, outcome |-> "none",
                     sent |-> FirstLength(c), calls |-> 0, reported |-> 0]
    <3>1. FirstLength(c) \in Nat /\ (FirstLength(c) <= Bound \/ FirstLength(c) = TextAlone("first"))
      BY <1>1, FirstFits
    <3>2. Good("loop", k1, NoResult) /\ k1.stage = "first" /\ k1.reported = 0 /\ LengthOK(k1)
      <4>1. k1 \in CallState /\ k1.stage = "first" /\ k1.sent = FirstLength(c) /\ k1.reported = 0
        BY <1>0, <3>1 DEF CallState
      <4> HIDE DEF k1
      <4>2. LengthOK(k1)
        BY <3>1, <4>1, ExtractionAssumption DEF LengthOK
      <4> QED
        BY <4>1, <4>2, BeginStep
    <3>3. /\ call' = [call EXCEPT ![c] = k1] /\ pc' = [pc EXCEPT ![c] = "loop"] /\ result' = result
      BY <1>5, <2>4 DEF Begin, BeginCall, Goto, NoCall
    <3> HIDE DEF k1
    <3>4. Left("loop", k1) = 2 /\ Left(pc[c], call[c]) = 2
      BY <2>1, <3>2 DEF Left
    <3>5. Held(k1, NoResult) = 0 /\ Held(call[c], result[c]) = 0
      BY <1>4, <2>1, <2>2, <3>2 DEF Held, NoResult
    <3>6. Left("loop", k1) <= Left(pc[c], call[c]) /\ Held(k1, NoResult) <= Held(call[c], result[c])
      BY <3>4, <3>5
    <3> QED
      BY <1>4, <2>1, <3>2, <3>3, <3>5, <3>6, QuietStep
  <2> QED
    BY <2>3, <2>4
<1>6. CASE Fails(c)
  <2> DEFINE k1 == [NoCall EXCEPT !.calls = call[c].calls, !.reported = call[c].reported]
  <2>1. /\ call' = [call EXCEPT ![c] = k1] /\ pc' = [pc EXCEPT ![c] = "fallback"]
        /\ UNCHANGED <<inputs, collector>> /\ result' = result /\ pc[c] = "closing"
    BY <1>6 DEF Fails, FallBack, Goto, inputs
  <2>2. /\ Good("fallback", k1, NoResult) /\ LengthOK(k1)
        /\ Left("fallback", k1) = 0 /\ Held(k1, NoResult) = call[c].reported
    BY <1>2, FallBackStep
  <2> HIDE DEF k1
  <2>3. Left("fallback", k1) <= Left(pc[c], call[c]) /\ Held(k1, NoResult) = Held(call[c], result[c])
        /\ Held(k1, NoResult) <= Held(call[c], result[c])
    BY <1>2, <1>3, <1>4, <2>1, <2>2
  <2> QED
    BY <1>4, <2>1, <2>2, <2>3, QuietStep
<1>7. CASE Parses(c)
  <2>1. PICK tokens \in {0, 1}, f \in Facts :
          /\ Collect(tokens)
          /\ Return(c, [by |-> "llm", facts |-> {g \in {f} : Accepted(c, g)},
                     tokens |-> Usage(c, tokens).tokens, estimated |-> Usage(c, tokens).estimated,
                     reported |-> call[c].reported + tokens])
    BY <1>7 DEF Parses
  <2> DEFINE r == [by |-> "llm", facts |-> {g \in {f} : Accepted(c, g)},
                   tokens |-> Usage(c, tokens).tokens, estimated |-> Usage(c, tokens).estimated,
                   reported |-> call[c].reported + tokens]
  <2>2. /\ r.tokens = call[c].reported + tokens /\ r.reported = call[c].reported + tokens
        /\ r.by = "llm"
        /\ ~r.estimated => ~(call[c].reported + tokens <= call[c].calls)
    BY DEF Usage
  <2>3. UNCHANGED inputs /\ pc[c] = "closing"
    BY <1>7 DEF Parses, inputs
  <2>4. call[c].reported <= 1
    BY <1>1, <1>2, <2>3 DEF Good
  <2>5. call[c].reported + tokens \in 0..2
    BY <1>2, <2>4
  <2>6. r \in Results
    BY <2>2, <2>5 DEF Results, Usage
  <2>7. Return(c, r)
    BY <2>1
  <2> HIDE DEF r
  <2>8. ~r.estimated => r.tokens > 0
    BY <1>2, <2>2, <2>5
  <2>9. /\ Collect(tokens) /\ r.reported <= call[c].reported + tokens
        /\ r.reported = call[c].reported + tokens /\ r.tokens = r.reported
    BY <2>1, <2>2, <2>5
  <2> QED
    BY <2>2, <2>3, <2>6, <2>7, <2>8, <2>9, ReturnUsage
<1>8. CASE Unparseable(c)
  <2>1. PICK tokens \in {0, 1}, reply \in 0..Bound :
          /\ Collect(tokens)
          /\ IF call[c].stage = "first"
             THEN BeginCall(c, "repair", RepairLength(c, reply), 1, tokens)
             ELSE FallBack(c, 2, call[c].reported + tokens)
    BY <1>8 DEF Unparseable
  <2>2. UNCHANGED inputs /\ result' = result /\ pc[c] = "closing"
    BY <1>8 DEF Unparseable, inputs
  <2>3. /\ tokens \in Nat /\ 1 \in Nat /\ tokens <= 1 /\ tokens \in 0..2 /\ 1 \in 0..2
        /\ collector' = [events |-> collector.events + 1, tokens |-> collector.tokens + tokens]
    BY <2>1 DEF Collect
  <2>4. CASE call[c].stage = "first"
    <3> DEFINE k1 == [stage |-> "repair", attempt |-> 0, late |-> FALSE, outcome |-> "none",
                     sent |-> RepairLength(c, reply), calls |-> 1, reported |-> tokens]
    <3>1. /\ RepairLength(c, reply) \in Nat
          /\ RepairLength(c, reply) <= Bound \/ RepairLength(c, reply) = TextAlone("repair")
      BY <1>1, RepairFits
    <3>2. Good("loop", k1, NoResult) /\ k1.stage = "repair" /\ k1.reported = tokens /\ LengthOK(k1)
      <4>1. /\ k1 \in CallState
            /\ k1.stage = "repair"
            /\ k1.sent = RepairLength(c, reply)
            /\ k1.reported = tokens
        BY <1>0, <2>3, <3>1 DEF CallState
      <4> HIDE DEF k1
      <4>2. LengthOK(k1)
        BY <3>1, <4>1, ExtractionAssumption DEF LengthOK
      <4> QED
        BY <2>3, <4>1, <4>2, BeginStep
    <3>3. /\ call' = [call EXCEPT ![c] = k1] /\ pc' = [pc EXCEPT ![c] = "loop"]
      BY <2>1, <2>4 DEF BeginCall, Goto, NoCall
    <3>4. call[c].reported = 0
      BY <1>1, <2>4 DEF Good
    <3> HIDE DEF k1
    <3>5. Left("loop", k1) = 1 /\ Left(pc[c], call[c]) = 2
      BY <2>4, <3>2 DEF Left
    <3>6. Held(k1, NoResult) = tokens /\ Held(call[c], result[c]) = 0
      BY <1>4, <2>2, <2>3, <3>2, <3>4 DEF Held, NoResult
    <3>7. Left("loop", k1) + 1 <= Left(pc[c], call[c])
      BY <3>5
    <3>8. /\ Held(k1, NoResult) <= Held(call[c], result[c]) + tokens
          /\ Held(k1, NoResult) = Held(call[c], result[c]) + tokens
      BY <2>3, <3>6
    <3> QED
      BY <1>4, <2>2, <2>3, <3>2, <3>3, <3>7, <3>8, UsageStep
  <2>5. CASE call[c].stage # "first"
    <3>1. call[c].stage = "repair" /\ call[c].reported <= 1
      BY <1>1, <2>2, <2>5 DEF Good
    <3>2. call[c].reported + tokens \in 0..2 /\ 2 \in 0..2
      BY <1>2, <2>3, <3>1
    <3> DEFINE n == call[c].reported + tokens
               k1 == [NoCall EXCEPT !.calls = 2, !.reported = n]
    <3>3. call' = [call EXCEPT ![c] = k1] /\ pc' = [pc EXCEPT ![c] = "fallback"]
      BY <2>1, <2>5 DEF FallBack, Goto
    <3>4. n \in 0..2 /\ n = call[c].reported + tokens
      BY <3>2
    <3> HIDE DEF n
    <3>5. /\ Good("fallback", k1, NoResult) /\ LengthOK(k1)
          /\ Left("fallback", k1) = 0 /\ Held(k1, NoResult) = n
      BY <3>2, <3>4, FallBackStep
    <3> HIDE DEF k1
    <3>6. Left(pc[c], call[c]) = 1
      BY <2>2, <3>1 DEF Left
    <3>7. /\ Left("fallback", k1) + 1 <= Left(pc[c], call[c])
          /\ Held(k1, NoResult) = Held(call[c], result[c]) + tokens
          /\ Held(k1, NoResult) <= Held(call[c], result[c]) + tokens
      BY <1>4, <2>2, <3>4, <3>5, <3>6
    <3> QED
      BY <1>4, <2>2, <2>3, <3>3, <3>5, <3>7, UsageStep
  <2> QED
    BY <2>4, <2>5
<1>9. CASE NullContent(c)
  <2> DEFINE r == [NoResult EXCEPT !.by = "raised"]
  <2>1. r \in Results /\ r.by = "raised" /\ r.reported = 0 /\ r.estimated /\ ~Kept(r)
    BY ResultBy DEF Kept
  <2>2. Return(c, r) /\ UNCHANGED inputs /\ pc[c] = "closing"
    BY <1>9 DEF NullContent, inputs
  <2>3. PICK tokens \in {0, 1} : Collect(tokens)
    BY <1>9 DEF NullContent
  <2>4. r.reported <= call[c].reported + tokens
    BY <1>2, <2>1
  <2> HIDE DEF r
  <2> QED
    BY <2>1, <2>2, <2>3, <2>4, ReturnUsage
<1>10. CASE Heuristic(c)
  <2>1. PICK S \in SUBSET valid[c] :
          Return(c, [by |-> "heuristic", facts |-> {[cites |-> {d}, found |-> {d}] : d \in S},
                     tokens |-> 1, estimated |-> TRUE, reported |-> call[c].reported])
    BY <1>10 DEF Heuristic
  <2> DEFINE r == [by |-> "heuristic", facts |-> {[cites |-> {d}, found |-> {d}] : d \in S},
                   tokens |-> 1, estimated |-> TRUE, reported |-> call[c].reported]
  <2>2. r \in Results
    <3>1. S \subseteq Docs
      BY <1>1 DEF InputsOK
    <3>2. {[cites |-> {d}, found |-> {d}] : d \in S} \subseteq Facts
      BY <3>1 DEF Facts
    <3> QED
      BY <1>2, <3>2 DEF Results
  <2>3. r.by = "heuristic" /\ r.reported = call[c].reported /\ r.estimated
    OBVIOUS
  <2>4. Return(c, r)
    BY <2>1
  <2>5. UNCHANGED inputs /\ collector' = collector /\ pc[c] = "fallback"
    BY <1>10 DEF Heuristic, inputs
  <2> HIDE DEF r
  <2>6. r.reported <= call[c].reported
    BY <1>2, <2>3
  <2> QED
    BY <2>2, <2>3, <2>4, <2>5, <2>6, ReturnUsage
<1>11. ASSUME Cancelled(c), pc[c] \in {"closing", "fallback"}, UNCHANGED <<inputs, collector>>
      PROVE  EInv'
  <2> DEFINE r == [NoResult EXCEPT !.by = "cancelled"]
  <2>1. r \in Results /\ r.by = "cancelled" /\ r.reported = 0 /\ r.estimated /\ ~Kept(r)
    BY ResultBy DEF Kept
  <2>2. Return(c, r)
    BY <1>11 DEF Cancelled
  <2>3. UNCHANGED inputs /\ collector' = collector /\ pc[c] # "done"
    BY <1>11
  <2> HIDE DEF r
  <2>4. r.reported <= call[c].reported
    BY <1>2, <2>1
  <2> QED
    BY <2>1, <2>2, <2>3, <2>4, ReturnUsage
<1>12. CASE CancelledCloses(c)
  <2>1. Cancelled(c) /\ pc[c] \in {"closing", "fallback"} /\ UNCHANGED <<inputs, collector>>
    BY <1>12 DEF CancelledCloses
  <2> QED
    BY <1>11, <2>1
<1>13. CASE Cancel(c)
  <2>1. UNCHANGED <<inputs, collector>>
    BY <1>13 DEF Cancel
  <2>2. CASE pc[c] \in InProvider
    <3>1. CallEnds(c, "cancelled") /\ UNCHANGED <<inputs, collector, result>>
      BY <1>13, <2>2 DEF Cancel
    <3> QED
      BY <2>2, <3>1, EndsStep
  <2>3. CASE pc[c] \notin InProvider
    <3>1. Cancelled(c) /\ pc[c] \in {"closing", "fallback"}
      BY <1>13, <2>3 DEF Cancel
    <3> QED
      BY <1>11, <2>1, <3>1
  <2> QED
    BY <2>2, <2>3
<1> QED
  BY <1>5, <1>6, <1>7, <1>8, <1>9, <1>10, <1>12, <1>13 DEF ExtractStep

LEMMA NextEInv == EInv /\ [ExtractionNext]_extractionVars => EInv'
<1>1. EInv /\ UNCHANGED extractionVars => EInv'
  BY DEF extractionVars, inputs, EInv, XInv, SlotsAreHeld, InputsOK, LeftIn, HeldIn,
         OnlyTextExceeds, TextAlone
<1>2. EInv /\ [ExtractionNext]_extractionVars => XInv'
  BY NextXInv DEF EInv
<1> QED
  BY <1>1, <1>2, ProviderUsage, ExtractUsage DEF ExtractionNext, Rest

LEMMA UsageInductive == ExtractionSpec => []EInv
BY InitEInv, NextEInv, PTL DEF ExtractionSpec
-----------------------------------------------------------------------------

\* The types, and at most two recorded events for each extraction.
THEOREM ExtractionTypeCorrect == ExtractionSpec => []ExtractionTypeOK
<1>1. EInv => ExtractionTypeOK
  <2> SUFFICES ASSUME EInv PROVE ExtractionTypeOK
    OBVIOUS
  <2>1. IsFiniteSet(Calls) /\ Cardinality(Calls) \in Nat
    BY ExtractionAssumption, FS_CardinalityType
  <2>2. free \in 0..InFlight
    <3>1. IsFiniteSet(Sending)
      BY <2>1, FS_Subset DEF Sending
    <3>2. Cardinality(Sending) \in Nat /\ free \in Nat /\ free + Cardinality(Sending) = InFlight
      BY <3>1, FS_CardinalityType DEF EInv, XInv, SlotsAreHeld, Sending
    <3>3. InFlight \in Nat
      BY ExtractionAssumption
    <3> QED
      BY <3>2, <3>3
  <2>3. collector.events \in 0..(2 * Cardinality(Calls)) /\ collector.tokens \in 0..collector.events
    <3>1. \A c \in Calls : LeftIn[c] \in Nat
      BY GoodNumbers DEF EInv, LeftIn
    <3>2. SumFunctionOnSet(LeftIn, Calls) \in Nat
      BY <2>1, <3>1, SumTakesOut
    <3>3. /\ collector.events \in Nat /\ collector.tokens \in Nat /\ collector.tokens <= collector.events
          /\ collector.events + SumFunctionOnSet(LeftIn, Calls) <= 2 * Cardinality(Calls)
      BY DEF EInv
    <3>4. 2 * Cardinality(Calls) \in Nat
      BY <2>1
    <3> QED
      BY <3>2, <3>3, <3>4
  <2>4. ASSUME NEW c \in Calls
        PROVE  /\ result[c].facts \subseteq Facts
               /\ result[c].by \in {"none", "empty", "llm", "heuristic", "cancelled", "raised"}
               /\ result[c].tokens \in 0..2 /\ result[c].reported \in 0..2
               /\ result[c].by # "none" <=> pc[c] = "done"
    <3>1. Good(pc[c], call[c], result[c])
      BY DEF EInv
    <3> QED
      BY <3>1 DEF Good, Results, NoResult
  <2> QED
    BY <2>2, <2>3, <2>4 DEF EInv, XInv, InputsOK, ExtractionTypeOK, Places
<1> QED
  BY <1>1, UsageInductive, PTL

\* Whatever the lengths of the documents and of the reply that is echoed, only the
\* prompts and the text before the documents make a request longer than
\* MAX_TOTAL_INPUT_CHARS.
THEOREM OnlyTheTextIsTooLong == ExtractionSpec => []OnlyTextExceeds
<1>1. EInv => OnlyTextExceeds
  BY DEF EInv
<1> QED
  BY <1>1, UsageInductive, PTL

\* What the extractions that succeeded return adds up to what was recorded for
\* the question, or to less where others fell back, were cancelled or raised.
THEOREM UsageIsCounted == ExtractionSpec => []UsageAgrees
<1>1. EInv => UsageAgrees
  <2> SUFFICES ASSUME EInv PROVE UsageAgrees
    OBVIOUS
  <2> DEFINE Returned == [c \in Calls |-> result[c].tokens]
  <2>1. IsFiniteSet(Calls) /\ ByModel \in SUBSET Calls
    BY ExtractionAssumption DEF ByModel
  <2>2. IsFiniteSet(ByModel)
    BY <2>1, FS_Subset
  <2>3. \A c \in Calls : HeldIn[c] \in Nat
    BY GoodNumbers DEF EInv, HeldIn
  <2>4. \A c \in ByModel : Returned[c] = HeldIn[c]
    <3> TAKE c \in ByModel
    <3>1. c \in Calls /\ Good(pc[c], call[c], result[c]) /\ result[c].by = "llm"
      BY DEF EInv, ByModel
    <3>2. pc[c] = "done"
      BY <3>1 DEF Good, NoResult
    <3>3. call[c].reported = 0 /\ result[c].tokens = result[c].reported
      BY <3>1, <3>2 DEF Good, NoCall
    <3>4. result[c].reported \in Nat
      BY <3>1 DEF Good, Results
    <3> QED
      BY <3>1, <3>3, <3>4 DEF HeldIn, Held
  <2> HIDE DEF Returned
  <2>5. SumFunctionOnSet(Returned, ByModel) = SumFunctionOnSet(HeldIn, ByModel)
    BY <2>2, <2>4, SumSame
  <2>6. /\ SumFunctionOnSet(HeldIn, ByModel) <= SumFunctionOnSet(HeldIn, Calls)
        /\ SumFunctionOnSet(HeldIn, ByModel) \in Nat /\ SumFunctionOnSet(HeldIn, Calls) \in Nat
    BY <2>1, <2>2, <2>3, SumOfFewer, SumTakesOut
  <2>7. SumFunctionOnSet(Returned, ByModel) <= collector.tokens
    <3>1. SumFunctionOnSet(HeldIn, Calls) <= collector.tokens /\ collector.tokens \in Nat
      BY DEF EInv
    <3> QED
      BY <2>5, <2>6, <3>1
  <2>8. ASSUME ByModel = Calls
        PROVE  SumFunctionOnSet(Returned, ByModel) = collector.tokens
    <3>1. \A c \in Calls : Kept(result[c])
      BY <2>8 DEF ByModel, Kept
    <3>2. SumFunctionOnSet(HeldIn, Calls) = collector.tokens
      BY <3>1 DEF EInv
    <3> QED
      BY <2>5, <2>8, <3>2
  <2>9. \A c \in Calls : ~result[c].estimated => result[c].tokens > 0 /\ result[c].by = "llm"
    BY DEF EInv, Good
  <2> QED
    BY <2>7, <2>8, <2>9 DEF UsageAgrees, Returned
<1> QED
  BY <1>1, UsageInductive, PTL
=============================================================================
