----------------------------- MODULE Extraction -----------------------------
(***************************************************************************)
(* LLMFactExtractor.extract (service/extractor.py) over                    *)
(* QwenProvider.acomplete (core/providers/qwen.py): several extractions    *)
(* run at once in one event loop and share the limiter of the provider and *)
(* the usage collector of their question (core/usage.py).                  *)
(*                                                                         *)
(* Time is reduced to one event: the total deadline of a provider call     *)
(* passes.  Texts are reduced to their lengths, a claim to the documents   *)
(* that contain it, and a token count to one token for a reply that        *)
(* reports its usage, none for a reply that does not, and one for the      *)
(* estimate of the heuristic extractor.                                    *)
(***************************************************************************)
EXTENDS Naturals, FiniteSets, Functions

CONSTANTS
  Calls,              \* the extractions
  InFlight,           \* _GLOBAL_INFLIGHT
  MaxRetries,
  NDocs, Sizes,       \* documents, and the lengths they may have
  Bound,              \* MAX_TOTAL_INPUT_CHARS
  System, Repair,     \* the lengths of the two prompts
  Intros              \* the lengths the text before the documents may have

ASSUME ExtractionAssumption ==
  /\ IsFiniteSet(Calls) /\ InFlight \in Nat \ {0} /\ MaxRetries \in Nat /\ NDocs \in Nat
  /\ Sizes \subseteq Nat /\ Intros \subseteq Nat
  /\ {Bound, System, Repair} \subseteq Nat

Docs == 1..NDocs
Missing == NDocs + 1     \* a citation id of no document

VARIABLES
  \* what the extractions are given
  valid,      \* the fetched, non-empty documents of each
  size, intro,
  \* shared by them
  free,       \* free slots of the limiter
  collector,  \* events and tokens recorded for the question
  \* each extraction
  pc,
  call,       \* its local variables, and those of its provider call
  result

inputs == <<valid, size, intro>>
extractionVars == <<inputs, free, collector, pc, call, result>>

Facts == [cites : SUBSET (Docs \cup {Missing}), found : SUBSET Docs]
NoResult == [by |-> "none", facts |-> {}, tokens |-> 0, estimated |-> TRUE, reported |-> 0]

\* late: the deadline has passed.  outcome: how the provider call ends, while
\* its client closes.  sent: the length of its messages.  calls and reported:
\* the replies of this extraction so far, and the tokens they reported (in a
\* result: a history, what the provider reported for it).
NoCall == [stage |-> "none", attempt |-> 0, late |-> FALSE, outcome |-> "none",
           sent |-> 0, calls |-> 0, reported |-> 0]
CallState == [stage : {"none", "first", "repair"}, attempt : 0..MaxRetries, late : BOOLEAN,
              outcome : {"none", "reply", "failed", "cancelled"}, sent : Nat,
              calls : 0..2, reported : 0..2]

InProvider == {"loop", "queued", "sending", "sleeping"}

ExtractionTypeOK ==
  /\ valid \in [Calls -> SUBSET Docs] /\ size \in [Docs -> Sizes] /\ intro \in Intros
  /\ free \in 0..InFlight
  /\ collector.events \in 0..(2 * Cardinality(Calls)) /\ collector.tokens \in 0..collector.events
  /\ pc \in [Calls -> InProvider \cup {"start", "closing", "fallback", "done"}]
  /\ call \in [Calls -> CallState]
  /\ \A c \in Calls :
       /\ result[c].facts \subseteq Facts
       /\ result[c].by \in {"none", "empty", "llm", "heuristic", "cancelled", "raised"}
       /\ result[c].tokens \in 0..2 /\ result[c].reported \in 0..2
       /\ result[c].by # "none" <=> pc[c] = "done"

ExtractionInit ==
  /\ valid \in [Calls -> SUBSET Docs] /\ size \in [Docs -> Sizes] /\ intro \in Intros
  /\ free = InFlight /\ collector = [events |-> 0, tokens |-> 0]
  /\ pc = [c \in Calls |-> "start"] /\ call = [c \in Calls |-> NoCall]
  /\ result = [c \in Calls |-> NoResult]

-----------------------------------------------------------------------------
(* The messages. *)

Length(S) == SumFunctionOnSet(size, S)

Room(n) == IF n > Bound THEN 0 ELSE Bound - n

\* Documents are kept in order up to the first that does not fit; none is cut.
Fitting(c, room) ==
  {d \in valid[c] : intro + Length({e \in valid[c] : e <= d}) <= room}

User(c, room) == intro + Length(Fitting(c, room))

\* The safety net: only the echo of the previous reply may be cut.
Fitted(fixed, echo) ==
  IF fixed + echo <= Bound THEN fixed + echo
  ELSE fixed + (IF echo <= Room(fixed) THEN echo ELSE Room(fixed))

\* Wrong variant: the system prompt is left out of the room for documents.
FirstLengthDocsOnly(c) == Fitted(System + User(c, Bound), 0)

FirstLength(c) == Fitted(System + User(c, Room(System)), 0)

RepairLength(c, reply) ==
  LET fixed == System + Repair + User(c, Room(System + Repair))
      echo  == IF reply <= Room(fixed) THEN reply ELSE Room(fixed)
  IN Fitted(fixed, echo)

-----------------------------------------------------------------------------
(* A provider call. *)

Goto(c, where) == pc' = [pc EXCEPT ![c] = where]

BeginCall(c, s, length, calls, reported) ==
  /\ call' = [call EXCEPT ![c] = [NoCall EXCEPT !.stage = s, !.sent = length,
                                                !.calls = calls, !.reported = reported]]
  /\ Goto(c, "loop")

\* The call is over: what is left is to close its client.
CallEnds(c, how) ==
  /\ call' = [call EXCEPT ![c].outcome = how, ![c].late = FALSE, ![c].attempt = 0]
  /\ Goto(c, "closing")

Tick(c) ==
  /\ pc[c] \in InProvider /\ ~call[c].late
  /\ call' = [call EXCEPT ![c].late = TRUE]
  /\ UNCHANGED <<inputs, free, collector, pc, result>>

Loop(c) ==
  /\ pc[c] = "loop"
  /\ IF call[c].late THEN CallEnds(c, "failed") ELSE Goto(c, "queued") /\ UNCHANGED call
  /\ UNCHANGED <<inputs, free, collector, result>>

Acquire(c) ==
  /\ pc[c] = "queued" /\ free > 0
  /\ free' = free - 1
  /\ Goto(c, "sending")
  /\ UNCHANGED <<inputs, collector, call, result>>

\* The delay of a retry must end before the deadline.
BackOff(c) ==
  IF call[c].late THEN CallEnds(c, "failed") ELSE Goto(c, "sleeping") /\ UNCHANGED call

\* Wrong variant: the slot is kept during the delay.
TransportErrorKeepingSlot(c) ==
  /\ pc[c] = "sending"
  /\ IF call[c].attempt < MaxRetries
     THEN BackOff(c) /\ free' = IF call[c].late THEN free + 1 ELSE free
     ELSE CallEnds(c, "failed") /\ free' = free + 1
  /\ UNCHANGED <<inputs, collector, result>>

\* Wrong variant: one attempt more than max_retries + 1.
TransportErrorOnceMore(c) ==
  /\ pc[c] = "sending"
  /\ free' = free + 1
  /\ IF call[c].attempt <= MaxRetries THEN BackOff(c) ELSE CallEnds(c, "failed")
  /\ UNCHANGED <<inputs, collector, result>>

\* httpx raises, or the server answers 429 or 5xx: the last attempt fails.
TransportError(c) ==
  /\ pc[c] = "sending"
  /\ free' = free + 1
  /\ IF call[c].attempt < MaxRetries THEN BackOff(c) ELSE CallEnds(c, "failed")
  /\ UNCHANGED <<inputs, collector, result>>

Wake(c) ==
  /\ pc[c] = "sleeping"
  /\ call' = [call EXCEPT ![c].attempt = @ + 1]
  /\ Goto(c, "loop")
  /\ UNCHANGED <<inputs, free, collector, result>>

\* A reply, or a status or a body that is an error at once.
Answers(c) ==
  /\ pc[c] = "sending"
  /\ free' = free + 1
  /\ \E how \in {"reply", "failed"} : CallEnds(c, how)
  /\ UNCHANGED <<inputs, collector, result>>

\* Wrong variant: the deadline covers the queue only.
TimeUpInQueue(c) ==
  /\ pc[c] = "queued" /\ call[c].late
  /\ CallEnds(c, "failed")
  /\ UNCHANGED <<inputs, free, collector, result>>

\* The deadline covers the queue for a slot and the request.
TimeUp(c) ==
  /\ pc[c] \in {"queued", "sending"} /\ call[c].late
  /\ free' = IF pc[c] = "sending" THEN free + 1 ELSE free
  /\ CallEnds(c, "failed")
  /\ UNCHANGED <<inputs, collector, result>>

-----------------------------------------------------------------------------
(* An extraction. *)

Return(c, r) ==
  /\ result' = [result EXCEPT ![c] = r]
  /\ call' = [call EXCEPT ![c] = NoCall]
  /\ Goto(c, "done")

Begin(c) ==
  /\ pc[c] = "start"
  /\ IF valid[c] = {}
     THEN Return(c, [NoResult EXCEPT !.by = "empty"])
     ELSE BeginCall(c, "first", FirstLength(c), 0, 0) /\ UNCHANGED result
  /\ UNCHANGED <<inputs, free, collector>>

FallBack(c, calls, reported) ==
  /\ call' = [call EXCEPT ![c] = [NoCall EXCEPT !.calls = calls, !.reported = reported]]
  /\ Goto(c, "fallback")

Fails(c) ==
  /\ pc[c] = "closing" /\ call[c].outcome = "failed"
  /\ FallBack(c, call[c].calls, call[c].reported)
  /\ UNCHANGED <<inputs, free, collector, result>>

\* record_llm_usage.
Collect(tokens) ==
  collector' = [events |-> collector.events + 1, tokens |-> collector.tokens + tokens]

\* All citations are known, and one of them contains the claim.
Accepted(c, f) == f.cites \subseteq valid[c] /\ f.cites \cap f.found # {}

\* Wrong variant: the usage of the question instead of this extraction's.
UsageOfQuestion(c, tokens) ==
  [tokens |-> collector.tokens + tokens, estimated |-> collector.tokens + tokens <= collector.events]

Usage(c, tokens) ==
  [tokens |-> call[c].reported + tokens, estimated |-> call[c].reported + tokens <= call[c].calls]

\* A reply with the required root object; the facts that are not accepted are dropped.
Parses(c) ==
  /\ pc[c] = "closing" /\ call[c].outcome = "reply"
  /\ \E tokens \in {0, 1}, f \in Facts :
       /\ Collect(tokens)
       /\ Return(c, [by |-> "llm", facts |-> {g \in {f} : Accepted(c, g)},
                     tokens |-> Usage(c, tokens).tokens, estimated |-> Usage(c, tokens).estimated,
                     reported |-> call[c].reported + tokens])
  /\ UNCHANGED <<inputs, free>>

\* Any other reply: one repair, then the heuristic.
Unparseable(c) ==
  /\ pc[c] = "closing" /\ call[c].outcome = "reply"
  /\ \E tokens \in {0, 1}, reply \in 0..Bound :
       /\ Collect(tokens)
       /\ IF call[c].stage = "first"
          THEN BeginCall(c, "repair", RepairLength(c, reply), 1, tokens)
          ELSE FallBack(c, 2, call[c].reported + tokens)
  /\ UNCHANGED <<inputs, free, result>>

\* The content of a reply may be null: _parse_facts fails on it outside the try,
\* and extract raises when the provider has recorded the usage.
NullContent(c) ==
  /\ pc[c] = "closing" /\ call[c].outcome = "reply"
  /\ \E tokens \in {0, 1} : Collect(tokens)
  /\ Return(c, [NoResult EXCEPT !.by = "raised"])
  /\ UNCHANGED <<inputs, free>>

\* Sentences of the documents, each citing its own; the usage is the heuristic's
\* estimate from their length, whatever the provider calls before it used.
Heuristic(c) ==
  /\ pc[c] = "fallback"
  /\ \E S \in SUBSET valid[c] :
       Return(c, [by |-> "heuristic", facts |-> {[cites |-> {d}, found |-> {d}] : d \in S},
                  tokens |-> 1, estimated |-> TRUE, reported |-> call[c].reported])
  /\ UNCHANGED <<inputs, free, collector>>

Cancelled(c) == Return(c, [NoResult EXCEPT !.by = "cancelled"])

\* The worker's timeout or cancellation interrupts any await; inside a provider
\* call the client is still closed.
Cancel(c) ==
  /\ pc[c] \in InProvider \cup {"closing", "fallback"}
  /\ free' = IF pc[c] = "sending" THEN free + 1 ELSE free
  /\ IF pc[c] \in InProvider THEN CallEnds(c, "cancelled") /\ UNCHANGED result
     ELSE Cancelled(c)
  /\ UNCHANGED <<inputs, collector>>

CancelledCloses(c) ==
  /\ pc[c] = "closing" /\ call[c].outcome = "cancelled"
  /\ Cancelled(c)
  /\ UNCHANGED <<inputs, free, collector>>

AllReturned == \A c \in Calls : pc[c] = "done"

Rest == AllReturned /\ UNCHANGED extractionVars

ProviderStep(c) ==
  Tick(c) \/ Loop(c) \/ Acquire(c) \/ TransportError(c) \/ Wake(c) \/ Answers(c) \/ TimeUp(c)

ExtractStep(c) ==
  \/ Begin(c) \/ Fails(c) \/ Parses(c) \/ Unparseable(c) \/ NullContent(c)
  \/ Heuristic(c) \/ CancelledCloses(c)

ExtractionNext == (\E c \in Calls : ProviderStep(c) \/ ExtractStep(c) \/ Cancel(c)) \/ Rest

\* The clock runs and the event loop resumes what can be resumed; no server has
\* to answer and nobody has to cancel.
ExtractionFairness ==
  \A c \in Calls :
    /\ WF_extractionVars(Tick(c)) /\ WF_extractionVars(Loop(c))
    /\ WF_extractionVars(Wake(c)) /\ WF_extractionVars(TimeUp(c))
    /\ WF_extractionVars(ExtractStep(c))

ExtractionSpec == ExtractionInit /\ [][ExtractionNext]_extractionVars /\ ExtractionFairness

-----------------------------------------------------------------------------
(* Properties. *)

\* A slot of the limiter is taken exactly while a request is being sent: not in
\* the queue, not during the delay of a retry, not after a timeout or a
\* cancellation.
SlotsAreHeld == free + Cardinality({c \in Calls : pc[c] = "sending"}) = InFlight

\* Only the prompts and the text before the documents can make a request too
\* long: no document and no part of the echo is sent in one that passes
\* MAX_TOTAL_INPUT_CHARS, on either call.
TextAlone(stage) == System + intro + (IF stage = "repair" THEN Repair ELSE 0)

OnlyTextExceeds ==
  \A c \in Calls : call[c].sent > Bound => call[c].sent = TextAlone(call[c].stage)

\* The extractions that succeeded never return more tokens than the collector of
\* the question has, they return all of them when all succeeded, and a usage
\* that is not marked as an estimate comes from the provider alone.
ByModel == {c \in Calls : result[c].by = "llm"}

UsageAgrees ==
  LET returned == SumFunctionOnSet([c \in Calls |-> result[c].tokens], ByModel) IN
  /\ returned <= collector.tokens
  /\ AllReturned /\ ByModel = Calls => returned = collector.tokens
  /\ \A c \in Calls : ~result[c].estimated => result[c].tokens > 0 /\ result[c].by = "llm"

(* What the docstrings promise beyond that, and the code does not do. *)

\* extractor.py:21-24, 162: outgoing messages are always bounded.
InputBounded == \A c \in Calls : call[c].sent <= Bound

\* extractor.py:435-437: the usage accumulated over the calls of an extraction is
\* returned on its result.
UsageReturned == \A c \in Calls : result[c].tokens >= result[c].reported

\* At least one of the two holds in every state: a state that violates this one
\* violates both.
SomePromiseHolds == InputBounded \/ UsageReturned

\* Every extraction returns, even if no server ever answers.
ExtractionEnds == <>AllReturned
=============================================================================
