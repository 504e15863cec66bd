-------------------------- MODULE VerifiedReport --------------------------
(***************************************************************************)
(* The write stage: VerifiedReportBuilder.build (service/verified_report), *)
(* CitationVerifier.verify (service/verifier) and what ResearchRunner.run  *)
(* does with the report.  Facts lose their forbidden sources, become       *)
(* claims, are verified against freshly fetched sources a few at a time,   *)
(* are revised, and the revised ones are verified once more; then a model  *)
(* writes the report and the quality gate decides.                         *)
(*                                                                         *)
(* Texts are left out: a claim is the fact it was made from and a wording, *)
(* a source read without a relevant window counts as read and neutral, and *)
(* a draft is its form and its citation tags.                              *)
(***************************************************************************)
EXTENDS Integers, FiniteSets, Sequences, Listings

CONSTANTS
  Texts, Tasks, Sources,  \* what facts say, for which task, citing what
  Inputs,            \* the lists of facts that research may deliver
  Citations,         \* its citations, in order
  Blocked, Late,     \* those of a blocked source, or newer than the cutoff
  MaxClaims,         \* _MAX_VERIFICATION_CLAIMS
  VerifyConcurrency, \* _MAX_VERIFICATION_CONCURRENCY
  MaxCitations       \* _MAX_CITATIONS

\* A finding of a worker, and the ids of its citations in order.
Fact == [claim : Texts, task : Tasks, cites : Seq(Sources)]

\* The last conjunct is about the model: the number of a [cN] tag is no source.
ASSUME ReportAssumption ==
  /\ Inputs # {} /\ Inputs \subseteq Seq(Fact)
  /\ Citations \in Seq(Sources) /\ Blocked \cup Late \subseteq Sources
  /\ {MaxClaims, VerifyConcurrency, MaxCitations} \subseteq Nat \ {0}
  /\ Sources \cap Nat = {}

VARIABLES
  facts, mode,
  stage,      \* how far build has come
  claims,     \* revised, in the order of the selected facts
  again,      \* to_reverify
  log,        \* verification_log: per round, what each verification has seen
  running,    \* the verifications that hold a slot
  report,     \* the markdown
  gate,       \* synthesis_quality: "none" is the empty one
  status      \* rec.status

reportVars == <<facts, mode, stage, claims, again, log, running, report, gate, status>>

Min2(a, b) == IF a < b THEN a ELSE b

-----------------------------------------------------------------------------
(* From facts to claims. *)

Forbidden == Blocked \cup Late
KeptCitations == Picked(Citations, {i \in DOMAIN Citations : Citations[i] \notin Forbidden})

\* Wrong variant: a fact with one clean source keeps its forbidden ones.
SurvivingIfAny(cites) ==
  IF \E i \in DOMAIN cites : cites[i] \notin Forbidden THEN cites ELSE <<>>

Surviving(cites) == Picked(cites, {i \in DOMAIN cites : cites[i] \notin Forbidden})

Cleaned(f) == [f EXCEPT !.cites = Surviving(@)]

KeptFacts(fs) ==
  Picked([i \in DOMAIN fs |-> Cleaned(fs[i])],
         {i \in DOMAIN fs : Cleaned(fs[i]).cites # <<>>})

Unknown(fs) ==
  \E i \in DOMAIN fs : \E j \in DOMAIN fs[i].cites :
    fs[i].cites[j] \notin {Citations[k] : k \in DOMAIN Citations}

\* The first of the facts that say the same.
Distinct(fs) == {i \in DOMAIN fs : \A j \in 1..(i - 1) : fs[j].claim # fs[i].claim}

SameTask(fs, i) == {j \in Distinct(fs) : fs[j].task = fs[i].task}
Offset(fs, i) == Cardinality({j \in SameTask(fs, i) : j < i})
GroupBefore(fs, i, j) == \E k \in SameTask(fs, i) : \A l \in SameTask(fs, j) : k < l

\* Wrong variant: the facts are taken in the order of their ids.
ByPrefix(fs) == Ascending(Distinct(fs))

\* One fact of every task, in the order in which the tasks appear, then a second.
Earlier(fs) ==
  [j \in Distinct(fs) |->
     {i \in Distinct(fs) :
        \/ Offset(fs, i) < Offset(fs, j)
        \/ Offset(fs, i) = Offset(fs, j) /\ GroupBefore(fs, i, j)}]

RoundRobin(fs) == Ranked(Distinct(fs), Earlier(fs))

\* Wrong variant: one fact more than the limit.
SelectedOneMore(fs) == SubSeq(RoundRobin(fs), 1, Min2(MaxClaims + 1, Cardinality(Distinct(fs))))

Selected(fs) == SubSeq(RoundRobin(fs), 1, Min2(MaxClaims, Cardinality(Distinct(fs))))

Claim(f) == [fact |-> f.claim, section |-> f.task, cites |-> f.cites,
             status |-> "pending", wording |-> "plain"]

FactsToClaims(fs) == [i \in DOMAIN Selected(fs) |-> Claim(fs[Selected(fs)[i]])]

-----------------------------------------------------------------------------
(* The verdict on one claim. *)

Verdicts == {"entailment", "contradiction", "neutral"}
SourceOutcomes == Verdicts \cup {"fetch failed", "nli failed"}

Outcomes(seen) == {seen[i].outcome : i \in DOMAIN seen}

\* Wrong variant: a failed judgement counts as neutral.
AggregateWashed(seen) ==
  LET found == {IF o = "nli failed" THEN "neutral" ELSE o : o \in Outcomes(seen)} \cap Verdicts
  IN  IF found = {} THEN "unreadable"
      ELSE IF {"entailment", "contradiction"} \subseteq found THEN "neutral"
      ELSE IF "contradiction" \in found THEN "contradiction"
      ELSE IF "entailment" \in found THEN "entailment" ELSE "neutral"

\* No verdict at all is None, whether nothing was fetched or nothing was judged;
\* sources that disagree make it neutral.
Aggregate(seen) ==
  LET found == Outcomes(seen) \cap Verdicts
  IN  IF found = {} THEN "unreadable"
      ELSE IF {"entailment", "contradiction"} \subseteq found THEN "neutral"
      ELSE IF "contradiction" \in found THEN "contradiction"
      ELSE IF "entailment" \in found THEN "entailment" ELSE "neutral"

\* The claim after the first round, and after the policy.
Revised(c, verdict) ==
  CASE verdict = "entailment"    -> [c EXCEPT !.status = "verified"]
    [] verdict = "unreadable"    -> [c EXCEPT !.status = "refetch_failed"]
    [] verdict = "contradiction" -> [c EXCEPT !.status = "dropped"]
    [] verdict = "neutral"       -> [c EXCEPT !.status = "neutral", !.wording = "uncertain"]

\* Wrong variant: the results of the second round are read by position.
ConfirmedByPosition(i) ==
  i \in DOMAIN log.revision /\ Aggregate(log.revision[i]) = "entailment"

\* The second round can only confirm.
Confirmed(i) ==
  \E k \in DOMAIN again : again[k] = i /\ Aggregate(log.revision[k]) = "entailment"

-----------------------------------------------------------------------------
(* The report and the gate. *)

\* Claims that are dropped are not offered to the model, nor are their sources.
Rendered(cs) == {i \in DOMAIN cs : cs[i].status # "dropped"}
Cited(cs) == UNION {{cs[i].cites[j] : j \in DOMAIN cs[i].cites} : i \in Rendered(cs)}

\* Wrong variant: every allowed citation is offered, cited or not.
OfferedAll(cs) == SubSeq(KeptCitations, 1, Min2(MaxCitations, Len(KeptCitations)))

\* The citations the model may use; [cN] is the Nth.
Offered(cs) ==
  LET all == Picked(KeptCitations,
                    {i \in DOMAIN KeptCitations : KeptCitations[i] \in Cited(cs)})
  IN  SubSeq(all, 1, Min2(MaxCitations, Len(all)))

\* What a model may write: any of these tags, one of them invented.
Drafts(n) == [form : {"fine", "short", "echo"}, tags : {{}, {1}, 1..n, {n + 1}, {1, n + 1}}]

Gate(draft, n) ==
  [non_empty |-> draft.form # "short", not_prompt_echo |-> draft.form # "echo",
   has_citation_tags |-> draft.tags # {},
   citations_traceable |-> draft.tags # {} /\ draft.tags \subseteq 1..n,
   citations_nonempty |-> n > 0]

Passed(q) == \A part \in DOMAIN q : q[part]

\* Only the tags are wrong: the claims are printed by the template instead.
Repairable(q) ==
  q.non_empty /\ q.not_prompt_echo /\ q.citations_nonempty /\ ~q.citations_traceable

\* The coverage matrix: the tasks whose requirements are covered.
Covered(cs) == {cs[i].section : i \in {j \in DOMAIN cs : cs[j].status = "verified"}}

Report(kind, tags, list, cs) ==
  [kind |-> kind, tags |-> tags, list |-> list, covered |-> Covered(cs)]

NoReport == [kind |-> "none", tags |-> {}, list |-> {}, covered |-> {}]

KeptIds == {KeptCitations[i] : i \in DOMAIN KeptCitations}

\* render_markdown prints the tags of the claims and the list of citations.
Template(cs) == Report("template", Cited(cs), KeptIds, cs)
Repaired(cs) == Report("repaired", 1..Len(Offered(cs)), 1..Len(Offered(cs)), cs)

-----------------------------------------------------------------------------

Stages == {"start", "initial", "revision", "write", "built", "over"}
Statuses == {"running", "completed", "failed", "cancelled"}
ClaimStatuses == {"pending", "verified", "neutral", "refetch_failed", "dropped"}

ReportTypeOK ==
  /\ facts \in Inputs /\ mode \in {"fake", "live"} /\ stage \in Stages
  /\ Len(claims) <= MaxClaims
  /\ \A i \in DOMAIN claims : claims[i].status \in ClaimStatuses
  /\ again \in Seq(DOMAIN claims)
  /\ DOMAIN log.initial = DOMAIN claims /\ DOMAIN log.revision = DOMAIN again
  /\ running \subseteq DOMAIN claims /\ Cardinality(running) <= VerifyConcurrency
  /\ report.kind \in {"none", "template", "synthesis", "repaired"}
  /\ gate \in {"none", "passed", "failed"} /\ status \in Statuses

ReportInit ==
  /\ facts \in Inputs /\ mode \in {"fake", "live"}
  /\ stage = "start" /\ claims = <<>> /\ again = <<>>
  /\ log = [initial |-> <<>>, revision |-> <<>>] /\ running = {}
  /\ report = NoReport /\ gate = "none" /\ status = "running"

\* An unknown citation raises, which fails the task.
UnknownCitation ==
  /\ stage = "start" /\ Unknown(KeptFacts(facts))
  /\ stage' = "over" /\ status' = "failed"
  /\ UNCHANGED <<facts, mode, claims, again, log, running, report, gate>>

SelectClaims ==
  /\ stage = "start" /\ ~Unknown(KeptFacts(facts))
  /\ claims' = FactsToClaims(KeptFacts(facts))
  /\ log' = [log EXCEPT !.initial = [i \in DOMAIN claims' |-> <<>>]]
  /\ stage' = "initial"
  /\ UNCHANGED <<facts, mode, again, running, report, gate, status>>

\* The verifications of this round and the claim each of them is about.
Round == IF stage \in {"initial", "revision"} THEN log[stage] ELSE <<>>
Subject(v) == IF stage = "initial" THEN v ELSE again[v]

VerifyStarts(v) ==
  /\ v \in DOMAIN Round \ running /\ Round[v] = <<>>
  /\ Cardinality(running) < VerifyConcurrency
  /\ running' = running \cup {v}
  /\ UNCHANGED <<facts, mode, stage, claims, again, log, report, gate, status>>

\* The next source of the claim is fetched and judged.  The fake judge is local.
SourceChecked(v) ==
  /\ v \in DOMAIN Round \cap running
  /\ LET claim == claims[Subject(v)]
         source == claim.cites[Len(Round[v]) + 1]
     IN  \E o \in SourceOutcomes :
           /\ o = "nli failed" => mode = "live"
           /\ log' = [log EXCEPT ![stage][v] =
                        Append(@, [of |-> Subject(v), source |-> source, outcome |-> o])]
           /\ running' = IF Len(Round[v]) + 1 = Len(claim.cites)
                         THEN running \ {v} ELSE running
  /\ UNCHANGED <<facts, mode, stage, claims, again, report, gate, status>>

RoundOver ==
  running = {} /\ \A v \in DOMAIN Round : Round[v] # <<>>

Revise ==
  /\ stage = "initial" /\ RoundOver
  /\ claims' = [i \in DOMAIN claims |-> Revised(claims[i], Aggregate(log.initial[i]))]
  /\ again' = Ascending({i \in DOMAIN claims : claims'[i].status = "neutral"})
  /\ log' = [log EXCEPT !.revision = [k \in DOMAIN again' |-> <<>>]]
  /\ stage' = "revision"
  /\ UNCHANGED <<facts, mode, running, report, gate, status>>

Reverify ==
  /\ stage = "revision" /\ RoundOver
  /\ claims' = [i \in DOMAIN claims |->
                  IF Confirmed(i) THEN [claims[i] EXCEPT !.status = "verified"] ELSE claims[i]]
  /\ stage' = "write"
  /\ UNCHANGED <<facts, mode, again, log, running, report, gate, status>>

Render ==
  /\ mode = "fake"
  /\ report' = Template(claims) /\ gate' = "none"

\* The call raised: the template is printed, and the gate says no.
SynthesisFails ==
  /\ mode = "live"
  /\ report' = Template(claims) /\ gate' = "failed"

\* The repaired report is kept if it passes the gate itself (its texts may yet look
\* like a prompt); otherwise the draft stays, with the verdict on it.
Synthesize ==
  /\ mode = "live"
  /\ \E draft \in Drafts(Len(Offered(claims))) :
       LET q == Gate(draft, Len(Offered(claims)))
       IN  \/ /\ Repairable(q)
              /\ report' = Repaired(claims) /\ gate' = "passed"
           \/ /\ report' = Report("synthesis", draft.tags, {}, claims)
              /\ gate' = IF Passed(q) THEN "passed" ELSE "failed"

Write ==
  /\ stage = "write"
  /\ Render \/ SynthesisFails \/ Synthesize
  /\ stage' = "built"
  /\ UNCHANGED <<facts, mode, claims, again, log, running, status>>

Finish ==
  /\ stage = "built"
  /\ status' = IF gate = "failed" THEN "failed" ELSE "completed"
  /\ stage' = "over"
  /\ UNCHANGED <<facts, mode, claims, again, log, running, report, gate>>

\* The write timeout, or a cancellation of the task: nothing is delivered.
Interrupted ==
  /\ stage \notin {"built", "over"}
  /\ status' \in {"failed", "cancelled"}
  /\ stage' = "over" /\ running' = {}
  /\ UNCHANGED <<facts, mode, claims, again, log, report, gate>>

Over == stage = "over" /\ UNCHANGED reportVars

ReportNext ==
  \/ UnknownCitation \/ SelectClaims
  \/ \E v \in 1..MaxClaims : VerifyStarts(v) \/ SourceChecked(v)
  \/ Revise \/ Reverify \/ Write \/ Finish \/ Interrupted \/ Over

ReportSpec == ReportInit /\ [][ReportNext]_reportVars

-----------------------------------------------------------------------------
(* Properties. *)

Sees(seen, i, outcome) ==
  \E k \in DOMAIN seen : seen[k].of = i /\ seen[k].outcome = outcome

Supported(seen, i) == Sees(seen, i, "entailment") /\ ~Sees(seen, i, "contradiction")

\* A verified claim was supported, in the first round or after its revision, by a
\* source of its own, and contradicted by none in that round: results are kept by
\* position over two rounds of which the second has fewer.  A requirement is
\* reported as covered only by such a claim.
VerifiedIsSupported ==
  LET supported(i) == \/ Supported(log.initial[i], i)
                      \/ \E k \in DOMAIN again : again[k] = i /\ Supported(log.revision[k], i)
  IN  /\ \A i \in DOMAIN claims : claims[i].status = "verified" => supported(i)
      /\ \A t \in report.covered : \E i \in DOMAIN claims : claims[i].section = t /\ supported(i)

\* A claim is called neutral only if a source was read and judged: an outage of
\* the judge or of the network is never shown as lack of evidence.
OutageIsNotNeutral ==
  \A i \in DOMAIN claims : claims[i].status = "neutral" =>
    Outcomes(log.initial[i]) \cap Verdicts # {}

\* A blocked or late source is neither fetched again, nor cited by a claim, nor
\* listed in the report, even if a fact cites it next to a clean one.
ForbiddenStaysOut ==
  /\ \A r \in DOMAIN log : \A v \in DOMAIN log[r] : \A k \in DOMAIN log[r][v] :
       log[r][v][k].source \notin Forbidden
  /\ (report.tags \cup report.list) \cap Forbidden = {}

\* No task gets a second fact verified while another waits for its first.
SelectionIsFair ==
  LET taken(t) == Cardinality({i \in DOMAIN claims : claims[i].section = t})
  IN  claims # <<>> =>
        \A i \in Distinct(KeptFacts(facts)), j \in DOMAIN claims :
          LET f == KeptFacts(facts)[i]
          IN  (\A k \in DOMAIN claims : claims[k].fact # f.claim) =>
                taken(claims[j].section) <= taken(f.task) + 1

\* In a report that was accepted every tag the model wrote stands for a source of
\* a claim that is still in the report, not for one of a dropped claim.
TagsBacked ==
  status = "completed" /\ mode = "live" =>
    \A n \in report.tags :
      /\ n \in DOMAIN Offered(claims)
      /\ \E i \in DOMAIN claims : /\ claims[i].status # "dropped"
                                  /\ Offered(claims)[n] \in {claims[i].cites[j] : j \in DOMAIN claims[i].cites}

\* "The platform appends the citation list": every tag of a report that is
\* delivered is explained by a list in it or by the citations delivered with it.
TagsResolve ==
  status = "completed" => report.tags \subseteq report.list \cup KeptIds
=============================================================================
