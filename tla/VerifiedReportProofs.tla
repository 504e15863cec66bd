------------------------ MODULE VerifiedReportProofs ------------------------
(***************************************************************************)
(* VerifiedReport for all facts, sources, verdicts and limits: what the report *)
(* calls verified was supported, an outage is never a neutral verdict, blocked *)
(* and late sources stay out, the claims are chosen in turn from the tasks, *)
(* and every tag of an accepted report has its citation.                   *)
(*                                                                         *)
(* The argument: a verification logs its outcomes under the claim it is about, *)
(* in the log of its own round (Slots), so what a status says of the log   *)
(* (Judged) is about the right claim although the second round has its own *)
(* numbering.  The claims are the selected facts in their order (Chosen), and *)
(* the selection ranks a fact by how many of its task come first, which gives *)
(* fairness.  The citations are clean because the facts are cleaned before *)
(* they are chosen, and the gate bounds the tags by the offered list       *)
(* (Reported).                                                             *)
(***************************************************************************)
EXTENDS VerifiedReport, Lemmas

(* The operators. *)

\* The limits are positive.
LEMMA NumbersPositive ==
  /\ MaxClaims \in Nat /\ MaxClaims > 0 /\ VerifyConcurrency \in Nat /\ VerifyConcurrency > 0
  /\ MaxCitations \in Nat /\ MaxCitations > 0
BY ReportAssumption DEF ReportAssumption

\* The smaller of two numbers.
LEMMA Min2Is ==
  ASSUME NEW m \in Nat, NEW n \in Nat
  PROVE  Min2(m, n) \in Nat /\ Min2(m, n) <= m /\ Min2(m, n) <= n
BY DEF Min2

\* A prefix of a sequence.
LEMMA Prefixed ==
  ASSUME NEW A, NEW s \in Seq(A), NEW m \in Nat, m <= Len(s)
  PROVE  /\ SubSeq(s, 1, m) \in Seq(A) /\ Len(SubSeq(s, 1, m)) = m
         /\ \A k \in 1..m : SubSeq(s, 1, m)[k] = s[k]
<1>1. Len(s) \in Nat /\ s = [i \in 1..Len(s) |-> s[i]] /\ \A i \in 1..Len(s) : s[i] \in A
  OBVIOUS
<1> QED
  BY <1>1

\* What survives of a list of citations is clean.
LEMMA SurvivingClean ==
  ASSUME NEW cites \in Seq(Sources)
  PROVE  /\ Surviving(cites) \in Seq(Sources)
         /\ \A j \in DOMAIN Surviving(cites) : Surviving(cites)[j] \notin Forbidden
<1> DEFINE P == {i \in DOMAIN cites : cites[i] \notin Forbidden}
<1>1. P \in SUBSET DOMAIN cites /\ Surviving(cites) = Picked(cites, P)
      /\ \A i \in P : cites[i] \notin Forbidden
  BY DEF Surviving
<1> HIDE DEF P
<1>2. /\ Picked(cites, P) \in Seq(Sources)
      /\ \A k \in DOMAIN Picked(cites, P) : \E i \in P : Picked(cites, P)[k] = cites[i]
  BY <1>1, PickedElements
<1> QED
  BY <1>1, <1>2

\* Of a list of citations the usable ones are kept.
LEMMA KeptCitationsClean ==
  /\ KeptCitations \in Seq(Sources)
  /\ KeptIds \cap Forbidden = {}
<1> DEFINE P == {i \in DOMAIN Citations : Citations[i] \notin Forbidden}
<1>1. Citations \in Seq(Sources) /\ P \in SUBSET DOMAIN Citations
      /\ KeptCitations = Picked(Citations, P) /\ \A i \in P : Citations[i] \notin Forbidden
  BY ReportAssumption DEF ReportAssumption, KeptCitations
<1> HIDE DEF P
<1>2. /\ Picked(Citations, P) \in Seq(Sources)
      /\ \A k \in DOMAIN Picked(Citations, P) : \E i \in P : Picked(Citations, P)[k] = Citations[i]
  BY <1>1, PickedElements
<1> QED
  BY <1>1, <1>2 DEF KeptIds

\* A fact that is kept has a source, and none that is forbidden.
Usable(cites) == cites # <<>> /\ \A j \in DOMAIN cites : cites[j] \notin Forbidden

\* The facts that are kept are usable, and are facts.
LEMMA KeptFactsUsable ==
  ASSUME NEW fs \in Seq(Fact)
  PROVE  /\ KeptFacts(fs) \in Seq(Fact)
         /\ \A i \in DOMAIN KeptFacts(fs) : Usable(KeptFacts(fs)[i].cites)
<1> DEFINE cleaned == [i \in DOMAIN fs |-> Cleaned(fs[i])]
           P == {i \in DOMAIN fs : Cleaned(fs[i]).cites # <<>>}
<1>1. ASSUME NEW i \in DOMAIN fs
      PROVE  /\ Cleaned(fs[i]) \in Fact
             /\ \A j \in DOMAIN Cleaned(fs[i]).cites : Cleaned(fs[i]).cites[j] \notin Forbidden
  <2>1. fs[i] \in Fact
    OBVIOUS
  <2>0. fs[i].cites \in Seq(Sources)
    BY <2>1 DEF Fact
  <2>2. Cleaned(fs[i]).cites = Surviving(fs[i].cites) /\ Surviving(fs[i].cites) \in Seq(Sources)
    BY <2>1, <2>0, SurvivingClean DEF Cleaned, Fact
  <2>3. Cleaned(fs[i]) \in Fact
    BY <2>1, <2>2 DEF Cleaned, Fact
  <2> QED
    BY <2>0, <2>2, <2>3, SurvivingClean
<1>2. cleaned \in Seq(Fact) /\ P \in SUBSET DOMAIN cleaned
  <2>1. DOMAIN fs = 1..Len(fs) /\ Len(fs) \in Nat
    OBVIOUS
  <2> QED
    BY <1>1, <2>1
<1>3. \A i \in P : Usable(cleaned[i].cites)
  BY <1>1 DEF Usable
<1>4. KeptFacts(fs) = Picked(cleaned, P)
  BY DEF KeptFacts
<1> HIDE DEF cleaned, P
<1>5. /\ Picked(cleaned, P) \in Seq(Fact)
      /\ \A k \in DOMAIN Picked(cleaned, P) : \E i \in P : Picked(cleaned, P)[k] = cleaned[i]
  BY <1>2, PickedElements
<1> QED
  BY <1>3, <1>4, <1>5

\* The citations offered to the model are those of claims in the report.
LEMMA OfferedCited ==
  ASSUME NEW cs
  PROVE  /\ Offered(cs) \in Seq(Sources) /\ Len(Offered(cs)) \in Nat
         /\ \A n \in 1..Len(Offered(cs)) : Offered(cs)[n] \in Cited(cs)
<1> DEFINE P == {i \in DOMAIN KeptCitations : KeptCitations[i] \in Cited(cs)}
           found == Picked(KeptCitations, P)
<1>2. \A i \in P : i \in DOMAIN KeptCitations /\ KeptCitations[i] \in Cited(cs)
  OBVIOUS
<1>3. Offered(cs) = SubSeq(found, 1, Min2(MaxCitations, Len(found)))
  BY DEF Offered
<1> HIDE DEF P
<1>1. /\ found \in Seq(Sources)
      /\ \A k \in DOMAIN found : \E i \in P : found[k] = KeptCitations[i]
  BY <1>2, KeptCitationsClean, PickedElements
<1> HIDE DEF found
<1>4. Len(found) \in Nat /\ DOMAIN found = 1..Len(found)
  BY <1>1
<1>5. Min2(MaxCitations, Len(found)) \in Nat /\ Min2(MaxCitations, Len(found)) <= Len(found)
  BY <1>4, Min2Is, NumbersPositive
<1>6. /\ Offered(cs) \in Seq(Sources) /\ Len(Offered(cs)) = Min2(MaxCitations, Len(found))
      /\ \A k \in 1..Len(Offered(cs)) : Offered(cs)[k] = found[k]
  BY <1>1, <1>3, <1>5, Prefixed
<1> QED
  BY <1>1, <1>2, <1>4, <1>5, <1>6
-----------------------------------------------------------------------------
(* The choice of the claims. *)

\* The first occurrences of the facts are finitely many positions.
LEMMA DistinctFinite ==
  ASSUME NEW fs \in Seq(Fact)
  PROVE  /\ Distinct(fs) \in SUBSET DOMAIN fs /\ Distinct(fs) \in SUBSET Int
         /\ IsFiniteSet(Distinct(fs))
<1>1. Len(fs) \in Nat /\ DOMAIN fs = 1..Len(fs)
  OBVIOUS
<1>2. IsFiniteSet(1..Len(fs))
  BY <1>1, FS_Interval
<1> QED
  BY <1>1, <1>2, FS_Subset DEF Distinct

\* Within a task the offsets tell the facts apart, in their order.
LEMMA OffsetsOrder ==
  ASSUME NEW fs \in Seq(Fact), NEW i \in Distinct(fs)
  PROVE  /\ Offset(fs, i) \in Nat /\ i \in SameTask(fs, i)
         /\ SameTask(fs, i) \in SUBSET Int /\ IsFiniteSet(SameTask(fs, i))
         /\ \A j \in SameTask(fs, i) : /\ SameTask(fs, j) = SameTask(fs, i)
                                       /\ j < i => Offset(fs, j) < Offset(fs, i)
<1>1. /\ Distinct(fs) \in SUBSET Int /\ IsFiniteSet(Distinct(fs))
  BY DistinctFinite
<1>2. /\ SameTask(fs, i) \in SUBSET Distinct(fs) /\ i \in SameTask(fs, i)
      /\ \A j \in SameTask(fs, i) : SameTask(fs, j) = SameTask(fs, i)
  BY DEF SameTask
<1>3. IsFiniteSet(SameTask(fs, i))
  BY <1>1, <1>2, FS_Subset
<1> DEFINE below(j) == {k \in SameTask(fs, j) : k < j}
<1>4. ASSUME NEW j \in SameTask(fs, i)
      PROVE  IsFiniteSet(below(j)) /\ Offset(fs, j) = Cardinality(below(j)) /\ Offset(fs, j) \in Nat
  <2>1. IsFiniteSet(below(j))
    BY <1>2, <1>3, FS_Subset
  <2> QED
    BY <2>1, FS_CardinalityType DEF Offset
<1>5. ASSUME NEW j \in SameTask(fs, i), j < i
      PROVE  Offset(fs, j) < Offset(fs, i)
  <2>1. i \in Int /\ j \in Int
    BY <1>1, <1>2
  <2>2. below(j) \in SUBSET below(i) /\ j \in below(i) /\ j \notin below(j)
    <3>1. \A k \in SameTask(fs, i) : k \in Int
      BY <1>1, <1>2
    <3>2. SameTask(fs, j) = SameTask(fs, i) /\ j \in SameTask(fs, i)
      BY <1>2
    <3>3. \A k \in SameTask(fs, i) : k < j => k < i
      BY <1>5, <2>1, <3>1
    <3>4. ASSUME NEW k \in below(j) PROVE k \in below(i)
      <4>1. k \in SameTask(fs, i) /\ k < j
        BY <3>2
      <4> QED
        BY <3>3, <4>1
    <3>5. j \in below(i)
      BY <1>5, <3>2
    <3>6. j \notin below(j)
      BY <2>1
    <3> QED
      BY <3>4, <3>5, <3>6
  <2>3. below(i) # below(j)
    BY <2>2
  <2> HIDE DEF below
  <2>4. Cardinality(below(j)) <= Cardinality(below(i))
        /\ (Cardinality(below(i)) = Cardinality(below(j)) => below(i) = below(j))
    BY <1>2, <1>4, <2>2, FS_Subset
  <2> QED
    BY <1>2, <1>4, <2>3, <2>4
<1> QED
  BY <1>1, <1>2, <1>3, <1>4, <1>5

\* The order of the rounds is a strict total order of the facts.
LEMMA EarlierOrders ==
  ASSUME NEW fs \in Seq(Fact)
  PROVE  Orders(Earlier(fs), Distinct(fs))
<1> DEFINE D == Distinct(fs)
           O(i) == Offset(fs, i)
           G(i) == SameTask(fs, i)
           B(i, j) == GroupBefore(fs, i, j)
<1>1. /\ D \in SUBSET Int
      /\ \A i \in D : O(i) \in Nat /\ i \in G(i) /\ G(i) \in SUBSET Int /\ IsFiniteSet(G(i))
      /\ \A i \in D : \A j \in G(i) : j \in D /\ G(j) = G(i) /\ (j < i => O(j) < O(i))
  BY DistinctFinite, OffsetsOrder DEF SameTask
<1>2. \A i, j \in D : B(i, j) <=> \E k \in G(i) : \A l \in G(j) : k < l
  BY DEF GroupBefore
<1>3. /\ Earlier(fs) \in [D -> SUBSET D]
      /\ \A i, j \in D : i \in Earlier(fs)[j] <=> (O(i) < O(j) \/ (O(i) = O(j) /\ B(i, j)))
  BY DEF Earlier
<1> HIDE DEF D, O, G, B
\* Groups are compared by their least elements.
<1>4. ASSUME NEW i \in D PROVE \E m \in G(i) : \A l \in G(i) : m <= l
  BY <1>1, LeastElement
<1>5. ASSUME NEW i \in D PROVE ~B(i, i)
  <2> SUFFICES ASSUME B(i, i) PROVE FALSE
    OBVIOUS
  <2>1. PICK k \in G(i) : \A l \in G(i) : k < l
    BY <1>2
  <2>2. k \in Int /\ k < k
    BY <1>1, <2>1
  <2> QED
    BY <2>2
<1>6. ASSUME NEW i \in D, NEW j \in D, NEW h \in D, B(i, j), B(j, h) PROVE B(i, h)
  <2>1. PICK k \in G(i) : \A l \in G(j) : k < l
    BY <1>2, <1>6
  <2>2. PICK m \in G(j) : \A l \in G(h) : m < l
    BY <1>2, <1>6
  <2>3. k \in Int /\ m \in Int /\ k < m /\ \A l \in G(h) : l \in Int
    BY <1>1, <2>1, <2>2
  <2>4. \A l \in G(h) : k < l
    BY <2>2, <2>3
  <2> QED
    BY <1>2, <2>4
<1>7. ASSUME NEW i \in D, NEW j \in D, i # j, O(i) = O(j) PROVE B(i, j) \/ B(j, i)
  <2>1. G(i) \cap G(j) = {}
    <3> SUFFICES ASSUME NEW x \in G(i), x \in G(j) PROVE FALSE
      OBVIOUS
    <3>1. G(i) = G(j)
      BY <1>1
    <3>2. i \in Int /\ j \in Int /\ i \in G(j) /\ j \in G(i)
      BY <1>1, <3>1
    <3>3. (i < j => O(i) < O(j)) /\ (j < i => O(j) < O(i)) /\ O(i) \in Nat /\ O(j) \in Nat
      BY <1>1, <3>2
    <3> QED
      BY <1>7, <3>2, <3>3
  <2>2. PICK a \in G(i) : \A l \in G(i) : a <= l
    BY <1>4
  <2>3. PICK b \in G(j) : \A l \in G(j) : b <= l
    BY <1>4
  <2>4. a \in Int /\ b \in Int /\ a # b /\ \A l \in G(i) \cup G(j) : l \in Int
    BY <1>1, <2>1
  <2>5. a < b => \A l \in G(j) : a < l
    BY <2>3, <2>4
  <2>6. b < a => \A l \in G(i) : b < l
    BY <2>2, <2>4
  <2> QED
    BY <1>2, <2>4, <2>5, <2>6
<1>8. \A x \in D : x \notin Earlier(fs)[x]
  BY <1>1, <1>3, <1>5
<1>9. \A x \in D : \A y \in Earlier(fs)[x] : Earlier(fs)[y] \subseteq Earlier(fs)[x]
  <2> TAKE x \in D
  <2> TAKE y \in Earlier(fs)[x]
  <2>1. y \in D /\ (O(y) < O(x) \/ (O(y) = O(x) /\ B(y, x)))
    BY <1>3
  <2>2. ASSUME NEW z \in Earlier(fs)[y] PROVE z \in Earlier(fs)[x]
    <3>1. z \in D /\ (O(z) < O(y) \/ (O(z) = O(y) /\ B(z, y)))
      BY <1>3, <2>1
    <3>2. O(x) \in Nat /\ O(y) \in Nat /\ O(z) \in Nat
      BY <1>1, <2>1, <3>1
    <3>3. O(z) < O(x) \/ (O(z) = O(x) /\ B(z, x))
      BY <1>6, <2>1, <3>1, <3>2
    <3> QED
      BY <1>3, <3>1, <3>3
  <2> QED
    BY <2>2
<1>10. \A x, y \in D : x # y => x \in Earlier(fs)[y] \/ y \in Earlier(fs)[x]
  <2> TAKE x, y \in D
  <2> HAVE x # y
  <2>1. O(x) \in Nat /\ O(y) \in Nat
    BY <1>1
  <2> QED
    BY <1>3, <1>7, <2>1
<1> QED
  BY <1>3, <1>8, <1>9, <1>10 DEF Orders, D

\* The selected facts are the first in that order, each of them once.
LEMMA SelectionLists ==
  ASSUME NEW fs \in Seq(Fact)
  PROVE  LET sel == Selected(fs)
         IN  /\ sel \in Seq(Distinct(fs)) /\ Len(sel) \in Nat /\ Len(sel) <= MaxClaims
             /\ \A k, l \in DOMAIN sel : sel[k] = sel[l] => k = l
             /\ \A k \in DOMAIN sel : \A i \in Earlier(fs)[sel[k]] : \E l \in DOMAIN sel : sel[l] = i
<1> DEFINE D == Distinct(fs)
           n == Cardinality(D)
           r == Ranked(D, Earlier(fs))
           m == Min2(MaxClaims, n)
           sel == Selected(fs)
<1>1. /\ n \in Nat /\ r \in [1..n -> D]
      /\ \A x \in D : Cardinality(Earlier(fs)[x]) + 1 \in 1..n /\ r[Cardinality(Earlier(fs)[x]) + 1] = x
      /\ \A k, l \in 1..n : k < l <=> r[k] \in Earlier(fs)[r[l]]
      /\ \A k, l \in 1..n : r[k] = r[l] => k = l
  BY DistinctFinite, EarlierOrders, RankedLists
<1>2. sel = SubSeq(r, 1, m)
  BY DEF Selected, RoundRobin
<1>3. Earlier(fs) \in [D -> SUBSET D]
  BY EarlierOrders DEF Orders
<1> HIDE DEF D, n, r, m, sel
<1>4. r \in Seq(D) /\ Len(r) = n
  BY <1>1
<1>5. m \in Nat /\ m <= n /\ m <= MaxClaims
  BY <1>1, NumbersPositive, Min2Is DEF m
<1>6. /\ sel \in Seq(D) /\ Len(sel) = m /\ DOMAIN sel = 1..m
      /\ \A k \in 1..m : sel[k] = r[k] /\ k \in 1..n
  <2>1. sel \in Seq(D) /\ Len(sel) = m /\ \A k \in 1..m : sel[k] = r[k]
    BY <1>2, <1>4, <1>5, Prefixed
  <2> QED
    BY <1>1, <1>5, <2>1
<1>7. \A k, l \in DOMAIN sel : sel[k] = sel[l] => k = l
  BY <1>1, <1>6
<1>8. ASSUME NEW k \in DOMAIN sel, NEW i \in Earlier(fs)[sel[k]]
      PROVE  \E l \in DOMAIN sel : sel[l] = i
  <2>1. k \in 1..m /\ k \in 1..n /\ sel[k] = r[k] /\ r[k] \in D /\ i \in D
    BY <1>1, <1>3, <1>6
  <2>2. PICK l \in 1..n : r[l] = i
    BY <1>1, <2>1
  <2>3. l < k
    BY <1>1, <2>1, <2>2
  <2>4. l \in 1..m
    BY <1>5, <2>1, <2>3
  <2> QED
    BY <1>6, <2>2, <2>4
<1> QED
  BY <1>5, <1>6, <1>7, <1>8 DEF D, sel

Taken(fs, t) == {k \in DOMAIN Selected(fs) : fs[Selected(fs)[k]].task = t}

\* No task gets a second fact while another waits for its first, a third while
\* another waits for its second, and so on.
LEMMA SelectionFair ==
  ASSUME NEW fs \in Seq(Fact), NEW i \in Distinct(fs),
         \A k \in DOMAIN Selected(fs) : Selected(fs)[k] # i,
         NEW j \in DOMAIN Selected(fs)
  PROVE  Cardinality(Taken(fs, fs[Selected(fs)[j]].task)) <= Cardinality(Taken(fs, fs[i].task)) + 1
<1> DEFINE sel == Selected(fs)
           D == Distinct(fs)
           waiting == {x \in SameTask(fs, i) : \A k \in DOMAIN sel : sel[k] # x}
           T(t) == Taken(fs, t)
<1>1. /\ sel \in Seq(D) /\ Len(sel) \in Nat /\ DOMAIN sel = 1..Len(sel)
      /\ \A k, l \in DOMAIN sel : sel[k] = sel[l] => k = l
      /\ \A k \in DOMAIN sel : \A x \in Earlier(fs)[sel[k]] : \E l \in DOMAIN sel : sel[l] = x
      /\ \A k \in DOMAIN sel : sel[k] \in D
  BY SelectionLists
<1>2. PICK z \in waiting : \A x \in waiting : z <= x
  <2>1. i \in waiting /\ waiting \in SUBSET SameTask(fs, i)
    BY OffsetsOrder
  <2>2. waiting \in SUBSET Int /\ IsFiniteSet(waiting)
    BY <2>1, OffsetsOrder, FS_Subset
  <2> QED
    BY <2>1, <2>2, LeastElement
<1>3. /\ z \in D /\ fs[z].task = fs[i].task /\ z \in Int
      /\ SameTask(fs, z) = SameTask(fs, i)
      /\ \A k \in DOMAIN sel : sel[k] # z
  BY DistinctFinite DEF SameTask
<1>4. \A x \in SameTask(fs, z) : x < z => \E k \in DOMAIN sel : sel[k] = x
  <2> TAKE x \in SameTask(fs, z)
  <2> HAVE x < z
  <2>1. x \in Int
    BY <1>3, OffsetsOrder
  <2> QED
    BY <1>2, <1>3, <2>1
<1> HIDE DEF waiting, sel, D, T
<1> DEFINE o == Offset(fs, z)
<1>5. o \in Nat
  BY <1>3, OffsetsOrder DEF D
<1>6. IsFiniteSet(DOMAIN sel)
  BY <1>1, FS_Interval
<1>7. \A k \in DOMAIN sel : Offset(fs, sel[k]) \in 0..o
  <2> TAKE k \in DOMAIN sel
  <2>1. sel[k] \in D /\ sel[k] # z /\ z \notin Earlier(fs)[sel[k]]
    BY <1>1, <1>3
  <2>2. sel[k] \in Earlier(fs)[z]
    BY <1>3, <2>1, EarlierOrders DEF Orders, D
  <2>3. Offset(fs, sel[k]) <= o
    <3>1. Offset(fs, sel[k]) < Offset(fs, z) \/ Offset(fs, sel[k]) = Offset(fs, z)
      BY <1>3, <2>2 DEF Earlier, D
    <3> QED
      BY <1>5, <2>1, <3>1, OffsetsOrder DEF D
  <2> QED
    BY <1>5, <2>1, <2>3, OffsetsOrder DEF D
<1>8. ASSUME NEW t PROVE Cardinality(T(t)) <= o + 1
  <2> DEFINE off == [k \in T(t) |-> Offset(fs, sel[k])]
  <2>1. \A k \in T(t) : k \in DOMAIN sel /\ fs[sel[k]].task = t
    BY DEF T, Taken, sel
  <2>2. off \in [T(t) -> 0..o]
    BY <1>7, <2>1
  <2>3. ASSUME NEW k \in T(t), NEW l \in T(t), off[k] = off[l] PROVE k = l
    <3>1. /\ sel[k] \in D /\ sel[l] \in D /\ fs[sel[k]].task = fs[sel[l]].task
          /\ Offset(fs, sel[k]) = Offset(fs, sel[l])
      BY <1>1, <2>1, <2>3
    <3>2. sel[k] \in SameTask(fs, sel[l]) /\ sel[l] \in SameTask(fs, sel[k])
      BY <3>1 DEF SameTask, D
    <3>3. /\ sel[k] \in Int /\ sel[l] \in Int /\ Offset(fs, sel[k]) \in Nat
          /\ ~(sel[k] < sel[l]) /\ ~(sel[l] < sel[k])
      BY <3>1, <3>2, OffsetsOrder, DistinctFinite DEF D
    <3>4. sel[k] = sel[l]
      BY <3>3
    <3> QED
      BY <1>1, <2>1, <3>4
  <2>4. off \in Injection(T(t), 0..o)
    BY <2>2, <2>3 DEF Injection, IsInjective
  <2>5. IsFiniteSet(0..o) /\ Cardinality(0..o) = o + 1
    BY <1>5, FS_Interval
  <2> QED
    BY <2>4, <2>5, FS_Injection
<1>9. o <= Cardinality(T(fs[z].task))
  <2> DEFINE B == {x \in SameTask(fs, z) : x < z}
             U == T(fs[z].task)
             pos == [x \in B |-> CHOOSE k \in DOMAIN sel : sel[k] = x]
  <2>1. ASSUME NEW x \in B PROVE pos[x] \in U /\ sel[pos[x]] = x
    <3>1. pos[x] \in DOMAIN sel /\ sel[pos[x]] = x
      BY <1>4
    <3>2. fs[x].task = fs[z].task
      BY DEF SameTask
    <3> QED
      BY <3>1, <3>2 DEF T, Taken, sel
  <2>2. pos \in [B -> U] /\ \A x, y \in B : pos[x] = pos[y] => x = y
    BY <2>1
  <2>3. pos \in Injection(B, U)
    BY <2>2 DEF Injection, IsInjective
  <2>4. IsFiniteSet(U)
    BY <1>6, FS_Subset DEF T, Taken, sel
  <2>5. Cardinality(B) = o
    BY DEF Offset
  <2> HIDE DEF pos, B, U
  <2>6. Cardinality(B) <= Cardinality(U)
    BY <2>3, <2>4, FS_Injection
  <2> QED
    BY <2>5, <2>6 DEF U
<1>10. Cardinality(T(fs[sel[j]].task)) \in Nat /\ Cardinality(T(fs[z].task)) \in Nat
  <2>1. \A t : IsFiniteSet(T(t))
    BY <1>6, FS_Subset DEF T, Taken, sel
  <2> QED
    BY <2>1, FS_CardinalityType
<1>11. Cardinality(T(fs[sel[j]].task)) <= Cardinality(T(fs[z].task)) + 1
  BY <1>5, <1>8, <1>9, <1>10
<1> QED
  BY <1>3, <1>11 DEF T, sel
-----------------------------------------------------------------------------
(* The verdicts. *)

\* What each verdict of aggregate_verification says of the sources.
LEMMA AggregateMeans ==
  ASSUME NEW seen
  PROVE  /\ Aggregate(seen) \in Verdicts \cup {"unreadable"}
         /\ Aggregate(seen) = "entailment" =>
              "entailment" \in Outcomes(seen) /\ "contradiction" \notin Outcomes(seen)
         /\ Aggregate(seen) = "neutral" => Outcomes(seen) \cap Verdicts # {}
BY DEF Aggregate, Verdicts

\* A verification whose entries are all about claim i supports it if the verdict
\* is an entailment.
LEMMA EntailmentSupports ==
  ASSUME NEW seen, NEW i, \A k \in DOMAIN seen : seen[k].of = i,
         Aggregate(seen) = "entailment"
  PROVE  Supported(seen, i)
BY AggregateMeans DEF Supported, Sees, Outcomes
-----------------------------------------------------------------------------
(* The inductive invariant. *)

ClaimRec == [fact : Texts, section : Tasks, cites : Seq(Sources),
             status : ClaimStatuses, wording : {"plain", "uncertain"}]
Entry == [of : Nat, source : Sources, outcome : SourceOutcomes]
Verifying == {"initial", "revision"}

Shape ==
  /\ facts \in Inputs /\ mode \in {"fake", "live"} /\ stage \in Stages
  /\ claims \in Seq(ClaimRec) /\ Len(claims) <= MaxClaims
  /\ \A i \in DOMAIN claims : Usable(claims[i].cites)
  /\ again \in Seq(DOMAIN claims) /\ Len(again) <= Len(claims)
  /\ log \in [Verifying -> Seq(Seq(Entry))]
  /\ Len(log["initial"]) = Len(claims) /\ Len(log["revision"]) = Len(again)

\* What is done about a claim is logged under its name, and no verification is
\* in progress whose claim has no source left to fetch.
Slots ==
  /\ running \subseteq DOMAIN claims /\ Cardinality(running) <= VerifyConcurrency
  /\ \A v \in running : /\ stage \in Verifying /\ v \in DOMAIN log[stage]
                        /\ Len(log[stage][v]) < Len(claims[Subject(v)].cites)
  /\ \A i \in DOMAIN log["initial"] : \A k \in DOMAIN log["initial"][i] :
       log["initial"][i][k].of = i /\ log["initial"][i][k].source \notin Forbidden
  /\ \A v \in DOMAIN log["revision"] : \A k \in DOMAIN log["revision"][v] :
       log["revision"][v][k].of = again[v] /\ log["revision"][v][k].source \notin Forbidden

SupportedAtFirst(i) == Supported(log["initial"][i], i)
SupportedLater(i) == \E k \in DOMAIN again : again[k] = i /\ Supported(log["revision"][k], i)

\* What the status of a claim says of the log.
Judged ==
  /\ stage = "start" => claims = <<>>
  /\ stage \in {"start", "initial"} => /\ again = <<>>
                                       /\ \A i \in DOMAIN claims : claims[i].status = "pending"
  /\ \A i \in DOMAIN claims :
       /\ claims[i].status = "neutral" => Outcomes(log["initial"][i]) \cap Verdicts # {}
       /\ claims[i].status = "verified" =>
            SupportedAtFirst(i) \/ (stage # "revision" /\ SupportedLater(i))

\* What a report says of the claims.
Reported ==
  /\ report.kind \in {"none", "template", "synthesis", "repaired"}
  /\ gate \in {"none", "passed", "failed"} /\ status \in Statuses
  /\ stage \notin {"built", "over"} => report = NoReport /\ gate = "none"
  /\ stage # "over" => status = "running"
  /\ report.covered \subseteq Covered(claims)
  /\ (report.tags \cup report.list) \cap Forbidden = {}
  /\ gate = "passed" => report.tags \subseteq 1..Len(Offered(claims))
  /\ stage = "built" /\ mode = "live" => gate # "none"
  /\ status = "completed" => gate # "failed" /\ (mode = "live" => gate = "passed")

\* The claims are the selected facts, in their order.
Chosen ==
  claims # <<>> =>
    LET kept == KeptFacts(facts)
    IN  /\ DOMAIN claims = DOMAIN Selected(kept)
        /\ \A k \in DOMAIN claims : /\ claims[k].fact = kept[Selected(kept)[k]].claim
                                    /\ claims[k].section = kept[Selected(kept)[k]].task

ReportIInv == Shape /\ Slots /\ Judged /\ Reported /\ Chosen

\* A record with the two rounds is a function from their names.
LEMMA LogRecord ==
  ASSUME NEW A, NEW x \in A, NEW y \in A
  PROVE  /\ [initial |-> x, revision |-> y] \in [Verifying -> A]
         /\ [initial |-> x, revision |-> y]["initial"] = x
         /\ [initial |-> x, revision |-> y]["revision"] = y
BY DEF Verifying

\* A tag of the report is not the name of a forbidden source.
LEMMA TagsAreNoSources == ASSUME NEW n \in Int PROVE (1..n) \cap Forbidden = {}
BY ReportAssumption DEF ReportAssumption, Forbidden

LEMMA InitReport == ReportInit => ReportIInv
<1> SUFFICES ASSUME ReportInit PROVE ReportIInv
  OBVIOUS
<1>1. /\ facts \in Inputs /\ mode \in {"fake", "live"} /\ stage = "start"
      /\ claims = <<>> /\ again = <<>> /\ running = {} /\ report = NoReport
      /\ gate = "none" /\ status = "running"
      /\ log = [initial |-> <<>>, revision |-> <<>>]
  BY DEF ReportInit
<1>2. log \in [Verifying -> Seq(Seq(Entry))] /\ log["initial"] = <<>> /\ log["revision"] = <<>>
  <2>1. <<>> \in Seq(Seq(Entry))
    OBVIOUS
  <2> QED
    BY <1>1, <2>1, LogRecord
<1>3. Shape
  BY <1>1, <1>2, NumbersPositive DEF Shape, Stages
<1>4. Slots
  BY <1>1, <1>2, FS_EmptySet, NumbersPositive DEF Slots
<1>5. Judged /\ Chosen
  BY <1>1 DEF Judged, Chosen
<1>6. Reported
  BY <1>1 DEF Reported, NoReport, Statuses
<1> QED
  BY <1>3, <1>4, <1>5, <1>6 DEF ReportIInv
-----------------------------------------------------------------------------
(* The steps. *)

LEMMA UnknownCitationStep == ReportIInv /\ UnknownCitation => ReportIInv'
<1> SUFFICES ASSUME ReportIInv, UnknownCitation PROVE ReportIInv'
  OBVIOUS
<1>1. /\ stage = "start" /\ stage' = "over" /\ status' = "failed"
      /\ UNCHANGED <<facts, mode, claims, again, log, running, report, gate>>
  BY DEF UnknownCitation
<1>2. Shape'
  BY <1>1 DEF ReportIInv, Shape, Stages
<1>3. Slots'
  BY <1>1 DEF ReportIInv, Slots, Verifying
<1>4. Judged' /\ Chosen'
  BY <1>1 DEF ReportIInv, Judged, Chosen
<1>5. Reported'
  BY <1>1 DEF ReportIInv, Reported, Statuses
<1> QED
  BY <1>2, <1>3, <1>4, <1>5 DEF ReportIInv

LEMMA InterruptedStep == ReportIInv /\ Interrupted => ReportIInv'
<1> SUFFICES ASSUME ReportIInv, Interrupted PROVE ReportIInv'
  OBVIOUS
<1>1. /\ stage \notin {"built", "over"} /\ status' \in {"failed", "cancelled"}
      /\ stage' = "over" /\ running' = {}
      /\ UNCHANGED <<facts, mode, claims, again, log, report, gate>>
  BY DEF Interrupted
<1>2. Shape'
  BY <1>1 DEF ReportIInv, Shape, Stages
<1>3. Slots'
  BY <1>1, FS_EmptySet, NumbersPositive DEF ReportIInv, Slots
<1>4. Judged' /\ Chosen'
  BY <1>1 DEF ReportIInv, Judged, Chosen, SupportedAtFirst, SupportedLater
<1>5. Reported'
  BY <1>1 DEF ReportIInv, Reported, Statuses
<1> QED
  BY <1>2, <1>3, <1>4, <1>5 DEF ReportIInv

LEMMA FinishStep == ReportIInv /\ Finish => ReportIInv'
<1> SUFFICES ASSUME ReportIInv, Finish PROVE ReportIInv'
  OBVIOUS
<1>1. /\ stage = "built" /\ stage' = "over"
      /\ status' = IF gate = "failed" THEN "failed" ELSE "completed"
      /\ UNCHANGED <<facts, mode, claims, again, log, running, report, gate>>
  BY DEF Finish
<1>2. Shape'
  BY <1>1 DEF ReportIInv, Shape, Stages
<1>3. Slots'
  BY <1>1 DEF ReportIInv, Slots, Verifying
<1>4. Judged' /\ Chosen'
  BY <1>1 DEF ReportIInv, Judged, Chosen, SupportedAtFirst, SupportedLater
<1>5. Reported'
  BY <1>1 DEF ReportIInv, Reported, Statuses
<1> QED
  BY <1>2, <1>3, <1>4, <1>5 DEF ReportIInv

\* The citations of the claims that are printed are clean.
LEMMA CitedClean == ReportIInv => Cited(claims) \cap Forbidden = {}
BY DEF ReportIInv, Shape, Usable, Cited, Rendered

LEMMA WriteStep == ReportIInv /\ Write => ReportIInv'
<1> SUFFICES ASSUME ReportIInv, Write PROVE ReportIInv'
  OBVIOUS
<1>1. /\ stage = "write" /\ stage' = "built"
      /\ UNCHANGED <<facts, mode, claims, again, log, running, status>>
  BY DEF Write
<1>2. Shape'
  BY <1>1 DEF ReportIInv, Shape, Stages
<1>3. Slots'
  BY <1>1 DEF ReportIInv, Slots, Verifying
<1>4. Judged' /\ Chosen'
  BY <1>1 DEF ReportIInv, Judged, Chosen, SupportedAtFirst, SupportedLater
<1> DEFINE n == Len(Offered(claims))
<1>5. n \in Nat
  BY OfferedCited
<1>6. /\ report'.kind \in {"template", "synthesis", "repaired"}
      /\ report'.covered = Covered(claims)
      /\ (report'.tags \cup report'.list) \cap Forbidden = {}
      /\ gate' \in {"none", "passed", "failed"}
      /\ gate' = "passed" => report'.tags \subseteq 1..n
      /\ mode = "live" => gate' # "none"
  <2>1. CASE Render \/ SynthesisFails
    <3>1. report' = Template(claims) /\ gate' \in {"none", "failed"} /\ (mode = "live" => gate' = "failed")
      BY <2>1 DEF Render, SynthesisFails
    <3> QED
      BY <3>1, CitedClean, KeptCitationsClean DEF Template, Report
  <2>2. CASE Synthesize
    <3>1. PICK draft \in Drafts(n) :
            LET q == Gate(draft, n)
            IN  \/ report' = Repaired(claims) /\ gate' = "passed"
                \/ /\ report' = Report("synthesis", draft.tags, {}, claims)
                   /\ gate' = IF Passed(q) THEN "passed" ELSE "failed"
      BY <2>2 DEF Synthesize
    <3>2. draft.tags \subseteq 1..(n + 1)
      BY <1>5 DEF Drafts
    <3>3. CASE report' = Repaired(claims) /\ gate' = "passed"
      BY <1>5, <3>3, TagsAreNoSources DEF Repaired, Report
    <3>4. CASE /\ report' = Report("synthesis", draft.tags, {}, claims)
               /\ gate' = IF Passed(Gate(draft, n)) THEN "passed" ELSE "failed"
      <4>1. Passed(Gate(draft, n)) => draft.tags \subseteq 1..n
        BY DEF Passed, Gate
      <4>2. draft.tags \cap Forbidden = {}
        BY <1>5, <3>2, TagsAreNoSources
      <4> QED
        BY <3>4, <4>1, <4>2 DEF Report
    <3> QED
      BY <3>1, <3>3, <3>4
  <2> QED
    BY <2>1, <2>2 DEF Write
<1>7. Reported'
  BY <1>1, <1>6 DEF ReportIInv, Reported, Statuses
<1> QED
  BY <1>2, <1>3, <1>4, <1>7 DEF ReportIInv

\* The facts a run starts from are a list of facts.
LEMMA FactsAreLists ==
  ASSUME facts \in Inputs
  PROVE  /\ facts \in Seq(Fact) /\ KeptFacts(facts) \in Seq(Fact)
         /\ \A i \in DOMAIN KeptFacts(facts) : Usable(KeptFacts(facts)[i].cites)
BY KeptFactsUsable, ReportAssumption DEF ReportAssumption

LEMMA SelectClaimsStep == ReportIInv /\ SelectClaims => ReportIInv'
<1> SUFFICES ASSUME ReportIInv, SelectClaims PROVE ReportIInv'
  OBVIOUS
<1> DEFINE kept == KeptFacts(facts)
           sel == Selected(kept)
<1>1. /\ stage = "start" /\ stage' = "initial"
      /\ claims' = [i \in DOMAIN sel |-> Claim(kept[sel[i]])]
      /\ log' = [log EXCEPT !.initial = [i \in DOMAIN claims' |-> <<>>]]
      /\ UNCHANGED <<facts, mode, again, running, report, gate, status>>
  BY DEF SelectClaims, FactsToClaims
<1>2. /\ claims = <<>> /\ again = <<>> /\ running = {} /\ Len(log["revision"]) = 0
      /\ log \in [Verifying -> Seq(Seq(Entry))] /\ log["revision"] \in Seq(Seq(Entry))
  BY <1>1 DEF ReportIInv, Shape, Slots, Judged, Verifying
<1>3. kept \in Seq(Fact) /\ \A i \in DOMAIN kept : Usable(kept[i].cites)
  BY FactsAreLists DEF ReportIInv, Shape
<1> HIDE DEF kept
<1>4. /\ sel \in Seq(Distinct(kept)) /\ Len(sel) \in Nat /\ Len(sel) <= MaxClaims
      /\ DOMAIN sel = 1..Len(sel)
      /\ \A i \in DOMAIN sel : sel[i] \in DOMAIN kept
  BY <1>3, SelectionLists, DistinctFinite
<1> HIDE DEF sel
<1>5. ASSUME NEW i \in DOMAIN sel
      PROVE  /\ claims'[i] \in ClaimRec /\ claims'[i].status = "pending"
             /\ Usable(claims'[i].cites)
             /\ claims'[i].fact = kept[sel[i]].claim /\ claims'[i].section = kept[sel[i]].task
  <2> DEFINE f == kept[sel[i]]
  <2>1. f \in Fact /\ Usable(f.cites)
    BY <1>3, <1>4
  <2>2. claims'[i] = Claim(f)
    BY <1>1
  <2> HIDE DEF f
  <2>3. Claim(f) \in ClaimRec
    BY <2>1 DEF Fact, Claim, ClaimRec, ClaimStatuses
  <2> QED
    BY <2>1, <2>2, <2>3 DEF Claim, f
<1>6. claims' \in Seq(ClaimRec) /\ Len(claims') = Len(sel) /\ DOMAIN claims' = DOMAIN sel
  BY <1>1, <1>4, <1>5
<1>7. /\ log' \in [Verifying -> Seq(Seq(Entry))] /\ log'["revision"] = log["revision"]
      /\ Len(log'["initial"]) = Len(claims') /\ DOMAIN log'["initial"] = DOMAIN claims'
      /\ \A i \in DOMAIN claims' : log'["initial"][i] = <<>>
  <2> DEFINE empty == [i \in DOMAIN claims' |-> <<>>]
  <2>1. empty \in Seq(Seq(Entry)) /\ Len(empty) = Len(claims') /\ DOMAIN empty = DOMAIN claims'
        /\ \A i \in DOMAIN claims' : empty[i] = <<>>
    BY <1>4, <1>6
  <2>2. log' = [log EXCEPT !["initial"] = empty]
    BY <1>1
  <2> HIDE DEF empty
  <2> QED
    BY <1>2, <2>1, <2>2 DEF Verifying
<1>8. Shape'
  <2>1. again' \in Seq(DOMAIN claims') /\ Len(again') = 0 /\ Len(claims') \in Nat
    BY <1>1, <1>2, <1>4, <1>6
  <2>2. \A i \in DOMAIN claims' : Usable(claims'[i].cites)
    BY <1>5, <1>6
  <2>3. Len(claims') <= MaxClaims /\ Len(again') <= Len(claims')
    BY <1>4, <1>6, <2>1
  <2>4. facts' \in Inputs /\ mode' \in {"fake", "live"} /\ stage' \in Stages
    BY <1>1 DEF ReportIInv, Shape, Stages
  <2>5. Len(log'["initial"]) = Len(claims') /\ Len(log'["revision"]) = Len(again')
    BY <1>2, <1>7, <2>1
  <2> QED
    BY <1>6, <1>7, <2>1, <2>2, <2>3, <2>4, <2>5 DEF Shape
<1>9. Slots'
  <2>1. DOMAIN log'["revision"] = {}
    BY <1>2, <1>7
  <2> QED
    BY <1>1, <1>2, <1>7, <2>1, FS_EmptySet, NumbersPositive DEF Slots
<1>10. Judged'
  BY <1>1, <1>2, <1>5, <1>6 DEF Judged
<1>11. Reported'
  BY <1>1 DEF ReportIInv, Reported, NoReport
<1>12. Chosen'
  BY <1>1, <1>5, <1>6 DEF Chosen, kept, sel
<1> QED
  BY <1>8, <1>9, <1>10, <1>11, <1>12 DEF ReportIInv

\* What is known of a place in the log of the round under way.
LEMMA RoundIs ==
  ASSUME ReportIInv, NEW v, v \in DOMAIN Round
  PROVE  /\ stage \in Verifying /\ Round = log[stage]
         /\ v \in DOMAIN log[stage] /\ v \in DOMAIN claims
         /\ Subject(v) \in DOMAIN claims /\ Subject(v) \in Nat
         /\ claims[Subject(v)] \in ClaimRec /\ Usable(claims[Subject(v)].cites)
         /\ Len(claims[Subject(v)].cites) \in Nat /\ Len(claims[Subject(v)].cites) > 0
         /\ log[stage][v] \in Seq(Entry)
<1>1. stage \in Verifying /\ Round = log[stage]
  BY DEF Round, Verifying
<1>2. /\ log[stage] \in Seq(Seq(Entry)) /\ Len(claims) \in Nat /\ Len(again) \in Nat
      /\ DOMAIN claims = 1..Len(claims) /\ DOMAIN again = 1..Len(again)
      /\ Len(again) <= Len(claims)
  BY <1>1 DEF ReportIInv, Shape
<1>3. v \in DOMAIN claims /\ Subject(v) \in DOMAIN claims /\ Subject(v) \in Nat
  <2>1. CASE stage = "initial"
    <3>1. v \in 1..Len(log["initial"])
      BY <1>1, <1>2, <2>1
    <3>2. Len(log["initial"]) = Len(claims)
      BY DEF ReportIInv, Shape
    <3> QED
      BY <1>2, <2>1, <3>1, <3>2 DEF Subject
  <2>2. CASE stage = "revision"
    <3>1. v \in 1..Len(again)
      <4>1. Len(log["revision"]) = Len(again)
        BY DEF ReportIInv, Shape
      <4> QED
        BY <1>1, <1>2, <2>2, <4>1
    <3>2. again[v] \in DOMAIN claims
      <4>1. again \in Seq(DOMAIN claims)
        BY DEF ReportIInv, Shape
      <4> QED
        BY <3>1, <4>1
    <3> QED
      BY <1>2, <2>2, <3>1, <3>2 DEF Subject
  <2> QED
    BY <1>1, <2>1, <2>2 DEF Verifying
<1>4. claims[Subject(v)] \in ClaimRec /\ Usable(claims[Subject(v)].cites)
  BY <1>3 DEF ReportIInv, Shape
<1>5. /\ Len(claims[Subject(v)].cites) \in Nat /\ Len(claims[Subject(v)].cites) > 0
  <2>1. claims[Subject(v)].cites \in Seq(Sources) /\ claims[Subject(v)].cites # <<>>
    BY <1>4 DEF ClaimRec, Usable
  <2> QED
    BY <2>1
<1> QED
  BY <1>1, <1>2, <1>3, <1>4, <1>5

\* One element of a sequence of sequences is replaced.
LEMMA ElementReplaced ==
  ASSUME NEW A, NEW s \in Seq(A), NEW v, NEW x \in A
  PROVE  LET r == [s EXCEPT ![v] = x]
         IN  /\ r \in Seq(A) /\ Len(r) = Len(s) /\ DOMAIN r = DOMAIN s
             /\ \A w \in DOMAIN s : r[w] = IF w = v THEN x ELSE s[w]
<1> DEFINE r == [s EXCEPT ![v] = x]
           n == Len(s)
<1>1. n \in Nat /\ s \in [1..n -> A]
  OBVIOUS
<1> HIDE DEF n
<1>2. r \in [1..n -> A] /\ \A w \in 1..n : r[w] = IF w = v THEN x ELSE s[w]
  BY <1>1
<1> HIDE DEF r
<1>3. r \in Seq(A) /\ Len(r) = n /\ DOMAIN r = DOMAIN s
  BY <1>1, <1>2
<1> QED
  BY <1>1, <1>2, <1>3 DEF r, n

\* A source's outcome goes to the log of its own round and claim.
LEMMA SourceCheckedStep ==
  ASSUME ReportIInv, NEW v, SourceChecked(v)
  PROVE  ReportIInv'
<1> DEFINE cites == claims[Subject(v)].cites
           seen == log[stage][v]
           source == cites[Len(seen) + 1]
<1>1. v \in DOMAIN Round /\ v \in running
      /\ UNCHANGED <<facts, mode, stage, claims, again, report, gate, status>>
  BY DEF SourceChecked
<1>2. /\ stage \in Verifying /\ Round = log[stage] /\ v \in DOMAIN log[stage]
      /\ Subject(v) \in DOMAIN claims /\ Subject(v) \in Nat
      /\ cites \in Seq(Sources) /\ Usable(cites) /\ seen \in Seq(Entry)
  BY <1>1, RoundIs DEF ClaimRec
<1>3. Len(seen) < Len(cites)
  BY <1>1 DEF ReportIInv, Slots
<1>4. source \in Sources /\ source \notin Forbidden
  <2>1. Len(seen) + 1 \in DOMAIN cites
    BY <1>2, <1>3
  <2> QED
    BY <1>2, <2>1 DEF Usable
<1>5. PICK o \in SourceOutcomes :
        /\ log' = [log EXCEPT ![stage][v] =
                     Append(@, [of |-> Subject(v), source |-> source, outcome |-> o])]
        /\ running' = IF Len(seen) + 1 = Len(cites) THEN running \ {v} ELSE running
  BY <1>2 DEF SourceChecked
<1> DEFINE entry == [of |-> Subject(v), source |-> source, outcome |-> o]
           longer == Append(seen, entry)
<1>6. entry \in Entry /\ entry.of = Subject(v) /\ entry.source \notin Forbidden
  BY <1>2, <1>4 DEF Entry
<1>7. log' = [log EXCEPT ![stage] = [log[stage] EXCEPT ![v] = longer]]
  BY <1>5
<1> HIDE DEF entry, source, cites
<1>8. /\ longer \in Seq(Entry) /\ Len(longer) = Len(seen) + 1 /\ Len(seen) \in Nat
      /\ \A k \in DOMAIN longer : (k \in DOMAIN seen /\ longer[k] = seen[k]) \/ longer[k] = entry
  BY <1>2, <1>6
<1> HIDE DEF longer
<1>9. /\ log \in [Verifying -> Seq(Seq(Entry))]
      /\ Len(log["initial"]) = Len(claims) /\ Len(log["revision"]) = Len(again)
  BY DEF ReportIInv, Shape
<1>10. /\ log' \in [Verifying -> Seq(Seq(Entry))]
       /\ \A r \in Verifying : Len(log'[r]) = Len(log[r]) /\ DOMAIN log'[r] = DOMAIN log[r]
       /\ \A r \in Verifying : \A w \in DOMAIN log[r] :
            log'[r][w] = IF r = stage /\ w = v THEN longer ELSE log[r][w]
  <2> DEFINE row == [log[stage] EXCEPT ![v] = longer]
  <2>1. log[stage] \in Seq(Seq(Entry))
    BY <1>2, <1>9
  <2>2. row \in Seq(Seq(Entry)) /\ Len(row) = Len(log[stage]) /\ DOMAIN row = DOMAIN log[stage]
        /\ \A w \in DOMAIN log[stage] : row[w] = IF w = v THEN longer ELSE log[stage][w]
    BY <1>8, <2>1, ElementReplaced
  <2> HIDE DEF row
  <2>3. log' = [log EXCEPT ![stage] = row]
    BY <1>7 DEF row
  <2> QED
    BY <1>2, <1>9, <2>2, <2>3
<1>11. Shape'
  BY <1>1, <1>9, <1>10 DEF ReportIInv, Shape, Verifying
<1>12. Slots'
  <2>1. running' \in SUBSET running /\ (v \in running' => Len(longer) # Len(cites))
    BY <1>5, <1>8
  <2>2. running' \subseteq DOMAIN claims' /\ Cardinality(running') <= VerifyConcurrency
    <3>1. IsFiniteSet(running)
      <4>1. Len(claims) \in Nat /\ DOMAIN claims = 1..Len(claims)
        BY DEF ReportIInv, Shape
      <4>2. IsFiniteSet(DOMAIN claims)
        BY <4>1, FS_Interval
      <4> QED
        BY <4>2, FS_Subset DEF ReportIInv, Slots
    <3>2. /\ Cardinality(running') <= Cardinality(running)
          /\ Cardinality(running) \in Nat /\ Cardinality(running') \in Nat
          /\ Cardinality(running) <= VerifyConcurrency
      BY <2>1, <3>1, FS_Subset, FS_CardinalityType DEF ReportIInv, Slots
    <3> QED
      BY <1>1, <2>1, <3>2, NumbersPositive DEF ReportIInv, Slots
  <2>3. \A w : Subject(w)' = Subject(w)
    BY <1>1 DEF Subject
  <2>4. ASSUME NEW w \in running'
        PROVE  /\ stage' \in Verifying /\ w \in DOMAIN log'[stage']
               /\ Len(log'[stage'][w]) < Len(claims'[Subject(w)'].cites)
    <3>1. /\ w \in running /\ w \in DOMAIN log[stage]
          /\ Len(log[stage][w]) < Len(claims[Subject(w)].cites)
      BY <2>1 DEF ReportIInv, Slots
    <3>2. CASE w = v
      <4>1. Len(longer) < Len(cites)
        <5>1. Len(cites) \in Nat
          BY <1>2
        <5> QED
          BY <1>3, <1>8, <2>1, <3>2, <5>1
      <4> QED
        BY <1>1, <1>2, <1>10, <2>3, <3>1, <3>2, <4>1 DEF cites
    <3>3. CASE w # v
      BY <1>1, <1>2, <1>10, <2>3, <3>1, <3>3
    <3> QED
      BY <3>2, <3>3
  <2>5. ASSUME NEW i \in DOMAIN log'["initial"], NEW k \in DOMAIN log'["initial"][i]
        PROVE  log'["initial"][i][k].of = i /\ log'["initial"][i][k].source \notin Forbidden
    <3>1. i \in DOMAIN log["initial"] /\ "initial" \in Verifying
      BY <1>10 DEF Verifying
    <3>2. CASE stage = "initial" /\ i = v
      <4>1. Subject(v) = i /\ log'["initial"][i] = longer
        BY <1>10, <3>1, <3>2 DEF Subject
      <4>2. \A j \in DOMAIN seen : seen[j].of = i /\ seen[j].source \notin Forbidden
        BY <3>1, <3>2 DEF ReportIInv, Slots
      <4> QED
        BY <1>6, <1>8, <4>1, <4>2
    <3>3. CASE ~(stage = "initial" /\ i = v)
      <4>1. log'["initial"][i] = log["initial"][i]
        BY <1>10, <3>1, <3>3
      <4> QED
        BY <3>1, <4>1 DEF ReportIInv, Slots
    <3> QED
      BY <3>2, <3>3
  <2>6. ASSUME NEW i \in DOMAIN log'["revision"], NEW k \in DOMAIN log'["revision"][i]
        PROVE  log'["revision"][i][k].of = again'[i] /\ log'["revision"][i][k].source \notin Forbidden
    <3>1. i \in DOMAIN log["revision"] /\ "revision" \in Verifying
      BY <1>10 DEF Verifying
    <3>2. CASE stage = "revision" /\ i = v
      <4>1. Subject(v) = again[i] /\ log'["revision"][i] = longer
        BY <1>10, <3>1, <3>2 DEF Subject
      <4>2. \A j \in DOMAIN seen : seen[j].of = again[i] /\ seen[j].source \notin Forbidden
        BY <3>1, <3>2 DEF ReportIInv, Slots
      <4> QED
        BY <1>1, <1>6, <1>8, <4>1, <4>2
    <3>3. CASE ~(stage = "revision" /\ i = v)
      <4>1. log'["revision"][i] = log["revision"][i]
        BY <1>10, <3>1, <3>3
      <4> QED
        BY <1>1, <3>1, <4>1 DEF ReportIInv, Slots
    <3> QED
      BY <3>2, <3>3
  <2> QED
    BY <2>2, <2>4, <2>5, <2>6 DEF Slots
<1>13. Judged'
  <2>1. CASE stage = "initial"
    BY <1>1, <2>1 DEF ReportIInv, Judged
  <2>2. CASE stage = "revision"
    <3>1. \A i \in DOMAIN claims : log'["initial"][i] = log["initial"][i]
      <4>1. DOMAIN claims = DOMAIN log["initial"]
        BY <1>9 DEF ReportIInv, Shape, Verifying
      <4> QED
        BY <1>10, <2>2, <4>1 DEF Verifying
    <3> QED
      BY <1>1, <2>2, <3>1 DEF ReportIInv, Judged, SupportedAtFirst
  <2> QED
    BY <1>2, <2>1, <2>2 DEF Verifying
<1>14. Reported' /\ Chosen'
  BY <1>1 DEF ReportIInv, Reported, Chosen
<1> QED
  BY <1>11, <1>12, <1>13, <1>14 DEF ReportIInv

\* A verification starts only while there is room for it.
LEMMA VerifyStartsStep ==
  ASSUME ReportIInv, NEW v, VerifyStarts(v)
  PROVE  ReportIInv'
<1>1. /\ v \in DOMAIN Round /\ Round[v] = <<>> /\ v \notin running
      /\ Cardinality(running) < VerifyConcurrency /\ running' = running \cup {v}
      /\ UNCHANGED <<facts, mode, stage, claims, again, log, report, gate, status>>
  BY DEF VerifyStarts
<1>2. /\ stage \in Verifying /\ v \in DOMAIN log[stage] /\ Len(log[stage][v]) = 0
      /\ v \in DOMAIN claims /\ Len(claims[Subject(v)].cites) > 0
  BY <1>1, RoundIs
<1>3. Shape' /\ Judged' /\ Reported' /\ Chosen'
  BY <1>1 DEF ReportIInv, Shape, Judged, Reported, Chosen, SupportedAtFirst, SupportedLater
<1>4. Cardinality(running') <= VerifyConcurrency
  <2>1. IsFiniteSet(running)
    <3>1. Len(claims) \in Nat /\ DOMAIN claims = 1..Len(claims)
      BY DEF ReportIInv, Shape
    <3>2. IsFiniteSet(DOMAIN claims)
      BY <3>1, FS_Interval
    <3> QED
      BY <3>2, FS_Subset DEF ReportIInv, Slots
  <2>2. Cardinality(running') = Cardinality(running) + 1 /\ Cardinality(running) \in Nat
    BY <1>1, <2>1, FS_AddElement, FS_CardinalityType
  <2> QED
    BY <1>1, <2>2, NumbersPositive
<1>5. Subject(v)' = Subject(v) /\ \A w : Subject(w)' = Subject(w)
  BY <1>1 DEF Subject
<1>6. Slots'
  BY <1>1, <1>2, <1>4, <1>5 DEF ReportIInv, Slots
<1> QED
  BY <1>3, <1>6 DEF ReportIInv

\* The statuses a verdict can give.
LEMMA RevisedMeans ==
  ASSUME NEW c \in ClaimRec, NEW verdict \in Verdicts \cup {"unreadable"}
  PROVE  /\ Revised(c, verdict) \in ClaimRec
         /\ Revised(c, verdict).cites = c.cites
         /\ Revised(c, verdict).fact = c.fact /\ Revised(c, verdict).section = c.section
         /\ Revised(c, verdict).status = "verified" => verdict = "entailment"
         /\ Revised(c, verdict).status = "neutral" => verdict = "neutral"
<1> USE DEF ClaimRec, ClaimStatuses
<1>1. CASE verdict = "entailment"
  BY <1>1 DEF Revised
<1>2. CASE verdict = "unreadable"
  BY <1>2 DEF Revised
<1>3. CASE verdict = "contradiction"
  BY <1>3 DEF Revised
<1>4. CASE verdict = "neutral"
  BY <1>4 DEF Revised
<1> QED
  BY <1>1, <1>2, <1>3, <1>4 DEF Verdicts

LEMMA ReviseStep == ReportIInv /\ Revise => ReportIInv'
<1> SUFFICES ASSUME ReportIInv, Revise PROVE ReportIInv'
  OBVIOUS
<1> DEFINE verdict(i) == Aggregate(log["initial"][i])
           unsure == {i \in DOMAIN claims : claims'[i].status = "neutral"}
<1>1. /\ stage = "initial" /\ running = {} /\ stage' = "revision"
      /\ claims' = [i \in DOMAIN claims |-> Revised(claims[i], verdict(i))]
      /\ again' = Ascending(unsure)
      /\ log' = [log EXCEPT !["revision"] = [k \in DOMAIN again' |-> <<>>]]
      /\ UNCHANGED <<facts, mode, running, report, gate, status>>
  BY DEF Revise, RoundOver
<1>2. /\ claims \in Seq(ClaimRec) /\ Len(claims) \in Nat /\ DOMAIN claims = 1..Len(claims)
      /\ log \in [Verifying -> Seq(Seq(Entry))] /\ Len(log["initial"]) = Len(claims)
      /\ DOMAIN log["initial"] = DOMAIN claims
  <2>1. claims \in Seq(ClaimRec) /\ Len(log["initial"]) = Len(claims)
        /\ log \in [Verifying -> Seq(Seq(Entry))]
    BY DEF ReportIInv, Shape
  <2>2. log["initial"] \in Seq(Seq(Entry))
    BY <2>1 DEF Verifying
  <2> QED
    BY <2>1, <2>2
<1>3. ASSUME NEW i \in DOMAIN claims
      PROVE  /\ claims'[i] \in ClaimRec /\ claims'[i].cites = claims[i].cites
             /\ claims'[i].fact = claims[i].fact /\ claims'[i].section = claims[i].section
             /\ claims'[i].status = "verified" => verdict(i) = "entailment"
             /\ claims'[i].status = "neutral" => verdict(i) = "neutral"
  <2>1. claims'[i] = Revised(claims[i], verdict(i)) /\ claims[i] \in ClaimRec
    BY <1>1, <1>2
  <2>2. verdict(i) \in Verdicts \cup {"unreadable"}
    BY AggregateMeans
  <2> HIDE DEF verdict
  <2> QED
    BY <2>1, <2>2, RevisedMeans
<1>4. claims' \in Seq(ClaimRec) /\ Len(claims') = Len(claims) /\ DOMAIN claims' = DOMAIN claims
  BY <1>1, <1>2, <1>3
<1>5. /\ again' \in Seq(DOMAIN claims) /\ Len(again') \in Nat /\ Len(again') <= Len(claims)
  <2>1. IsFiniteSet(DOMAIN claims) /\ Cardinality(DOMAIN claims) = Len(claims)
    <3> DEFINE n == Len(claims)
    <3>1. 1 \in Int /\ n \in Int /\ n \in Nat
      BY <1>2
    <3> HIDE DEF n
    <3>2. IsFiniteSet(1..n) /\ Cardinality(1..n) = n
      BY <3>1, FS_Interval
    <3> QED
      BY <1>2, <3>2 DEF n
  <2>2. unsure \in SUBSET DOMAIN claims /\ unsure \in SUBSET Int
    BY <1>2
  <2> HIDE DEF unsure
  <2>3. IsFiniteSet(unsure) /\ Cardinality(unsure) <= Len(claims)
    BY <2>1, <2>2, FS_Subset
  <2>4. Cardinality(unsure) \in Nat /\ again' \in [1..Cardinality(unsure) -> unsure]
    BY <1>1, <2>2, <2>3, AscendingLists
  <2>5. again' \in [1..Cardinality(unsure) -> DOMAIN claims]
    BY <2>2, <2>4
  <2>6. again' \in Seq(DOMAIN claims) /\ Len(again') = Cardinality(unsure)
    BY <2>4, <2>5
  <2> QED
    BY <2>3, <2>4, <2>6
<1>6. /\ log' \in [Verifying -> Seq(Seq(Entry))] /\ log'["initial"] = log["initial"]
      /\ Len(log'["revision"]) = Len(again')
      /\ \A k \in DOMAIN log'["revision"] : log'["revision"][k] = <<>>
  <2> DEFINE empty == [k \in DOMAIN again' |-> <<>>]
  <2>1. DOMAIN again' = 1..Len(again')
    BY <1>5
  <2>2. empty \in Seq(Seq(Entry)) /\ Len(empty) = Len(again')
        /\ \A k \in DOMAIN empty : empty[k] = <<>>
    BY <1>5, <2>1
  <2>3. log' = [log EXCEPT !["revision"] = empty]
    BY <1>1
  <2> HIDE DEF empty
  <2> QED
    BY <1>2, <2>2, <2>3 DEF Verifying
<1>7. Shape'
  <2>1. \A i \in DOMAIN claims' : Usable(claims'[i].cites)
    BY <1>3, <1>4 DEF ReportIInv, Shape
  <2>2. facts' \in Inputs /\ mode' \in {"fake", "live"} /\ stage' \in Stages /\ Len(claims') <= MaxClaims
    BY <1>1, <1>4 DEF ReportIInv, Shape, Stages
  <2>3. Len(log'["initial"]) = Len(claims')
    BY <1>2, <1>4, <1>6
  <2> QED
    BY <1>4, <1>5, <1>6, <2>1, <2>2, <2>3 DEF Shape
<1>8. Slots'
  <2>1. running' \subseteq DOMAIN claims' /\ Cardinality(running') <= VerifyConcurrency
    BY <1>1, FS_EmptySet, NumbersPositive
  <2> QED
    BY <1>1, <1>6, <2>1 DEF ReportIInv, Slots
<1>9. Judged'
  <2>1. ASSUME NEW i \in DOMAIN claims', claims'[i].status = "neutral"
        PROVE  Outcomes(log'["initial"][i]) \cap Verdicts # {}
    BY <1>3, <1>4, <1>6, <2>1, AggregateMeans
  <2>2. ASSUME NEW i \in DOMAIN claims', claims'[i].status = "verified"
        PROVE  SupportedAtFirst(i)'
    <3>1. verdict(i) = "entailment"
      BY <1>3, <1>4, <2>2
    <3>2. \A k \in DOMAIN log["initial"][i] : log["initial"][i][k].of = i
      BY <1>2, <1>4 DEF ReportIInv, Slots
    <3>3. SupportedAtFirst(i)
      BY <3>1, <3>2, EntailmentSupports DEF SupportedAtFirst
    <3> QED
      BY <1>6, <3>3 DEF SupportedAtFirst
  <2> QED
    BY <1>1, <2>1, <2>2 DEF Judged
<1>10. Reported'
  BY <1>1 DEF ReportIInv, Reported, NoReport
<1>11. Chosen'
  <2>1. claims' # <<>> => claims # <<>>
    BY <1>2, <1>4
  <2> QED
    BY <1>1, <1>3, <1>4, <2>1 DEF ReportIInv, Chosen
<1> QED
  BY <1>7, <1>8, <1>9, <1>10, <1>11 DEF ReportIInv

LEMMA ReverifyStep == ReportIInv /\ Reverify => ReportIInv'
<1> SUFFICES ASSUME ReportIInv, Reverify PROVE ReportIInv'
  OBVIOUS
<1>1. /\ stage = "revision" /\ running = {} /\ stage' = "write"
      /\ claims' = [i \in DOMAIN claims |->
                      IF Confirmed(i) THEN [claims[i] EXCEPT !.status = "verified"] ELSE claims[i]]
      /\ UNCHANGED <<facts, mode, again, log, running, report, gate, status>>
  BY DEF Reverify, RoundOver
<1>2. /\ claims \in Seq(ClaimRec) /\ Len(claims) \in Nat /\ DOMAIN claims = 1..Len(claims)
  BY DEF ReportIInv, Shape
<1>3. ASSUME NEW i \in DOMAIN claims
      PROVE  /\ claims'[i] \in ClaimRec /\ claims'[i].cites = claims[i].cites
             /\ claims'[i].fact = claims[i].fact /\ claims'[i].section = claims[i].section
             /\ \/ claims'[i].status = claims[i].status
                \/ claims'[i].status = "verified" /\ Confirmed(i)
  <2>1. claims[i] \in ClaimRec
    BY <1>2
  <2>2. claims'[i] = IF Confirmed(i) THEN [claims[i] EXCEPT !.status = "verified"] ELSE claims[i]
    BY <1>1
  <2> QED
    BY <2>1, <2>2 DEF ClaimRec, ClaimStatuses
<1>4. claims' \in Seq(ClaimRec) /\ Len(claims') = Len(claims) /\ DOMAIN claims' = DOMAIN claims
  BY <1>1, <1>2, <1>3
<1>5. Shape'
  <2>1. \A i \in DOMAIN claims' : Usable(claims'[i].cites)
    BY <1>3, <1>4 DEF ReportIInv, Shape
  <2>2. /\ facts' \in Inputs /\ mode' \in {"fake", "live"} /\ stage' \in Stages
        /\ Len(claims') <= MaxClaims /\ again' \in Seq(DOMAIN claims') /\ Len(again') <= Len(claims')
    BY <1>1, <1>4 DEF ReportIInv, Shape, Stages
  <2>3. /\ log' \in [Verifying -> Seq(Seq(Entry))]
        /\ Len(log'["initial"]) = Len(claims') /\ Len(log'["revision"]) = Len(again')
    BY <1>1, <1>4 DEF ReportIInv, Shape
  <2> QED
    BY <1>4, <2>1, <2>2, <2>3 DEF Shape
<1>6. Slots'
  BY <1>1, <1>4 DEF ReportIInv, Slots
<1>7. ASSUME NEW i, Confirmed(i) PROVE SupportedLater(i)
  <2>1. PICK k \in DOMAIN again : again[k] = i /\ Aggregate(log["revision"][k]) = "entailment"
    BY <1>7 DEF Confirmed
  <2>2. \A j \in DOMAIN log["revision"][k] : log["revision"][k][j].of = i
    <3>1. again \in Seq(DOMAIN claims) /\ Len(log["revision"]) = Len(again)
          /\ log \in [Verifying -> Seq(Seq(Entry))]
      BY DEF ReportIInv, Shape
    <3>2. log["revision"] \in Seq(Seq(Entry))
      BY <3>1 DEF Verifying
    <3>3. DOMAIN again = DOMAIN log["revision"]
      BY <3>1, <3>2
    <3> QED
      BY <2>1, <3>3 DEF ReportIInv, Slots
  <2>3. Supported(log["revision"][k], i)
    BY <2>1, <2>2, EntailmentSupports
  <2> QED
    BY <2>1, <2>3 DEF SupportedLater
<1>8. Judged'
  <2>1. ASSUME NEW i \in DOMAIN claims', claims'[i].status = "neutral"
        PROVE  Outcomes(log'["initial"][i]) \cap Verdicts # {}
    BY <1>1, <1>3, <1>4, <2>1 DEF ReportIInv, Judged
  <2>2. ASSUME NEW i \in DOMAIN claims', claims'[i].status = "verified"
        PROVE  SupportedAtFirst(i)' \/ SupportedLater(i)'
    <3>1. SupportedAtFirst(i) \/ SupportedLater(i)
      BY <1>1, <1>3, <1>4, <1>7, <2>2 DEF ReportIInv, Judged
    <3> QED
      BY <1>1, <3>1 DEF SupportedAtFirst, SupportedLater
  <2> QED
    BY <1>1, <2>1, <2>2 DEF Judged
<1>9. Reported'
  BY <1>1 DEF ReportIInv, Reported, NoReport
<1>10. Chosen'
  <2>1. claims' # <<>> => claims # <<>>
    BY <1>2, <1>4
  <2> QED
    BY <1>1, <1>3, <1>4, <2>1 DEF ReportIInv, Chosen
<1> QED
  BY <1>5, <1>6, <1>8, <1>9, <1>10 DEF ReportIInv

LEMMA ReportNextIInv == ReportIInv /\ [ReportNext]_reportVars => ReportIInv'
<1> SUFFICES ASSUME ReportIInv, [ReportNext]_reportVars PROVE ReportIInv'
  OBVIOUS
<1>1. CASE Over \/ UNCHANGED reportVars
  <2>1. UNCHANGED reportVars
    BY <1>1 DEF Over
  <2> QED
    BY <2>1 DEF reportVars, ReportIInv, Shape, Slots, Judged, Reported, Chosen, Subject,
                SupportedAtFirst, SupportedLater
<1>2. CASE ReportNext
  BY <1>1, <1>2, UnknownCitationStep, SelectClaimsStep, VerifyStartsStep, SourceCheckedStep,
     ReviseStep, ReverifyStep, WriteStep, FinishStep, InterruptedStep DEF ReportNext
<1> QED
  BY <1>1, <1>2

LEMMA ReportInductive == ReportSpec => []ReportIInv
BY InitReport, ReportNextIInv, PTL DEF ReportSpec
-----------------------------------------------------------------------------
(* The theorems. *)

\* Every variable of the write stage keeps its type: the limit on the claims and
\* on the verifications at once holds, and the two rounds are logged each over
\* its own numbering.
THEOREM ReportTypeCorrect == ReportSpec => []ReportTypeOK
<1>1. ReportIInv => ReportTypeOK
  <2> SUFFICES ASSUME ReportIInv PROVE ReportTypeOK
    OBVIOUS
  <2>1. /\ claims \in Seq(ClaimRec) /\ again \in Seq(DOMAIN claims)
        /\ log["initial"] \in Seq(Seq(Entry)) /\ log["revision"] \in Seq(Seq(Entry))
        /\ Len(log["initial"]) = Len(claims) /\ Len(log["revision"]) = Len(again)
    BY DEF ReportIInv, Shape, Verifying
  <2>2. DOMAIN log.initial = DOMAIN claims /\ DOMAIN log.revision = DOMAIN again
    BY <2>1
  <2>3. \A i \in DOMAIN claims : claims[i].status \in ClaimStatuses
    <3>1. \A i \in DOMAIN claims : claims[i] \in ClaimRec
      BY <2>1
    <3> QED
      BY <3>1 DEF ClaimRec
  <2> QED
    BY <2>1, <2>2, <2>3 DEF ReportIInv, Shape, Slots, Reported, ReportTypeOK
<1> QED
  BY <1>1, ReportInductive, PTL

\* A verified claim was supported by a source of its own and contradicted by none
\* in that round, although the second round has its own numbering; a requirement
\* is reported as covered only by such a claim.
THEOREM VerifiedClaimsAreSupported == ReportSpec => []VerifiedIsSupported
<1>1. ReportIInv => VerifiedIsSupported
  <2> SUFFICES ASSUME ReportIInv PROVE VerifiedIsSupported
    OBVIOUS
  <2>1. \A i \in DOMAIN claims : claims[i].status = "verified" => SupportedAtFirst(i) \/ SupportedLater(i)
    BY DEF ReportIInv, Judged
  <2>2. \A t \in report.covered : \E i \in DOMAIN claims :
          claims[i].section = t /\ claims[i].status = "verified"
    BY DEF ReportIInv, Reported, Covered
  <2> QED
    BY <2>1, <2>2 DEF VerifiedIsSupported, SupportedAtFirst, SupportedLater
<1> QED
  BY <1>1, ReportInductive, PTL

\* A claim is called neutral only if a source was read and judged.
THEOREM OutagesAreNotNeutral == ReportSpec => []OutageIsNotNeutral
<1>1. ReportIInv => OutageIsNotNeutral
  BY DEF ReportIInv, Judged, OutageIsNotNeutral
<1> QED
  BY <1>1, ReportInductive, PTL

\* A forbidden source is neither fetched, nor cited, nor listed.
THEOREM ForbiddenSourcesStayOut == ReportSpec => []ForbiddenStaysOut
<1>1. ReportIInv => ForbiddenStaysOut
  <2> SUFFICES ASSUME ReportIInv PROVE ForbiddenStaysOut
    OBVIOUS
  <2>1. DOMAIN log = {"initial", "revision"}
    BY DEF ReportIInv, Shape, Verifying
  <2> QED
    BY <2>1 DEF ReportIInv, Slots, Reported, ForbiddenStaysOut
<1> QED
  BY <1>1, ReportInductive, PTL

\* The claims take one fact of every task before a second of any.
THEOREM SelectionsAreFair == ReportSpec => []SelectionIsFair
<1>1. ReportIInv => SelectionIsFair
  <2> DEFINE kept == KeptFacts(facts)
             taken(t) == Cardinality({i \in DOMAIN claims : claims[i].section = t})
  <2>1. SUFFICES ASSUME ReportIInv, claims # <<>>, NEW i \in Distinct(kept), NEW j \in DOMAIN claims,
                        \A k \in DOMAIN claims : claims[k].fact # kept[i].claim
                 PROVE  taken(claims[j].section) <= taken(kept[i].task) + 1
    BY DEF SelectionIsFair
  <2>2. kept \in Seq(Fact)
    BY <2>1, FactsAreLists DEF ReportIInv, Shape
  <2>3. /\ DOMAIN claims = DOMAIN Selected(kept)
        /\ \A k \in DOMAIN claims : /\ claims[k].fact = kept[Selected(kept)[k]].claim
                                    /\ claims[k].section = kept[Selected(kept)[k]].task
    BY <2>1 DEF ReportIInv, Chosen
  <2> HIDE DEF kept
  <2>4. \A t : {k \in DOMAIN claims : claims[k].section = t} = Taken(kept, t)
    BY <2>3 DEF Taken
  <2>5. \A k \in DOMAIN Selected(kept) : Selected(kept)[k] # i
    BY <2>1, <2>3
  <2>6. Cardinality(Taken(kept, kept[Selected(kept)[j]].task)) <= Cardinality(Taken(kept, kept[i].task)) + 1
    BY <2>1, <2>2, <2>3, <2>5, SelectionFair
  <2> QED
    BY <2>1, <2>3, <2>4, <2>6
<1> QED
  BY <1>1, ReportInductive, PTL

\* In an accepted report every tag stands for a source of a claim still in it.
THEOREM TagsAreBacked == ReportSpec => []TagsBacked
<1>1. ReportIInv => TagsBacked
  <2> SUFFICES ASSUME ReportIInv, status = "completed", mode = "live", NEW n \in report.tags
               PROVE  /\ n \in DOMAIN Offered(claims)
                      /\ \E i \in DOMAIN claims :
                           /\ claims[i].status # "dropped"
                           /\ Offered(claims)[n] \in {claims[i].cites[j] : j \in DOMAIN claims[i].cites}
    BY DEF TagsBacked
  <2>1. n \in 1..Len(Offered(claims))
    BY DEF ReportIInv, Reported
  <2>2. Offered(claims) \in Seq(Sources) /\ Offered(claims)[n] \in Cited(claims)
    BY <2>1, OfferedCited
  <2>3. DOMAIN Offered(claims) = 1..Len(Offered(claims))
    BY <2>2
  <2> QED
    BY <2>1, <2>2, <2>3 DEF Cited, Rendered
<1> QED
  BY <1>1, ReportInductive, PTL
=============================================================================
