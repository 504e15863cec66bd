------------------------------- MODULE Lemmas -------------------------------
(***************************************************************************)
(* Lemmas about the operators of Totals, Listings and Functions that the   *)
(* proofs of several modules rest on.                                      *)
(*                                                                         *)
(* Total, the sum of a sequence of naturals, is a natural, bounds each     *)
(* element, and changes by the difference when an element is appended or   *)
(* replaced.  A set that is listed in an order is listed once and in that  *)
(* order.  SumFunctionOnSet, the sum over a finite set, is a natural of which *)
(* any summand can be taken out, and it grows with the set and the summands. *)
(*                                                                         *)
(* All this needs induction.  The library's induction rules take an operator *)
(* as a parameter, so SetInduction restates induction over a set of naturals *)
(* and derives it from the pigeonhole principle: if n were missing from an *)
(* inductive set, predecessor would be an injection of the finite set of   *)
(* missing numbers up to n into itself, hence onto, and n would be the     *)
(* predecessor of a number that is at most n.  SizeInduction is the same for *)
(* the subsets of a finite set, smaller ones first.                        *)
(***************************************************************************)
EXTENDS Totals, Listings, Functions, FiniteSetTheorems, TLAPS

(* Sums of sequences. *)

\* A set of naturals that holds 0 and, with n, n + 1 is the whole of Nat.
LEMMA SetInduction ==
  ASSUME NEW S \in SUBSET Nat, 0 \in S, \A n \in S : n + 1 \in S
  PROVE  S = Nat
<1>1. SUFFICES ASSUME NEW n \in Nat, n \notin S PROVE FALSE
  OBVIOUS
<1> DEFINE M == {m \in 0..n : m \notin S}
           pred == [m \in M |-> m - 1]
<1>2. IsFiniteSet(0..n)
  BY FS_Interval
<1>3. IsFiniteSet(M)
  BY <1>2, FS_Subset
<1>4. \A m \in M : m - 1 \in M
  <2>1. TAKE m \in M
  <2>2. m \in Nat /\ m \notin S /\ m <= n /\ m # 0
    OBVIOUS
  <2>3. m - 1 \in 0..n
    BY <2>2
  <2>4. m - 1 \notin S
    <3>1. SUFFICES ASSUME m - 1 \in S PROVE FALSE
      OBVIOUS
    <3>2. (m - 1) + 1 \in S
      BY <3>1
    <3> QED
      BY <2>2, <3>2
  <2> QED
    BY <2>3, <2>4
<1>5. pred \in Injection(M, M)
  <2>1. pred \in [M -> M]
    BY <1>4
  <2>2. \A a, b \in M : pred[a] = pred[b] => a = b
    OBVIOUS
  <2> QED
    BY <2>1, <2>2 DEF Injection, IsInjective
<1>6. pred \in Surjection(M, M)
  BY <1>3, <1>5, FS_Injection
<1>7. n \in M
  BY <1>1
<1>8. PICK m \in M : pred[m] = n
  BY <1>6, <1>7 DEF Surjection
<1> QED
  BY <1>8

\* f tabulates the sums of the first 0, 1, ..., m elements of w.
Tabulates(f, m, w) ==
  /\ f \in [0..m -> Nat]
  /\ f[0] = 0
  /\ \A k \in 1..m : f[k] = f[k - 1] + w[k]

\* Every sequence of naturals has such a table for each of its prefixes.
LEMMA TableExists ==
  ASSUME NEW w \in Seq(Nat), NEW m \in 0..Len(w)
  PROVE  \E f : Tabulates(f, m, w)
<1> DEFINE S == {i \in Nat : i <= Len(w) => \E f : Tabulates(f, i, w)}
<1>1. 0 \in S
  <2>1. Tabulates([k \in 0..0 |-> 0], 0, w)
    BY DEF Tabulates
  <2> QED
    BY <2>1
<1>2. ASSUME NEW i \in S PROVE i + 1 \in S
  <2>1. SUFFICES ASSUME i + 1 <= Len(w) PROVE \E f : Tabulates(f, i + 1, w)
    OBVIOUS
  <2>2. PICK f : Tabulates(f, i, w)
    BY <2>1
  <2> DEFINE g == [k \in 0..(i + 1) |-> IF k = i + 1 THEN f[i] + w[i + 1] ELSE f[k]]
  <2>3. w[i + 1] \in Nat
    BY <2>1
  <2>4. g \in [0..(i + 1) -> Nat] /\ g[0] = 0
    BY <2>2, <2>3 DEF Tabulates
  <2>5. \A k \in 1..(i + 1) : g[k] = g[k - 1] + w[k]
    <3>1. TAKE k \in 1..(i + 1)
    <3>2. CASE k = i + 1
      BY <3>2
    <3>3. CASE k # i + 1
      BY <2>2, <3>3 DEF Tabulates
    <3> QED
      BY <3>2, <3>3
  <2>6. Tabulates(g, i + 1, w)
    BY <2>4, <2>5 DEF Tabulates
  <2> QED
    BY <2>6
<1>3. S = Nat
  <2>1. S \subseteq Nat
    OBVIOUS
  <2> HIDE DEF S
  <2> QED
    BY <1>1, <1>2, <2>1, SetInduction
<1> QED
  BY <1>3

\* The recursive function Prefix(w) exists, so it satisfies its equation.
LEMMA PrefixDef ==
  ASSUME NEW w \in Seq(Nat)
  PROVE  Tabulates(Prefix(w), Len(w), w)
<1> DEFINE n == Len(w)
           Step(g) == [k \in 0..n |-> IF k = 0 THEN 0 ELSE g[k - 1] + w[k]]
           S == {i \in Nat : i <= n => Prefix(w)[i] \in Nat}
<1>1. n \in Nat /\ w \in [1..n -> Nat]
  OBVIOUS
<1>2. PICK f : Tabulates(f, n, w)
  BY <1>1, TableExists
<1>3. f = Step(f)
  BY <1>1, <1>2 DEF Tabulates
<1>4. Prefix(w) = Step(Prefix(w))
  <2>1. Prefix(w) = CHOOSE g : g = Step(g)
    BY DEF Prefix
  <2> HIDE DEF Step
  <2> QED
    BY <1>3, <2>1
<1>5. /\ Prefix(w)[0] = 0
      /\ \A k \in 1..n : Prefix(w)[k] = Prefix(w)[k - 1] + w[k]
  <2> DEFINE p == Prefix(w)
             q == Step(p)
  <2>1. \A k \in 0..n : q[k] = IF k = 0 THEN 0 ELSE p[k - 1] + w[k]
    OBVIOUS
  <2>2. p = q
    BY <1>4
  <2> HIDE DEF q
  <2>3. \A k \in 0..n : p[k] = IF k = 0 THEN 0 ELSE p[k - 1] + w[k]
    BY <2>1, <2>2, Zenon
  <2> QED
    BY <1>1, <2>3
<1>6. S = Nat
  <2>1. 0 \in S
    BY <1>5
  <2>2. ASSUME NEW i \in S PROVE i + 1 \in S
    <3>1. SUFFICES ASSUME i + 1 <= n PROVE Prefix(w)[i + 1] \in Nat
      OBVIOUS
    <3>2. Prefix(w)[i] \in Nat /\ w[i + 1] \in Nat
      BY <1>1, <3>1
    <3>3. i + 1 \in 1..n /\ (i + 1) - 1 = i
      BY <1>1, <3>1
    <3> QED
      BY <1>5, <3>2, <3>3
  <2>3. S \subseteq Nat
    OBVIOUS
  <2> HIDE DEF S
  <2> QED
    BY <2>1, <2>2, <2>3, SetInduction
<1>7. \A i \in 0..n : Prefix(w)[i] \in Nat
  BY <1>1, <1>6
<1>8. Prefix(w) \in [0..n -> Nat]
  <2>1. Prefix(w) = [k \in 0..n |-> Prefix(w)[k]]
    BY <1>4
  <2> QED
    BY <1>7, <2>1
<1> QED
  BY <1>5, <1>8 DEF Tabulates

\* Two tables for the same elements agree: a running sum is determined by w.
LEMMA TableUnique ==
  ASSUME NEW w \in Seq(Nat), NEW m \in 0..Len(w), NEW f, NEW g,
         Tabulates(f, m, w), Tabulates(g, m, w)
  PROVE  f[m] = g[m]
<1> DEFINE S == {i \in Nat : i <= m => f[i] = g[i]}
<1>1. 0 \in S
  BY DEF Tabulates
<1>2. ASSUME NEW i \in S PROVE i + 1 \in S
  <2>1. SUFFICES ASSUME i + 1 <= m PROVE f[i + 1] = g[i + 1]
    OBVIOUS
  <2>2. i + 1 \in 1..m /\ (i + 1) - 1 = i /\ f[i] = g[i]
    BY <2>1
  <2> QED
    BY <2>2 DEF Tabulates
<1>3. S = Nat
  <2>1. S \subseteq Nat
    OBVIOUS
  <2> HIDE DEF S
  <2> QED
    BY <1>1, <1>2, <2>1, SetInduction
<1> QED
  BY <1>3

\* What a table says of Total: its last entry.
LEMMA TotalIsLast ==
  ASSUME NEW w \in Seq(Nat), NEW f, Tabulates(f, Len(w), w)
  PROVE  Total(w) = f[Len(w)]
<1>1. Len(w) \in 0..Len(w)
  OBVIOUS
<1> QED
  BY <1>1, PrefixDef, TableUnique DEF Total

\* Zeros add up to zero.
LEMMA TotalZeros ==
  ASSUME NEW w \in Seq(Nat), \A k \in 1..Len(w) : w[k] = 0
  PROVE  Total(w) = 0
<1> DEFINE f == [k \in 0..Len(w) |-> 0]
<1>1. Len(w) \in Nat
  OBVIOUS
<1>2. Tabulates(f, Len(w), w)
  BY <1>1 DEF Tabulates
<1> QED
  BY <1>1, <1>2, TotalIsLast

\* The sum of a sequence of naturals is a natural.
LEMMA TotalNat ==
  ASSUME NEW w \in Seq(Nat)
  PROVE  Total(w) \in Nat
<1>1. Len(w) \in 0..Len(w)
  OBVIOUS
<1> QED
  BY <1>1, PrefixDef DEF Total, Tabulates

\* The empty sum is zero.
LEMMA TotalEmpty == Total(<<>>) = 0
<1>1. Tabulates([k \in 0..0 |-> 0], Len(<<>>), <<>>)
  BY DEF Tabulates
<1> QED
  BY <1>1, TotalIsLast

\* Appending x adds x to the sum.
LEMMA TotalAppend ==
  ASSUME NEW w \in Seq(Nat), NEW x \in Nat
  PROVE  Total(Append(w, x)) = Total(w) + x
<1> DEFINE n == Len(w)
           v == Append(w, x)
           p == Prefix(w)
           g == [k \in 0..(n + 1) |-> IF k = n + 1 THEN p[n] + x ELSE p[k]]
<1>1. n \in Nat /\ v \in Seq(Nat) /\ Len(v) = n + 1 /\ v[n + 1] = x
  OBVIOUS
<1>2. \A k \in 1..n : v[k] = w[k]
  OBVIOUS
<1>3. Tabulates(p, n, w)
  BY PrefixDef
<1> HIDE DEF v, p
<1>4. g \in [0..(n + 1) -> Nat] /\ g[0] = 0
  <2>1. p[n] \in Nat /\ p[0] = 0 /\ \A k \in 0..n : p[k] \in Nat
    BY <1>1, <1>3 DEF Tabulates
  <2>2. \A k \in 0..(n + 1) : k # n + 1 => k \in 0..n
    BY <1>1
  <2> QED
    BY <1>1, <2>1, <2>2
<1>5. \A k \in 1..(n + 1) : g[k] = g[k - 1] + v[k]
  <2>1. TAKE k \in 1..(n + 1)
  <2>2. CASE k = n + 1
    BY <1>1, <2>2
  <2>3. CASE k # n + 1
    BY <1>1, <1>2, <1>3, <2>3 DEF Tabulates
  <2> QED
    BY <2>2, <2>3
<1>6. Tabulates(g, Len(v), v)
  BY <1>1, <1>4, <1>5 DEF Tabulates
<1>7. Total(v) = g[n + 1]
  BY <1>1, <1>6, TotalIsLast
<1>8. Total(w) = p[n]
  BY DEF Total, p
<1> QED
  BY <1>1, <1>7, <1>8 DEF v

\* Replacing the element at i by x changes the sum by the difference, and no
\* element exceeds the sum.
LEMMA TotalExcept ==
  ASSUME NEW w \in Seq(Nat), NEW i \in 1..Len(w), NEW x \in Nat
  PROVE  /\ Total([w EXCEPT ![i] = x]) = (Total(w) - w[i]) + x
         /\ w[i] <= Total(w)
<1> DEFINE n == Len(w)
           v == [w EXCEPT ![i] = x]
           p == Prefix(w)
           g == [k \in 0..n |-> IF k < i THEN p[k] ELSE (p[k] - w[i]) + x]
           S == {k \in Nat : i <= k /\ k <= n => w[i] <= p[k]}
<1>1. /\ n \in Nat /\ v \in Seq(Nat) /\ Len(v) = n /\ v[i] = x
      /\ w \in [1..n -> Nat]
  OBVIOUS
<1>2. \A k \in 1..n : k # i => v[k] = w[k]
  OBVIOUS
<1>3. Tabulates(p, n, w)
  BY PrefixDef
<1> HIDE DEF v, p
<1>4. S = Nat
  <2>1. 0 \in S
    OBVIOUS
  <2>2. ASSUME NEW k \in S PROVE k + 1 \in S
    <3>1. SUFFICES ASSUME i <= k + 1, k + 1 <= n PROVE w[i] <= p[k + 1]
      OBVIOUS
    <3>2. /\ k + 1 \in 1..n /\ k \in 0..n /\ (k + 1) - 1 = k
          /\ w[k + 1] \in Nat /\ w[i] \in Nat
      BY <1>1, <3>1
    <3>3. p[k + 1] = p[k] + w[k + 1] /\ p[k] \in Nat
      BY <1>3, <3>2 DEF Tabulates
    <3>4. CASE i = k + 1
      BY <3>2, <3>3, <3>4
    <3>5. CASE i <= k
      BY <3>1, <3>2, <3>3, <3>5
    <3> QED
      BY <3>1, <3>4, <3>5
  <2>3. S \subseteq Nat
    OBVIOUS
  <2> HIDE DEF S
  <2> QED
    BY <2>1, <2>2, <2>3, SetInduction
<1>5. \A k \in i..n : w[i] <= p[k]
  BY <1>1, <1>4
<1>6. g \in [0..n -> Nat] /\ g[0] = 0
  <2>1. ASSUME NEW k \in 0..n PROVE g[k] \in Nat
    <3>1. p[k] \in Nat /\ w[i] \in Nat
      BY <1>1, <1>3 DEF Tabulates
    <3>2. CASE k < i
      BY <3>1, <3>2
    <3>3. CASE ~(k < i)
      BY <1>1, <1>5, <3>1, <3>3
    <3> QED
      BY <3>2, <3>3
  <2> QED
    BY <1>1, <1>3, <2>1 DEF Tabulates
<1>7. \A k \in 1..n : g[k] = g[k - 1] + v[k]
  <2>1. TAKE k \in 1..n
  <2>2. /\ p[k] = p[k - 1] + w[k] /\ p[k] \in Nat /\ p[k - 1] \in Nat
        /\ w[k] \in Nat /\ w[i] \in Nat
    <3>1. k \in 0..n /\ k - 1 \in 0..n
      BY <1>1
    <3> QED
      BY <1>1, <1>3, <3>1 DEF Tabulates
  <2>3. CASE k < i
    BY <1>2, <2>2, <2>3
  <2>4. CASE k = i
    BY <1>1, <2>2, <2>4
  <2>5. CASE k > i
    <3>1. ~(k < i) /\ ~(k - 1 < i) /\ k # i /\ k \in 0..n /\ k - 1 \in 0..n
      BY <1>1, <2>5
    <3>2. g[k] = (p[k] - w[i]) + x /\ g[k - 1] = (p[k - 1] - w[i]) + x
      BY <3>1
    <3>3. v[k] = w[k] /\ w[i] \in Int /\ x \in Int
      BY <1>2, <2>2, <3>1
    <3> HIDE DEF g
    <3> QED
      BY <2>2, <3>2, <3>3
  <2> QED
    BY <2>3, <2>4, <2>5
<1>8. Tabulates(g, Len(v), v)
  BY <1>1, <1>6, <1>7 DEF Tabulates
<1>9. Total(v) = g[n]
  BY <1>1, <1>8, TotalIsLast
<1>10. Total(w) = p[n] /\ p[n] \in Nat /\ w[i] <= p[n]
  BY <1>1, <1>3, <1>5 DEF Total, p, Tabulates
<1> QED
  BY <1>1, <1>9, <1>10 DEF v

\* The weights, by W, of the entries of s.
Weigh(W, s) == [i \in 1..Len(s) |-> W[s[i]]]

LEMMA WeighType ==
  ASSUME NEW S, NEW W \in [S -> Nat], NEW s \in Seq(S)
  PROVE  /\ Weigh(W, s) \in Seq(Nat)
         /\ Len(Weigh(W, s)) = Len(s)
         /\ \A i \in 1..Len(s) : Weigh(W, s)[i] = W[s[i]]
<1>1. \A i \in 1..Len(s) : W[s[i]] \in Nat
  OBVIOUS
<1> QED
  BY <1>1 DEF Weigh

\* Adding an entry adds its weight.
LEMMA WeighAppend ==
  ASSUME NEW S, NEW W \in [S -> Nat], NEW s \in Seq(S), NEW k \in S
  PROVE  Total(Weigh(W, Append(s, k))) = Total(Weigh(W, s)) + W[k]
<1> DEFINE n == Len(s)
           v == Append(s, k)
<1>1. /\ n \in Nat /\ v \in Seq(S) /\ Len(v) = n + 1
      /\ v[n + 1] = k /\ \A i \in 1..n : v[i] = s[i]
  OBVIOUS
<1> HIDE DEF v
<1>2. Weigh(W, v) = Append(Weigh(W, s), W[k])
  <2>1. /\ Weigh(W, v) \in Seq(Nat) /\ Len(Weigh(W, v)) = n + 1
        /\ \A i \in 1..(n + 1) : Weigh(W, v)[i] = W[v[i]]
    BY <1>1, WeighType
  <2>2. /\ Weigh(W, s) \in Seq(Nat) /\ Len(Weigh(W, s)) = n
        /\ \A i \in 1..n : Weigh(W, s)[i] = W[s[i]]
    BY WeighType
  <2> DEFINE a == Append(Weigh(W, s), W[k])
  <2>3. W[k] \in Nat
    OBVIOUS
  <2>4. a \in Seq(Nat) /\ Len(a) = n + 1
    BY <2>2, <2>3
  <2>5. \A i \in 1..(n + 1) : a[i] = Weigh(W, v)[i]
    <3>1. TAKE i \in 1..(n + 1)
    <3>2. CASE i = n + 1
      BY <1>1, <2>1, <2>2, <2>3, <3>2
    <3>3. CASE i \in 1..n
      BY <1>1, <2>1, <2>2, <2>3, <3>3
    <3>4. i = n + 1 \/ i \in 1..n
      BY <1>1
    <3> QED
      BY <3>2, <3>3, <3>4
  <2> HIDE DEF a
  <2>6. a = Weigh(W, v)
    BY <2>1, <2>4, <2>5
  <2> QED
    BY <2>6 DEF a
<1> QED
  BY <1>2, WeighType, TotalAppend DEF v

\* Replacing entry i exchanges its weight, which the sum was at least.
LEMMA WeighExcept ==
  ASSUME NEW S, NEW W \in [S -> Nat], NEW s \in Seq(S), NEW i \in 1..Len(s), NEW k \in S
  PROVE  /\ Total(Weigh(W, [s EXCEPT ![i] = k])) = (Total(Weigh(W, s)) - W[s[i]]) + W[k]
         /\ W[s[i]] <= Total(Weigh(W, s))
<1> DEFINE n == Len(s)
           v == [s EXCEPT ![i] = k]
<1>1. /\ n \in Nat /\ v \in Seq(S) /\ Len(v) = n
      /\ v[i] = k /\ \A j \in 1..n : j # i => v[j] = s[j]
  OBVIOUS
<1> HIDE DEF v
<1>2. Weigh(W, v) = [Weigh(W, s) EXCEPT ![i] = W[k]]
  <2>1. /\ Weigh(W, v) \in Seq(Nat) /\ Len(Weigh(W, v)) = n
        /\ \A j \in 1..n : Weigh(W, v)[j] = W[v[j]]
    <3>1. v \in Seq(S) /\ Len(v) = n
      BY <1>1
    <3>2. /\ Weigh(W, v) \in Seq(Nat) /\ Len(Weigh(W, v)) = Len(v)
          /\ \A j \in 1..Len(v) : Weigh(W, v)[j] = W[v[j]]
      BY <3>1, WeighType
    <3> QED
      BY <3>1, <3>2, Zenon
  <2>2. /\ Weigh(W, s) \in Seq(Nat) /\ Len(Weigh(W, s)) = n
        /\ \A j \in 1..n : Weigh(W, s)[j] = W[s[j]]
    BY WeighType
  <2> DEFINE a == [Weigh(W, s) EXCEPT ![i] = W[k]]
  <2>3. W[k] \in Nat
    OBVIOUS
  <2>4. a \in [1..n -> Nat] /\ Weigh(W, v) \in [1..n -> Nat]
    <3>1. Weigh(W, s) \in [1..n -> Nat]
      BY <2>2
    <3>2. Weigh(W, v) \in [1..n -> Nat]
      BY <2>1
    <3> QED
      BY <2>3, <3>1, <3>2
  <2>5. \A j \in 1..n : a[j] = Weigh(W, v)[j]
    <3>1. TAKE j \in 1..n
    <3>2. CASE j = i
      BY <1>1, <2>1, <2>2, <3>2
    <3>3. CASE j # i
      BY <1>1, <2>1, <2>2, <3>3
    <3> QED
      BY <3>2, <3>3
  <2> HIDE DEF a
  <2>6. a = Weigh(W, v)
    BY <2>1, <2>4, <2>5
  <2> QED
    BY <2>6 DEF a
<1>3. Weigh(W, s) \in Seq(Nat) /\ Len(Weigh(W, s)) = n /\ Weigh(W, s)[i] = W[s[i]]
  BY WeighType
<1>4. W[k] \in Nat
  OBVIOUS
<1> QED
  BY <1>2, <1>3, <1>4, TotalExcept DEF v

-----------------------------------------------------------------------------

(* Listings. *)

\* before is a strict total order of S, given by the predecessors of each element.
Orders(before, S) ==
  /\ before \in [S -> SUBSET S]
  /\ \A x \in S : x \notin before[x]
  /\ \A x \in S : \A y \in before[x] : before[y] \subseteq before[x]
  /\ \A x, y \in S : x # y => x \in before[y] \/ y \in before[x]

\* Ranked lists every element once, in the order given.
LEMMA RankedLists ==
  ASSUME NEW S, IsFiniteSet(S), NEW before, Orders(before, S)
  PROVE  LET n == Cardinality(S)
             r == Ranked(S, before)
         IN  /\ n \in Nat /\ r \in [1..n -> S]
             /\ \A k \in 1..n : Cardinality(before[r[k]]) = k - 1
             /\ \A x \in S : Cardinality(before[x]) + 1 \in 1..n /\ r[Cardinality(before[x]) + 1] = x
             /\ \A k, l \in 1..n : k < l <=> r[k] \in before[r[l]]
             /\ \A k, l \in 1..n : r[k] = r[l] => k = l
<1> DEFINE n == Cardinality(S)
           r == Ranked(S, before)
           rank == [x \in S |-> Cardinality(before[x])]
<1>1. n \in Nat
  BY FS_CardinalityType
<1>2. ASSUME NEW x \in S
      PROVE  IsFiniteSet(before[x]) /\ Cardinality(before[x]) \in 0..(n - 1)
  <2>1. before[x] \in SUBSET (S \ {x})
    BY DEF Orders
  <2>2. IsFiniteSet(S \ {x}) /\ Cardinality(S \ {x}) = n - 1
    BY FS_RemoveElement
  <2>3. IsFiniteSet(before[x]) /\ Cardinality(before[x]) <= n - 1
    BY <2>1, <2>2, FS_Subset
  <2>4. Cardinality(before[x]) \in Nat
    BY <2>3, FS_CardinalityType
  <2> QED
    BY <1>1, <2>3, <2>4
<1>3. ASSUME NEW x \in S, NEW y \in before[x]
      PROVE  Cardinality(before[y]) < Cardinality(before[x])
  <2>1. y \in S /\ before[y] \in SUBSET before[x] /\ before[y] # before[x]
    BY DEF Orders
  <2>2. IsFiniteSet(before[x]) /\ Cardinality(before[x]) \in Nat /\ Cardinality(before[y]) \in Nat
    BY <1>2, <2>1
  <2>3. Cardinality(before[y]) <= Cardinality(before[x])
        /\ (Cardinality(before[x]) = Cardinality(before[y]) => before[x] = before[y])
    BY <2>1, <2>2, FS_Subset
  <2> QED
    BY <2>1, <2>2, <2>3
<1>4. \A x, y \in S : rank[x] = rank[y] => x = y
  <2> SUFFICES ASSUME NEW x \in S, NEW y \in S, x # y, rank[x] = rank[y] PROVE FALSE
    OBVIOUS
  <2>1. rank[x] = Cardinality(before[x]) /\ rank[y] = Cardinality(before[y])
    OBVIOUS
  <2>2. rank[x] \in Nat
    BY <1>2, <2>1
  <2>3. x \in before[y] \/ y \in before[x]
    BY DEF Orders
  <2> QED
    BY <1>3, <2>1, <2>2, <2>3
<1>5. rank \in Injection(S, 0..(n - 1))
  <2>1. rank \in [S -> 0..(n - 1)]
    BY <1>2
  <2> QED
    BY <1>4, <2>1 DEF Injection, IsInjective
<1>6. IsFiniteSet(0..(n - 1)) /\ Cardinality(0..(n - 1)) = n
  <2>1. 0 \in Int /\ n - 1 \in Int
    BY <1>1
  <2> QED
    BY <1>1, <2>1, FS_Interval
<1>7. rank \in Surjection(S, 0..(n - 1))
  BY <1>5, <1>6, FS_Injection
<1>8. ASSUME NEW k \in 1..n
      PROVE  r[k] \in S /\ Cardinality(before[r[k]]) = k - 1
  <2>1. \E x \in S : Cardinality(before[x]) = k - 1
    <3>1. k - 1 \in 0..(n - 1)
      BY <1>1
    <3>2. PICK x \in S : rank[x] = k - 1
      BY <1>7, <3>1 DEF Surjection
    <3> QED
      BY <3>2
  <2>2. r[k] = CHOOSE x \in S : Cardinality(before[x]) = k - 1
    BY DEF Ranked
  <2> QED
    BY <2>1, <2>2
<1>9. r \in [1..n -> S]
  BY <1>8 DEF Ranked
<1>10. ASSUME NEW x \in S
       PROVE  Cardinality(before[x]) + 1 \in 1..n /\ r[Cardinality(before[x]) + 1] = x
  <2> DEFINE k == Cardinality(before[x]) + 1
  <2>1. k \in 1..n /\ k - 1 = Cardinality(before[x])
    BY <1>1, <1>2
  <2>2. r[k] \in S /\ Cardinality(before[r[k]]) = Cardinality(before[x])
    BY <1>8, <2>1
  <2> QED
    BY <1>4, <2>1, <2>2
<1>11. ASSUME NEW k \in 1..n, NEW l \in 1..n
       PROVE  (k < l <=> r[k] \in before[r[l]]) /\ (r[k] = r[l] => k = l)
  <2>1. /\ r[k] \in S /\ Cardinality(before[r[k]]) = k - 1
        /\ r[l] \in S /\ Cardinality(before[r[l]]) = l - 1
    BY <1>8
  <2>2. r[k] = r[l] => k = l
    BY <2>1
  <2>3. r[k] \in before[r[l]] => k < l
    BY <1>3, <2>1
  <2>4. r[l] \in before[r[k]] => l < k
    BY <1>3, <2>1
  <2>5. r[k] # r[l] => r[k] \in before[r[l]] \/ r[l] \in before[r[k]]
    BY <2>1 DEF Orders
  <2> QED
    BY <2>2, <2>3, <2>4, <2>5
<1> HIDE DEF n, r
<1>12. /\ n \in Nat /\ r \in [1..n -> S]
       /\ \A k \in 1..n : Cardinality(before[r[k]]) = k - 1
       /\ \A x \in S : Cardinality(before[x]) + 1 \in 1..n /\ r[Cardinality(before[x]) + 1] = x
       /\ \A k, l \in 1..n : k < l <=> r[k] \in before[r[l]]
       /\ \A k, l \in 1..n : r[k] = r[l] => k = l
  BY <1>1, <1>8, <1>9, <1>10, <1>11
<1> QED
  BY <1>12 DEF n, r

\* Ascending lists a finite set of integers without repetition and in order.
LEMMA AscendingLists ==
  ASSUME NEW S \in SUBSET Int, IsFiniteSet(S)
  PROVE  /\ Cardinality(S) \in Nat
         /\ Ascending(S) \in [1..Cardinality(S) -> S]
         /\ \A x \in S : \E k \in 1..Cardinality(S) : Ascending(S)[k] = x
         /\ \A k, l \in 1..Cardinality(S) : k < l <=> Ascending(S)[k] < Ascending(S)[l]
<1> DEFINE before == [i \in S |-> {j \in S : j < i}]
           n == Cardinality(S)
           r == Ranked(S, before)
<1>1. /\ before \in [S -> SUBSET S] /\ \A x \in S : x \in Int
      /\ \A x \in S : before[x] = {j \in S : j < x}
  OBVIOUS
<1> HIDE DEF before
<1>2. \A x, y \in S : x \in before[y] <=> x < y
  BY <1>1
<1>3. Orders(before, S)
  <2>1. \A x \in S : \A y \in before[x] : y \in S /\ y < x
    BY <1>1
  <2>2. \A x \in S : \A y \in before[x] : before[y] \subseteq before[x]
    <3> TAKE x \in S
    <3> TAKE y \in before[x]
    <3>1. y \in S /\ y < x /\ y \in Int /\ x \in Int
      BY <1>1, <2>1
    <3>2. ASSUME NEW z \in before[y] PROVE z \in before[x]
      <4>1. z \in S /\ z < y /\ z \in Int
        BY <1>1, <2>1, <3>1
      <4> QED
        BY <1>1, <3>1, <4>1
    <3> QED
      BY <3>2
  <2>3. \A x, y \in S : x # y => x \in before[y] \/ y \in before[x]
    BY <1>1
  <2>4. \A x \in S : x \notin before[x]
    BY <1>1
  <2> QED
    BY <1>1, <2>2, <2>3, <2>4 DEF Orders
<1>4. Ascending(S) = r
  BY DEF Ascending, before
<1>5. /\ n \in Nat /\ r \in [1..n -> S]
      /\ \A x \in S : Cardinality(before[x]) + 1 \in 1..n /\ r[Cardinality(before[x]) + 1] = x
      /\ \A k, l \in 1..n : k < l <=> r[k] \in before[r[l]]
  BY <1>3, RankedLists
<1> HIDE DEF n, r
<1>6. \A k, l \in 1..n : k < l <=> r[k] < r[l]
  BY <1>2, <1>5
<1>7. \A x \in S : \E k \in 1..n : r[k] = x
  BY <1>5
<1> QED
  BY <1>4, <1>5, <1>6, <1>7 DEF n

\* So a set of integers that is not empty and finite has a least element.
LEMMA LeastElement ==
  ASSUME NEW S \in SUBSET Int, IsFiniteSet(S), S # {}
  PROVE  \E x \in S : \A y \in S : x <= y
<1> DEFINE n == Cardinality(S)
           a == Ascending(S)
<1>1. /\ n \in Nat /\ a \in [1..n -> S]
      /\ \A x \in S : \E k \in 1..n : a[k] = x
      /\ \A k, l \in 1..n : k < l <=> a[k] < a[l]
  BY AscendingLists
<1> HIDE DEF n, a
<1>2. PICK z \in S : TRUE
  OBVIOUS
<1>3. 1 \in 1..n
  BY <1>1, <1>2
<1>4. a[1] \in S /\ \A y \in S : a[1] <= y
  <2>1. a[1] \in S
    BY <1>1, <1>3
  <2>2. ASSUME NEW y \in S PROVE a[1] <= y
    <3>1. PICK k \in 1..n : a[k] = y
      BY <1>1
    <3>2. k = 1 \/ 1 < k
      OBVIOUS
    <3>3. 1 < k => a[1] < a[k]
      BY <1>1, <1>3
    <3>4. a[1] \in Int /\ y \in Int
      BY <2>1
    <3> QED
      BY <3>1, <3>2, <3>3, <3>4
  <2> QED
    BY <2>1, <2>2
<1> QED
  BY <1>4

\* What is picked from a sequence are its elements at the positions, in order.
LEMMA PickedElements ==
  ASSUME NEW A, NEW s \in Seq(A), NEW P \in SUBSET DOMAIN s
  PROVE  /\ Picked(s, P) \in Seq(A) /\ Len(Picked(s, P)) = Cardinality(P)
         /\ IsFiniteSet(P) /\ Cardinality(P) \in Nat
         /\ \A k \in DOMAIN Picked(s, P) : \E i \in P : Picked(s, P)[k] = s[i]
         /\ \A i \in P : \E k \in DOMAIN Picked(s, P) : Picked(s, P)[k] = s[i]
<1>1. IsFiniteSet(P) /\ P \in SUBSET Int
  <2>1. Len(s) \in Nat /\ DOMAIN s = 1..Len(s)
    OBVIOUS
  <2>2. IsFiniteSet(1..Len(s))
    BY <2>1, FS_Interval
  <2> QED
    BY <2>1, <2>2, FS_Subset
<1> DEFINE n == Cardinality(P)
           a == Ascending(P)
<1>2. /\ n \in Nat /\ a \in [1..n -> P]
      /\ \A x \in P : \E k \in 1..n : a[k] = x
  BY <1>1, AscendingLists
<1>3. Picked(s, P) = [k \in 1..n |-> s[a[k]]]
  BY DEF Picked
<1> HIDE DEF n, a
<1>4. \A k \in 1..n : a[k] \in P /\ s[a[k]] \in A
  BY <1>2
<1>5. Picked(s, P) \in Seq(A) /\ Len(Picked(s, P)) = n
  BY <1>2, <1>3, <1>4
<1> QED
  BY <1>1, <1>2, <1>3, <1>4, <1>5 DEF n

-----------------------------------------------------------------------------

(* Sums over finite sets. *)

\* The step of the library's recursion: it takes out a chosen element.
AddChosen(f, g, s) == LET x == CHOOSE y \in s : TRUE IN f[x] + g[s \ {x}]

\* g tabulates the sums of f over the subsets of S.
SumTable(f, g, S) == g = [s \in SUBSET S |-> IF s = {} THEN 0 ELSE AddChosen(f, g, s)]

\* The library's sum is the entry of such a table.
LEMMA SumIsTable ==
  ASSUME NEW f, NEW S
  PROVE  SumFunctionOnSet(f, S) = (CHOOSE g : SumTable(f, g, S))[S]
BY DEF SumFunctionOnSet, FoldFunctionOnSet, MapThenFoldSet, SumTable, AddChosen

\* Induction on the size of a finite set: the sizes n for which all the subsets
\* of S with at most n elements are good.
LEMMA SizeInduction ==
  ASSUME NEW S, IsFiniteSet(S), NEW G \in SUBSET (SUBSET S), {} \in G,
         \A s \in SUBSET S : s # {} /\ (\A x \in s : s \ {x} \in G) => s \in G
  PROVE  S \in G
<1> DEFINE N == {n \in Nat : \A s \in SUBSET S : Cardinality(s) <= n => s \in G}
<1>1. \A s \in SUBSET S : IsFiniteSet(s) /\ Cardinality(s) \in Nat
  BY FS_Subset, FS_CardinalityType
<1>2. 0 \in N
  <2>1. \A s \in SUBSET S : Cardinality(s) <= 0 => s = {}
    BY <1>1, FS_EmptySet
  <2> QED
    BY <2>1
<1>3. ASSUME NEW n \in N PROVE n + 1 \in N
  <2>1. ASSUME NEW s \in SUBSET S, Cardinality(s) <= n + 1, s # {} PROVE s \in G
    <3>1. ASSUME NEW x \in s PROVE s \ {x} \in G
      <4>1. Cardinality(s \ {x}) = Cardinality(s) - 1
        BY <1>1, FS_RemoveElement
      <4>2. Cardinality(s \ {x}) <= n
        BY <1>1, <2>1, <4>1
      <4> QED
        BY <4>2
    <3> QED
      BY <2>1, <3>1
  <2>2. \A s \in SUBSET S : Cardinality(s) <= n + 1 => s \in G
    BY <2>1
  <2>3. n + 1 \in Nat
    OBVIOUS
  <2> QED
    BY <2>2, <2>3
<1>4. N = Nat
  <2>1. N \in SUBSET Nat
    OBVIOUS
  <2> HIDE DEF N
  <2> QED
    BY <1>2, <1>3, <2>1, SetInduction
<1> QED
  BY <1>1, <1>4

\* The element taken out is one of the set.
LEMMA Chosen1 == ASSUME NEW s, s # {} PROVE (CHOOSE y \in s : TRUE) \in s
OBVIOUS

\* The step of a table looks one element deeper.
LEMMA ChosenStep ==
  ASSUME NEW f, NEW s, s # {}, NEW g, NEW h,
         \A x \in s : g[s \ {x}] = h[s \ {x}]
  PROVE  AddChosen(f, g, s) = AddChosen(f, h, s)
BY Chosen1 DEF AddChosen

\* Every finite set has such a table.
LEMMA SumTableExists ==
  ASSUME NEW S, IsFiniteSet(S), NEW f
  PROVE  \E g : SumTable(f, g, S)
<1> DEFINE N == {n \in Nat : \E g : \A s \in SUBSET S : Cardinality(s) <= n =>
                   g[s] = IF s = {} THEN 0 ELSE AddChosen(f, g, s)}
<1>1. \A s \in SUBSET S : IsFiniteSet(s) /\ Cardinality(s) \in Nat
  BY FS_Subset, FS_CardinalityType
<1>2. 0 \in N
  <2> DEFINE g == [s \in SUBSET S |-> 0]
  <2>1. \A s \in SUBSET S : Cardinality(s) <= 0 => s = {}
    BY <1>1, FS_EmptySet
  <2>2. \A s \in SUBSET S : Cardinality(s) <= 0 => g[s] = IF s = {} THEN 0 ELSE AddChosen(f, g, s)
    BY <2>1
  <2> QED
    BY <2>2
<1>3. ASSUME NEW n \in N PROVE n + 1 \in N
  <2>1. PICK g : \A s \in SUBSET S : Cardinality(s) <= n =>
                   g[s] = IF s = {} THEN 0 ELSE AddChosen(f, g, s)
    OBVIOUS
  <2> DEFINE h == [s \in SUBSET S |-> IF Cardinality(s) <= n THEN g[s] ELSE AddChosen(f, g, s)]
  <2>2. ASSUME NEW s \in SUBSET S, Cardinality(s) <= n + 1
        PROVE  h[s] = IF s = {} THEN 0 ELSE AddChosen(f, h, s)
    <3>1. CASE s = {}
      <4>1. Cardinality(s) <= n
        BY <3>1, FS_EmptySet
      <4> QED
        BY <2>1, <3>1, <4>1
    <3>2. CASE s # {}
      <4>1. \A x \in s : g[s \ {x}] = h[s \ {x}]
        <5> TAKE x \in s
        <5>1. Cardinality(s \ {x}) = Cardinality(s) - 1
          BY <1>1, FS_RemoveElement
        <5>2. s \ {x} \in SUBSET S /\ Cardinality(s \ {x}) <= n
          BY <1>1, <2>2, <5>1
        <5> QED
          BY <5>2
      <4> HIDE DEF h
      <4>2. AddChosen(f, g, s) = AddChosen(f, h, s)
        BY <3>2, <4>1, ChosenStep
      <4>3. h[s] = AddChosen(f, g, s)
        BY <2>1, <3>2 DEF h
      <4> QED
        BY <3>2, <4>2, <4>3
    <3> QED
      BY <3>1, <3>2
  <2>3. n + 1 \in Nat
    OBVIOUS
  <2> HIDE DEF h
  <2>4. \E k : \A s \in SUBSET S : Cardinality(s) <= n + 1 =>
                   k[s] = IF s = {} THEN 0 ELSE AddChosen(f, k, s)
    BY <2>2
  <2> QED
    BY <2>3, <2>4
<1>4. N = Nat
  <2>1. N \in SUBSET Nat
    OBVIOUS
  <2> HIDE DEF N
  <2> QED
    BY <1>2, <1>3, <2>1, SetInduction
<1>5. Cardinality(S) \in N
  BY <1>1, <1>4
<1>6. PICK g : \A s \in SUBSET S : Cardinality(s) <= Cardinality(S) =>
                 g[s] = IF s = {} THEN 0 ELSE AddChosen(f, g, s)
  BY <1>5
<1> DEFINE h == [s \in SUBSET S |-> g[s]]
<1>7. ASSUME NEW s \in SUBSET S
      PROVE  h[s] = IF s = {} THEN 0 ELSE AddChosen(f, h, s)
  <2>1. Cardinality(s) <= Cardinality(S)
    BY FS_Subset
  <2>2. \A x \in s : g[s \ {x}] = h[s \ {x}]
    OBVIOUS
  <2>3. h[s] = g[s]
    OBVIOUS
  <2> HIDE DEF h
  <2>4. s # {} => AddChosen(f, g, s) = AddChosen(f, h, s)
    BY <2>2, ChosenStep
  <2> QED
    BY <1>6, <2>1, <2>3, <2>4
<1>8. h = [s \in SUBSET S |-> IF s = {} THEN 0 ELSE AddChosen(f, h, s)]
  <2>1. h = [s \in SUBSET S |-> h[s]]
    OBVIOUS
  <2> HIDE DEF h
  <2> QED
    BY <1>7, <2>1
<1> QED
  BY <1>8 DEF SumTable

\* An entry of a table is given by the entry of one element less.
LEMMA TableStep ==
  ASSUME NEW f, NEW g, NEW S, SumTable(f, g, S), NEW s \in SUBSET S
  PROVE  g[s] = IF s = {} THEN 0 ELSE AddChosen(f, g, s)
<1>1. g = [r \in SUBSET S |-> IF r = {} THEN 0 ELSE AddChosen(f, g, r)]
  BY DEF SumTable
<1> HIDE DEF AddChosen
<1> QED
  BY <1>1

\* Two tables agree where their functions do.
LEMMA TablesAgree ==
  ASSUME NEW f, NEW g, NEW S, NEW h, NEW k, NEW T, SumTable(f, g, S), SumTable(h, k, T),
         NEW U, IsFiniteSet(U), U \subseteq S, U \subseteq T, \A x \in U : f[x] = h[x]
  PROVE  g[U] = k[U]
<1> DEFINE G == {s \in SUBSET U : g[s] = k[s]}
<1>1. ASSUME NEW s \in SUBSET U
      PROVE  /\ g[s] = IF s = {} THEN 0 ELSE AddChosen(f, g, s)
             /\ k[s] = IF s = {} THEN 0 ELSE AddChosen(h, k, s)
  BY TableStep
<1>2. {} \in G
  BY <1>1
<1>3. ASSUME NEW s \in SUBSET U, s # {}, \A x \in s : s \ {x} \in G PROVE s \in G
  <2>1. PICK x \in s : x = CHOOSE y \in s : TRUE
    BY <1>3, Chosen1
  <2>2. AddChosen(f, g, s) = f[x] + g[s \ {x}] /\ AddChosen(h, k, s) = h[x] + k[s \ {x}]
    BY <2>1 DEF AddChosen
  <2>3. g[s \ {x}] = k[s \ {x}] /\ f[x] = h[x]
    BY <1>3
  <2> QED
    BY <1>1, <1>3, <2>2, <2>3
<1>4. G \in SUBSET (SUBSET U)
  OBVIOUS
<1> HIDE DEF G
<1>5. U \in G
  BY <1>2, <1>3, <1>4, SizeInduction
<1> QED
  BY <1>5 DEF G

\* The sum of a finite set is that of its table, and every table will do.
LEMMA SumByTable ==
  ASSUME NEW f, NEW S, IsFiniteSet(S), NEW g, SumTable(f, g, S), NEW s \in SUBSET S
  PROVE  SumFunctionOnSet(f, s) = g[s]
<1>1. IsFiniteSet(s)
  BY FS_Subset
<1> DEFINE k == CHOOSE h : SumTable(f, h, s)
<1>2. SumTable(f, k, s) /\ SumFunctionOnSet(f, s) = k[s]
  BY <1>1, SumTableExists, SumIsTable
<1> HIDE DEF k
<1> QED
  BY <1>1, <1>2, TablesAgree

\* Sums of equal functions are equal.
LEMMA SumSame ==
  ASSUME NEW S, IsFiniteSet(S), NEW f, NEW h, \A x \in S : f[x] = h[x]
  PROVE  SumFunctionOnSet(f, S) = SumFunctionOnSet(h, S)
<1>1. PICK g : SumTable(f, g, S)
  BY SumTableExists
<1>2. PICK k : SumTable(h, k, S)
  BY SumTableExists
<1>3. g[S] = k[S]
  BY <1>1, <1>2, TablesAgree
<1> QED
  BY <1>1, <1>2, <1>3, SumByTable

\* The sum over no elements.
LEMMA SumEmpty == ASSUME NEW f PROVE SumFunctionOnSet(f, {}) = 0
<1>1. IsFiniteSet({})
  BY FS_EmptySet
<1>2. PICK g : SumTable(f, g, {})
  BY <1>1, SumTableExists
<1>3. g[{}] = 0
  BY <1>2, TableStep
<1> QED
  BY <1>1, <1>2, <1>3, SumByTable

\* The entries for naturals are naturals.
LEMMA TableNat ==
  ASSUME NEW S, IsFiniteSet(S), NEW f, \A x \in S : f[x] \in Nat, NEW g, SumTable(f, g, S)
  PROVE  \A s \in SUBSET S : g[s] \in Nat
<1> SUFFICES ASSUME NEW u \in SUBSET S PROVE g[u] \in Nat
  OBVIOUS
<1> DEFINE G == {s \in SUBSET u : g[s] \in Nat}
<1>1. {} \in G
  BY TableStep
<1>2. ASSUME NEW s \in SUBSET u, s # {}, \A x \in s : s \ {x} \in G PROVE s \in G
  <2>1. PICK x \in s : x = CHOOSE y \in s : TRUE
    BY <1>2, Chosen1
  <2>2. s \in SUBSET S /\ g[s] = AddChosen(f, g, s)
    BY <1>2, TableStep
  <2>3. g[s] = f[x] + g[s \ {x}]
    BY <2>1, <2>2 DEF AddChosen
  <2> QED
    BY <1>2, <2>3
<1>3. IsFiniteSet(u) /\ G \in SUBSET (SUBSET u)
  BY FS_Subset
<1> HIDE DEF G
<1>4. u \in G
  BY <1>1, <1>2, <1>3, SizeInduction
<1> QED
  BY <1>4 DEF G

\* A sum of naturals is a natural, and any element can be taken out of it.
LEMMA SumTakesOut ==
  ASSUME NEW S, IsFiniteSet(S), NEW f, \A x \in S : f[x] \in Nat
  PROVE  /\ SumFunctionOnSet(f, S) \in Nat
         /\ \A y \in S : SumFunctionOnSet(f, S) = f[y] + SumFunctionOnSet(f, S \ {y})
<1>1. PICK g : SumTable(f, g, S)
  BY SumTableExists
<1>0. \A s \in SUBSET S : g[s] \in Nat
  BY <1>1, TableNat
<1> DEFINE G == {s \in SUBSET S : \A y \in s : g[s] = f[y] + g[s \ {y}]}
<1>2. {} \in G
  OBVIOUS
<1>3. ASSUME NEW s \in SUBSET S, s # {}, \A x \in s : s \ {x} \in G PROVE s \in G
  <2>1. PICK x \in s : x = CHOOSE y \in s : TRUE
    BY <1>3, Chosen1
  <2>2. g[s] = AddChosen(f, g, s)
    BY <1>1, <1>3, TableStep
  <2>3. g[s] = f[x] + g[s \ {x}]
    BY <2>1, <2>2 DEF AddChosen
  <2>4. ASSUME NEW y \in s, y # x PROVE g[s] = f[y] + g[s \ {y}]
    <3> DEFINE r == (s \ {x}) \ {y}
    <3>1. r = (s \ {y}) \ {x}
      OBVIOUS
    <3>2. s \ {x} \in G /\ s \ {y} \in G /\ y \in s \ {x} /\ x \in s \ {y}
      BY <1>3, <2>4
    <3>3. g[s \ {x}] = f[y] + g[r]
      BY <3>2
    <3>4. g[s \ {y}] = f[x] + g[r]
      BY <3>1, <3>2
    <3>5. f[x] \in Nat /\ f[y] \in Nat
      OBVIOUS
    <3>6. g[r] \in Nat
      <4>1. r \in SUBSET S
        OBVIOUS
      <4> HIDE DEF r
      <4> QED
        BY <1>0, <4>1
    <3> HIDE DEF r, G
    <3> QED
      BY <2>3, <3>3, <3>4, <3>5, <3>6
  <2> QED
    BY <2>3, <2>4
<1>4. G \in SUBSET (SUBSET S)
  OBVIOUS
<1> HIDE DEF G
<1>5. S \in G
  BY <1>2, <1>3, <1>4, SizeInduction
<1>6. g[S] \in Nat /\ \A y \in S : g[S] = f[y] + g[S \ {y}]
  BY <1>0, <1>5 DEF G
<1>7. SumFunctionOnSet(f, S) = g[S]
  BY <1>1, SumByTable
<1>8. \A y \in S : SumFunctionOnSet(f, S \ {y}) = g[S \ {y}]
  <2> TAKE y \in S
  <2>1. S \ {y} \in SUBSET S
    OBVIOUS
  <2> QED
    BY <1>1, <2>1, SumByTable
<1> QED
  BY <1>6, <1>7, <1>8

\* A sum over fewer elements is no greater.
LEMMA SumOfFewer ==
  ASSUME NEW S, IsFiniteSet(S), NEW f, \A x \in S : f[x] \in Nat, NEW T \in SUBSET S
  PROVE  SumFunctionOnSet(f, T) \in Nat /\ SumFunctionOnSet(f, T) <= SumFunctionOnSet(f, S)
<1>1. IsFiniteSet(T) /\ \A s \in SUBSET S : IsFiniteSet(s)
  BY FS_Subset
<1>2. \A s \in SUBSET S : SumFunctionOnSet(f, s) \in Nat
  <2> TAKE s \in SUBSET S
  <2>1. IsFiniteSet(s) /\ \A x \in s : f[x] \in Nat
    BY <1>1
  <2> QED
    BY <2>1, SumTakesOut
<1> DEFINE R == S \ T
           G == {s \in SUBSET R : SumFunctionOnSet(f, T) <= SumFunctionOnSet(f, T \cup s)}
<1>3. {} \in G
  <2>1. T \cup {} = T
    OBVIOUS
  <2> QED
    BY <1>2, <2>1
<1>4. ASSUME NEW s \in SUBSET R, s # {}, \A x \in s : s \ {x} \in G PROVE s \in G
  <2>1. PICK x \in s : TRUE
    BY <1>4
  <2>2. (T \cup s) \ {x} = T \cup (s \ {x}) /\ T \cup s \in SUBSET S /\ x \in T \cup s
    BY <2>1
  <2>3. IsFiniteSet(T \cup s) /\ \A y \in T \cup s : f[y] \in Nat
    BY <1>1, <2>2
  <2>4. SumFunctionOnSet(f, T \cup s) = f[x] + SumFunctionOnSet(f, (T \cup s) \ {x})
    BY <2>2, <2>3, SumTakesOut
  <2>5. SumFunctionOnSet(f, T) <= SumFunctionOnSet(f, T \cup (s \ {x}))
    BY <1>4
  <2>6. f[x] \in Nat
    BY <2>2
  <2>7. SumFunctionOnSet(f, T \cup (s \ {x})) \in Nat /\ SumFunctionOnSet(f, T) \in Nat
    BY <1>2
  <2>8. SumFunctionOnSet(f, T) <= SumFunctionOnSet(f, T \cup s)
    BY <2>2, <2>4, <2>5, <2>6, <2>7
  <2> QED
    BY <2>8
<1>5. IsFiniteSet(R) /\ G \in SUBSET (SUBSET R)
  BY <1>1
<1>6. R \in G
  <2> HIDE DEF G, R
  <2> QED
    BY <1>3, <1>4, <1>5, SizeInduction
<1>7. T \cup R = S
  OBVIOUS
<1> QED
  BY <1>2, <1>6, <1>7

\* One summand is replaced.
LEMMA SumReplaces ==
  ASSUME NEW S, IsFiniteSet(S), NEW f, NEW h, NEW y \in S,
         \A x \in S : f[x] \in Nat /\ h[x] \in Nat, \A x \in S \ {y} : h[x] = f[x]
  PROVE  SumFunctionOnSet(h, S) + f[y] = SumFunctionOnSet(f, S) + h[y]
<1>1. SumFunctionOnSet(f, S) = f[y] + SumFunctionOnSet(f, S \ {y})
  BY SumTakesOut
<1>2. SumFunctionOnSet(h, S) = h[y] + SumFunctionOnSet(h, S \ {y})
  BY SumTakesOut
<1>3. IsFiniteSet(S \ {y})
  BY FS_Subset
<1>4. SumFunctionOnSet(h, S \ {y}) = SumFunctionOnSet(f, S \ {y})
  BY <1>3, SumSame
<1>5. SumFunctionOnSet(f, S \ {y}) \in Nat
  BY <1>3, SumTakesOut
<1>6. f[y] \in Nat /\ h[y] \in Nat
  OBVIOUS
<1> QED
  BY <1>1, <1>2, <1>4, <1>5, <1>6

\* A sum is bounded summand by summand.
LEMMA SumBounded ==
  ASSUME NEW S, IsFiniteSet(S), NEW f, NEW h,
         \A x \in S : f[x] \in Nat /\ h[x] \in Nat /\ f[x] <= h[x]
  PROVE  SumFunctionOnSet(f, S) <= SumFunctionOnSet(h, S)
<1>1. \A s \in SUBSET S : IsFiniteSet(s)
  BY FS_Subset
<1> DEFINE G == {s \in SUBSET S : SumFunctionOnSet(f, s) <= SumFunctionOnSet(h, s)}
<1>2. {} \in G
  BY SumEmpty
<1>3. ASSUME NEW s \in SUBSET S, s # {}, \A x \in s : s \ {x} \in G PROVE s \in G
  <2>1. PICK x \in s : TRUE
    BY <1>3
  <2>2. SumFunctionOnSet(f, s) = f[x] + SumFunctionOnSet(f, s \ {x})
    BY <1>1, SumTakesOut
  <2>3. SumFunctionOnSet(h, s) = h[x] + SumFunctionOnSet(h, s \ {x})
    BY <1>1, SumTakesOut
  <2>4. SumFunctionOnSet(f, s \ {x}) <= SumFunctionOnSet(h, s \ {x})
    BY <1>3
  <2>5. SumFunctionOnSet(f, s \ {x}) \in Nat /\ SumFunctionOnSet(h, s \ {x}) \in Nat
    <3>1. IsFiniteSet(s \ {x}) /\ \A z \in s \ {x} : f[z] \in Nat /\ h[z] \in Nat
      BY <1>1
    <3> QED
      BY <3>1, SumTakesOut
  <2>6. f[x] \in Nat /\ h[x] \in Nat /\ f[x] <= h[x]
    OBVIOUS
  <2>7. SumFunctionOnSet(f, s) <= SumFunctionOnSet(h, s)
    BY <2>2, <2>3, <2>4, <2>5, <2>6
  <2> QED
    BY <2>7
<1>4. G \in SUBSET (SUBSET S)
  OBVIOUS
<1> HIDE DEF G
<1>5. S \in G
  BY <1>2, <1>3, <1>4, SizeInduction
<1> QED
  BY <1>5 DEF G

\* A finite nonempty set of integers has a greatest element.
LEMMA GreatestElement ==
  ASSUME NEW S \in SUBSET Int, IsFiniteSet(S), S # {}
  PROVE  \E m \in S : \A x \in S : x <= m
<1> DEFINE G == {s \in SUBSET S : s = {} \/ \E m \in s : \A x \in s : x <= m}
<1>1. {} \in G
  OBVIOUS
<1>2. ASSUME NEW s \in SUBSET S, s # {}, \A x \in s : s \ {x} \in G PROVE s \in G
  <2>1. PICK y \in s : TRUE
    BY <1>2
  <2>2. s \ {y} \in G
    BY <1>2
  <2>3. CASE s \ {y} = {}
    <3>1. \A x \in s : x <= y
      BY <2>3
    <3> QED
      BY <3>1
  <2>4. CASE s \ {y} # {}
    <3>1. PICK m \in s \ {y} : \A x \in s \ {y} : x <= m
      BY <2>2, <2>4
    <3>2. (\A x \in s : x <= m) \/ (\A x \in s : x <= y)
      BY <3>1
    <3> QED
      BY <3>1, <3>2
  <2> QED
    BY <2>3, <2>4
<1>3. G \in SUBSET (SUBSET S)
  OBVIOUS
<1> HIDE DEF G
<1>4. S \in G
  BY <1>1, <1>2, <1>3, SizeInduction
<1> QED
  BY <1>4 DEF G

\* A sum of n's is n times the number of its summands, for the n used here.
LEMMA SumOfConstant ==
  ASSUME NEW S, IsFiniteSet(S), NEW f, NEW n \in {0, 1, 2}, \A x \in S : f[x] = n
  PROVE  SumFunctionOnSet(f, S) = n * Cardinality(S)
<1> DEFINE G == {s \in SUBSET S : SumFunctionOnSet(f, s) = n * Cardinality(s)}
<1>1. {} \in G
  BY SumEmpty, FS_EmptySet
<1>2. ASSUME NEW s \in SUBSET S, s # {}, \A x \in s : s \ {x} \in G PROVE s \in G
  <2>1. IsFiniteSet(s) /\ Cardinality(s) \in Nat
    BY FS_Subset, FS_CardinalityType
  <2>2. PICK x \in s : TRUE
    BY <1>2
  <2>3. Cardinality(s \ {x}) = Cardinality(s) - 1
    BY <2>1, FS_RemoveElement
  <2>4. SumFunctionOnSet(f, s) = f[x] + SumFunctionOnSet(f, s \ {x})
    BY <2>1, SumTakesOut
  <2>5. SumFunctionOnSet(f, s \ {x}) = n * Cardinality(s \ {x})
    BY <1>2
  <2>6. SumFunctionOnSet(f, s) = n * Cardinality(s)
    BY <2>1, <2>3, <2>4, <2>5
  <2> QED
    BY <2>6
<1>3. G \in SUBSET (SUBSET S)
  OBVIOUS
<1> HIDE DEF G
<1>4. S \in G
  BY <1>1, <1>2, <1>3, SizeInduction
<1> QED
  BY <1>4 DEF G

\* What is left and what is held are numbers.
=============================================================================
