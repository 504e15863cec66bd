--------------------------- MODULE KeyPoolProofs ---------------------------
(***************************************************************************)
(* KeyPool for any number of keys and searches: no request with a dead     *)
(* key, no search that gives up too early, no untrue permanent error.      *)
(*                                                                         *)
(* The argument: only the search that holds a key's lock can disable the   *)
(* key, and it looked at the breaker when it took the lock.  So a key is   *)
(* disabled once, its reason is never overwritten, and what a search has   *)
(* seen stays true of the pool.                                            *)
(***************************************************************************)
EXTENDS KeyPool, TLAPS

Reasons == {"quota", "auth"}

Typed ==
  /\ disabled \in [Keys -> Reasons \cup {""}]
  /\ pc \in [Searches -> Waiting \cup {"idle", "ended"}]
  /\ key \in [Searches -> Keys]
  /\ tried \in [Searches -> SUBSET Keys]
  /\ seen \in [Searches -> SUBSET (Reasons \cup {"transient"})]
  /\ outcome \in [Searches -> Failures \cup {"", "found", "cancelled"}]

\* The lock of a key has one holder.
OneHolder ==
  \A r, s \in Searches :
    pc[r] \in Holding /\ pc[s] \in Holding /\ key[r] = key[s] => r = s

\* What a search has seen of the breaker is true.
SeenIsTrue ==
  \A s \in Searches : \A why \in Reasons \cap seen[s] : \E k \in Keys : disabled[k] = why

PInv ==
  /\ Typed /\ OneHolder /\ SeenIsTrue
  /\ NoCallWithDeadKey /\ GivesUpLast /\ PermanentErrorsAreTrue

LEMMA ZeroIsKey == 0 \in Keys
BY PoolAssumption DEF Keys

LEMMA InitPInv == Init => PInv
<1> SUFFICES ASSUME Init PROVE PInv
  OBVIOUS
<1>1. Typed
  BY ZeroIsKey DEF Init, Typed, Waiting, Reasons
<1>2. OneHolder /\ NoCallWithDeadKey
  BY DEF Init, OneHolder, NoCallWithDeadKey, Holding
<1>3. SeenIsTrue
  BY DEF Init, SeenIsTrue
<1>4. GivesUpLast /\ PermanentErrorsAreTrue
  BY DEF Init, GivesUpLast, PermanentErrorsAreTrue, Failures
<1> QED
  BY <1>1, <1>2, <1>3, <1>4 DEF PInv
-----------------------------------------------------------------------------
(* The pool as other searches see it. *)

\* A step that disables no key, or the key that its own search holds, keeps
\* every reason.
ReasonsKept ==
  /\ disabled' \in [Keys -> Reasons \cup {""}]
  /\ \A k \in Keys : disabled[k] # "" => disabled'[k] = disabled[k]

\* The parts of the invariant about searches that do not move.
LEMMA OthersKeep ==
  ASSUME PInv, ReasonsKept, NEW r \in Searches,
         seen'[r] = seen[r], tried'[r] = tried[r], outcome'[r] = outcome[r]
  PROVE  /\ \A why \in Reasons \cap seen'[r] : \E k \in Keys : disabled'[k] = why
         /\ outcome'[r] \in Failures => \A k \in Keys : disabled'[k] = "" => k \in tried'[r]
         /\ outcome'[r] \in Reasons =>
              /\ \A k \in Keys : disabled'[k] # ""
              /\ \E k \in Keys : disabled'[k] = outcome'[r]
<1>1. \A why \in Reasons \cap seen'[r] : \E k \in Keys : disabled'[k] = why
  <2> SUFFICES ASSUME NEW why \in Reasons \cap seen[r]
               PROVE  \E k \in Keys : disabled'[k] = why
    OBVIOUS
  <2>1. PICK k \in Keys : disabled[k] = why
    BY DEF PInv, SeenIsTrue
  <2> QED
    BY <2>1 DEF ReasonsKept, Reasons
<1>2. outcome'[r] \in Failures => \A k \in Keys : disabled'[k] = "" => k \in tried'[r]
  BY DEF PInv, GivesUpLast, ReasonsKept
<1>3. outcome'[r] \in Reasons =>
        /\ \A k \in Keys : disabled'[k] # ""
        /\ \E k \in Keys : disabled'[k] = outcome'[r]
  <2> SUFFICES ASSUME outcome[r] \in Reasons
               PROVE  /\ \A k \in Keys : disabled'[k] # ""
                      /\ \E k \in Keys : disabled'[k] = outcome[r]
    OBVIOUS
  <2>1. \A k \in Keys : disabled[k] # ""
    BY DEF PInv, PermanentErrorsAreTrue, Reasons
  <2>2. PICK k \in Keys : disabled[k] = outcome[r]
    BY DEF PInv, PermanentErrorsAreTrue, Reasons
  <2> QED
    BY <2>1, <2>2 DEF ReasonsKept
<1> QED
  BY <1>1, <1>2, <1>3
-----------------------------------------------------------------------------
(* The three ways a step moves a search. *)

\* The search ends with an outcome that is true.
LEMMA EndStep ==
  ASSUME PInv, ReasonsKept, NEW s \in Searches,
         NEW how \in Failures \cup {"found", "cancelled"},
         End(s, how), tried' = tried,
         \A r \in Searches \ {s} : pc[r] \in Holding => disabled'[key[r]] = "",
         how \in Failures => \A k \in Keys : disabled'[k] = "" => k \in tried[s],
         how \in Reasons => /\ \A k \in Keys : disabled'[k] # ""
                            /\ \E k \in Keys : disabled'[k] = how
  PROVE  PInv'
<1> USE DEF End
<1>1. Typed'
  <2>1. pc' \in [Searches -> Waiting \cup {"idle", "ended"}]
    BY DEF PInv, Typed
  <2>2. key' \in [Searches -> Keys]
    BY ZeroIsKey DEF PInv, Typed
  <2>3. outcome' \in [Searches -> Failures \cup {"", "found", "cancelled"}]
    BY DEF PInv, Typed
  <2>4. seen' \in [Searches -> SUBSET (Reasons \cup {"transient"})]
    BY DEF PInv, Typed
  <2> QED
    BY <2>1, <2>2, <2>3, <2>4 DEF PInv, Typed, ReasonsKept
<1>2. /\ \A r \in Searches \ {s} : pc'[r] = pc[r] /\ key'[r] = key[r] /\ seen'[r] = seen[r]
                                     /\ tried'[r] = tried[r] /\ outcome'[r] = outcome[r]
      /\ pc'[s] = "ended" /\ outcome'[s] = how /\ seen'[s] = {} /\ tried'[s] = tried[s]
  BY DEF PInv, Typed
<1>3. \A r \in Searches : pc'[r] \in Holding => r # s /\ pc[r] \in Holding /\ key'[r] = key[r]
  BY <1>2 DEF Holding
<1>4. OneHolder' /\ NoCallWithDeadKey'
  BY <1>3 DEF PInv, OneHolder, NoCallWithDeadKey
<1>5. SeenIsTrue' /\ GivesUpLast' /\ PermanentErrorsAreTrue'
  BY <1>2, OthersKeep DEF SeenIsTrue, GivesUpLast, PermanentErrorsAreTrue, Reasons
<1> QED
  BY <1>1, <1>4, <1>5 DEF PInv

\* The search goes on with another key, outside every lock.
LEMMA NextKeyStep ==
  ASSUME PInv, ReasonsKept, NEW s \in Searches,
         NEW saw \in SUBSET (Reasons \cup {"transient"}),
         NextKey(s, saw),
         \A r \in Searches \ {s} : pc[r] \in Holding => disabled'[key[r]] = "",
         \A why \in Reasons \cap saw : \E k \in Keys : disabled'[k] = why
  PROVE  PInv'
<1>1. CASE Usable(s) = {}
  <2>1. End(s, Failure(saw)) /\ tried' = tried
    BY <1>1 DEF NextKey
  <2>2. /\ Failure(saw) \in Failures
        /\ Failure(saw) \in Reasons =>
             Failure(saw) \in saw /\ \A k \in Keys : disabled'[k] # ""
    BY DEF Failure, Failures, Reasons
  <2>3. \A k \in Keys : disabled'[k] = "" => k \in tried[s]
    BY <1>1 DEF Usable
  <2> QED
    BY <2>1, <2>2, <2>3, EndStep
<1>2. CASE Usable(s) # {}
  <2>1. PICK k \in Usable(s) :
          /\ key' = [key EXCEPT ![s] = k]
          /\ tried' = [tried EXCEPT ![s] = @ \cup {k}]
          /\ pc' = [pc EXCEPT ![s] = "key"]
          /\ seen' = [seen EXCEPT ![s] = saw]
          /\ outcome' = outcome
    BY <1>2 DEF NextKey
  <2>2. k \in Keys
    BY DEF Usable
  <2>3. Typed'
    <3>1. pc' \in [Searches -> Waiting \cup {"idle", "ended"}]
      BY <2>1 DEF PInv, Typed, Waiting
    <3>2. key' \in [Searches -> Keys]
      BY <2>1, <2>2 DEF PInv, Typed
    <3>4. tried' \in [Searches -> SUBSET Keys]
      BY <2>1, <2>2 DEF PInv, Typed
    <3>5. seen' \in [Searches -> SUBSET (Reasons \cup {"transient"})]
      BY <2>1 DEF PInv, Typed
    <3> QED
      BY <2>1, <3>1, <3>2, <3>4, <3>5 DEF PInv, Typed, ReasonsKept
  <2>4. /\ \A r \in Searches \ {s} : pc'[r] = pc[r] /\ key'[r] = key[r] /\ seen'[r] = seen[r]
                                       /\ tried'[r] = tried[r] /\ outcome'[r] = outcome[r]
        /\ pc'[s] = "key" /\ outcome'[s] = outcome[s] /\ seen'[s] = saw
        /\ tried'[s] = tried[s] \cup {k}
    BY <2>1 DEF PInv, Typed
  <2>5. \A r \in Searches : pc'[r] \in Holding => r # s /\ pc[r] \in Holding /\ key'[r] = key[r]
    BY <2>4 DEF Holding
  <2>6. OneHolder' /\ NoCallWithDeadKey'
    BY <2>5 DEF PInv, OneHolder, NoCallWithDeadKey
  <2>7. SeenIsTrue'
    BY <2>4, OthersKeep DEF SeenIsTrue
  <2>8. /\ outcome[s] \in Failures => \A j \in Keys : disabled'[j] = "" => j \in tried[s]
        /\ outcome[s] \in Reasons =>
             /\ \A j \in Keys : disabled'[j] # ""
             /\ \E j \in Keys : disabled'[j] = outcome[s]
    <3>1. outcome[s] \in Failures => \A j \in Keys : disabled'[j] = "" => j \in tried[s]
      BY DEF PInv, GivesUpLast, ReasonsKept
    <3>2. outcome[s] \in Reasons => \A j \in Keys : disabled'[j] # ""
      BY DEF PInv, PermanentErrorsAreTrue, ReasonsKept, Reasons
    <3>3. ASSUME outcome[s] \in Reasons
          PROVE  \E j \in Keys : disabled'[j] = outcome[s]
      <4>1. PICK j \in Keys : disabled[j] = outcome[s]
        BY <3>3 DEF PInv, PermanentErrorsAreTrue, Reasons
      <4> QED
        BY <4>1, <3>3 DEF ReasonsKept, Reasons
    <3> QED
      BY <3>1, <3>2, <3>3
  <2>9. GivesUpLast' /\ PermanentErrorsAreTrue'
    BY <2>4, <2>8, OthersKeep DEF GivesUpLast, PermanentErrorsAreTrue, Reasons
  <2> QED
    BY <2>3, <2>6, <2>7, <2>9 DEF PInv
<1> QED
  BY <1>1, <1>2

\* The search moves within the lock of its key, or takes it.
LEMMA HoldStep ==
  ASSUME PInv, NEW s \in Searches, NEW where \in Holding,
         pc[s] \in Waiting, disabled[key[s]] = "",
         \A r \in Searches \ {s} : pc[r] \in Holding => key[r] # key[s],
         pc' = [pc EXCEPT ![s] = where],
         seen' \in [Searches -> SUBSET (Reasons \cup {"transient"})],
         \A r \in Searches : Reasons \cap seen'[r] \subseteq seen[r],
         disabled' = disabled, key' = key, tried' = tried, outcome' = outcome
  PROVE  PInv'
<1>1. Typed'
  BY DEF PInv, Typed, Waiting, Holding
<1>2. pc'[s] = where /\ \A r \in Searches \ {s} : pc'[r] = pc[r]
  BY DEF PInv, Typed
<1>3. OneHolder'
  BY <1>2 DEF PInv, OneHolder
<1>4. NoCallWithDeadKey'
  BY <1>2 DEF PInv, NoCallWithDeadKey
<1>5. SeenIsTrue'
  BY DEF PInv, SeenIsTrue
<1>6. GivesUpLast' /\ PermanentErrorsAreTrue'
  BY DEF PInv, GivesUpLast, PermanentErrorsAreTrue
<1> QED
  BY <1>1, <1>3, <1>4, <1>5, <1>6 DEF PInv
-----------------------------------------------------------------------------
(* The steps. *)

\* A pool that no step has touched keeps every reason.
LEMMA PoolUnchanged ==
  ASSUME PInv, disabled' = disabled
  PROVE  /\ ReasonsKept
         /\ \A r \in Searches : pc[r] \in Holding => disabled'[key[r]] = ""
         /\ \A r \in Searches : \A why \in Reasons \cap seen[r] : \E k \in Keys : disabled'[k] = why
         /\ \A r \in Searches : seen[r] \in SUBSET (Reasons \cup {"transient"})
<1>1. ReasonsKept
  BY DEF PInv, Typed, ReasonsKept
<1>2. \A r \in Searches : pc[r] \in Holding => disabled'[key[r]] = ""
  BY DEF PInv, NoCallWithDeadKey
<1>3. \A r \in Searches : \A why \in Reasons \cap seen[r] : \E k \in Keys : disabled'[k] = why
  BY DEF PInv, SeenIsTrue
<1> QED
  BY <1>1, <1>2, <1>3 DEF PInv, Typed

LEMMA TakeKeyStep == ASSUME PInv, NEW s \in Searches, TakeKey(s) PROVE PInv'
<1>0. pc[s] = "key" /\ ~Locked(key[s]) /\ disabled' = disabled /\ key[s] \in Keys
  BY DEF TakeKey, PInv, Typed, Waiting
<1>1. CASE disabled[key[s]] # ""
  <2> DEFINE saw == seen[s] \cup {disabled[key[s]]}
  <2>1. NextKey(s, saw)
    BY <1>1 DEF TakeKey
  <2>2. disabled[key[s]] \in Reasons
    BY <1>0, <1>1 DEF PInv, Typed
  <2>3. saw \in SUBSET (Reasons \cup {"transient"})
    BY <1>0, <2>2, PoolUnchanged
  <2>4. \A why \in Reasons \cap saw : \E k \in Keys : disabled'[k] = why
    BY <1>0, PoolUnchanged
  <2> HIDE DEF saw
  <2> QED
    BY <1>0, <2>1, <2>3, <2>4, PoolUnchanged, NextKeyStep
<1>2. CASE disabled[key[s]] = ""
  <2>1. Enter(s)
    BY <1>2 DEF TakeKey
  <2>2. /\ seen' \in [Searches -> SUBSET (Reasons \cup {"transient"})]
        /\ \A r \in Searches : Reasons \cap seen'[r] \subseteq seen[r]
    BY <2>1 DEF Enter, PInv, Typed
  <2>3. /\ pc' = [pc EXCEPT ![s] = "slot"] /\ "slot" \in Holding /\ pc[s] \in Waiting
        /\ key' = key /\ tried' = tried /\ outcome' = outcome
    BY <1>0, <2>1 DEF Enter, Waiting, Holding
  <2>4. \A r \in Searches \ {s} : pc[r] \in Holding => key[r] # key[s]
    BY <1>0 DEF Locked
  <2> QED
    BY <1>0, <1>2, <2>2, <2>3, <2>4, HoldStep
<1> QED
  BY <1>1, <1>2

\* A search that holds a lock holds it alone, and its key is not disabled.
LEMMA HolderAlone ==
  ASSUME PInv, NEW s \in Searches, pc[s] \in Holding
  PROVE  /\ key[s] \in Keys /\ disabled[key[s]] = "" /\ pc[s] \in Waiting
         /\ \A r \in Searches \ {s} : pc[r] \in Holding => key[r] # key[s]
<1>1. key[s] \in Keys /\ pc[s] \in Waiting
  BY DEF PInv, Typed, Waiting
<1>2. disabled[key[s]] = ""
  BY DEF PInv, NoCallWithDeadKey
<1>3. \A r \in Searches \ {s} : pc[r] \in Holding => key[r] # key[s]
  BY DEF PInv, OneHolder
<1> QED
  BY <1>1, <1>2, <1>3

LEMMA RefusedStep == ASSUME PInv, NEW s \in Searches, CallRefused(s) PROVE PInv'
<1>1. PICK why \in Reasons :
        /\ disabled' = [disabled EXCEPT ![key[s]] = why]
        /\ NextKey(s, seen[s] \cup {why})
  BY DEF CallRefused, Reasons
<1>2. pc[s] \in Holding
  BY DEF CallRefused, Holding
<1>3. /\ key[s] \in Keys /\ disabled[key[s]] = ""
      /\ \A r \in Searches \ {s} : pc[r] \in Holding => key[r] # key[s]
  BY <1>2, HolderAlone
<1>4. ReasonsKept
  BY <1>1, <1>3 DEF ReasonsKept, PInv, Typed
<1>5. \A r \in Searches \ {s} : pc[r] \in Holding => disabled'[key[r]] = ""
  BY <1>1, <1>3 DEF PInv, Typed, NoCallWithDeadKey, Waiting
<1>6. disabled'[key[s]] = why
  BY <1>1, <1>3 DEF PInv, Typed
<1>7. \A w \in Reasons \cap (seen[s] \cup {why}) : \E k \in Keys : disabled'[k] = w
  <2> SUFFICES ASSUME NEW w \in Reasons \cap seen[s] PROVE \E k \in Keys : disabled'[k] = w
    BY <1>3, <1>6
  <2>1. PICK k \in Keys : disabled[k] = w
    BY DEF PInv, SeenIsTrue
  <2> QED
    BY <2>1, <1>4 DEF ReasonsKept, Reasons
<1>8. seen[s] \cup {why} \in SUBSET (Reasons \cup {"transient"})
  BY DEF PInv, Typed
<1> QED
  BY <1>1, <1>4, <1>5, <1>7, <1>8, NextKeyStep

LEMMA ShortStep == ASSUME PInv, NEW s \in Searches, CallFallsShort(s) PROVE PInv'
<1>0. disabled' = disabled /\ pc[s] \in Holding
  BY DEF CallFallsShort, Holding
<1>1. CASE MayRetry(s)
  <2>1. /\ pc' = [pc EXCEPT ![s] = "sleep"]
        /\ seen' = [seen EXCEPT ![s] = @ \cup {"transient"}]
        /\ key' = key /\ tried' = tried /\ outcome' = outcome
    BY <1>1 DEF CallFallsShort
  <2>2. /\ seen' \in [Searches -> SUBSET (Reasons \cup {"transient"})]
        /\ \A r \in Searches : Reasons \cap seen'[r] \subseteq seen[r]
    BY <2>1 DEF PInv, Typed, Reasons
  <2> QED
    BY <1>0, <2>1, <2>2, HolderAlone, HoldStep DEF Holding
<1>2. CASE ~MayRetry(s)
  <2> DEFINE saw == seen[s] \cup {"transient"}
  <2>1. NextKey(s, saw)
    BY <1>2 DEF CallFallsShort
  <2>2. saw \in SUBSET (Reasons \cup {"transient"})
    BY <1>0, PoolUnchanged
  <2>3. Reasons \cap saw \subseteq seen[s]
    BY DEF Reasons
  <2>4. \A why \in Reasons \cap saw : \E k \in Keys : disabled'[k] = why
    BY <1>0, <2>3, PoolUnchanged
  <2> HIDE DEF saw
  <2> QED
    BY <1>0, <2>1, <2>2, <2>4, PoolUnchanged, NextKeyStep
<1> QED
  BY <1>1, <1>2

LEMMA NextPInv == PInv /\ [Next]_vars => PInv'
<1> SUFFICES ASSUME PInv, [Next]_vars PROVE PInv'
  OBVIOUS
<1>1. ASSUME NEW s \in Searches, Begin(s) PROVE PInv'
  BY <1>1, PoolUnchanged, NextKeyStep DEF Begin
<1>2. ASSUME NEW s \in Searches, TakeKey(s) PROVE PInv'
  BY <1>2, TakeKeyStep
<1>3. ASSUME NEW s \in Searches, Call(s) \/ Retry(s) PROVE PInv'
  <2>1. /\ pc[s] \in Holding
        /\ disabled' = disabled /\ key' = key /\ tried' = tried /\ outcome' = outcome
        /\ seen' = seen
        /\ \E where \in Holding : pc' = [pc EXCEPT ![s] = where]
    BY <1>3 DEF Call, Retry, Enter, pool, Holding
  <2>2. /\ seen' \in [Searches -> SUBSET (Reasons \cup {"transient"})]
        /\ \A r \in Searches : Reasons \cap seen'[r] \subseteq seen[r]
    BY <2>1 DEF PInv, Typed
  <2>3. PICK where \in Holding : pc' = [pc EXCEPT ![s] = where]
    BY <2>1
  <2> QED
    BY <2>1, <2>2, <2>3, HolderAlone, HoldStep
<1>4. ASSUME NEW s \in Searches, CallSucceeds(s) PROVE PInv'
  BY <1>4, PoolUnchanged, EndStep DEF CallSucceeds, pool, Failures, Reasons
<1>5. ASSUME NEW s \in Searches, CallRefused(s) PROVE PInv'
  BY <1>5, RefusedStep
<1>6. ASSUME NEW s \in Searches, CallFallsShort(s) PROVE PInv'
  BY <1>6, ShortStep
<1>7. ASSUME NEW s \in Searches, CallFails(s) PROVE PInv'
  BY <1>7, PoolUnchanged, NextKeyStep DEF CallFails
<1>8. ASSUME NEW s \in Searches, Cancelled(s) PROVE PInv'
  BY <1>8, PoolUnchanged, EndStep DEF Cancelled, Failures, Reasons
<1>9. ASSUME UNCHANGED <<disabled, search>> PROVE PInv'
  BY <1>9 DEF search, PInv, Typed, OneHolder, SeenIsTrue, NoCallWithDeadKey, GivesUpLast,
              PermanentErrorsAreTrue
<1>10. CASE \E k \in Keys : ThreadEnds(k)
  BY <1>9, <1>10 DEF ThreadEnds
<1>11. CASE UNCHANGED vars
  BY <1>9, <1>11 DEF vars, pool
<1> QED
  BY <1>1, <1>2, <1>3, <1>4, <1>5, <1>6, <1>7, <1>8, <1>10, <1>11 DEF Next, Steps

LEMMA PoolInductive == Spec => []PInv
BY InitPInv, NextPInv, PTL DEF Spec

\* A search never makes a request with a key the breaker has disabled.
THEOREM DeadKeysAreNotCalled == Spec => []NoCallWithDeadKey
BY PoolInductive, PTL DEF PInv

\* A search that fails has tried every key that works.
THEOREM EveryKeyIsTried == Spec => []GivesUpLast
BY PoolInductive, PTL DEF PInv

\* A quota or authentication error is raised only when no key works, and for a
\* reason that one key was refused for.
THEOREM PermanentErrorsHold == Spec => []PermanentErrorsAreTrue
BY PoolInductive, PTL DEF PInv

\* Two searches never call with one key at the same time.
THEOREM KeysServeOneSearch == Spec => []OneSearchPerKey
<1>1. PInv => OneSearchPerKey
  BY DEF PInv, OneHolder, OneSearchPerKey, Calling, Holding
<1> QED
  BY <1>1, PoolInductive, PTL
-----------------------------------------------------------------------------
(* The counters, which the invariant above does not need. *)

Counted ==
  /\ nextIndex \in Keys
  /\ abandoned \in [Keys -> 0..MaxAbandoned]
  /\ attempt \in [Searches -> 0..MaxRetries]
  /\ \A s \in Searches : pc[s] = "sleep" => attempt[s] < MaxRetries

LEMMA InitCounted == Init => Counted
<1> SUFFICES ASSUME Init PROVE Counted
  OBVIOUS
<1>1. 0 \in 0..MaxAbandoned /\ 0 \in 0..MaxRetries
  BY PoolAssumption
<1>2. \A s \in Searches : pc[s] = "idle"
  BY DEF Init
<1> QED
  BY <1>1, <1>2, ZeroIsKey DEF Init, Counted

\* A search that moves to another place, with its retries counted afresh.
LEMMA MoveCounts ==
  ASSUME Counted, PInv, NEW s \in Searches, NEW where, where # "sleep",
         pc' = [pc EXCEPT ![s] = where], attempt' = [attempt EXCEPT ![s] = 0]
  PROVE  /\ attempt' \in [Searches -> 0..MaxRetries]
         /\ \A r \in Searches : pc'[r] = "sleep" => attempt'[r] < MaxRetries
<1>1. attempt' \in [Searches -> 0..MaxRetries]
  BY PoolAssumption DEF Counted
<1>2. pc \in [Searches -> Waiting \cup {"idle", "ended"}] /\ attempt \in [Searches -> 0..MaxRetries]
  BY DEF PInv, Typed, Counted
<1>3. \A r \in Searches : pc'[r] = "sleep" => r # s /\ pc[r] = "sleep" /\ attempt'[r] = attempt[r]
  BY <1>2
<1> QED
  BY <1>1, <1>3 DEF Counted

LEMMA NextKeyCounts ==
  ASSUME Counted, PInv, NEW s \in Searches, NEW saw, NextKey(s, saw)
  PROVE  /\ nextIndex' \in Keys
         /\ attempt' \in [Searches -> 0..MaxRetries]
         /\ \A r \in Searches : pc'[r] = "sleep" => attempt'[r] < MaxRetries
<1>1. ASSUME NEW k \in Keys, nextIndex' = (k + 1) % NumKeys PROVE nextIndex' \in Keys
  <2>1. NumKeys \in Nat /\ NumKeys > 0 /\ k + 1 \in Int
    BY PoolAssumption DEF Keys
  <2>2. (k + 1) % NumKeys \in 0..(NumKeys - 1)
    BY <2>1
  <2> QED
    BY <1>1, <2>2 DEF Keys
<1>2. nextIndex' \in Keys
  BY <1>1 DEF NextKey, Usable, Counted
<1>3. PICK where \in {"key", "ended"} :
        pc' = [pc EXCEPT ![s] = where] /\ attempt' = [attempt EXCEPT ![s] = 0]
  BY DEF NextKey, End
<1> QED
  BY <1>2, <1>3, MoveCounts

LEMMA AbandonCounts ==
  ASSUME Counted, PInv, NEW s \in Searches, Abandon(s)
  PROVE  abandoned' \in [Keys -> 0..MaxAbandoned]
<1>1. MaxAbandoned \in Nat /\ key[s] \in Keys
  BY PoolAssumption DEF PInv, Typed
<1> QED
  BY <1>1 DEF Abandon, Counted

LEMMA NextCounted == Counted /\ PInv /\ [Next]_vars => Counted'
<1> SUFFICES ASSUME Counted, PInv, [Next]_vars PROVE Counted'
  OBVIOUS
<1>0. /\ pc \in [Searches -> Waiting \cup {"idle", "ended"}]
      /\ attempt \in [Searches -> 0..MaxRetries] /\ MaxRetries \in Nat
      /\ \A r \in Searches : pc[r] = "sleep" => attempt[r] < MaxRetries
  BY PoolAssumption DEF PInv, Typed, Counted
<1>1. ASSUME NEW s \in Searches, Begin(s) \/ CallRefused(s) \/ CallFails(s) PROVE Counted'
  <2>1. abandoned' = abandoned
    BY <1>1 DEF Begin, CallRefused, CallFails
  <2>2. \E saw : NextKey(s, saw)
    BY <1>1 DEF Begin, CallRefused, CallFails
  <2> QED
    BY <2>1, <2>2, NextKeyCounts DEF Counted
<1>2. ASSUME NEW s \in Searches, TakeKey(s) PROVE Counted'
  <2>1. CASE disabled[key[s]] # ""
    BY <1>2, <2>1, NextKeyCounts DEF TakeKey, Counted
  <2>2. CASE disabled[key[s]] = ""
    <3>1. UNCHANGED <<nextIndex, abandoned, attempt>> /\ pc' = [pc EXCEPT ![s] = "slot"]
      BY <1>2, <2>2 DEF TakeKey, Enter
    <3>2. \A r \in Searches : pc'[r] = "sleep" => pc[r] = "sleep"
      BY <1>0, <3>1
    <3> QED
      BY <1>0, <3>1, <3>2 DEF Counted
  <2> QED
    BY <2>1, <2>2
<1>3. ASSUME NEW s \in Searches, Call(s) PROVE Counted'
  <2>1. UNCHANGED <<nextIndex, abandoned, attempt>> /\ pc' = [pc EXCEPT ![s] = "call"]
    BY <1>3 DEF Call, pool
  <2>2. \A r \in Searches : pc'[r] = "sleep" => pc[r] = "sleep"
    BY <1>0, <2>1
  <2> QED
    BY <1>0, <2>1, <2>2 DEF Counted
<1>4. ASSUME NEW s \in Searches, Retry(s) PROVE Counted'
  <2>1. /\ UNCHANGED <<nextIndex, abandoned>> /\ pc' = [pc EXCEPT ![s] = "slot"]
        /\ attempt' = [attempt EXCEPT ![s] = @ + 1] /\ pc[s] = "sleep"
    BY <1>4 DEF Retry, Enter
  <2>2. attempt[s] + 1 \in 0..MaxRetries
    BY <1>0, <2>1
  <2>3. attempt' \in [Searches -> 0..MaxRetries]
    BY <1>0, <2>1, <2>2
  <2>4. \A r \in Searches : pc'[r] = "sleep" => r # s /\ pc[r] = "sleep" /\ attempt'[r] = attempt[r]
    BY <1>0, <2>1
  <2> QED
    BY <1>0, <2>1, <2>3, <2>4 DEF Counted
<1>5. ASSUME NEW s \in Searches, CallSucceeds(s) PROVE Counted'
  BY <1>5, MoveCounts DEF CallSucceeds, End, pool, Counted
<1>6. ASSUME NEW s \in Searches, CallFallsShort(s) PROVE Counted'
  <2>1. abandoned' \in [Keys -> 0..MaxAbandoned]
    BY <1>6, AbandonCounts DEF CallFallsShort
  <2>2. CASE MayRetry(s)
    <3>1. /\ UNCHANGED <<nextIndex, attempt>> /\ pc' = [pc EXCEPT ![s] = "sleep"]
          /\ attempt[s] < MaxRetries
      BY <1>6, <2>2 DEF CallFallsShort, MayRetry
    <3>2. \A r \in Searches : pc'[r] = "sleep" => r = s \/ pc[r] = "sleep"
      BY <1>0, <3>1
    <3> QED
      BY <1>0, <2>1, <3>1, <3>2 DEF Counted
  <2>3. CASE ~MayRetry(s)
    BY <1>6, <2>1, <2>3, NextKeyCounts DEF CallFallsShort, Counted
  <2> QED
    BY <2>2, <2>3
<1>7. ASSUME NEW s \in Searches, Cancelled(s) PROVE Counted'
  <2>1. abandoned' \in [Keys -> 0..MaxAbandoned]
    BY <1>7, AbandonCounts DEF Cancelled, Counted
  <2> QED
    BY <1>7, <2>1, MoveCounts DEF Cancelled, End, Counted
<1>8. ASSUME NEW k \in Keys, ThreadEnds(k) PROVE Counted'
  <2>1. /\ UNCHANGED <<nextIndex, pc, attempt>> /\ abandoned[k] > 0
        /\ abandoned' = [abandoned EXCEPT ![k] = @ - 1]
    BY <1>8 DEF ThreadEnds, search
  <2>2. abandoned' \in [Keys -> 0..MaxAbandoned]
    BY <2>1, PoolAssumption DEF Counted
  <2> QED
    BY <2>1, <2>2 DEF Counted
<1>9. CASE UNCHANGED vars
  BY <1>9 DEF vars, pool, search, Counted
<1> QED
  BY <1>1, <1>2, <1>3, <1>4, <1>5, <1>6, <1>7, <1>8, <1>9 DEF Next, Steps

\* The pool and the searches keep their types: no request is repeated more often
\* than the code allows.
THEOREM PoolTypeCorrect == Spec => []KeyPoolTypeOK
<1>1. PInv /\ Counted => KeyPoolTypeOK
  BY DEF PInv, Typed, Counted, KeyPoolTypeOK, Reasons
<1> QED
  BY <1>1, InitCounted, NextCounted, PoolInductive, PTL DEF Spec
=============================================================================
