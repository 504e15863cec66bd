------------------------------ MODULE KeyPool ------------------------------
(***************************************************************************)
(* TavilySearchProvider (src/tools/search_providers.py): searches of all   *)
(* provider instances share a pool of credentials, with a rotating index,  *)
(* a circuit breaker that disables a rejected or exhausted key, one lock   *)
(* per key and a limit on the requests under way.                          *)
(*                                                                         *)
(* All searches run in one event loop, so that the code from one await to  *)
(* the next is one action.  A request runs in a thread: when its search    *)
(* stops waiting, because of the timeout or a cancellation, the thread     *)
(* goes on and its answer is dropped.  The locks and the limiter serve     *)
(* their waiters in any order here, which includes the code's.             *)
(***************************************************************************)
EXTENDS Integers, FiniteSets

CONSTANTS
  NumKeys,      \* len(keys); a key is its index
  Searches,     \* the logical requests
  MaxInflight,  \* _GLOBAL_TAVILY_INFLIGHT
  MaxRetries,   \* MAX_RETRIES
  MaxAbandoned  \* bound: the abandoned requests under way with one key

ASSUME PoolAssumption ==
  /\ NumKeys \in Nat \ {0}
  /\ IsFiniteSet(Searches)
  /\ MaxInflight \in Nat \ {0}
  /\ MaxRetries \in Nat /\ MaxAbandoned \in Nat

Keys == 0..(NumKeys - 1)

VARIABLES
  nextIndex,   \* next_index
  disabled,    \* disable_reasons, "" for a key that is not disabled
  abandoned,   \* how many requests nobody waits for are under way with a key
  pc,          \* where each search is
  key,         \* key_index
  tried,       \* tried
  attempt,     \* attempt
  seen,        \* which of saw_quota, saw_auth and saw_transient are set
  outcome      \* how the search ended

pool == <<nextIndex, disabled, abandoned>>
search == <<pc, key, tried, attempt, seen, outcome>>
vars == <<pool, search>>

Holding == {"slot", "call", "sleep"}   \* inside the lock of its key
Waiting == Holding \cup {"key"}
Failures == {"quota", "auth", "transient", "failed"}

KeyPoolTypeOK ==
  /\ nextIndex \in Keys
  /\ disabled \in [Keys -> {"", "quota", "auth"}]
  /\ abandoned \in [Keys -> 0..MaxAbandoned]
  /\ pc \in [Searches -> Waiting \cup {"idle", "ended"}]
  /\ key \in [Searches -> Keys]
  /\ tried \in [Searches -> SUBSET Keys]
  /\ attempt \in [Searches -> 0..MaxRetries]
  /\ seen \in [Searches -> SUBSET {"quota", "auth", "transient"}]
  /\ outcome \in [Searches -> Failures \cup {"", "found", "cancelled"}]

Init ==
  /\ nextIndex = 0
  /\ disabled = [k \in Keys |-> ""]
  /\ abandoned = [k \in Keys |-> 0]
  /\ pc = [s \in Searches |-> "idle"]
  /\ key = [s \in Searches |-> 0]
  /\ tried = [s \in Searches |-> {}]
  /\ attempt = [s \in Searches |-> 0]
  /\ seen = [s \in Searches |-> {}]
  /\ outcome = [s \in Searches |-> ""]
-----------------------------------------------------------------------------
(* Taking a key, or giving up. *)

\* The keys acquire may choose for a search, after this step's disablings.
Usable(s) == {k \in Keys : disabled'[k] = "" /\ k \notin tried[s]}

\* How far ahead of the rotating index a key is.
Ahead(k) == (k + NumKeys - nextIndex) % NumKeys

\* The search is over, and its local variables with it.
End(s, how) ==
  /\ pc' = [pc EXCEPT ![s] = "ended"]
  /\ outcome' = [outcome EXCEPT ![s] = how]
  /\ key' = [key EXCEPT ![s] = 0]
  /\ attempt' = [attempt EXCEPT ![s] = 0]
  /\ seen' = [seen EXCEPT ![s] = {}]

\* Wrong variant: whatever was seen is raised.
FailureSeen(saw) ==
  CASE "quota" \in saw -> "quota"
    [] "quota" \notin saw /\ "auth" \in saw -> "auth"
    [] OTHER -> IF "transient" \in saw THEN "transient" ELSE "failed"

\* Which error a search raises that has seen these.
Failure(saw) ==
  LET dead == \A k \in Keys : disabled'[k] # ""
  IN  CASE dead /\ "quota" \in saw -> "quota"
        [] dead /\ "quota" \notin saw /\ "auth" \in saw -> "auth"
        [] OTHER -> IF "transient" \in saw THEN "transient" ELSE "failed"

\* acquire: the first usable key from the rotating index on; without one, the
\* search raises.
NextKey(s, saw) ==
  \/ \E k \in Usable(s) :
       /\ \A j \in Usable(s) : Ahead(k) <= Ahead(j)
       /\ key' = [key EXCEPT ![s] = k]
       /\ tried' = [tried EXCEPT ![s] = @ \cup {k}]
       /\ nextIndex' = (k + 1) % NumKeys
       /\ pc' = [pc EXCEPT ![s] = "key"]
       /\ attempt' = [attempt EXCEPT ![s] = 0]
       /\ seen' = [seen EXCEPT ![s] = saw]
       /\ UNCHANGED outcome
  \/ /\ Usable(s) = {}
     /\ End(s, Failure(saw))
     /\ UNCHANGED <<tried, nextIndex>>

Begin(s) ==
  /\ pc[s] = "idle"
  /\ UNCHANGED <<disabled, abandoned>>
  /\ NextKey(s, {})

Locked(k) == \E s \in Searches : pc[s] \in Holding /\ key[s] = k

Enter(s) ==
  /\ pc' = [pc EXCEPT ![s] = "slot"]
  /\ UNCHANGED <<nextIndex, key, tried, seen, outcome>>

\* Wrong variant: the breaker is not looked at again after the wait.
TakeKeyBlindly(s) ==
  /\ pc[s] = "key" /\ ~Locked(key[s])
  /\ Enter(s)
  /\ UNCHANGED <<disabled, abandoned, attempt>>

\* The lock of the key is taken.  A key that was disabled during the wait is
\* given up, and its reason remembered.
TakeKey(s) ==
  /\ pc[s] = "key" /\ ~Locked(key[s])
  /\ UNCHANGED <<disabled, abandoned>>
  /\ \/ /\ disabled[key[s]] # ""
        /\ NextKey(s, seen[s] \cup {disabled[key[s]]})
     \/ /\ disabled[key[s]] = ""
        /\ Enter(s)
        /\ UNCHANGED attempt
-----------------------------------------------------------------------------
(* The request. *)

Calling == {s \in Searches : pc[s] = "call"}

\* The limiter admits the request, and its thread starts.
Call(s) ==
  /\ pc[s] = "slot"
  /\ Cardinality(Calling) < MaxInflight
  /\ pc' = [pc EXCEPT ![s] = "call"]
  /\ UNCHANGED <<pool, key, tried, attempt, seen, outcome>>

CallSucceeds(s) ==
  /\ pc[s] = "call"
  /\ End(s, "found")
  /\ UNCHANGED <<pool, tried>>

\* The key is exhausted or rejected: the breaker disables it for good.
CallRefused(s) ==
  /\ pc[s] = "call"
  /\ UNCHANGED abandoned
  /\ \E why \in {"quota", "auth"} :
       /\ disabled' = [disabled EXCEPT ![key[s]] = why]
       /\ NextKey(s, seen[s] \cup {why})

\* The search stops waiting for its request, which goes on in its thread, or
\* ends there at once.
Abandon(s) ==
  \/ UNCHANGED abandoned
  \/ /\ abandoned[key[s]] < MaxAbandoned
     /\ abandoned' = [abandoned EXCEPT ![key[s]] = @ + 1]

MayRetry(s) == attempt[s] < MaxRetries

\* An error that retrying may cure, or no answer in time.
CallFallsShort(s) ==
  /\ pc[s] = "call"
  /\ Abandon(s)
  /\ UNCHANGED disabled
  /\ \/ /\ MayRetry(s)
        /\ pc' = [pc EXCEPT ![s] = "sleep"]
        /\ seen' = [seen EXCEPT ![s] = @ \cup {"transient"}]
        /\ UNCHANGED <<nextIndex, key, tried, attempt, outcome>>
     \/ /\ ~MayRetry(s)
        /\ NextKey(s, seen[s] \cup {"transient"})

\* Any other error: the next key.
CallFails(s) ==
  /\ pc[s] = "call"
  /\ UNCHANGED <<disabled, abandoned>>
  /\ NextKey(s, seen[s])

\* Wrong variant: retries are not counted.
RetryUncounted(s) ==
  /\ pc[s] = "sleep"
  /\ Enter(s)
  /\ UNCHANGED <<disabled, abandoned, attempt>>

\* The retry, still under the lock of the key.
Retry(s) ==
  /\ pc[s] = "sleep"
  /\ Enter(s)
  /\ attempt' = [attempt EXCEPT ![s] = @ + 1]
  /\ UNCHANGED <<disabled, abandoned>>
-----------------------------------------------------------------------------

\* The worker that searches is cancelled: locks and slots are given back.
Cancelled(s) ==
  /\ pc[s] \in Waiting
  /\ IF pc[s] = "call" THEN Abandon(s) ELSE UNCHANGED abandoned
  /\ End(s, "cancelled")
  /\ UNCHANGED <<nextIndex, disabled, tried>>

\* An abandoned request ends in its thread.
ThreadEnds(k) ==
  /\ abandoned[k] > 0
  /\ abandoned' = [abandoned EXCEPT ![k] = @ - 1]
  /\ UNCHANGED <<nextIndex, disabled, search>>

Steps(s) ==
  \/ TakeKey(s) \/ Call(s) \/ Retry(s)
  \/ CallSucceeds(s) \/ CallRefused(s) \/ CallFallsShort(s) \/ CallFails(s)

Next ==
  \/ \E s \in Searches : Begin(s) \/ Steps(s) \/ Cancelled(s)
  \/ \E k \in Keys : ThreadEnds(k)

\* Every wait for an answer is bounded by the timeout, and locks are fair.
Fairness == \A s \in Searches : WF_vars(Steps(s))

Spec == Init /\ [][Next]_vars /\ Fairness
-----------------------------------------------------------------------------
(* Properties. *)

\* No request is made with a key that is known to be dead: a search that had to
\* wait for a key finds out what happened to it meanwhile, and nobody can
\* disable a key while another search retries with it.
NoCallWithDeadKey ==
  \A s \in Searches : pc[s] \in Holding => disabled[key[s]] = ""

\* A search gives up only when no key is left: every key that works has been
\* tried by it, wherever the other searches have moved the rotating index.
GivesUpLast ==
  \A s \in Searches : outcome[s] \in Failures =>
    \A k \in Keys : disabled[k] = "" => k \in tried[s]

\* An error that makes the worker end its task at once (quota, authentication)
\* is true of the pool: no key works any more, and one was refused for that
\* reason.
PermanentErrorsAreTrue ==
  \A s \in Searches : outcome[s] \in {"quota", "auth"} =>
    /\ \A k \in Keys : disabled[k] # ""
    /\ \E k \in Keys : disabled[k] = outcome[s]

\* Every search ends: retries and rotation are bounded, and no search waits for
\* a key or a slot that is never given back.
EverySearchEnds == \A s \in Searches : pc[s] \in Waiting ~> pc[s] = "ended"

\* Two searches never call with one key at the same time: a key serves two
\* requests only when one of them was given up and goes on in its thread.
OneSearchPerKey ==
  \A r, s \in Calling : key[r] = key[s] => r = s
=============================================================================
