----------------------------- MODULE RateLimiter -----------------------------
(***************************************************************************)
(* SlidingWindowRateLimiter as WallapopTinyfishFetcher.search uses it: the *)
(* check before the agent's run, the record after it, whatever it came to. *)
(* A run takes time, in which other searches may pass the check.           *)
(*                                                                         *)
(* A call has a name, free again once the call is forgotten.  Moments are  *)
(* kept as ages, in ticks, up to Period + 1 for anything older.            *)
(***************************************************************************)
EXTENDS Naturals, FiniteSets

CONSTANTS
  CallNames,   \* names for calls
  Together,    \* the searches that may run at the same time
  Limit,       \* calls per period
  Period       \* its length in ticks

ASSUME LimiterAssumption ==
  /\ Together \in Nat \ {0}
  /\ Limit \in Nat \ {0}      \* the constructor refuses a smaller one
  /\ Period \in Nat \ {0}

VARIABLES
  events,      \* _events: the age of each call's record, or Gone
  running,     \* the calls under way
  begun        \* ghost: the age of each call's beginning

limiterVars == <<events, running, begun>>

\* Not in the deque: not recorded yet, or evicted.
Gone == Period + 2

LimiterTypeOK ==
  /\ events \in [CallNames -> 0..Gone] /\ begun \in [CallNames -> 0..Period + 1]
  /\ running \subseteq CallNames

LimiterInit ==
  /\ events = [k \in CallNames |-> Gone]
  /\ running = {}
  /\ begun = [k \in CallNames |-> Period + 1]

\* Mutant: what is a period old is dropped.
KeptLess(age) == age < Period

\* _evict keeps what is not older than the period, a period old included.
Kept(age) == age <= Period

Evicted(ages) == [k \in CallNames |-> IF Kept(ages[k]) THEN ages[k] ELSE Gone]

InDeque(ages) == {k \in CallNames : ages[k] # Gone}

Allow == Cardinality(InDeque(Evicted(events))) < Limit

Searching == Cardinality(running) < Together

\* The call takes a name that neither the deque nor the period remembers.
BeginCall(k) ==
  /\ Searching /\ Allow
  /\ k \notin running /\ Evicted(events)[k] = Gone /\ begun[k] > Period
  /\ running' = running \cup {k}
  /\ events' = Evicted(events)
  /\ begun' = [begun EXCEPT ![k] = 0]

\* TinyFishRateLimited, raised before anything is asked of TinyFish.
RefuseCall ==
  /\ Searching /\ ~Allow
  /\ events' = Evicted(events)
  /\ UNCHANGED <<running, begun>>

EndCall(k) ==
  /\ k \in running
  /\ running' = running \ {k}
  /\ events' = Evicted([events EXCEPT ![k] = 0])
  /\ UNCHANGED begun

LimiterTick ==
  /\ events' = [k \in CallNames |-> IF events[k] > Period THEN events[k] ELSE events[k] + 1]
  /\ begun' = [k \in CallNames |-> IF begun[k] > Period THEN begun[k] ELSE begun[k] + 1]
  /\ UNCHANGED running

LimiterNext ==
  \/ \E k \in CallNames : BeginCall(k) \/ EndCall(k)
  \/ RefuseCall \/ LimiterTick

LimiterSpec == LimiterInit /\ [][LimiterNext]_limiterVars

(***************************************************************************)
(* Safety.                                                                 *)
(***************************************************************************)
\* TinyFish is asked at most Limit times in any period, its ends included
\* (NFR-I2), and once more for each further search that runs at the same time:
\* those have passed the check and are not recorded yet.
CallsAreLimited == Cardinality({k \in CallNames : begun[k] <= Period}) <= Limit + Together - 1
=============================================================================
