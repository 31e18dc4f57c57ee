------------------------------ MODULE PollLoop ------------------------------
(***************************************************************************)
(* run_poll_cycle: for every wishlist entry read its snooze, search the    *)
(* marketplace, drop the listings already seen for the entry, evaluate the *)
(* rest, and alert or drop each of them - the alert first, its audit row   *)
(* next, the seen mark last.  The evaluator is the LLM behind a cache.     *)
(* One job per marketplace; jobs interleave at every await.                *)
(*                                                                         *)
(* Abstractions.  An evaluation passes the entry's confidence threshold or *)
(* it does not, and the LLM says the same whenever it is asked about the   *)
(* same pair (Fits).  A search returns everything the job's marketplace    *)
(* has on sale, or fails; it may list a listing more than once, and nobody *)
(* merges the copies: each is evaluated, alerted and marked for itself.  A *)
(* snooze that runs out while a cycle is under way is a snooze that ran    *)
(* out after that cycle read it.  The heartbeat rows and counters of a     *)
(* cycle are not kept.                                                     *)
(***************************************************************************)
EXTENDS Integers, Sequences

CONSTANTS
  Jobs,        \* the poll jobs of the scheduler
  Listings,
  Market,      \* Market[j]: the listings of the marketplace job j polls
  Entries,
  Wishlist,    \* the entries in the order of wishlist.yaml
  Fits,        \* pairs <<listing, entry>> the LLM calls a match
  Copies,      \* bound: how often one search result lists a listing
  None,
  MaxMishaps   \* bound: failing statements, lost confirmations, signals, crashes

Pairs == Listings \X Entries

ASSUME PollAssumption ==
  /\ Market \in [Jobs -> SUBSET Listings]
  /\ \A i, j \in Jobs : i # j => Market[i] \cap Market[j] = {}
  /\ Wishlist \in Seq(Entries)
  /\ Fits \subseteq Pairs
  /\ None \notin Entries \cup Listings
  /\ Copies \in Nat \ {0} /\ MaxMishaps \in Nat

VARIABLES
  job,         \* job[j]: the poll cycle under way: its step, entry and listings
  seen,        \* pairs in seen_listings
  snaps,       \* snaps[p]: alert_snapshots rows of pair p
  cache,       \* cache[l]: the entry whose evaluation of l is cached
  snoozed,     \* entries with a snooze in the future
  alerts,      \* alerts[p]: alerts of pair p on the user's screen
  onSale,      \* listings on the market
  storeOpen,   \* the daemon's connection to salvager.db
  cacheOpen,   \* the daemon's connection to llm_eval_cache.db
  mishaps      \* mishaps so far

tables == <<seen, snaps, cache, snoozed>>
world  == <<alerts, onSale>>
conns  == <<storeOpen, cacheOpen>>
pollVars == <<job, tables, world, conns, mishaps>>

Stages == {"idle", "entry", "search", "batch", "gate", "send", "snapshot", "seen", "drop"}

\* How many copies of each listing a cycle has at hand.
Finds   == [Listings -> Nat]
NoFinds == [l \in Listings |-> 0]

OneLess(finds, l) == [finds EXCEPT ![l] = @ - 1]
OneMore(finds, l) == [finds EXCEPT ![l] = @ + 1]

Cycles == [at : Stages, pos : Nat \ {0}, todo : Finds, match : Finds, drop : Finds,
           cur : Listings \cup {None}]

PollTypeOK ==
  /\ job \in [Jobs -> Cycles]
  /\ \A j \in Jobs :
       /\ job[j].at \notin {"idle", "entry"} => job[j].pos <= Len(Wishlist)
       /\ job[j].at \in {"gate", "send", "snapshot", "seen", "drop"} => job[j].cur \in Listings
  /\ seen \subseteq Pairs
  /\ snaps \in [Pairs -> Nat] /\ alerts \in [Pairs -> Nat]
  /\ cache \in [Listings -> Entries \cup {None}]
  /\ snoozed \subseteq Entries /\ onSale \subseteq Listings
  /\ storeOpen \in BOOLEAN /\ cacheOpen \in BOOLEAN
  /\ mishaps \in 0 .. MaxMishaps

Idle == [at |-> "idle", pos |-> 1, todo |-> NoFinds, match |-> NoFinds, drop |-> NoFinds, cur |-> None]

PollInit ==
  /\ job = [j \in Jobs |-> Idle]
  /\ seen = {} /\ snoozed = {} /\ onSale \in SUBSET Listings
  /\ snaps = [p \in Pairs |-> 0] /\ alerts = [p \in Pairs |-> 0]
  /\ cache = [l \in Listings |-> None]
  /\ storeOpen = TRUE /\ cacheOpen = TRUE
  /\ mishaps = 0

(***************************************************************************)
(* Control.                                                                *)
(***************************************************************************)
Entry(j) == Wishlist[job[j].pos]
Pair(j)  == <<job[j].cur, Entry(j)>>

Move(j, from, to) == job[j].at = from /\ job' = [job EXCEPT ![j].at = to]

NextEntry(j) == job' = [job EXCEPT ![j] = [Idle EXCEPT !.at = "entry", !.pos = job[j].pos + 1]]

Mishap == mishaps < MaxMishaps /\ mishaps' = mishaps + 1

\* A statement on a closed connection raises; one on an open connection may.
StatementRaises == IF storeOpen THEN Mishap ELSE UNCHANGED mishaps

(***************************************************************************)
(* The cycle over the entries.                                             *)
(***************************************************************************)
StartCycle(j) ==
  /\ job[j].at = "idle"
  /\ job' = [job EXCEPT ![j] = [Idle EXCEPT !.at = "entry"]]
  /\ UNCHANGED <<tables, world, conns, mishaps>>

SkipSnoozed(j) ==
  /\ job[j].at = "entry" /\ job[j].pos <= Len(Wishlist)
  /\ storeOpen /\ Entry(j) \in snoozed
  /\ NextEntry(j)
  /\ UNCHANGED <<tables, world, conns, mishaps>>

\* Mutant: one entry too many.
EnterSearchPastEnd(j) ==
  /\ job[j].pos <= Len(Wishlist) + 1
  /\ storeOpen
  /\ Move(j, "entry", "search")
  /\ UNCHANGED <<tables, world, conns, mishaps>>

EnterSearch(j) ==
  /\ job[j].pos <= Len(Wishlist)
  /\ storeOpen /\ Entry(j) \notin snoozed
  /\ Move(j, "entry", "search")
  /\ UNCHANGED <<tables, world, conns, mishaps>>

Unseen(ls, e) == {l \in ls : <<l, e>> \notin seen}

\* What a search result holds of the listings ls: each of them, once or more.
Results(ls) ==
  {[l \in Listings |-> IF l \in ls THEN n[l] ELSE 0] : n \in [ls -> 1 .. Copies]}

\* Mutant: the candidates are not filtered.
SearchOkUnfiltered(j) ==
  /\ storeOpen
  /\ job[j].at = "search"
  /\ \E r \in Results(Market[j] \cap onSale) :
       job' = [job EXCEPT ![j].at = "batch", ![j].todo = r]
  /\ UNCHANGED <<tables, world, conns, mishaps>>

SearchOk(j) ==
  /\ storeOpen
  /\ job[j].at = "search"
  /\ \E r \in Results(Unseen(Market[j] \cap onSale, Entry(j))) :
       job' = [job EXCEPT ![j].at = "batch", ![j].todo = r]
  /\ UNCHANGED <<tables, world, conns, mishaps>>

\* Mutant: a failed search ends the cycle.
SearchFailsCycle(j) ==
  /\ job[j].at = "search"
  /\ job' = [job EXCEPT ![j] = Idle]
  /\ UNCHANGED <<tables, world, conns, mishaps>>

SearchFails(j) ==
  /\ job[j].at = "search"
  /\ NextEntry(j)
  /\ UNCHANGED <<tables, world, conns, mishaps>>

EndCycle(j) ==
  /\ job[j].at = "entry" /\ job[j].pos > Len(Wishlist)
  /\ job' = [job EXCEPT ![j] = Idle]
  /\ UNCHANGED <<tables, world, conns, mishaps>>

\* get_snooze_until, is_seen and the Phase 2 gate are awaited outside any try:
\* what they raise ends the cycle, and the job's loop logs it.
CycleRaises(j) ==
  /\ \/ job[j].at = "entry" /\ job[j].pos <= Len(Wishlist)
     \/ job[j].at = "search" /\ Market[j] \cap onSale # {}
     \/ job[j].at = "gate"
  /\ StatementRaises
  /\ job' = [job EXCEPT ![j] = Idle]
  /\ UNCHANGED <<tables, world, conns>>

(***************************************************************************)
(* CachingListingEvaluator.evaluate for each copy in the batch.  The cache *)
(* is keyed by the listing's URL and the prompt version.                   *)
(***************************************************************************)
Judged(j, l, fits) ==
  job' = [job EXCEPT ![j].todo = OneLess(@, l),
                     ![j].match = IF fits THEN OneMore(@, l) ELSE @,
                     ![j].drop = IF fits THEN @ ELSE OneMore(@, l)]

CacheHit(j, l) ==
  /\ job[j].at = "batch" /\ job[j].todo[l] > 0
  /\ cacheOpen /\ cache[l] # None
  /\ Judged(j, l, <<l, cache[l]>> \in Fits)
  /\ UNCHANGED <<tables, world, conns, mishaps>>

CacheMiss(j, l) ==
  /\ job[j].at = "batch" /\ job[j].todo[l] > 0
  /\ cacheOpen /\ cache[l] = None
  /\ Judged(j, l, <<l, Entry(j)>> \in Fits)
  /\ cache' = [cache EXCEPT ![l] = Entry(j)]
  /\ UNCHANGED <<seen, snaps, snoozed, world, conns, mishaps>>

\* The LLM, or a statement of the cache, raises: no verdict, no mark.
EvaluationFails(j, l) ==
  /\ job[j].at = "batch" /\ job[j].todo[l] > 0
  /\ job' = [job EXCEPT ![j].todo = OneLess(@, l)]
  /\ UNCHANGED <<tables, world, conns, mishaps>>

(***************************************************************************)
(* Once all evaluations are gathered: _dispatch_alert for a match, a seen  *)
(* mark for a listing below the threshold, one copy after the other.       *)
(***************************************************************************)
PickMatch(j) ==
  /\ job[j].at = "batch" /\ job[j].todo = NoFinds
  /\ \E l \in Listings :
       /\ job[j].match[l] > 0
       /\ job' = [job EXCEPT ![j].at = "gate", ![j].cur = l, ![j].match = OneLess(@, l)]
  /\ UNCHANGED <<tables, world, conns, mishaps>>

PickDrop(j) ==
  /\ job[j].at = "batch" /\ job[j].todo = NoFinds
  /\ \E l \in Listings :
       /\ job[j].drop[l] > 0
       /\ job' = [job EXCEPT ![j].at = "drop", ![j].cur = l, ![j].drop = OneLess(@, l)]
  /\ UNCHANGED <<tables, world, conns, mishaps>>

BatchDone(j) ==
  /\ job[j].at = "batch"
  /\ job[j].todo = NoFinds /\ job[j].match = NoFinds /\ job[j].drop = NoFinds
  /\ NextEntry(j)
  /\ UNCHANGED <<tables, world, conns, mishaps>>

\* Phase 1 or Phase 2 layout; a closed gate only downgrades the alert.
SelectPhase(j) ==
  /\ Move(j, "gate", "send")
  /\ UNCHANGED <<tables, world, conns, mishaps>>

Shown(j) == alerts' = [alerts EXCEPT ![Pair(j)] = @ + 1]

\* Mutant: an alert without its snapshot.
DeliveredUnrecorded(j) ==
  /\ Move(j, "send", "seen") /\ Shown(j)
  /\ UNCHANGED <<tables, onSale, conns, mishaps>>

Delivered(j) ==
  /\ Move(j, "send", "snapshot") /\ Shown(j)
  /\ UNCHANGED <<tables, onSale, conns, mishaps>>

\* Mutant: a failed delivery counts as handled.
UndeliveredMarked(j) ==
  /\ Move(j, "send", "seen")
  /\ UNCHANGED <<tables, world, conns, mishaps>>

\* All attempts failed: the listing stays unmarked.
Undelivered(j) ==
  /\ Move(j, "send", "batch")
  /\ UNCHANGED <<tables, world, conns, mishaps>>

\* An attempt timed out although the message arrived: send tries again, or
\* gives up when it was the last attempt.
Unconfirmed(j) ==
  /\ Move(j, "send", "send") \/ Move(j, "send", "batch")
  /\ Shown(j) /\ Mishap
  /\ UNCHANGED <<tables, onSale, conns>>

SnapshotStored(j) ==
  /\ storeOpen
  /\ Move(j, "snapshot", "seen")
  /\ snaps' = [snaps EXCEPT ![Pair(j)] = @ + 1]
  /\ UNCHANGED <<seen, cache, snoozed, world, conns, mishaps>>

SeenStored(j) ==
  /\ storeOpen
  /\ Move(j, "seen", "batch") \/ Move(j, "drop", "batch")
  /\ seen' = seen \cup {Pair(j)}
  /\ UNCHANGED <<snaps, cache, snoozed, world, conns, mishaps>>

PersistFails(j) ==
  /\ Move(j, "snapshot", "batch") \/ Move(j, "seen", "batch") \/ Move(j, "drop", "batch")
  /\ StatementRaises
  /\ UNCHANGED <<tables, world, conns>>

CycleStep(j) ==
  \/ SkipSnoozed(j) \/ EnterSearch(j) \/ SearchOk(j) \/ SearchFails(j) \/ EndCycle(j)
  \/ CycleRaises(j) \/ PickMatch(j) \/ PickDrop(j) \/ BatchDone(j) \/ SelectPhase(j)
  \/ Delivered(j) \/ Undelivered(j) \/ Unconfirmed(j)
  \/ SnapshotStored(j) \/ SeenStored(j) \/ PersistFails(j)
  \/ \E l \in Listings : CacheHit(j, l) \/ CacheMiss(j, l) \/ EvaluationFails(j, l)

(***************************************************************************)
(* The environment: the market, time, and the Snooze button of an alert    *)
(* whose snapshot is on record (_apply_snooze).                            *)
(***************************************************************************)
Posted(l) ==
  /\ l \notin onSale /\ onSale' = onSale \cup {l}
  /\ UNCHANGED <<job, tables, alerts, conns, mishaps>>

Sold(l) ==
  /\ l \in onSale /\ onSale' = onSale \ {l}
  /\ UNCHANGED <<job, tables, alerts, conns, mishaps>>

Snooze(e) ==
  /\ storeOpen /\ \E l \in Listings : snaps[<<l, e>>] > 0
  /\ snoozed' = snoozed \cup {e}
  /\ UNCHANGED <<job, seen, snaps, cache, world, conns, mishaps>>

SnoozeEnds(e) ==
  /\ e \in snoozed /\ snoozed' = snoozed \ {e}
  /\ UNCHANGED <<job, seen, snaps, cache, world, conns, mishaps>>

CacheExpires(l) ==
  /\ cache[l] # None /\ cache' = [cache EXCEPT ![l] = None]
  /\ UNCHANGED <<job, seen, snaps, snoozed, world, conns, mishaps>>

Environment ==
  \/ \E l \in Listings : Posted(l) \/ Sold(l) \/ CacheExpires(l)
  \/ \E e \in Entries : Snooze(e) \/ SnoozeEnds(e)
=============================================================================
