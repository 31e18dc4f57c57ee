------------------------------- MODULE Health -------------------------------
(***************************************************************************)
(* health: what the command tells of a daemon that it does not talk to.    *)
(* It reads _meta, which the daemon writes piecemeal - its pid at the      *)
(* start, a heartbeat after each cycle, the state of the API path after    *)
(* that - and the credential files.  The daemon may hang, die and come     *)
(* back anywhere in between, and its pid may pass to another process.      *)
(***************************************************************************)
EXTENDS Naturals

CONSTANTS
  Cadence,        \* of a marketplace, in ticks
  MaxRows         \* bound: starts of the daemon and changes of the credential files

ASSUME HealthAssumption == Cadence \in Nat \ {0} /\ MaxRows \in Nat

VARIABLES
  serves,         \* the marketplaces the running daemon has a job for; none when it is off
  pidRow,         \* what the pid in _meta names: no process, the daemon, another one
  cycle,          \* cycle[m]: at rest, polling, or between its two writes
  latchOpen,      \* the API path is in use, as the daemon knows
  polled,         \* last_poll_<m>, as an age in ticks, or Never
  statusRow,      \* wallapop_api_status
  present,        \* the marketplaces whose credential file is there
  spentRows,
  foundOpen,      \* ghost: the latch at the end of the last Wallapop cycle
  halved          \* ghost: the last cycle's end did not get to both its writes

healthVars == <<serves, pidRow, cycle, latchOpen, polled, statusRow, present, spentRows, foundOpen, halved>>

Marketplaces == {"wallapop", "ebay"}

StaleAfter == 2 * Cadence        \* _STALE_CADENCE_MULTIPLIER

Never == StaleAfter + 2

HealthTypeOK ==
  /\ serves \subseteq Marketplaces /\ present \subseteq Marketplaces
  /\ pidRow \in {"none", "gone", "own", "reused"}
  /\ cycle \in [Marketplaces -> {"rest", "poll", "ended"}]
  /\ polled \in [Marketplaces -> 0..Never]
  /\ statusRow \in {"none", "healthy", "degraded"}
  /\ latchOpen \in BOOLEAN /\ foundOpen \in BOOLEAN /\ halved \in BOOLEAN
  /\ spentRows \in 0..MaxRows

HealthInit ==
  /\ serves = {} /\ pidRow = "none" /\ cycle = [m \in Marketplaces |-> "rest"]
  /\ latchOpen = TRUE /\ polled = [m \in Marketplaces |-> Never] /\ statusRow = "none"
  /\ present \in SUBSET Marketplaces /\ spentRows = 0
  /\ foundOpen = TRUE /\ halved = FALSE

(***************************************************************************)
(* What health makes of it.                                                *)
(***************************************************************************)
Running == pidRow \in {"own", "reused"}     \* signal 0 finds some process

\* Exactly two cadences ago is not stale; never is not stale either.
Stale(m) == polled[m] # Never /\ polled[m] > StaleAfter

\* Mutant: a row whose path is not degraded is healthy, however old.
ApiRowAged ==
  IF "wallapop" \notin present THEN "down"
  ELSE IF statusRow = "degraded" \/ polled["wallapop"] = Never THEN "degraded"
  ELSE "healthy"

ApiRow ==
  IF "wallapop" \notin present THEN "down"
  ELSE IF statusRow = "degraded" \/ Stale("wallapop") \/ polled["wallapop"] = Never THEN "degraded"
  ELSE "healthy"

\* It has no credential file of its own.
TinyfishRow == IF Stale("wallapop") \/ polled["wallapop"] = Never THEN "degraded" ELSE "healthy"

EbayRow ==
  IF "ebay" \notin present THEN "down"
  ELSE IF Stale("ebay") \/ polled["ebay"] = Never THEN "degraded"
  ELSE "healthy"

RowsOf == [wallapop |-> {ApiRow, TinyfishRow}, ebay |-> {EbayRow}]

\* "Last poll": the newest over the marketplaces, and whether that one is stale.
LastPoll ==
  IF \A m \in Marketplaces : polled[m] = Never THEN "never"
  ELSE IF \E m \in Marketplaces : polled[m] # Never /\ ~Stale(m) THEN "recent" ELSE "STALE"

(***************************************************************************)
(* What the daemon writes.                                                 *)
(***************************************************************************)
rowsVars == <<statusRow, foundOpen, halved>>

\* _run_daemon, once the daemon is composed: pid, start time, version.
Boots ==
  /\ serves = {} /\ present # {} /\ spentRows < MaxRows
  /\ spentRows' = spentRows + 1
  /\ serves' = present /\ pidRow' = "own" /\ latchOpen' = TRUE
  /\ UNCHANGED <<cycle, polled, present, rowsVars>>

CycleBegins(m) ==
  /\ m \in serves /\ cycle[m] = "rest"
  /\ cycle' = [cycle EXCEPT ![m] = "poll"]
  /\ UNCHANGED <<serves, pidRow, latchOpen, polled, present, spentRows, rowsVars>>

\* A 401, or a rewritten cookie file.
LatchMoves ==
  /\ cycle["wallapop"] = "poll"
  /\ latchOpen' = ~latchOpen
  /\ UNCHANGED <<serves, pidRow, cycle, polled, present, spentRows, rowsVars>>

\* The heartbeat, however the searches of the cycle went.  Its failure is only
\* logged; what raises earlier in the cycle skips it.
CycleEnds(m) ==
  /\ cycle[m] = "poll"
  /\ \/ polled' = [polled EXCEPT ![m] = 0]
     \/ polled' = polled
  /\ cycle' = [cycle EXCEPT ![m] = IF m = "wallapop" THEN "ended" ELSE "rest"]
  /\ foundOpen' = IF m = "wallapop" THEN latchOpen ELSE foundOpen
  /\ UNCHANGED <<serves, pidRow, latchOpen, present, spentRows, statusRow, halved>>

CycleRaises(m) ==
  /\ cycle[m] = "poll"
  /\ cycle' = [cycle EXCEPT ![m] = "rest"]
  /\ halved' = (halved \/ m = "wallapop")
  /\ UNCHANGED <<serves, pidRow, latchOpen, polled, present, spentRows, statusRow, foundOpen>>

\* Mutant: a path that is degraded is not written.
WritesHealthy ==
  /\ cycle["wallapop"] = "ended"
  /\ statusRow' = IF latchOpen THEN "healthy" ELSE statusRow
  /\ cycle' = [cycle EXCEPT !["wallapop"] = "rest"]
  /\ halved' = FALSE
  /\ UNCHANGED <<serves, pidRow, latchOpen, polled, present, spentRows, foundOpen>>

WritesStatus ==
  /\ cycle["wallapop"] = "ended"
  /\ statusRow' = IF latchOpen THEN "healthy" ELSE "degraded"
  /\ cycle' = [cycle EXCEPT !["wallapop"] = "rest"]
  /\ halved' = FALSE
  /\ UNCHANGED <<serves, pidRow, latchOpen, polled, present, spentRows, foundOpen>>

\* The write raises, which fails the cycle's job.
StatusFails ==
  /\ cycle["wallapop"] = "ended"
  /\ cycle' = [cycle EXCEPT !["wallapop"] = "rest"]
  /\ halved' = TRUE
  /\ UNCHANGED <<serves, pidRow, latchOpen, polled, present, spentRows, statusRow, foundOpen>>

\* The daemon stops or is killed.  Nothing removes its pid.
DaemonGone ==
  /\ serves # {}
  /\ serves' = {} /\ pidRow' = "gone"
  /\ halved' = (halved \/ cycle["wallapop"] # "rest")
  /\ cycle' = [m \in Marketplaces |-> "rest"]
  /\ UNCHANGED <<latchOpen, polled, statusRow, present, spentRows, foundOpen>>

PidPasses ==
  /\ pidRow \in {"gone", "reused"}
  /\ pidRow' = IF pidRow = "gone" THEN "reused" ELSE "gone"
  /\ UNCHANGED <<serves, cycle, latchOpen, polled, present, spentRows, rowsVars>>

\* A login, or the operator removes a file.
CredentialMoves ==
  /\ spentRows < MaxRows
  /\ spentRows' = spentRows + 1
  /\ \E m \in Marketplaces :
       present' = IF m \in present THEN present \ {m} ELSE present \cup {m}
  /\ UNCHANGED <<serves, pidRow, cycle, latchOpen, polled, rowsVars>>

PollsAge ==
  /\ polled' = [m \in Marketplaces |-> IF polled[m] > StaleAfter THEN polled[m] ELSE polled[m] + 1]
  /\ UNCHANGED <<serves, pidRow, cycle, latchOpen, present, spentRows, rowsVars>>

HealthNext ==
  \/ Boots \/ DaemonGone
  \/ \E m \in Marketplaces : CycleBegins(m) \/ CycleEnds(m) \/ CycleRaises(m)
  \/ LatchMoves \/ WritesStatus \/ StatusFails
  \/ PidPasses \/ CredentialMoves \/ PollsAge

HealthSpec == HealthInit /\ [][HealthNext]_healthVars

HealthFairness == WF_healthVars(PollsAge)     \* time passes

(***************************************************************************)
(* Safety.                                                                 *)
(***************************************************************************)
\* A healthy row of the API path means that the last Wallapop cycle to end, in
\* this process or an earlier one, left the path in use - but for the moment
\* between the cycle's two writes, and until the next end of a cycle when one
\* of them failed or a kill fell between.
HealthyRowIsEarned ==
  ApiRow = "healthy" /\ cycle["wallapop"] # "ended" /\ ~halved => foundOpen

(***************************************************************************)
(* Liveness, under HealthFairness: that time passes.                       *)
(***************************************************************************)
Quiet(m) == m \notin serves \/ cycle[m] = "poll"

\* A marketplace whose daemon is gone, or whose cycle hangs, does not stay
\* healthy in any row ("watching, not stuck", UX-DR25).
StuckPollersShow ==
  \A m \in Marketplaces : Quiet(m) ~> ~Quiet(m) \/ "healthy" \notin RowsOf[m]
=============================================================================
