-------------------------------- MODULE Watch --------------------------------
(***************************************************************************)
(* Phase 1 as a whole: the poll jobs, the process they live in, the        *)
(* market, the user's snoozes.                                             *)
(***************************************************************************)
EXTENDS DaemonLifecycle

CONSTANT Healthy   \* pairs whose search, evaluation and delivery work now and again

ASSUME HealthyAssumption == Healthy \subseteq Pairs

vars == <<pollVars, lifeVars>>

TypeOK == PollTypeOK /\ LifeTypeOK

Init == PollInit /\ LifeInit

World ==
  /\ Environment
  /\ UNCHANGED lifeVars

Next ==
  \/ \E j \in Jobs : LoopStep(j)
  \/ Signal \/ ShutdownStep \/ Dies \/ Restart \/ Start \/ World

Spec == Init /\ [][Next]_vars

(***************************************************************************)
(* Fairness.  The event loop resumes what can run, and a supervisor starts *)
(* a process again that died; one that a signal stopped may stay stopped.  *)
(* Of the outside nothing is assumed but for the healthy pairs: when the   *)
(* search for their entry, their evaluation and the delivery of their      *)
(* alert are tried for ever, they succeed some time.                       *)
(***************************************************************************)
SearchServes(j, p) ==
  job[j].at = "search" /\ Entry(j) = p[2] /\ SearchOk(j) /\ UNCHANGED lifeVars

Evaluates(j, p) ==
  /\ job[j].at = "batch" /\ Entry(j) = p[2] /\ (CacheHit(j, p[1]) \/ CacheMiss(j, p[1]))
  /\ UNCHANGED lifeVars

Delivers(j, p) ==
  job[j].at = "send" /\ Pair(j) = p /\ Delivered(j) /\ UNCHANGED lifeVars

FairSpec ==
  /\ Spec
  /\ \A j \in Jobs :
       /\ WF_vars(LoopStep(j))
       /\ \A p \in Healthy :
            /\ SF_vars(SearchServes(j, p)) /\ SF_vars(Evaluates(j, p)) /\ SF_vars(Delivers(j, p))
  /\ WF_vars(ShutdownStep) /\ WF_vars(Restart)

(***************************************************************************)
(* Safety.                                                                 *)
(***************************************************************************)
\* A listing that one search result lists once fires at most one alert per entry
\* (FR10), but for one more for every crash, shutdown, failing statement or lost
\* confirmation.  One that is listed Copies times fires Copies alerts, and as many
\* again for a mishap: a shutdown closes the store before the copies are marked.
RepeatsNeedMishaps == \A p \in Pairs : alerts[p] <= Copies * (1 + mishaps)

\* The audit log matches the user's screen up to what mishaps cost: no row
\* without an alert, and no alert without a row but for the one in flight and
\* those a mishap lost, a listing's copies together at most (NFR-R5).
InFlight(p) == \E j \in Jobs : job[j].at = "snapshot" /\ Pair(j) = p

AlertsAreAudited ==
  \A p \in Pairs :
    /\ snaps[p] <= alerts[p]
    /\ alerts[p] <= snaps[p] + Copies * mishaps + (IF InFlight(p) THEN 1 ELSE 0)

\* No crash, cancellation or failure between the steps loses a listing: it is
\* marked as seen only after its alert's snapshot was stored or the LLM
\* declined the listing (for some entry: the cache does not tell them apart).
SeenIsSettled ==
  \A p \in seen : snaps[p] > 0 \/ \E e \in Entries : <<p[1], e>> \notin Fits

(***************************************************************************)
(* Liveness, under FairSpec.                                               *)
(***************************************************************************)
\* A listing that stays on sale is settled for an entry that is no longer
\* snoozed, whatever keeps failing for other listings and other entries and
\* however the process dies, unless the operator leaves it stopped.
HealthyIsSettled ==
  \A p \in Healthy :
    <>[](p[1] \in onSale /\ p[2] \notin snoozed) /\ ~<>[](main = "stopped")
      => <>(p \in seen)

\* A signal ends the process.
SignalEndsProcess == drain = "created" ~> ~Alive

(***************************************************************************)
(* What the documents say and the code does not do.                        *)
(***************************************************************************)
\* prd.md, FR10: a listing fires one alert per entry, whatever lists it twice.
OneAlertPerPair == mishaps = 0 => \A p \in Pairs : alerts[p] <= 1

\* prd.md, FR50: SIGTERM drains what is in flight before the process goes.
ClosedAfterDrain == Alive /\ ~storeOpen => \A j \in Jobs : job[j].at = "idle"

\* evaluation.py: an evaluation is of a listing against one wishlist entry; a
\* match is never settled without an alert.
MatchIsAlerted == \A p \in seen : p \in Fits => alerts[p] > 0
==============================================================================
