------------------------------- MODULE Phase2 -------------------------------
(***************************************************************************)
(* Phase 2 as a whole: the buy tasks of the daemon, the remote agents, the *)
(* smoke test and the operator's CLI around one phase2_state row and one   *)
(* wishlist file.                                                          *)
(***************************************************************************)
EXTENDS BuyFlow, OperatorCli, SmokeTest, FiniteSets

VARIABLE lifted   \* history: taps whose recorded mismatch the operator lifted

vars == <<row, enabled, brk, openAlerts, pc, keyboard, snapshots, callbacks, tapRows, txns, cross,
          agent, ordered, receipt, verdict, told, crashes, cli, smoke, lastRun, lifted>>

Mismatched == {t \in txns : receipt[t] = "mismatch"}

TypeOK ==
  /\ row \in Rows /\ enabled \in Switches
  /\ BrkTypeOK /\ BuyTypeOK /\ CliTypeOK /\ SmokeTypeOK
  /\ lifted \subseteq Taps

Init ==
  /\ InitRow /\ enabled \in Switches
  /\ BrkInit /\ BuyInit /\ CliInit /\ SmokeInit
  /\ lifted = {}

(***************************************************************************)
(* The daemon, the remote agents, the CLI, the smoke test, time.           *)
(***************************************************************************)
Daemon(t) ==
  /\ Tap(t) \/ BuyStep(t)
  /\ UNCHANGED <<cli, smokeVars, lifted>>

RemoteAgent(t) ==
  /\ AgentEnds(t)
  /\ UNCHANGED <<cli, smokeVars, lifted>>

PollLoop ==
  /\ \E a \in Alerts : PersistSnapshot(a)
  /\ UNCHANGED <<cli, smokeVars, lifted>>

CliStep ==
  /\ Command \/ CliProgress
  /\ lifted' = IF cli.at = "clear" THEN lifted \cup Mismatched ELSE lifted
  /\ UNCHANGED <<brk, openAlerts, pc, dataVars, verdict, told, crashes, smokeVars>>

SmokeStep ==
  /\ Start \/ SmokeProgress
  /\ UNCHANGED <<brk, openAlerts, pc, dataVars, verdict, told, crashes, enabled, cli, lifted>>

TimePasses ==
  /\ SmokeGoesStale
  /\ UNCHANGED <<brk, openAlerts, buyVars, cli, smokeVars, lifted>>

\* MaxCrashes bounds the deaths of all processes together.
Killed ==
  /\ crashes < MaxCrashes /\ crashes' = crashes + 1
  /\ \/ CliKilled /\ UNCHANGED smokeVars
     \/ SmokeKilled /\ UNCHANGED <<enabled, cli>>
  /\ UNCHANGED <<brk, openAlerts, pc, dataVars, verdict, told, lifted>>

DaemonDies == Crash /\ UNCHANGED <<cli, smokeVars, lifted>>

Next ==
  \/ \E t \in Taps : Daemon(t) \/ RemoteAgent(t)
  \/ PollLoop \/ CliStep \/ SmokeStep \/ TimePasses \/ Killed \/ DaemonDies

Spec == Init /\ [][Next]_vars

(***************************************************************************)
(* Fairness.  A task of the event loop is resumed when what it awaits is   *)
(* done, and everything a buy task awaits comes back: SQLite statements    *)
(* wait at most for the busy timeout, a Telegram send retries three times, *)
(* the browser call runs under wait_for.  The smoke test is a loop over a  *)
(* finite list.  Nothing is assumed of taps, agents, the operator or time. *)
(***************************************************************************)
BuyTask(t) == BuyStep(t) /\ UNCHANGED <<cli, smokeVars, lifted>>

SmokeTask ==
  /\ SmokeProgress
  /\ UNCHANGED <<brk, openAlerts, pc, dataVars, verdict, told, crashes, enabled, cli, lifted>>

FairSpec == Spec /\ (\A t \in Taps : WF_vars(BuyTask(t))) /\ WF_vars(SmokeTask)

(***************************************************************************)
(* Safety.                                                                 *)
(***************************************************************************)
\* Taps that passed the gate and may still place an order.
MayOrder(t) == pc[t] \in {"tap", "cross", "buy"} \/ agent[t] = "working"

Guard == INSTANCE Phase2Guard WITH
  locked   <- row.disabled,
  enabling <- cli.at = "clear",
  admitted <- {t \in Taps : MayOrder(t)}

\* The buy tasks, the breaker, the smoke test and the CLI together keep the
\* promise of Phase2Guard: no purchase is admitted under a lockout, only
\* `phase2 enable` lifts one (FR35), no tap orders twice or unadmitted.
GuardSpec == Guard!Spec

\* A remote agent is set to work only for a tap whose callback row was written
\* and whose price the second source confirmed (FR31, audit-first), and in a
\* database without faults its tap_events row too.
OrderIsWarranted ==
  \A t \in Taps : agent[t] # "none" =>
    t \in callbacks /\ cross[t] = "passed" /\ (DbFaults \/ t \in tapRows)

\* A transactions row stands for an order the marketplace took, and the user
\* reads "Comprado" only for a purchase with such a row (FR36).
SuccessIsAudited ==
  /\ txns \subseteq ordered
  /\ \A t \in Taps : verdict[t] = "success" => t \in txns

\* From the moment a purchase at the wrong price is about to be called a success
\* Phase 2 is locked, whatever other tasks do, until the operator lifts the
\* lockout after the purchase was on record (FR32, NFR-R4).
MismatchLocks ==
  \A t \in Taps : verdict[t] = "success" /\ receipt[t] = "mismatch" =>
    row.disabled \/ t \in lifted

\* Attempts that failed on the far side of the gate, or raised on either side of
\* it, and went through the counter.
Counted ==
  {t \in Taps : /\ \/ verdict[t] = "error"
                   \/ cross[t] # "none" /\ verdict[t] \in {"failure", "maybe"}
                /\ brk[t].at \notin {"read", "count"}}

\* As long as nothing resets it, the counter is the number of purchase attempts
\* that failed and were counted: concurrent failures are not lost, none counts
\* twice, one that raises before the gate counts too, and a tap refused by the
\* wishlist or at the gate does not (FR34).
FailuresCounted ==
  ~DbFaults /\ crashes = 0 /\ cli.ran = 0 /\ txns = {} => row.failures = Cardinality(Counted)

\* With every entry switched off in wishlist.yaml no further tap gets past the
\* wishlist check, while the CLI command that switched them off may still run.
SwitchedOffStaysOut ==
  [][(\A e \in Entries : ~enabled[e]) =>
       \A t \in Taps : (pc[t] = "gate")' \/ MayOrder(t)' => pc[t] = "gate" \/ MayOrder(t)]_vars

\* A lockout is lifted only for an entry that is already enabled on disk, so an
\* `enable` killed half way never leaves Phase 2 unlocked for nothing (FR35).
LiftFollowsSave == [][row.disabled /\ ~row'.disabled => enabled[cli.entry]]_vars

(***************************************************************************)
(* Liveness, under FairSpec with no crashes and no database faults.        *)
(***************************************************************************)
\* A buy task that started runs to its completion message (Story 5.10).
TaskCompletes == \A t \in Taps : pc[t] = "lookup" ~> pc[t] = "done"

\* A purchase the agent reports at the wrong price locks Phase 2, on the far side
\* of its audit row (FR32).
MismatchLeadsToLock ==
  \A t \in Taps : pc[t] = "record" /\ receipt[t] = "mismatch" ~> row.disabled

\* A smoke run in which any fixture failed locks Phase 2 (FR33), even when a
\* later fixture passed and the row shows "pass".
SmokeFailureLeadsToLock == smoke.failed /\ smoke.at = "fixtures" ~> row.disabled

(***************************************************************************)
(* What the documents say and the code does not do.                        *)
(***************************************************************************)
\* epics.md, Story 5.5: when the counter reaches the threshold, Phase 2 is
\* locked.  (The breaker decides on a counter it read before counting.)
ThresholdLocks == BreakerQuiet /\ row.failures >= Threshold => row.disabled

\* domain/alert.py: from the failure alert alone the user knows whether the
\* agent bought; "La compra NO se ha ejecutado." means there is no order.
FailureMessageIsTrue == \A t \in Taps : told[t] \in {"failure", "error"} => t \notin ordered

\* architecture.md: never accidentally double-buy.
NoDoubleBuy == \A t, u \in ordered : AlertOf[t] = AlertOf[u] => t = u

\* smoke_test.py: an all-pass run after a failed one sends smoke_test_recovered.
RecoveryIsReported == lastRun.owed => lastRun.recovered
==============================================================================
