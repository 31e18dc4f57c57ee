------------------------------ MODULE SmokeTest ------------------------------
(***************************************************************************)
(* run_smoke_test: the daily run of the price parsers over the recorded    *)
(* fixtures.  Every fixture's result is written to its audit row and       *)
(* mirrored at once onto the phase2_state row, so the row shows the last   *)
(* fixture run; only when all are through does a failure lock Phase 2.     *)
(***************************************************************************)
EXTENDS Phase2State

CONSTANTS
  Fixtures,    \* number of fixtures
  MaxRuns      \* bound: smoke runs in a behaviour

ASSUME SmokeAssumption == Fixtures \in Nat /\ MaxRuns \in Nat

VARIABLES
  smoke,       \* the run in progress: fixtures left, whether one failed, ...
  lastRun      \* what the last completed run found; recovered alerts follow it

smokeVars == <<smoke, lastRun>>

SmokeTypeOK ==
  /\ smoke \in [at : {"idle", "fixtures", "report"}, left : 0 .. Fixtures, failed : BOOLEAN,
                previouslyFailed : BOOLEAN, runs : Nat]
  /\ lastRun \in [found : {"none", "pass", "fail"}, recovered : BOOLEAN, owed : BOOLEAN]

SmokeInit ==
  /\ smoke = [at |-> "idle", left |-> 0, failed |-> FALSE, previouslyFailed |-> FALSE, runs |-> 0]
  /\ lastRun = [found |-> "none", recovered |-> FALSE, owed |-> FALSE]

Start ==
  /\ smoke.at = "idle" /\ smoke.runs < MaxRuns
  /\ smoke' = [at |-> "fixtures", left |-> Fixtures, failed |-> FALSE,
               previouslyFailed |-> row.smoke = "fail", runs |-> smoke.runs + 1]
  /\ UNCHANGED <<row, lastRun>>

RunFixture ==
  /\ smoke.at = "fixtures" /\ smoke.left > 0
  /\ \E passed \in BOOLEAN :
       /\ row' = Mirrored(row, IF passed THEN "pass" ELSE "fail")
       /\ smoke' = [smoke EXCEPT !.left = @ - 1, !.failed = @ \/ ~passed]
  /\ UNCHANGED lastRun

\* owed: this run passed and the one before it failed.
Completed(found, recovered) ==
  lastRun' = [found |-> found, recovered |-> recovered,
              owed  |-> found = "pass" /\ lastRun.found = "fail"]

LockUnlessLastPassed ==
  /\ smoke.at = "fixtures" /\ smoke.left = 0 /\ smoke.failed
  /\ row' = IF row.smoke = "fail" THEN Disabled(row) ELSE row
  /\ smoke' = [smoke EXCEPT !.at = "report"]
  /\ UNCHANGED lastRun

LockOnFailure ==
  /\ smoke.at = "fixtures" /\ smoke.left = 0 /\ smoke.failed
  /\ row' = Disabled(row)
  /\ smoke' = [smoke EXCEPT !.at = "report"]
  /\ UNCHANGED lastRun

ReportFailure ==
  /\ smoke.at = "report"
  /\ smoke' = [smoke EXCEPT !.at = "idle"]
  /\ Completed("fail", FALSE)
  /\ UNCHANGED row

PassThatLifts ==
  /\ smoke.at = "fixtures" /\ smoke.left = 0 /\ ~smoke.failed
  /\ smoke' = [smoke EXCEPT !.at = "idle"]
  /\ Completed("pass", smoke.previouslyFailed)
  /\ row' = DisableCleared(row)

AllPassed ==
  /\ smoke.at = "fixtures" /\ smoke.left = 0 /\ ~smoke.failed
  /\ smoke' = [smoke EXCEPT !.at = "idle"]
  /\ Completed("pass", smoke.previouslyFailed)
  /\ UNCHANGED row

\* A statement raises or the process dies; the row keeps what was mirrored.
SmokeKilled ==
  /\ smoke.at # "idle"
  /\ smoke' = [smoke EXCEPT !.at = "idle"]
  /\ UNCHANGED <<row, lastRun>>

SmokeProgress == RunFixture \/ LockOnFailure \/ ReportFailure \/ AllPassed
==============================================================================
