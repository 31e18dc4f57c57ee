---------------------------- MODULE CircuitBreaker ----------------------------
(***************************************************************************)
(* CircuitBreaker.record_outcome as its callers see it: a read of the row, *)
(* a decision taken on what was read, a counter statement, and - when the  *)
(* decision opened the circuit - the lockout and the circuit_open alert.   *)
(* Each of these awaits, so two callers interleave between any two steps.  *)
(***************************************************************************)
EXTENDS Phase2State

CONSTANTS
  Taps,        \* the Buy taps of the instance: each is one caller
  DbFaults     \* whether a database statement may raise in this instance

ASSUME DbFaultsAssumption == DbFaults \in BOOLEAN

VARIABLES
  brk,         \* brk[t]: the record_outcome call in progress for tap t
  openAlerts   \* circuit_open alerts reported so far

brkVars == <<brk, openAlerts>>

Outcomes == {"none", "success", "failure"}

NoCall == [at |-> "idle", outcome |-> "none", opens |-> FALSE]

Calls == [at      : {"idle", "read", "count", "lock", "report", "returned", "raised"},
          outcome : Outcomes,
          opens   : BOOLEAN]

BrkTypeOK == brk \in [Taps -> Calls] /\ openAlerts \in Nat

BrkInit == brk = [t \in Taps |-> NoCall] /\ openAlerts = 0

(***************************************************************************)
(* The call as a value, for the caller to start it.                        *)
(***************************************************************************)
RecordOutcome(outcome) == [at |-> "read", outcome |-> outcome, opens |-> FALSE]

BrkRead(t) ==
  /\ brk[t].at = "read"
  /\ brk' = [brk EXCEPT ![t].at = "count",
                        ![t].opens = JustOpened(row, brk[t].outcome)]
  /\ UNCHANGED <<row, openAlerts>>

(***************************************************************************)
(* reset_failure_counter or increment_failure_counter.  The increment is   *)
(* one SQL statement, so none is lost; the decision above may be stale.    *)
(***************************************************************************)
CountThatLifts(t) ==
  /\ brk[t].at = "count"
  /\ row' = IF brk[t].outcome = "success" THEN DisableCleared(CounterReset(row)) ELSE Incremented(row)
  /\ brk' = [brk EXCEPT ![t].at = IF brk[t].opens THEN "lock" ELSE "returned"]
  /\ UNCHANGED openAlerts

BrkCount(t) ==
  /\ brk[t].at = "count"
  /\ row' = IF brk[t].outcome = "success" THEN CounterReset(row) ELSE Incremented(row)
  /\ brk' = [brk EXCEPT ![t].at = IF brk[t].opens THEN "lock" ELSE "returned"]
  /\ UNCHANGED openAlerts

BrkLock(t) ==
  /\ brk[t].at = "lock"
  /\ row' = Disabled(row)
  /\ brk' = [brk EXCEPT ![t].at = "report"]
  /\ UNCHANGED openAlerts

(***************************************************************************)
(* reporter.report never raises: the alert is sent or logged as lost.      *)
(***************************************************************************)
BrkReport(t) ==
  /\ brk[t].at = "report"
  /\ openAlerts' = openAlerts + 1
  /\ brk' = [brk EXCEPT ![t].at = "returned"]
  /\ UNCHANGED row

(***************************************************************************)
(* A statement raises: nothing is written, and nothing written before it   *)
(* is undone.                                                              *)
(***************************************************************************)
BrkRaise(t) ==
  /\ DbFaults
  /\ brk[t].at \in {"read", "count", "lock"}
  /\ brk' = [brk EXCEPT ![t].at = "raised"]
  /\ UNCHANGED <<row, openAlerts>>

BreakerStep(t) ==
  BrkRead(t) \/ BrkCount(t) \/ BrkLock(t) \/ BrkReport(t) \/ BrkRaise(t)

BreakerQuiet == \A t \in Taps : brk[t].at = "idle"
==============================================================================
