------------------------ MODULE DegradationReporter ------------------------
(***************************************************************************)
(* DegradationReporter.report and the HealthState it records into.  A      *)
(* report is logged, recorded, and sent to the operator unless the same    *)
(* event with the same context was sent within the dedup window.  The send *)
(* is awaited between the check of the window and its arming, so that      *)
(* callers interleave there.                                               *)
(*                                                                         *)
(* Time is kept as ages: a moment that is a Window or more ago has the age *)
(* Window, and so has one that never was.                                  *)
(***************************************************************************)
EXTENDS Naturals, FiniteSets

CONSTANTS
  Callers,      \* the tasks that report
  Reports,      \* what is reported: an event with its context
  Adapters,     \* the adapters a context may name
  Window,       \* the dedup window, in ticks of the clock
  NoSend        \* no send under way

VARIABLES
  armed,        \* armed[r]: how long ago the last delivered report of r began
  sending,      \* sending[c]: the report c waits for, and how long ago it began
  degraded,     \* _degraded_adapters of the health state
  recent,       \* ghost: how long ago the last report of r that c delivered began
  overtaken     \* ghost: the youngest report of r whose delivery an older one followed

ghostVars    == <<recent, overtaken>>
reporterVars == <<armed, sending, degraded, ghostVars>>

Ages == 0..Window

Underway == [report : Reports, age : Ages]

ASSUME ReporterAssumption == Window \in Nat /\ NoSend \notin Underway

Older(age) == IF age < Window THEN age + 1 ELSE Window

Younger(age, other) == IF age < other THEN age ELSE other

ReporterTypeOK ==
  /\ armed \in [Reports -> Ages]
  /\ sending \in [Callers -> Underway \cup {NoSend}]
  /\ degraded \subseteq Adapters
  /\ recent \in [Reports -> [Callers -> Ages]]
  /\ overtaken \in [Reports -> Ages]

ReporterInit ==
  /\ armed = [r \in Reports |-> Window]
  /\ sending = [c \in Callers |-> NoSend]
  /\ degraded = {}
  /\ recent = [r \in Reports |-> [c \in Callers |-> Window]]
  /\ overtaken = [r \in Reports |-> Window]

\* Mutant: the flag of a recovered adapter is kept, that of any other cleared.
RecordedSwapped(adapter, recovers) ==
  IF recovers THEN degraded \cup adapter ELSE degraded \ adapter

(***************************************************************************)
(* The three sinks.  An adapter that a recovery event names is no longer   *)
(* degraded, one that any other event names is; a context may name none.   *)
(***************************************************************************)
Recorded(adapter, recovers) ==
  IF recovers THEN degraded \ adapter ELSE degraded \cup adapter

Deduped(r) == armed[r] < Window

Report(c, r, adapter, recovers) ==
  /\ sending[c] = NoSend
  /\ degraded' = Recorded(adapter, recovers)
  /\ sending' = IF Deduped(r) THEN sending
                ELSE [sending EXCEPT ![c] = [report |-> r, age |-> 0]]
  /\ UNCHANGED <<armed, ghostVars>>

\* The books on c's delivery of its report, after which the window would start at
\* its beginning: a window that started later has been overtaken.
Delivered(c) ==
  LET r == sending[c].report
      began == sending[c].age
  IN /\ recent' = [recent EXCEPT ![r][c] = began]
     /\ overtaken' = IF armed[r] < began
                     THEN [overtaken EXCEPT ![r] = Younger(@, armed[r])]
                     ELSE overtaken

\* Mutant: a delivery leaves the window unarmed.
DeliveredUnarmed(c) ==
  /\ sending[c] # NoSend
  /\ Delivered(c)
  /\ sending' = [sending EXCEPT ![c] = NoSend]
  /\ UNCHANGED <<armed, degraded>>

(***************************************************************************)
(* The send returns: only a delivered alert arms the window, and it arms   *)
(* it with the moment its report began, be it before the moment the window *)
(* was armed with since.                                                   *)
(***************************************************************************)
SendReturns(c) ==
  /\ sending[c] # NoSend
  /\ armed' = [armed EXCEPT ![sending[c].report] = sending[c].age]
  /\ Delivered(c)
  /\ sending' = [sending EXCEPT ![c] = NoSend]
  /\ UNCHANGED degraded

\* Mutant: a failed send arms the window as well.
SendFailsArmed(c) ==
  /\ sending[c] # NoSend
  /\ armed' = [armed EXCEPT ![sending[c].report] = sending[c].age]
  /\ sending' = [sending EXCEPT ![c] = NoSend]
  /\ UNCHANGED <<degraded, ghostVars>>

SendFails(c) ==
  /\ sending[c] # NoSend
  /\ sending' = [sending EXCEPT ![c] = NoSend]
  /\ UNCHANGED <<armed, degraded, ghostVars>>

SendStep(c) == SendReturns(c) \/ SendFails(c)

Tick ==
  /\ armed' = [r \in Reports |-> Older(armed[r])]
  /\ sending' = [c \in Callers |->
                   IF sending[c] = NoSend THEN NoSend
                   ELSE [sending[c] EXCEPT !.age = Older(@)]]
  /\ recent' = [r \in Reports |-> [c \in Callers |-> Older(recent[r][c])]]
  /\ overtaken' = [r \in Reports |-> Older(overtaken[r])]
  /\ UNCHANGED degraded

\* The process is gone, and all of this with it.
ReporterLost ==
  /\ armed' = [r \in Reports |-> Window]
  /\ sending' = [c \in Callers |-> NoSend]
  /\ degraded' = {}
  /\ recent' = [r \in Reports |-> [c \in Callers |-> Window]]
  /\ overtaken' = [r \in Reports |-> Window]

ReporterNext ==
  \/ \E c \in Callers :
       \/ \E r \in Reports, adapter \in SUBSET Adapters, recovers \in BOOLEAN : Report(c, r, adapter, recovers)
       \/ SendStep(c)
  \/ Tick \/ ReporterLost

ReporterSpec == ReporterInit /\ [][ReporterNext]_reporterVars

(***************************************************************************)
(* Safety.                                                                 *)
(***************************************************************************)
\* An alert is held back only if some caller delivered the same alert, reported
\* less than a window ago: a failed send never suppresses the next attempt.
SuppressionIsEarned ==
  \A r \in Reports : Deduped(r) => \E c \in Callers : recent[r][c] < Window

\* A caller sends an alert within a window of its own last delivery of it only if
\* the window was set back since: by another caller whose report is older and
\* whose send came back later.  However checks, sends and failures interleave,
\* one caller's repetitions alone never reach the operator twice.
RepeatsWereOvertaken ==
  \A c \in Callers : sending[c] # NoSend =>
    LET r == sending[c].report
    IN recent[r][c] < Window => overtaken[r] <= recent[r][c]
=============================================================================
