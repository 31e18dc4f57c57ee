---------------------------- MODULE Phase2Proofs ----------------------------
(***************************************************************************)
(* Theorems about Phase2, for any number of taps, alerts, entries and      *)
(* fixtures, any threshold, and with or without faults.                    *)
(***************************************************************************)
EXTENDS Phase2, FiniteSetTheorems, TLAPS

\* The groups that UNCHANGED names, and the control moves of a task.
USE DEF rowVars, auditVars, agentVars, surfaceVars, otherVars, dataVars, buyVars, smokeVars,
        Step, Say, Answer, Await

\* A step of a tap's handler or buy task keeps every variable of its type.
LEMMA TypeTap == ASSUME TypeOK, NEW t \in Taps, Daemon(t) PROVE TypeOK'
<1> USE DEF TypeOK, BrkTypeOK, BuyTypeOK, Calls, Outcomes, Messages, PCs, Final, RecordOutcome, NoCall
<1>0. Tap(t) \/ BuyStep(t)
  BY DEF Daemon
<1>t. /\ UNCHANGED <<cli, smokeVars, lifted>>
      /\ CliTypeOK' /\ SmokeTypeOK' /\ lifted' \subseteq Taps
  BY DEF Daemon, CliTypeOK, SmokeTypeOK
<1>1. CASE Tap(t)
  BY <1>1, <1>t DEF Tap
<1>2. CASE RecordCallback(t)
  BY <1>2, <1>t DEF RecordCallback
<1>3. CASE HandlerRaises(t)
  BY <1>3, <1>t DEF HandlerRaises
<1>4. CASE EditKeyboard(t)
  BY <1>4, <1>t DEF EditKeyboard
<1>5. CASE SnapshotMissing(t)
  BY <1>5, <1>t DEF SnapshotMissing
<1>6. CASE EntryRefused(t)
  BY <1>6, <1>t DEF EntryRefused
<1>7. CASE EntryAccepted(t)
  BY <1>7, <1>t DEF EntryAccepted
<1>8. CASE Gate(t)
  BY <1>8, <1>t, ZenonT(60) DEF Gate
<1>9. CASE RecordTap(t)
  BY <1>9, <1>t DEF RecordTap
<1>10. CASE CrossPassed(t)
  BY <1>10, <1>t DEF CrossPassed
<1>11. CASE CrossFailed(t)
  BY <1>11, <1>t DEF CrossFailed
<1>12. CASE StartBuy(t)
  BY <1>12, <1>t DEF StartBuy
<1>13. CASE BuySucceeds(t)
  BY <1>13, <1>t DEF BuySucceeds
<1>14. CASE BuyFails(t)
  BY <1>14, <1>t DEF BuyFails
<1>15. CASE RecordTransaction(t)
  BY <1>15, <1>t DEF RecordTransaction
<1>16. CASE ReceiptOk(t)
  BY <1>16, <1>t DEF ReceiptOk
<1>17. CASE ReceiptMismatch(t)
  BY <1>17, <1>t DEF ReceiptMismatch, Disabled, Rows
<1>18. CASE MismatchReported(t)
  BY <1>18, <1>t DEF MismatchReported
<1>19. CASE BreakerReturned(t)
  BY <1>19, <1>t DEF BreakerReturned
<1>20. CASE BreakerRaised(t)
  BY <1>20, <1>t DEF BreakerRaised
<1>21. CASE RunRaises(t)
  BY <1>21, <1>t DEF RunRaises
<1>22. CASE HandleUnexpected(t)
  BY <1>22, <1>t DEF HandleUnexpected
<1>23. CASE Notify(t)
  BY <1>23, <1>t DEF Notify
<1>24. CASE BreakerStep(t) /\ UNCHANGED buyVars
  <2>0. UNCHANGED <<enabled, pc, keyboard, snapshots, callbacks, tapRows, txns, cross, agent,
                    ordered, receipt, verdict, told, crashes>>
    BY <1>24
  <2>1. CASE BrkRead(t)
    <3>1. JustOpened(row, brk[t].outcome) \in BOOLEAN
      BY DEF JustOpened
    <3>2. brk[t] \in Calls
      OBVIOUS
    <3>3. [[brk[t] EXCEPT !.at = "count"] EXCEPT !.opens = JustOpened(row, brk[t].outcome)] \in Calls
      BY <3>1, <3>2
    <3>4. brk' \in [Taps -> Calls]
      BY <2>1, <3>3 DEF BrkRead
    <3> QED BY <2>0, <2>1, <3>4, <1>t DEF BrkRead
  <2>2. CASE BrkCount(t)
    <3>1. row' \in Rows
      BY <2>2, SMTT(30) DEF BrkCount, CounterReset, Incremented, Rows
    <3>2. brk' \in [Taps -> Calls]
      BY <2>2 DEF BrkCount
    <3> QED BY <2>0, <2>2, <3>1, <3>2, <1>t DEF BrkCount
  <2>3. CASE BrkLock(t)
    <3>1. row' \in Rows
      BY <2>3 DEF BrkLock, Disabled, Rows
    <3>2. brk' \in [Taps -> Calls]
      BY <2>3, SMTT(30) DEF BrkLock
    <3> QED BY <2>0, <2>3, <3>1, <3>2, <1>t DEF BrkLock
  <2>4. CASE BrkReport(t)
    BY <2>0, <2>4, <1>t, SMTT(30) DEF BrkReport
  <2>5. CASE BrkRaise(t)
    BY <2>0, <2>5, <1>t DEF BrkRaise
  <2> QED BY <1>24, <2>1, <2>2, <2>3, <2>4, <2>5 DEF BreakerStep
<1> QED BY <1>0, <1>1, <1>2, <1>3, <1>4, <1>5, <1>6, <1>7, <1>8, <1>9, <1>10, <1>11, <1>12, <1>13,
   <1>14, <1>15, <1>16, <1>17, <1>18, <1>19, <1>20, <1>21, <1>22, <1>23, <1>24 DEF BuyStep

\* A step of the CLI keeps every variable of its type.
LEMMA TypeCli == ASSUME TypeOK, CliStep PROVE TypeOK'
<1> USE DEF TypeOK, CliTypeOK, Steps
<1>1. BrkTypeOK' /\ BuyTypeOK' /\ SmokeTypeOK' /\ lifted' \subseteq Taps
  BY DEF CliStep, BrkTypeOK, BuyTypeOK, SmokeTypeOK, Mismatched
<1>2. CASE Command
  BY <1>1, <1>2 DEF Command, DisableAll, Enable, Disable, Begin
<1>3. CASE Save
  <2>1. enabled' \in Switches
    BY <1>3 DEF Save, Switches
  <2>2. cli' \in [at : Steps, kind : {"enable", "disable", "all"}, entry : Entries, ran : Nat]
    BY <1>3 DEF Save
  <2> QED BY <1>1, <1>3, <2>1, <2>2 DEF Save
<1>4. CASE ClearGlobalDisable
  BY <1>1, <1>4 DEF ClearGlobalDisable, DisableCleared, Rows
<1>5. CASE ResetFailureCounter
  BY <1>1, <1>5 DEF ResetFailureCounter, CounterReset, Rows
<1>6. CASE SetGlobalLockout
  BY <1>1, <1>6 DEF SetGlobalLockout, Disabled, Rows
<1> QED BY <1>2, <1>3, <1>4, <1>5, <1>6 DEF CliStep, CliProgress

\* A step of the smoke test keeps every variable of its type.
LEMMA TypeSmoke == ASSUME TypeOK, SmokeStep PROVE TypeOK'
<1> USE DEF TypeOK, SmokeTypeOK
<1>1. /\ BrkTypeOK' /\ BuyTypeOK' /\ CliTypeOK' /\ lifted' \subseteq Taps
      /\ enabled' \in Switches
  BY DEF SmokeStep, BrkTypeOK, BuyTypeOK, CliTypeOK
<1>2. CASE Start
  <2>1. Fixtures \in 0 .. Fixtures /\ (row.smoke = "fail") \in BOOLEAN /\ smoke.runs + 1 \in Nat
    BY SmokeAssumption
  <2>2. smoke' \in [at : {"idle", "fixtures", "report"}, left : 0 .. Fixtures, failed : BOOLEAN,
                    previouslyFailed : BOOLEAN, runs : Nat]
    BY <1>2, <2>1 DEF Start
  <2> QED BY <1>1, <1>2, <2>2 DEF Start
<1>3. CASE RunFixture
  <2>1. PICK passed \in BOOLEAN :
          /\ row' = Mirrored(row, IF passed THEN "pass" ELSE "fail")
          /\ smoke' = [smoke EXCEPT !.left = @ - 1, !.failed = @ \/ ~passed]
    BY <1>3 DEF RunFixture
  <2>2. row' \in Rows
    BY <2>1 DEF Mirrored, Rows, SmokeResults
  <2>3. smoke.left > 0 /\ smoke.left - 1 \in 0 .. Fixtures /\ (smoke.failed \/ ~passed) \in BOOLEAN
    BY <1>3, SmokeAssumption DEF RunFixture
  <2>4. smoke' \in [at : {"idle", "fixtures", "report"}, left : 0 .. Fixtures, failed : BOOLEAN,
                    previouslyFailed : BOOLEAN, runs : Nat]
    BY <2>1, <2>3
  <2> QED BY <1>1, <1>3, <2>2, <2>4 DEF RunFixture
<1>4. CASE LockOnFailure
  BY <1>1, <1>4 DEF LockOnFailure, Disabled, Rows
<1>5. CASE ReportFailure
  BY <1>1, <1>5 DEF ReportFailure, Completed
<1>6. CASE AllPassed
  BY <1>1, <1>6 DEF AllPassed, Completed
<1> QED BY <1>2, <1>3, <1>4, <1>5, <1>6 DEF SmokeStep, SmokeProgress

\* The initial states are of the types.
LEMMA InitTypeOK == ASSUME Init PROVE TypeOK
<1> USE DEF TypeOK
<1>1. row \in Rows /\ enabled \in Switches /\ lifted \subseteq Taps
  BY DEF Init, InitRow, Rows, SmokeResults
<1>2. BrkTypeOK
  BY DEF Init, BrkInit, BrkTypeOK, NoCall, Calls, Outcomes
<1>3. BuyTypeOK
  BY DEF Init, BuyInit, BuyTypeOK, PCs, Final, Messages
<1>4. CliTypeOK
  BY StateAssumption DEF Init, CliInit, CliTypeOK, Steps
<1>5. SmokeTypeOK
  BY SmokeAssumption DEF Init, SmokeInit, SmokeTypeOK
<1> QED BY <1>1, <1>2, <1>3, <1>4, <1>5

\* Every step, and a stutter, keeps the types.
LEMMA NextTypeOK == ASSUME TypeOK, [Next]_vars PROVE TypeOK'
<1> USE DEF TypeOK
<1>1. ASSUME NEW t \in Taps, Daemon(t) PROVE TypeOK'
  BY <1>1, TypeTap
<1>2. ASSUME NEW t \in Taps, RemoteAgent(t) PROVE TypeOK'
  BY <1>2 DEF RemoteAgent, AgentEnds, BrkTypeOK, BuyTypeOK, CliTypeOK, SmokeTypeOK
<1>3. CASE PollLoop
  BY <1>3 DEF PollLoop, PersistSnapshot, BrkTypeOK, BuyTypeOK, CliTypeOK, SmokeTypeOK
<1>4. CASE CliStep
  BY <1>4, TypeCli
<1>5. CASE SmokeStep
  BY <1>5, TypeSmoke
<1>6. CASE TimePasses
  BY <1>6 DEF TimePasses, SmokeGoesStale, Rows, SmokeResults, BrkTypeOK, BuyTypeOK, CliTypeOK,
     SmokeTypeOK
<1>7. CASE Killed
  BY <1>7 DEF Killed, CliKilled, SmokeKilled, Steps, BrkTypeOK, BuyTypeOK, CliTypeOK, SmokeTypeOK
<1>8. CASE DaemonDies
  BY <1>8 DEF DaemonDies, Crash, InFlight, PCs, Final, NoCall, Calls, Outcomes, BrkTypeOK,
     BuyTypeOK, CliTypeOK, SmokeTypeOK
<1>9. CASE UNCHANGED vars
  BY <1>9 DEF vars, BrkTypeOK, BuyTypeOK, CliTypeOK, SmokeTypeOK
<1> QED BY <1>1, <1>2, <1>3, <1>4, <1>5, <1>6, <1>7, <1>8, <1>9 DEF Next

\* Type correctness: whatever the daemon, the agents, the CLI and the smoke test
\* do, the state row, the wishlist switches and the tasks stay of their types; in
\* particular the failure counter never drops below zero.
THEOREM TypeCorrect == Spec => []TypeOK
<1>1. Init => TypeOK
  BY InitTypeOK
<1>2. TypeOK /\ [Next]_vars => TypeOK'
  BY NextTypeOK
<1> QED BY <1>1, <1>2, PTL DEF Spec

(***************************************************************************)
(* The inductive invariant: what holds of one tap at every step, as a      *)
(* conjunction of four parts.                                              *)
(***************************************************************************)
BeforeAgent == {"idle", "event", "badge", "lookup", "gate", "tap", "cross", "buy"}

\* No agent works for a tap before its task starts one; only a finished agent
\* has ordered.
AgentInv(t) ==
  /\ pc[t] \in BeforeAgent => agent[t] = "none"
  /\ t \in ordered => agent[t] = "over"

\* The evidence is there before the agent is.
WarrantInv(t) ==
  /\ pc[t] \in BeforeAgent \ {"idle", "event"} => t \in callbacks
  /\ pc[t] \in {"cross", "buy"} => DbFaults \/ t \in tapRows
  /\ pc[t] = "buy" => cross[t] = "passed"
  /\ agent[t] # "none" => t \in callbacks /\ cross[t] = "passed" /\ (DbFaults \/ t \in tapRows)

\* The row precedes the verdict, the order precedes the row.
AuditInv(t) ==
  /\ pc[t] \in {"record", "receipt", "lock"} => t \in ordered
  /\ pc[t] \in {"receipt", "lock"} => t \in txns
  /\ t \in txns => t \in ordered
  /\ verdict[t] = "success" => t \in txns
  /\ pc[t] \in BeforeAgent \cup {"buying", "record", "receipt", "lock"} => verdict[t] = "none"

\* The lockout precedes the verdict.
LockInv(t) ==
  (pc[t] = "lock" \/ verdict[t] = "success") /\ receipt[t] = "mismatch"
    => row.disabled \/ t \in lifted

TapInv(t) == AgentInv(t) /\ WarrantInv(t) /\ AuditInv(t) /\ LockInv(t)

IInv == TypeOK /\ \A t \in Taps : TapInv(t)

\* A step of one tap keeps the invariant's part of every tap.
LEMMA InvDaemon ==
  ASSUME IInv, NEW t \in Taps, Daemon(t), NEW u \in Taps PROVE TapInv(u)'
<1> USE DEF TapInv, AgentInv, WarrantInv, AuditInv, LockInv, BeforeAgent
<1>0. /\ Tap(t) \/ BuyStep(t)
      /\ TapInv(u) /\ TapInv(t) /\ lifted' = lifted
  BY DEF Daemon, IInv
<1>t. /\ pc \in [Taps -> PCs] /\ cross \in [Taps -> {"none", "passed", "tripped", "raised"}]
      /\ agent \in [Taps -> {"none", "working", "over"}]
      /\ receipt \in [Taps -> {"none", "ok", "mismatch"}]
      /\ verdict \in [Taps -> Messages] /\ row \in Rows
  BY DEF IInv, TypeOK, BuyTypeOK
<1>1. CASE Tap(t)
  BY <1>1, <1>0, <1>t DEF Tap
<1>2. CASE RecordCallback(t)
  BY <1>2, <1>0, <1>t DEF RecordCallback
<1>3. CASE HandlerRaises(t)
  BY <1>3, <1>0, <1>t DEF HandlerRaises
<1>4. CASE EditKeyboard(t)
  BY <1>4, <1>0, <1>t DEF EditKeyboard
<1>5. CASE SnapshotMissing(t)
  BY <1>5, <1>0, <1>t DEF SnapshotMissing
<1>6. CASE EntryRefused(t)
  BY <1>6, <1>0, <1>t DEF EntryRefused
<1>7. CASE EntryAccepted(t)
  BY <1>7, <1>0, <1>t DEF EntryAccepted
<1>8. CASE Gate(t)
  BY <1>8, <1>0, <1>t DEF Gate
<1>9. CASE RecordTap(t)
  BY <1>9, <1>0, <1>t DEF RecordTap
<1>10. CASE CrossPassed(t)
  BY <1>10, <1>0, <1>t DEF CrossPassed
<1>11. CASE CrossFailed(t)
  BY <1>11, <1>0, <1>t DEF CrossFailed
<1>12. CASE StartBuy(t)
  BY <1>12, <1>0, <1>t DEF StartBuy
<1>13. CASE BuySucceeds(t)
  BY <1>13, <1>0, <1>t DEF BuySucceeds
<1>14. CASE BuyFails(t)
  BY <1>14, <1>0, <1>t DEF BuyFails
<1>15. CASE RecordTransaction(t)
  BY <1>15, <1>0, <1>t DEF RecordTransaction
<1>16. CASE ReceiptOk(t)
  BY <1>16, <1>0, <1>t DEF ReceiptOk
<1>17. CASE ReceiptMismatch(t)
  BY <1>17, <1>0, <1>t DEF ReceiptMismatch, Disabled, Rows
<1>18. CASE MismatchReported(t)
  BY <1>18, <1>0, <1>t DEF MismatchReported
<1>19. CASE BreakerReturned(t)
  BY <1>19, <1>0, <1>t DEF BreakerReturned
<1>20. CASE BreakerRaised(t)
  BY <1>20, <1>0, <1>t DEF BreakerRaised
<1>21. CASE RunRaises(t)
  BY <1>21, <1>0, <1>t DEF RunRaises
<1>22. CASE HandleUnexpected(t)
  BY <1>22, <1>0, <1>t DEF HandleUnexpected
<1>23. CASE Notify(t)
  BY <1>23, <1>0, <1>t DEF Notify
<1>24. CASE BreakerStep(t) /\ UNCHANGED buyVars
  <2>1. row.disabled => row'.disabled
    BY <1>24, <1>t DEF BreakerStep, BrkRead, BrkCount, BrkLock, BrkReport, BrkRaise, Rows, Disabled,
       CounterReset, Incremented
  <2> QED BY <1>24, <2>1, <1>0
<1> QED BY <1>0, <1>1, <1>2, <1>3, <1>4, <1>5, <1>6, <1>7, <1>8, <1>9, <1>10, <1>11, <1>12, <1>13,
   <1>14, <1>15, <1>16, <1>17, <1>18, <1>19, <1>20, <1>21, <1>22, <1>23, <1>24 DEF BuyStep

\* A step that leaves the tap alone keeps its part, if it neither unlocks nor
\* forgets a lift.
LEMMA InvOthers ==
  ASSUME NEW u \in Taps, TapInv(u), row.disabled => row'.disabled, lifted \subseteq lifted',
         UNCHANGED <<pc, callbacks, tapRows, txns, cross, agent, ordered, receipt, verdict>>
  PROVE  TapInv(u)'
BY DEF TapInv, AgentInv, WarrantInv, AuditInv, LockInv

\* A step of the CLI keeps it: the one that unlocks also records the lift of
\* every mismatch on file.
LEMMA InvCli == ASSUME IInv, CliStep, NEW u \in Taps PROVE TapInv(u)'
<1>0. /\ UNCHANGED <<pc, callbacks, tapRows, txns, cross, agent, ordered, receipt, verdict>>
      /\ row \in Rows /\ TapInv(u)
  BY DEF CliStep, dataVars, auditVars, agentVars, IInv, TypeOK
<1>1. CASE ClearGlobalDisable
  <2>1. lifted' = lifted \cup Mismatched
    BY <1>1 DEF ClearGlobalDisable, CliStep
  <2>2. LockInv(u)'
    BY <1>0, <2>1 DEF TapInv, LockInv, AuditInv, Mismatched
  <2> QED BY <1>0, <2>2 DEF TapInv, AgentInv, WarrantInv, AuditInv
<1>2. CASE ~ClearGlobalDisable
  <2>1. row.disabled => row'.disabled
    BY <1>0, <1>2 DEF CliStep, Command, DisableAll, Enable, Disable, Begin, CliProgress, Save,
       ResetFailureCounter, CounterReset, SetGlobalLockout, Disabled, Rows
  <2>2. lifted \subseteq lifted'
    BY DEF CliStep
  <2> QED BY <1>0, <2>1, <2>2, InvOthers
<1> QED BY <1>1, <1>2

\* A step of the smoke test keeps it.
LEMMA InvSmoke == ASSUME IInv, SmokeStep, NEW u \in Taps PROVE TapInv(u)'
<1>1. row \in Rows /\ TapInv(u)
  BY DEF IInv, TypeOK
<1>2. row.disabled => row'.disabled
  BY <1>1 DEF SmokeStep, Start, SmokeProgress, RunFixture, Mirrored, LockOnFailure, Disabled,
     ReportFailure, AllPassed, Rows
<1> QED BY <1>1, <1>2, InvOthers DEF SmokeStep, dataVars, auditVars, agentVars

\* The inductive invariant of the buy flow holds in every reachable state.
THEOREM Invariance == Spec => []IInv
<1>1. Init => IInv
  <2> SUFFICES ASSUME Init PROVE IInv
    OBVIOUS
  <2>1. TypeOK
    BY InitTypeOK
  <2>2. ASSUME NEW t \in Taps PROVE TapInv(t)
    BY DEF Init, BuyInit, TapInv, AgentInv, WarrantInv, AuditInv, LockInv, BeforeAgent
  <2> QED BY <2>1, <2>2 DEF IInv
<1>2. IInv /\ [Next]_vars => IInv'
  <2> SUFFICES ASSUME IInv, [Next]_vars PROVE IInv'
    OBVIOUS
  <2>1. TypeOK'
    BY NextTypeOK DEF IInv
  <2>2. ASSUME NEW u \in Taps PROVE TapInv(u)'
    <3>0. TapInv(u) /\ row \in Rows
      BY DEF IInv, TypeOK
    <3>1. ASSUME NEW t \in Taps, Daemon(t) PROVE TapInv(u)'
      BY <3>1, InvDaemon
    <3>2. ASSUME NEW t \in Taps, RemoteAgent(t) PROVE TapInv(u)'
      BY <3>0, <3>2 DEF RemoteAgent, AgentEnds, rowVars, surfaceVars, auditVars, TapInv, AgentInv,
         WarrantInv, AuditInv, LockInv, BeforeAgent, IInv, TypeOK, BuyTypeOK
    <3>3. CASE PollLoop
      BY <3>0, <3>3, InvOthers DEF PollLoop, PersistSnapshot, rowVars, auditVars, agentVars
    <3>4. CASE CliStep
      BY <3>4, InvCli
    <3>5. CASE SmokeStep
      BY <3>5, InvSmoke
    <3>6. CASE TimePasses
      BY <3>0, <3>6, InvOthers DEF TimePasses, SmokeGoesStale, Rows, buyVars, dataVars, auditVars,
         agentVars
    <3>7. CASE Killed
      BY <3>0, <3>7, InvOthers DEF Killed, CliKilled, SmokeKilled, dataVars, auditVars, agentVars
    <3>8. CASE DaemonDies
      BY <3>0, <3>8 DEF DaemonDies, Crash, InFlight, Final, dataVars, auditVars, agentVars, TapInv,
         AgentInv, WarrantInv, AuditInv, LockInv, BeforeAgent, IInv, TypeOK, BuyTypeOK
    <3>9. CASE UNCHANGED vars
      BY <3>0, <3>9, InvOthers DEF vars
    <3> QED BY <3>1, <3>2, <3>3, <3>4, <3>5, <3>6, <3>7, <3>8, <3>9 DEF Next
  <2> QED BY <2>1, <2>2 DEF IInv
<1> QED BY <1>1, <1>2, PTL DEF Spec

(***************************************************************************)
(* The safety properties that the runs check, for every instance.          *)
(***************************************************************************)
\* For any number of taps, alerts and entries: an agent is set to work only for
\* a tap with its callback row and a confirmed price (FR31).
THEOREM Warranted == Spec => []OrderIsWarranted
<1>1. IInv => OrderIsWarranted
  BY DEF IInv, TapInv, WarrantInv, OrderIsWarranted
<1> QED BY <1>1, Invariance, PTL

\* For any number of taps: a transactions row stands for an order and a success
\* message for such a row (FR36).
THEOREM Audited == Spec => []SuccessIsAudited
<1>1. IInv => SuccessIsAudited
  BY DEF IInv, TypeOK, BuyTypeOK, TapInv, AuditInv, SuccessIsAudited
<1> QED BY <1>1, Invariance, PTL

\* For any number of taps: from the moment a purchase at the wrong price is
\* called a success Phase 2 is locked until the operator lifts it (FR32).
THEOREM MismatchIsLocked == Spec => []MismatchLocks
<1>1. IInv => MismatchLocks
  BY DEF IInv, TapInv, LockInv, MismatchLocks
<1> QED BY <1>1, Invariance, PTL

(***************************************************************************)
(* The counter.  In a database without faults, what each tap contributes   *)
(* to it follows from where the tap stands: it counts once the breaker has *)
(* written, and until then it is in the breaker's hands.                   *)
(***************************************************************************)
CountInv(t) ==
  /\ pc[t] \in BeforeAgent \ {"buy"} => cross[t] = "none"
  /\ pc[t] \in {"buy", "buying", "record", "receipt", "lock"} => cross[t] # "none"
  /\ pc[t] = "unexpected" => verdict[t] = "none"
  /\ brk[t].at # "raised"
  /\ brk[t].at \in {"read", "count"} =>
       \/ /\ brk[t].outcome = "failure"
          /\ verdict[t] = "error" \/ (cross[t] # "none" /\ verdict[t] \in {"failure", "maybe"})
       \/ brk[t].outcome = "success" /\ t \in txns

\* Nothing reset the counter so far, and nobody was killed before counting.
Undisturbed == crashes = 0 /\ cli.ran = 0 /\ txns = {}

CountsMatch == Undisturbed => IsFiniteSet(Counted) /\ row.failures = Cardinality(Counted)

CountIInv ==
  /\ cli.ran = 0 => cli.at = "idle"
  /\ \A t \in Taps : CountInv(t)
  /\ CountsMatch

\* A step of one tap keeps what the other taps contribute, and leaves its own
\* contribution where CountInv says.
LEMMA CountTap ==
  ASSUME IInv, CountIInv, ~DbFaults, NEW t \in Taps, Daemon(t), NEW u \in Taps
  PROVE  CountInv(u)'
<1> USE DEF CountInv, AuditInv, BeforeAgent, RecordOutcome, NoCall
<1>0. /\ Tap(t) \/ BuyStep(t)
      /\ CountInv(u) /\ CountInv(t) /\ AuditInv(t)
  BY DEF Daemon, IInv, TapInv, CountIInv
<1>t. /\ pc \in [Taps -> PCs] /\ cross \in [Taps -> {"none", "passed", "tripped", "raised"}]
      /\ verdict \in [Taps -> Messages] /\ brk \in [Taps -> Calls]
  BY DEF IInv, TypeOK, BuyTypeOK, BrkTypeOK
<1>1. CASE Tap(t)
  BY <1>1, <1>0, <1>t DEF Tap
<1>2. CASE RecordCallback(t)
  BY <1>2, <1>0, <1>t DEF RecordCallback
<1>3. CASE HandlerRaises(t)
  BY <1>3, <1>0, <1>t DEF HandlerRaises
<1>4. CASE EditKeyboard(t)
  BY <1>4, <1>0, <1>t DEF EditKeyboard
<1>5. CASE SnapshotMissing(t)
  BY <1>5, <1>0, <1>t DEF SnapshotMissing
<1>6. CASE EntryRefused(t)
  BY <1>6, <1>0, <1>t DEF EntryRefused
<1>7. CASE EntryAccepted(t)
  BY <1>7, <1>0, <1>t DEF EntryAccepted
<1>8. CASE Gate(t)
  BY <1>8, <1>0, <1>t DEF Gate
<1>9. CASE RecordTap(t)
  BY <1>9, <1>0, <1>t DEF RecordTap
<1>10. CASE CrossPassed(t)
  BY <1>10, <1>0, <1>t DEF CrossPassed
<1>11. CASE CrossFailed(t)
  BY <1>11, <1>0, <1>t DEF CrossFailed
<1>12. CASE StartBuy(t)
  BY <1>12, <1>0, <1>t DEF StartBuy
<1>13. CASE BuySucceeds(t)
  BY <1>13, <1>0, <1>t DEF BuySucceeds
<1>14. CASE BuyFails(t)
  BY <1>14, <1>0, <1>t DEF BuyFails
<1>15. CASE RecordTransaction(t)
  BY <1>15, <1>0, <1>t DEF RecordTransaction
<1>16. CASE ReceiptOk(t)
  BY <1>16, <1>0, <1>t DEF ReceiptOk
<1>17. CASE ReceiptMismatch(t)
  BY <1>17, <1>0, <1>t DEF ReceiptMismatch
<1>18. CASE MismatchReported(t)
  BY <1>18, <1>0, <1>t DEF MismatchReported
<1>19. CASE BreakerReturned(t)
  BY <1>19, <1>0, <1>t DEF BreakerReturned
<1>20. CASE BreakerRaised(t)
  BY <1>20, <1>0, <1>t DEF BreakerRaised
<1>21. CASE RunRaises(t)
  BY <1>21, <1>0, <1>t DEF RunRaises
<1>22. CASE HandleUnexpected(t)
  BY <1>22, <1>0, <1>t DEF HandleUnexpected
<1>23. CASE Notify(t)
  BY <1>23, <1>0, <1>t DEF Notify
<1>24. CASE BreakerStep(t) /\ UNCHANGED buyVars
  BY <1>24, <1>0, <1>t DEF BreakerStep, BrkRead, BrkCount, BrkLock, BrkReport, BrkRaise, Calls
<1> QED BY <1>0, <1>1, <1>2, <1>3, <1>4, <1>5, <1>6, <1>7, <1>8, <1>9, <1>10, <1>11, <1>12, <1>13,
   <1>14, <1>15, <1>16, <1>17, <1>18, <1>19, <1>20, <1>21, <1>22, <1>23, <1>24 DEF BuyStep

\* The one step that moves the counter of an undisturbed system is the counting
\* of a failure, and it adds the tap that failed; every other step of a tap leaves
\* the counted taps as they are.
LEMMA CountsDaemon ==
  ASSUME IInv, CountIInv, ~DbFaults, NEW t \in Taps, Daemon(t), Undisturbed'
  PROVE  \/ row'.failures = row.failures /\ Counted' = Counted
         \/ /\ row'.failures = row.failures + 1
            /\ t \notin Counted /\ Counted' = Counted \cup {t}
<1> USE DEF CountInv, AuditInv, BeforeAgent, RecordOutcome, NoCall
<1>0. /\ Tap(t) \/ BuyStep(t)
      /\ CountInv(t) /\ AuditInv(t) /\ cli' = cli
  BY DEF Daemon, IInv, TapInv, CountIInv
<1>t. /\ pc \in [Taps -> PCs] /\ cross \in [Taps -> {"none", "passed", "tripped", "raised"}]
      /\ verdict \in [Taps -> Messages] /\ brk \in [Taps -> Calls] /\ row \in Rows
  BY DEF IInv, TypeOK, BuyTypeOK, BrkTypeOK
<1>u. t \notin txns' /\ txns' = {}
  BY DEF Undisturbed
<1>s. ASSUME row'.failures = row.failures,
             \A u \in Taps : cross'[u] = cross[u] /\ verdict'[u] = verdict[u]
                             /\ (brk'[u].at \in {"read", "count"} <=> brk[u].at \in {"read", "count"})
      PROVE  row'.failures = row.failures /\ Counted' = Counted
  BY <1>s DEF Counted
<1>o. ASSUME row'.failures = row.failures,
             t \notin Counted, t \notin Counted',
             \A u \in Taps \ {t} : cross'[u] = cross[u] /\ verdict'[u] = verdict[u] /\ brk'[u] = brk[u]
      PROVE  row'.failures = row.failures /\ Counted' = Counted
  BY <1>o DEF Counted
<1>1. CASE Tap(t)
  BY <1>1, <1>s DEF Tap
<1>2. CASE RecordCallback(t)
  BY <1>2, <1>s DEF RecordCallback
<1>3. CASE HandlerRaises(t)
  BY <1>3, <1>s DEF HandlerRaises
<1>4. CASE EditKeyboard(t)
  BY <1>4, <1>s DEF EditKeyboard
<1>5. CASE SnapshotMissing(t)
  BY <1>5, <1>s DEF SnapshotMissing
<1>6. CASE EntryRefused(t)
  BY <1>6, <1>0, <1>t, <1>o DEF EntryRefused, Counted
<1>7. CASE EntryAccepted(t)
  BY <1>7, <1>s DEF EntryAccepted
<1>8. CASE Gate(t)
  BY <1>8, <1>0, <1>t, <1>o DEF Gate, Counted
<1>9. CASE RecordTap(t)
  BY <1>9, <1>s DEF RecordTap
<1>10. CASE CrossPassed(t)
  BY <1>10, <1>0, <1>t, <1>o DEF CrossPassed, Counted
<1>11. CASE CrossFailed(t)
  BY <1>11, <1>0, <1>t, <1>o DEF CrossFailed, Counted
<1>12. CASE StartBuy(t)
  BY <1>12, <1>s DEF StartBuy
<1>13. CASE BuySucceeds(t)
  BY <1>13, <1>s DEF BuySucceeds
<1>14. CASE BuyFails(t)
  BY <1>14, <1>0, <1>t, <1>o DEF BuyFails, Counted
<1>15. CASE RecordTransaction(t)
  BY <1>15, <1>u DEF RecordTransaction
<1>16. CASE ReceiptOk(t)
  BY <1>16, <1>u, <1>0 DEF ReceiptOk
<1>17. CASE ReceiptMismatch(t)
  BY <1>17, <1>u, <1>0 DEF ReceiptMismatch
<1>18. CASE MismatchReported(t)
  BY <1>18, <1>u, <1>0 DEF MismatchReported
<1>19. CASE BreakerReturned(t)
  BY <1>19, <1>t, <1>s DEF BreakerReturned
<1>20. CASE BreakerRaised(t)
  BY <1>20, <1>0 DEF BreakerRaised
<1>21. CASE RunRaises(t)
  BY <1>21, <1>s DEF RunRaises
<1>22. CASE HandleUnexpected(t)
  BY <1>22, <1>0, <1>t, <1>o DEF HandleUnexpected, Counted
<1>23. CASE Notify(t)
  BY <1>23, <1>s DEF Notify
<1>24. CASE BreakerStep(t) /\ UNCHANGED buyVars
  <2>1. CASE BrkRead(t)
    BY <2>1, <1>24, <1>t, <1>s DEF BrkRead, Calls
  <2>2. CASE BrkCount(t)
    <3>1. /\ brk[t].at = "count" /\ brk[t].outcome = "failure" /\ UNCHANGED <<cross, verdict>>
          /\ verdict[t] = "error" \/ (cross[t] # "none" /\ verdict[t] \in {"failure", "maybe"})
      BY <2>2, <1>24, <1>0, <1>u DEF BrkCount
    <3>2. row'.failures = row.failures + 1
      BY <2>2, <3>1, <1>t DEF BrkCount, Incremented, Rows
    <3>3. brk'[t].at \notin {"read", "count"} /\ \A u \in Taps \ {t} : brk'[u] = brk[u]
      BY <2>2, <1>t DEF BrkCount, Calls
    <3>4. t \notin Counted /\ Counted' = Counted \cup {t}
      BY <3>1, <3>3 DEF Counted
    <3> QED BY <3>2, <3>4
  <2>3. CASE BrkLock(t)
    BY <2>3, <1>24, <1>t, <1>s DEF BrkLock, Calls, Disabled, Rows
  <2>4. CASE BrkReport(t)
    BY <2>4, <1>24, <1>t, <1>s DEF BrkReport, Calls
  <2>5. CASE BrkRaise(t)
    BY <2>5 DEF BrkRaise
  <2> QED BY <1>24, <2>1, <2>2, <2>3, <2>4, <2>5 DEF BreakerStep
<1> QED BY <1>0, <1>1, <1>2, <1>3, <1>4, <1>5, <1>6, <1>7, <1>8, <1>9, <1>10, <1>11, <1>12, <1>13,
   <1>14, <1>15, <1>16, <1>17, <1>18, <1>19, <1>20, <1>21, <1>22, <1>23, <1>24 DEF BuyStep

\* A step that leaves the taps' attempts alone, and the counter of an undisturbed
\* system, keeps the accounts.
LEMMA CountsKept ==
  ASSUME CountIInv, UNCHANGED <<pc, cross, verdict, brk, txns>>,
         cli'.ran = 0 => cli.ran = 0 /\ cli'.at = "idle",
         Undisturbed' => Undisturbed /\ row'.failures = row.failures
  PROVE  CountIInv'
<1>1. ASSUME NEW t \in Taps PROVE CountInv(t)'
  BY DEF CountIInv, CountInv
<1>2. Counted' = Counted
  BY DEF Counted
<1>3. CountsMatch'
  BY <1>2 DEF CountIInv, CountsMatch
<1> QED BY <1>1, <1>3 DEF CountIInv

\* Without faults of the database every step keeps the accounts.
LEMMA CountStep == ASSUME IInv, CountIInv, ~DbFaults, [Next]_vars PROVE CountIInv'
<1>0. /\ row \in Rows /\ crashes \in Nat
      /\ cli \in [at : Steps, kind : {"enable", "disable", "all"}, entry : Entries, ran : Nat]
  BY DEF IInv, TypeOK, BuyTypeOK, CliTypeOK
<1>1. ASSUME NEW t \in Taps, Daemon(t) PROVE CountIInv'
  <2>1. \A u \in Taps : CountInv(u)'
    BY <1>1, CountTap
  <2>2. cli' = cli
    BY <1>1 DEF Daemon
  <2>3. ASSUME Undisturbed' PROVE Undisturbed
    BY <1>1, <2>3 DEF Undisturbed, Daemon, Tap, BuyStep, RecordCallback, HandlerRaises, EditKeyboard,
       SnapshotMissing, EntryRefused, EntryAccepted, Gate, RecordTap, CrossPassed, CrossFailed,
       StartBuy, BuySucceeds, BuyFails, RecordTransaction, ReceiptOk, ReceiptMismatch,
       MismatchReported, BreakerReturned, BreakerRaised, RunRaises, HandleUnexpected, Notify
  <2>4. CountsMatch'
    <3>1. SUFFICES ASSUME Undisturbed'
                   PROVE  IsFiniteSet(Counted') /\ row'.failures = Cardinality(Counted')
      BY DEF CountsMatch
    <3>2. IsFiniteSet(Counted) /\ row.failures = Cardinality(Counted)
      BY <2>3, <3>1 DEF CountIInv, CountsMatch
    <3>3. IsFiniteSet(Counted \cup {t})
          /\ (t \notin Counted => Cardinality(Counted \cup {t}) = Cardinality(Counted) + 1)
      BY <3>2, FS_AddElement
    <3> QED BY <1>1, <3>1, <3>2, <3>3, CountsDaemon
  <2> QED BY <2>1, <2>2, <2>4 DEF CountIInv
<1>2. ASSUME NEW t \in Taps, RemoteAgent(t) PROVE CountIInv'
  BY <1>2, CountsKept DEF RemoteAgent, AgentEnds, CountIInv, Undisturbed
<1>3. CASE PollLoop
  BY <1>3, CountsKept DEF PollLoop, PersistSnapshot, CountIInv, Undisturbed
<1>4. CASE CliStep
  <2>1. cli'.ran # 0
    BY <1>4, <1>0 DEF CliStep, Command, DisableAll, Enable, Disable, Begin, CliProgress, Save,
       ClearGlobalDisable, ResetFailureCounter, SetGlobalLockout, CountIInv
  <2> QED BY <1>4, <2>1, CountsKept DEF CliStep, Undisturbed
<1>5. CASE SmokeStep
  <2>1. row'.failures = row.failures
    BY <1>0, <1>5 DEF SmokeStep, Start, SmokeProgress, RunFixture, Mirrored, LockOnFailure, Disabled,
       ReportFailure, AllPassed, Rows
  <2> QED BY <1>5, <2>1, CountsKept DEF SmokeStep, CountIInv, Undisturbed
<1>6. CASE TimePasses
  BY <1>0, <1>6, CountsKept DEF TimePasses, SmokeGoesStale, Rows, CountIInv, Undisturbed
<1>7. CASE Killed
  <2>1. crashes' # 0
    BY <1>0, <1>7 DEF Killed
  <2>2. cli'.ran = 0 => cli.ran = 0 /\ cli'.at = "idle"
    BY <1>0, <1>7 DEF Killed, CliKilled, CountIInv
  <2> QED BY <1>7, <2>1, <2>2, CountsKept DEF Killed, Undisturbed
<1>8. CASE DaemonDies
  <2>1. crashes' # 0
    BY <1>0, <1>8 DEF DaemonDies, Crash
  <2>2. ASSUME NEW t \in Taps PROVE CountInv(t)'
    BY <1>8, <2>2 DEF DaemonDies, Crash, InFlight, Final, CountIInv, CountInv, BeforeAgent, NoCall,
       IInv, TypeOK, BuyTypeOK
  <2> QED BY <1>8, <2>1, <2>2 DEF DaemonDies, CountIInv, CountsMatch, Undisturbed
<1>9. CASE UNCHANGED vars
  BY <1>9, CountsKept DEF vars, CountIInv, Undisturbed
<1> QED BY <1>1, <1>2, <1>3, <1>4, <1>5, <1>6, <1>7, <1>8, <1>9 DEF Next

\* For any number of taps, finite or not: as long as nothing resets it, the
\* failure counter is the number of attempts that failed and were counted -
\* concurrent failures are not lost and none counts twice (FR34).
THEOREM FailuresAreCounted == Spec => []FailuresCounted
<1>1. Init => (~DbFaults => CountIInv)
  <2> SUFFICES ASSUME Init PROVE CountIInv
    OBVIOUS
  <2>1. Counted = {} /\ row.failures = 0 /\ cli.at = "idle"
    BY DEF Init, InitRow, BuyInit, CliInit, Counted
  <2>2. ASSUME NEW t \in Taps PROVE CountInv(t)
    BY DEF Init, BuyInit, BrkInit, NoCall, CountInv, BeforeAgent
  <2> QED BY <2>1, <2>2, FS_EmptySet DEF CountIInv, CountsMatch
<1>2. IInv /\ (~DbFaults => CountIInv) /\ [Next]_vars => (~DbFaults => CountIInv)'
  BY CountStep
<1>3. (~DbFaults => CountIInv) => FailuresCounted
  BY DEF CountIInv, CountsMatch, Undisturbed, FailuresCounted
<1> QED BY <1>1, <1>2, <1>3, Invariance, PTL DEF Spec

(***************************************************************************)
(* Phase2 implements Phase2Guard.                                          *)
(***************************************************************************)
Admitted == {t \in Taps : MayOrder(t)}

\* A step after which the same taps may order, or fewer, and which at most locks.
LEMMA GuardQuiet ==
  ASSUME Admitted' \subseteq Admitted, row.disabled \in BOOLEAN, row'.disabled \in BOOLEAN,
         UNCHANGED <<ordered, cli>>,
         \/ row'.disabled = row.disabled
         \/ row'.disabled /\ Admitted' = Admitted
  PROVE  [Guard!Next]_(Guard!vars)
<1>1. CASE row'.disabled = row.disabled
  <2>1. Guard!Withdraw
    BY <1>1 DEF Guard!Withdraw, Admitted
  <2> QED BY <2>1 DEF Guard!Next
<1>2. CASE row'.disabled /\ Admitted' = Admitted
  <2>1. Guard!Lock
    BY <1>2 DEF Guard!Lock, Admitted
  <2> QED BY <2>1 DEF Guard!Next
<1> QED BY <1>1, <1>2

\* A step of a tap is a step of Phase2Guard: the gate admits, everything else
\* withdraws, locks or stutters.
LEMMA GuardDaemon ==
  ASSUME IInv, TypeOK', NEW t \in Taps, Daemon(t) PROVE [Guard!Next]_(Guard!vars)
<1> USE DEF MayOrder
<1>0. /\ Tap(t) \/ BuyStep(t)
      /\ cli' = cli /\ TapInv(t)
  BY DEF Daemon, IInv
<1>t. /\ pc \in [Taps -> PCs] /\ agent \in [Taps -> {"none", "working", "over"}]
      /\ row \in Rows /\ row.disabled \in BOOLEAN /\ row'.disabled \in BOOLEAN
  BY DEF IInv, TypeOK, BuyTypeOK, Rows
<1>g. CASE Gate(t) /\ GateOpen(row)
  <2>1. t \notin Admitted \cup ordered
    BY <1>0, <1>t, <1>g DEF Gate, Admitted, TapInv, AgentInv, BeforeAgent
  <2>2. Admitted' = Admitted \cup {t}
    BY <1>t, <1>g DEF Gate, Admitted
  <2>3. ~row.disabled /\ UNCHANGED <<row, ordered>>
    BY <1>g DEF Gate, GateOpen
  <2>4. Guard!Admit(t)
    BY <1>0, <2>1, <2>2, <2>3 DEF Guard!Admit, Admitted
  <2> QED BY <2>4 DEF Guard!Next
<1>l. CASE \/ ReceiptMismatch(t)
           \/ BreakerStep(t) /\ UNCHANGED buyVars
  <2>1. Admitted' = Admitted /\ ordered' = ordered
    BY <1>t, <1>l DEF ReceiptMismatch, Admitted
  <2>2. row'.disabled = row.disabled \/ row'.disabled
    BY <1>t, <1>l DEF ReceiptMismatch, BreakerStep, BrkRead, BrkCount, BrkLock, BrkReport, BrkRaise,
       Rows, Disabled, CounterReset, Incremented
  <2> QED BY <1>0, <1>t, <2>1, <2>2, GuardQuiet
<1>q. ASSUME Admitted' \subseteq Admitted, row' = row, ordered' = ordered
      PROVE  [Guard!Next]_(Guard!vars)
  BY <1>0, <1>t, <1>q, GuardQuiet
<1> USE DEF Admitted
<1>h. CASE Gate(t) /\ ~GateOpen(row)
  BY <1>t, <1>h, <1>q DEF Gate
<1>1. CASE Tap(t)
  BY <1>1, <1>t, <1>q DEF Tap
<1>2. CASE RecordCallback(t)
  BY <1>2, <1>t, <1>q DEF RecordCallback
<1>3. CASE HandlerRaises(t)
  BY <1>3, <1>t, <1>q DEF HandlerRaises
<1>4. CASE EditKeyboard(t)
  BY <1>4, <1>t, <1>q DEF EditKeyboard
<1>5. CASE SnapshotMissing(t)
  BY <1>5, <1>t, <1>q DEF SnapshotMissing
<1>6. CASE EntryRefused(t)
  BY <1>6, <1>t, <1>q DEF EntryRefused
<1>7. CASE EntryAccepted(t)
  BY <1>7, <1>t, <1>q DEF EntryAccepted
<1>8. CASE RecordTap(t)
  BY <1>8, <1>t, <1>q DEF RecordTap
<1>9. CASE CrossPassed(t)
  BY <1>9, <1>t, <1>q DEF CrossPassed
<1>10. CASE CrossFailed(t)
  BY <1>10, <1>t, <1>q DEF CrossFailed
<1>11. CASE StartBuy(t)
  BY <1>11, <1>t, <1>q DEF StartBuy
<1>12. CASE BuySucceeds(t)
  BY <1>12, <1>t, <1>q DEF BuySucceeds
<1>13. CASE BuyFails(t)
  BY <1>13, <1>t, <1>q DEF BuyFails
<1>14. CASE RecordTransaction(t)
  BY <1>14, <1>t, <1>q DEF RecordTransaction
<1>15. CASE ReceiptOk(t)
  BY <1>15, <1>t, <1>q DEF ReceiptOk
<1>16. CASE MismatchReported(t)
  BY <1>16, <1>t, <1>q DEF MismatchReported
<1>17. CASE BreakerReturned(t)
  BY <1>17, <1>t, <1>q DEF BreakerReturned
<1>18. CASE BreakerRaised(t)
  BY <1>18, <1>t, <1>q DEF BreakerRaised
<1>19. CASE RunRaises(t)
  BY <1>19, <1>t, <1>q DEF RunRaises
<1>20. CASE HandleUnexpected(t)
  BY <1>20, <1>t, <1>q DEF HandleUnexpected
<1>21. CASE Notify(t)
  BY <1>21, <1>t, <1>q DEF Notify
<1> QED BY <1>0, <1>g, <1>l, <1>h, <1>1, <1>2, <1>3, <1>4, <1>5, <1>6, <1>7, <1>8, <1>9, <1>10,
   <1>11, <1>12, <1>13, <1>14, <1>15, <1>16, <1>17, <1>18, <1>19, <1>20, <1>21 DEF BuyStep

\* A step of the CLI is a step of Phase2Guard: lifting the lockout is Unlock.
LEMMA GuardCli ==
  ASSUME IInv, TypeOK', CliStep PROVE [Guard!Next]_(Guard!vars)
<1>0. /\ UNCHANGED <<pc, agent, ordered>> /\ Admitted' = Admitted
      /\ row \in Rows /\ row.disabled \in BOOLEAN /\ row'.disabled \in BOOLEAN
      /\ cli \in [at : Steps, kind : {"enable", "disable", "all"}, entry : Entries, ran : Nat]
  BY DEF CliStep, dataVars, agentVars, Admitted, MayOrder, IInv, TypeOK, Rows, CliTypeOK
<1>1. CASE ClearGlobalDisable
  <2>1. cli.at = "clear" /\ cli'.at = "reset" /\ ~row'.disabled
    BY <1>0, <1>1 DEF ClearGlobalDisable, DisableCleared, Rows
  <2>2. Guard!Unlock
    BY <1>0, <2>1 DEF Guard!Unlock, Admitted
  <2> QED BY <2>2 DEF Guard!Next
<1>2. CASE SetGlobalLockout
  <2>1. cli.at # "clear" /\ cli'.at # "clear" /\ row'.disabled
    BY <1>0, <1>2 DEF SetGlobalLockout, Disabled, Rows
  <2>2. Guard!Lock
    BY <1>0, <2>1 DEF Guard!Lock, Admitted
  <2> QED BY <2>2 DEF Guard!Next
<1>3. CASE Command \/ Save \/ ResetFailureCounter
  <2>1. row'.disabled = row.disabled
    BY <1>0, <1>3 DEF Command, DisableAll, Enable, Disable, Begin, Save, ResetFailureCounter,
       CounterReset, Rows
  <2>2. CASE (cli.at = "clear")' = (cli.at = "clear")
    BY <1>0, <2>1, <2>2 DEF Guard!vars, Admitted
  <2>3. CASE (cli.at = "clear")' # (cli.at = "clear")
    <3>1. Guard!Enabling
      BY <1>0, <2>1, <2>3 DEF Guard!Enabling, Admitted
    <3> QED BY <3>1 DEF Guard!Next
  <2> QED BY <2>2, <2>3
<1> QED BY <1>1, <1>2, <1>3 DEF CliStep, CliProgress

\* Phase2 implements Phase2Guard: purchases are admitted only while unlocked,
\* only `phase2 enable` unlocks (FR35), a tap orders at most once.
THEOREM Implements == Spec => GuardSpec
<1>1. Init => Guard!Init
  <2> SUFFICES ASSUME Init PROVE Guard!Init
    OBVIOUS
  <2>1. cli.at # "clear"
    BY StateAssumption DEF Init, CliInit
  <2>2. ~row.disabled
    BY DEF Init, InitRow
  <2> QED BY <2>1, <2>2 DEF Init, BuyInit, Guard!Init, MayOrder
<1>2. IInv /\ IInv' /\ [Next]_vars => [Guard!Next]_(Guard!vars)
  <2> SUFFICES ASSUME IInv, TypeOK', [Next]_vars PROVE [Guard!Next]_(Guard!vars)
    BY DEF IInv
  <2>t. /\ pc \in [Taps -> PCs] /\ agent \in [Taps -> {"none", "working", "over"}]
        /\ row \in Rows /\ row.disabled \in BOOLEAN /\ row'.disabled \in BOOLEAN
    BY DEF IInv, TypeOK, BuyTypeOK, Rows
  <2>1. ASSUME NEW t \in Taps, Daemon(t) PROVE [Guard!Next]_(Guard!vars)
    BY <2>1, GuardDaemon
  <2>2. ASSUME NEW t \in Taps, RemoteAgent(t) PROVE [Guard!Next]_(Guard!vars)
    <3> USE DEF Admitted, MayOrder
    <3>0. /\ agent[t] = "working" /\ UNCHANGED <<row, cli, pc>>
          /\ agent' = [agent EXCEPT ![t] = "over"]
          /\ ordered' \in {ordered, ordered \cup {t}}
      BY <2>2 DEF RemoteAgent, AgentEnds, rowVars
    <3>1. t \in Admitted \ ordered /\ pc[t] \notin {"tap", "cross", "buy"}
      BY <3>0 DEF IInv, TapInv, AgentInv, BeforeAgent
    <3>2. Admitted' = Admitted \ {t}
      BY <2>t, <3>0, <3>1
    <3>3. CASE ordered' = ordered
      BY <2>t, <3>0, <3>2, <3>3, GuardQuiet
    <3>4. CASE ordered' = ordered \cup {t}
      <4>1. Guard!Order(t)
        BY <3>0, <3>1, <3>2, <3>4 DEF Guard!Order
      <4> QED BY <4>1 DEF Guard!Next
    <3> QED BY <3>0, <3>3, <3>4
  <2>3. CASE PollLoop
    BY <2>3 DEF PollLoop, PersistSnapshot, rowVars, agentVars, Guard!vars, MayOrder
  <2>4. CASE CliStep
    BY <2>4, GuardCli
  <2>5. CASE SmokeStep
    <3>1. Admitted' = Admitted /\ UNCHANGED <<ordered, cli>>
      BY <2>5 DEF SmokeStep, dataVars, agentVars, Admitted, MayOrder
    <3>2. row'.disabled = row.disabled \/ row'.disabled
      BY <2>t, <2>5 DEF SmokeStep, Start, SmokeProgress, RunFixture, Mirrored, LockOnFailure,
         Disabled, ReportFailure, AllPassed, Rows
    <3> QED BY <2>t, <3>1, <3>2, GuardQuiet
  <2>6. CASE TimePasses
    <3>1. row'.disabled = row.disabled
      BY <2>t, <2>6 DEF TimePasses, SmokeGoesStale, Rows
    <3> QED BY <3>1, <2>6 DEF TimePasses, buyVars, dataVars, agentVars, Guard!vars, MayOrder
  <2>7. CASE Killed
    <3>1. Admitted' = Admitted /\ UNCHANGED <<row, ordered>>
      BY <2>7 DEF Killed, CliKilled, SmokeKilled, dataVars, agentVars, Admitted, MayOrder
    <3>2. CASE (cli.at = "clear")' = (cli.at = "clear")
      BY <3>1, <3>2 DEF Guard!vars, Admitted
    <3>3. CASE (cli.at = "clear")' # (cli.at = "clear")
      <4>1. Guard!Enabling
        BY <3>1, <3>3 DEF Guard!Enabling, Admitted
      <4> QED BY <4>1 DEF Guard!Next
    <3> QED BY <3>2, <3>3
  <2>8. CASE DaemonDies
    <3>1. Admitted' \subseteq Admitted /\ UNCHANGED <<row, cli, ordered>>
      BY <2>t, <2>8 DEF DaemonDies, Crash, InFlight, Final, dataVars, agentVars, Admitted, MayOrder
    <3> QED BY <2>t, <3>1, GuardQuiet
  <2>9. CASE UNCHANGED vars
    BY <2>9 DEF vars, Guard!vars, MayOrder
  <2> QED BY <2>1, <2>2, <2>3, <2>4, <2>5, <2>6, <2>7, <2>8, <2>9 DEF Next
<1> QED BY <1>1, <1>2, Invariance, PTL DEF Spec, GuardSpec, Guard!Spec

(***************************************************************************)
(* The action properties.                                                  *)
(***************************************************************************)
\* While `enable` is about to lift the lockout its entry is enabled on disk.
EnableSaved == cli.at = "clear" => enabled[cli.entry]

\* Every step keeps EnableSaved: no other command runs beside an `enable`.
LEMMA EnableSavedStep ==
  ASSUME TypeOK, EnableSaved, [Next]_vars PROVE EnableSaved'
<1> USE DEF EnableSaved
<1>0. /\ enabled \in Switches
      /\ cli \in [at : Steps, kind : {"enable", "disable", "all"}, entry : Entries, ran : Nat]
  BY DEF TypeOK, CliTypeOK
<1>1. ASSUME NEW t \in Taps, Daemon(t) PROVE UNCHANGED <<cli, enabled>>
  <2>1. Tap(t) \/ BuyStep(t)
    BY <1>1 DEF Daemon
  <2>2. enabled' = enabled
    BY <2>1 DEF Tap, BuyStep, RecordCallback, HandlerRaises, EditKeyboard, SnapshotMissing,
       EntryRefused, EntryAccepted, Gate, RecordTap, CrossPassed, CrossFailed, StartBuy,
       BuySucceeds, BuyFails, RecordTransaction, ReceiptOk, ReceiptMismatch, MismatchReported,
       BreakerReturned, BreakerRaised, RunRaises, HandleUnexpected, Notify
  <2> QED BY <1>1, <2>2 DEF Daemon
<1>2. CASE CliStep
  <2>1. CASE Save
    BY <1>0, <2>1 DEF Save, Switches
  <2>2. CASE ~Save
    BY <1>0, <1>2, <2>2 DEF CliStep, CliProgress, Command, DisableAll, Enable, Disable, Begin,
       ClearGlobalDisable, ResetFailureCounter, SetGlobalLockout
  <2> QED BY <2>1, <2>2
<1>3. CASE Killed
  BY <1>0, <1>3 DEF Killed, CliKilled, SmokeKilled
<1>4. CASE \/ \E t \in Taps : RemoteAgent(t)
           \/ PollLoop \/ SmokeStep \/ TimePasses \/ DaemonDies \/ UNCHANGED vars
  BY <1>4 DEF RemoteAgent, AgentEnds, PollLoop, PersistSnapshot, SmokeStep, TimePasses, DaemonDies,
     Crash, vars, otherVars, buyVars
<1> QED BY <1>1, <1>2, <1>3, <1>4 DEF Next

\* The only step that unlocks Phase 2 is clear_global_disable of an `enable`.
LEMMA OnlyClearUnlocks ==
  ASSUME IInv, [Next]_vars, row.disabled, ~row'.disabled PROVE cli.at = "clear"
<1>0. row \in Rows /\ row.disabled \in BOOLEAN
  BY DEF IInv, TypeOK, Rows
<1>1. ASSUME NEW t \in Taps, Daemon(t) PROVE FALSE
  <2>1. Tap(t) \/ BuyStep(t)
    BY <1>1 DEF Daemon
  <2>2. row' = row \/ ReceiptMismatch(t) \/ BreakerStep(t)
    BY <2>1 DEF Tap, BuyStep, RecordCallback, HandlerRaises, EditKeyboard, SnapshotMissing,
       EntryRefused, EntryAccepted, Gate, RecordTap, CrossPassed, CrossFailed, StartBuy,
       BuySucceeds, BuyFails, RecordTransaction, ReceiptOk, MismatchReported, BreakerReturned,
       BreakerRaised, RunRaises, HandleUnexpected, Notify
  <2> QED BY <1>0, <2>2 DEF ReceiptMismatch, BreakerStep, BrkRead, BrkCount, BrkLock, BrkReport,
             BrkRaise, Rows, Disabled, CounterReset, Incremented
<1>2. CASE CliStep
  BY <1>0, <1>2 DEF CliStep, CliProgress, Command, DisableAll, Enable, Disable, Begin, Save,
     ClearGlobalDisable, ResetFailureCounter, CounterReset, SetGlobalLockout, Disabled, Rows
<1>3. CASE SmokeStep
  BY <1>0, <1>3 DEF SmokeStep, Start, SmokeProgress, RunFixture, Mirrored, LockOnFailure, Disabled,
     ReportFailure, AllPassed, Rows
<1>4. CASE \/ \E t \in Taps : RemoteAgent(t)
           \/ PollLoop \/ TimePasses \/ Killed \/ DaemonDies \/ UNCHANGED vars
  BY <1>0, <1>4 DEF RemoteAgent, AgentEnds, PollLoop, PersistSnapshot, TimePasses, SmokeGoesStale,
     Killed, CliKilled, SmokeKilled, DaemonDies, Crash, vars, rowVars, Rows
<1> QED BY <1>1, <1>2, <1>3, <1>4 DEF Next

\* A lockout is lifted only for an entry that is already enabled on disk (FR35).
THEOREM LiftsFollowSaves == Spec => LiftFollowsSave
<1>1. Init => EnableSaved
  BY DEF Init, CliInit, EnableSaved
<1>2. IInv /\ EnableSaved /\ [Next]_vars => EnableSaved'
  BY EnableSavedStep DEF IInv
<1>3. IInv /\ EnableSaved /\ [Next]_vars => [row.disabled /\ ~row'.disabled => enabled[cli.entry]]_vars
  BY OnlyClearUnlocks DEF EnableSaved
<1> QED BY <1>1, <1>2, <1>3, Invariance, PTL DEF Spec, LiftFollowsSave

\* Taps past the wishlist check that may still order.
Passing == {t \in Taps : pc[t] = "gate" \/ MayOrder(t)}

\* With every entry disabled no step adds a tap to those past the wishlist check.
LEMMA OnlyEnabledPass ==
  ASSUME TypeOK, [Next]_vars, \A e \in Entries : ~enabled[e] PROVE Passing' \subseteq Passing
<1> USE DEF Passing, MayOrder
<1>t. /\ pc \in [Taps -> PCs] /\ agent \in [Taps -> {"none", "working", "over"}]
  BY DEF TypeOK, BuyTypeOK
<1>1. ASSUME NEW t \in Taps, Daemon(t) PROVE Passing' \subseteq Passing
  <2>1. Tap(t) \/ BuyStep(t)
    BY <1>1 DEF Daemon
  <2>2. ~EntryAccepted(t)
    <3>1. CASE AlertOf[t] \in snapshots
      <4>1. EntryOf[AlertOf[t]] \in Entries
        BY BuyFlowAssumption
      <4> QED BY <4>1 DEF EntryAccepted
    <3>2. CASE AlertOf[t] \notin snapshots
      BY <3>2 DEF EntryAccepted
    <3> QED BY <3>1, <3>2
  <2>3. CASE BreakerStep(t) /\ UNCHANGED buyVars
    BY <2>3
  <2>4. CASE Tap(t)
    BY <1>t, <2>4 DEF Tap
  <2>5. CASE RecordCallback(t)
    BY <1>t, <2>5 DEF RecordCallback
  <2>6. CASE HandlerRaises(t)
    BY <1>t, <2>6 DEF HandlerRaises
  <2>7. CASE EditKeyboard(t)
    BY <1>t, <2>7 DEF EditKeyboard
  <2>8. CASE SnapshotMissing(t)
    BY <1>t, <2>8 DEF SnapshotMissing
  <2>9. CASE EntryRefused(t)
    BY <1>t, <2>9 DEF EntryRefused
  <2>10. CASE Gate(t)
    BY <1>t, <2>10 DEF Gate
  <2>11. CASE RecordTap(t)
    BY <1>t, <2>11 DEF RecordTap
  <2>12. CASE CrossPassed(t)
    BY <1>t, <2>12 DEF CrossPassed
  <2>13. CASE CrossFailed(t)
    BY <1>t, <2>13 DEF CrossFailed
  <2>14. CASE StartBuy(t)
    BY <1>t, <2>14 DEF StartBuy
  <2>15. CASE BuySucceeds(t)
    BY <1>t, <2>15 DEF BuySucceeds
  <2>16. CASE BuyFails(t)
    BY <1>t, <2>16 DEF BuyFails
  <2>17. CASE RecordTransaction(t)
    BY <1>t, <2>17 DEF RecordTransaction
  <2>18. CASE ReceiptOk(t)
    BY <1>t, <2>18 DEF ReceiptOk
  <2>19. CASE ReceiptMismatch(t)
    BY <1>t, <2>19 DEF ReceiptMismatch
  <2>20. CASE MismatchReported(t)
    BY <1>t, <2>20 DEF MismatchReported
  <2>21. CASE BreakerReturned(t)
    BY <1>t, <2>21 DEF BreakerReturned
  <2>22. CASE BreakerRaised(t)
    BY <1>t, <2>22 DEF BreakerRaised
  <2>23. CASE RunRaises(t)
    BY <1>t, <2>23 DEF RunRaises
  <2>24. CASE HandleUnexpected(t)
    BY <1>t, <2>24 DEF HandleUnexpected
  <2>25. CASE Notify(t)
    BY <1>t, <2>25 DEF Notify
  <2> QED BY <2>1, <2>2, <2>3, <2>4, <2>5, <2>6, <2>7, <2>8, <2>9, <2>10, <2>11, <2>12, <2>13,
     <2>14, <2>15, <2>16, <2>17, <2>18, <2>19, <2>20, <2>21, <2>22, <2>23, <2>24, <2>25 DEF
     BuyStep
<1>2. ASSUME NEW t \in Taps, RemoteAgent(t) PROVE Passing' \subseteq Passing
  BY <1>t, <1>2 DEF RemoteAgent, AgentEnds
<1>3. CASE DaemonDies
  BY <1>t, <1>3 DEF DaemonDies, Crash, InFlight, Final
<1>4. CASE PollLoop \/ CliStep \/ SmokeStep \/ TimePasses \/ Killed \/ UNCHANGED vars
  BY <1>4 DEF PollLoop, PersistSnapshot, CliStep, SmokeStep, TimePasses, Killed, vars
<1> QED BY <1>1, <1>2, <1>3, <1>4 DEF Next

\* With every entry disabled in wishlist.yaml no further tap gets past the check.
THEOREM SwitchedOffStays == Spec => SwitchedOffStaysOut
<1>1. TypeOK /\ [Next]_vars =>
        [(\A e \in Entries : ~enabled[e]) =>
           \A t \in Taps : (pc[t] = "gate")' \/ MayOrder(t)' => pc[t] = "gate" \/ MayOrder(t)]_vars
  BY OnlyEnabledPass DEF Passing
<1> QED BY <1>1, TypeCorrect, PTL DEF Spec, SwitchedOffStaysOut
==============================================================================
