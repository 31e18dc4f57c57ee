------------------------------- MODULE BuyFlow -------------------------------
(***************************************************************************)
(* One Buy tap from the Telegram button to the completion message:         *)
(* CallbackDispatcher.handle records the callback, swaps the keyboard and  *)
(* starts a task; BuyOrchestrator.execute_buy_from_callback runs the buy.  *)
(* Tasks of different taps interleave at every await.                      *)
(*                                                                         *)
(* The remote browser agent that TinyFish drives is a process of its own:  *)
(* the daemon may stop waiting for it (timeout, lost connection, crash)    *)
(* while it is still at work, and it may then place the order.             *)
(*                                                                         *)
(* A message sent to the user is one of: success (the receipt), failure    *)
(* ("the purchase was NOT executed"), error (the same sentence, after an   *)
(* exception) or maybe (the screenshot_missing text, "the purchase may     *)
(* have been completed").  A database statement that raises writes         *)
(* nothing.                                                                *)
(***************************************************************************)
EXTENDS CircuitBreaker

CONSTANTS
  Alerts,      \* alerts with a Buy button on the user's screen
  AlertOf,     \* AlertOf[t]: the alert whose button tap t presses
  EntryOf,     \* EntryOf[a]: the wishlist entry alert a is about
  MaxCrashes   \* bound: daemon crashes in a behaviour

ASSUME BuyFlowAssumption ==
  /\ AlertOf \in [Taps -> Alerts]
  /\ EntryOf \in [Alerts -> Entries]
  /\ MaxCrashes \in Nat

VARIABLES
  pc,          \* pc[t]: where the handling of tap t stands
  keyboard,    \* keyboard[a]: "buy" while alert a still offers its button
  snapshots,   \* alerts whose snapshot is in the store
  callbacks,   \* taps with a callback audit row
  tapRows,     \* taps with a tap_events audit row (best effort)
  cross,       \* cross[t]: what the cross-source reconciliation said
  agent,       \* agent[t]: the remote agent working for tap t
  ordered,     \* taps for which the marketplace took an order
  receipt,     \* receipt[t]: how the receipt compares with the alert
  txns,        \* taps with a transactions audit row
  verdict,     \* verdict[t]: the message the task is about to send
  told,        \* told[t]: the message that reached the user
  crashes      \* daemon crashes so far

rowVars    == <<row, brk, openAlerts>>
auditVars  == <<callbacks, tapRows, txns>>
agentVars  == <<agent, ordered>>
surfaceVars == <<keyboard, snapshots>>
otherVars  == <<crashes, enabled>>
dataVars   == <<surfaceVars, auditVars, cross, agentVars, receipt>>
buyVars == <<pc, dataVars, verdict, told, otherVars>>

Messages == {"none", "success", "failure", "error", "maybe"}
Final    == {"done", "dropped", "crashed"}
PCs      == {"idle", "event", "badge", "lookup", "gate", "tap", "cross", "buy", "buying",
             "record", "receipt", "lock", "breaker", "unexpected", "salvage", "notify"} \cup Final

BuyTypeOK ==
  /\ pc \in [Taps -> PCs]
  /\ keyboard \in [Alerts -> {"buy", "inflight"}]
  /\ snapshots \subseteq Alerts
  /\ callbacks \subseteq Taps /\ tapRows \subseteq Taps /\ txns \subseteq Taps
  /\ cross \in [Taps -> {"none", "passed", "tripped", "raised"}]
  /\ agent \in [Taps -> {"none", "working", "over"}]
  /\ ordered \subseteq Taps
  /\ receipt \in [Taps -> {"none", "ok", "mismatch"}]
  /\ verdict \in [Taps -> Messages] /\ told \in [Taps -> Messages]
  /\ crashes \in Nat

(***************************************************************************)
(* The alerts are on screen; a snapshot follows the alert and may be lost. *)
(***************************************************************************)
BuyInit ==
  /\ pc = [t \in Taps |-> "idle"]
  /\ keyboard = [a \in Alerts |-> "buy"]
  /\ snapshots = {}
  /\ callbacks = {} /\ tapRows = {} /\ txns = {} /\ ordered = {}
  /\ cross = [t \in Taps |-> "none"]
  /\ agent = [t \in Taps |-> "none"]
  /\ receipt = [t \in Taps |-> "none"]
  /\ verdict = [t \in Taps |-> "none"]
  /\ told = [t \in Taps |-> "none"]
  /\ crashes = 0

(***************************************************************************)
(* Control moves of one task.                                              *)
(***************************************************************************)
Step(t, from, to) == pc[t] = from /\ pc' = [pc EXCEPT ![t] = to]

Say(t, message) == verdict' = [verdict EXCEPT ![t] = message]

Answer(t, from, message) == Step(t, from, "notify") /\ Say(t, message)

\* The task awaits circuit_breaker.record_outcome(outcome).
Await(t, outcome) ==
  brk' = [brk EXCEPT ![t] = RecordOutcome(outcome)] /\ UNCHANGED <<row, openAlerts>>

(***************************************************************************)
(* CallbackDispatcher.handle, verb "buy".                                  *)
(***************************************************************************)
Tap(t) ==
  /\ keyboard[AlertOf[t]] = "buy"
  /\ Step(t, "idle", "event")
  /\ UNCHANGED <<rowVars, dataVars, verdict, told, otherVars>>

RecordCallback(t) ==
  /\ Step(t, "event", "badge")
  /\ callbacks' = callbacks \cup {t}
  /\ UNCHANGED <<rowVars, surfaceVars, tapRows, txns, cross, agentVars, receipt, verdict, told, otherVars>>

\* A failing insert, or a failing keyboard edit, ends the handler with no task.
HandlerRaises(t) ==
  /\ \/ DbFaults /\ Step(t, "event", "dropped")
     \/ Step(t, "badge", "dropped")
  /\ UNCHANGED <<rowVars, dataVars, verdict, told, otherVars>>

EditKeyboard(t) ==
  /\ Step(t, "badge", "lookup")
  /\ keyboard' = [keyboard EXCEPT ![AlertOf[t]] = "inflight"]
  /\ UNCHANGED <<rowVars, snapshots, auditVars, cross, agentVars, receipt, verdict, told, otherVars>>

(***************************************************************************)
(* execute_buy_from_callback up to the gate.  The entry is read from the   *)
(* wishlist once; ceiling, listing price and confidence decide the         *)
(* remaining per-entry refusals, which are left open here.                 *)
(***************************************************************************)
SnapshotMissing(t) ==
  /\ AlertOf[t] \notin snapshots
  /\ Step(t, "lookup", "done")
  /\ UNCHANGED <<rowVars, dataVars, verdict, told, otherVars>>

EntryRefused(t) ==
  /\ AlertOf[t] \in snapshots
  /\ Answer(t, "lookup", "failure")
  /\ UNCHANGED <<rowVars, dataVars, told, otherVars>>

EntryAcceptedUnread(t) ==
  /\ AlertOf[t] \in snapshots
  /\ Step(t, "lookup", "gate")
  /\ UNCHANGED <<rowVars, dataVars, verdict, told, otherVars>>

EntryAccepted(t) ==
  /\ AlertOf[t] \in snapshots
  /\ enabled[EntryOf[AlertOf[t]]]
  /\ Step(t, "lookup", "gate")
  /\ UNCHANGED <<rowVars, dataVars, verdict, told, otherVars>>

GateCounting(t) ==
  /\ \/ GateOpen(row) /\ Step(t, "gate", "tap") /\ UNCHANGED <<rowVars, verdict>>
     \/ /\ ~GateOpen(row) /\ Step(t, "gate", "breaker")
        /\ Say(t, "failure") /\ Await(t, "failure")
  /\ UNCHANGED <<dataVars, told, otherVars>>

Gate(t) ==
  /\ \/ GateOpen(row) /\ Step(t, "gate", "tap") /\ UNCHANGED verdict
     \/ ~GateOpen(row) /\ Answer(t, "gate", "failure")
  /\ UNCHANGED <<rowVars, dataVars, told, otherVars>>

\* Best effort: the buy goes on when the insert raises.
RecordTap(t) ==
  /\ Step(t, "tap", "cross")
  /\ \/ tapRows' = tapRows \cup {t}
     \/ DbFaults /\ UNCHANGED tapRows
  /\ UNCHANGED <<rowVars, surfaceVars, callbacks, txns, cross, agentVars, receipt, verdict, told, otherVars>>

(***************************************************************************)
(* Cross-source reconciliation: the listing is fetched a second time and   *)
(* the two prices are compared.                                            *)
(***************************************************************************)
CrossPassed(t) ==
  /\ Step(t, "cross", "buy")
  /\ cross' = [cross EXCEPT ![t] = "passed"]
  /\ UNCHANGED <<rowVars, surfaceVars, auditVars, agentVars, receipt, verdict, told, otherVars>>

CrossFailedOpen(t) ==
  /\ Step(t, "cross", "buy")
  /\ cross' = [cross EXCEPT ![t] = "raised"]
  /\ UNCHANGED <<rowVars, surfaceVars, auditVars, agentVars, receipt, verdict, told, otherVars>>

CrossFailed(t) ==
  /\ Step(t, "cross", "breaker") /\ Say(t, "failure") /\ Await(t, "failure")
  /\ \E res \in {"tripped", "raised"} : cross' = [cross EXCEPT ![t] = res]
  /\ UNCHANGED <<surfaceVars, auditVars, agentVars, receipt, told, otherVars>>

(***************************************************************************)
(* The remote agent.                                                       *)
(***************************************************************************)
StartBuy(t) ==
  /\ Step(t, "buy", "buying")
  /\ agent' = [agent EXCEPT ![t] = "working"]
  /\ UNCHANGED <<rowVars, surfaceVars, auditVars, cross, ordered, receipt, verdict, told, otherVars>>

\* The agent finishes its run, with or without having placed the order.
AgentEnds(t) ==
  /\ agent[t] = "working"
  /\ agent' = [agent EXCEPT ![t] = "over"]
  /\ ordered' \in {ordered, ordered \cup {t}}
  /\ UNCHANGED <<rowVars, pc, surfaceVars, auditVars, cross, receipt, verdict, told, otherVars>>

(***************************************************************************)
(* execute_buy returns.  A success needs a completed run, a parseable      *)
(* price, a receipt id and a screenshot; an ordered run whose payload      *)
(* lacks one of them is a failure, as is a run the daemon gave up on.      *)
(***************************************************************************)
BuySucceeds(t) ==
  /\ agent[t] = "over" /\ t \in ordered
  /\ Step(t, "buying", "record")
  /\ \E res \in {"ok", "mismatch"} : receipt' = [receipt EXCEPT ![t] = res]
  /\ UNCHANGED <<rowVars, surfaceVars, auditVars, cross, agentVars, verdict, told, otherVars>>

BuyFails(t) ==
  /\ Step(t, "buying", "breaker") /\ Await(t, "failure")
  /\ \/ Say(t, "failure")
     \/ agent[t] = "over" /\ Say(t, "maybe")
  /\ UNCHANGED <<dataVars, told, otherVars>>

RecordTransactionUnchecked(t) ==
  /\ Step(t, "record", "breaker") /\ Say(t, "success") /\ Await(t, "success")
  /\ txns' = txns \cup {t}
  /\ UNCHANGED <<surfaceVars, callbacks, tapRows, cross, agentVars, receipt, told, otherVars>>

RecordTransactionBestEffort(t) ==
  /\ Step(t, "record", "receipt")
  /\ \/ txns' = txns \cup {t}
     \/ DbFaults /\ UNCHANGED txns
  /\ UNCHANGED <<rowVars, surfaceVars, callbacks, tapRows, cross, agentVars, receipt, verdict, told, otherVars>>

RecordTransaction(t) ==
  /\ Step(t, "record", "receipt")
  /\ txns' = txns \cup {t}
  /\ UNCHANGED <<rowVars, surfaceVars, callbacks, tapRows, cross, agentVars, receipt, verdict, told, otherVars>>

(***************************************************************************)
(* Receipt against alert: a mismatch locks Phase 2 (and reports it), then  *)
(* the success is counted in either case.                                  *)
(***************************************************************************)
ReceiptOk(t) ==
  /\ receipt[t] = "ok"
  /\ Step(t, "receipt", "breaker") /\ Say(t, "success") /\ Await(t, "success")
  /\ UNCHANGED <<dataVars, told, otherVars>>

ReceiptMismatch(t) ==
  /\ receipt[t] = "mismatch"
  /\ Step(t, "receipt", "lock")
  /\ row' = Disabled(row)
  /\ UNCHANGED <<brk, openAlerts, dataVars, verdict, told, otherVars>>

MismatchReported(t) ==
  /\ Step(t, "lock", "breaker") /\ Say(t, "success") /\ Await(t, "success")
  /\ UNCHANGED <<dataVars, told, otherVars>>

(***************************************************************************)
(* record_outcome came back.                                               *)
(***************************************************************************)
BreakerReturned(t) ==
  /\ brk[t].at = "returned"
  /\ Step(t, "breaker", "notify") \/ Step(t, "salvage", "notify")
  /\ brk' = [brk EXCEPT ![t] = NoCall]
  /\ UNCHANGED <<row, openAlerts, dataVars, verdict, told, otherVars>>

BreakerRaised(t) ==
  /\ brk[t].at = "raised"
  /\ Step(t, "breaker", "unexpected") \/ Step(t, "salvage", "notify")
  /\ brk' = [brk EXCEPT ![t] = NoCall]
  /\ UNCHANGED <<row, openAlerts, dataVars, verdict, told, otherVars>>

(***************************************************************************)
(* _handle_unexpected: an exception inside _run is reported, counted as a  *)
(* failure of the circuit (errors of that swallowed) and answered with a   *)
(* marketplace_error message.  The snapshot lookup is outside its try; the *)
(* wishlist loader, called right after it, is inside.                      *)
(***************************************************************************)
RunRaisesUncaught(t) ==
  /\ Step(t, "buying", "dropped")
  /\ UNCHANGED <<rowVars, dataVars, verdict, told, otherVars>>

RunRaises(t) ==
  /\ \/ AlertOf[t] \in snapshots /\ Step(t, "lookup", "unexpected")
     \/ Step(t, "buying", "unexpected")
     \/ /\ DbFaults
        /\ \/ Step(t, "lookup", "dropped")
           \/ Step(t, "gate", "unexpected")
           \/ Step(t, "record", "unexpected")
           \/ receipt[t] = "mismatch" /\ Step(t, "receipt", "unexpected")
  /\ UNCHANGED <<rowVars, dataVars, verdict, told, otherVars>>

HandleUnexpected(t) ==
  /\ Step(t, "unexpected", "salvage") /\ Say(t, "error") /\ Await(t, "failure")
  /\ UNCHANGED <<dataVars, told, otherVars>>

(***************************************************************************)
(* The completion message.  A send that fails is logged and forgotten.     *)
(***************************************************************************)
Notify(t) ==
  /\ Step(t, "notify", "done")
  /\ told' \in {told, [told EXCEPT ![t] = verdict[t]]}
  /\ UNCHANGED <<rowVars, dataVars, verdict, otherVars>>

BuyStep(t) ==
  \/ RecordCallback(t) \/ HandlerRaises(t) \/ EditKeyboard(t)
  \/ SnapshotMissing(t) \/ EntryRefused(t) \/ EntryAccepted(t) \/ Gate(t)
  \/ RecordTap(t) \/ CrossPassed(t) \/ CrossFailed(t) \/ StartBuy(t)
  \/ BuySucceeds(t) \/ BuyFails(t) \/ RecordTransaction(t)
  \/ ReceiptOk(t) \/ ReceiptMismatch(t) \/ MismatchReported(t)
  \/ BreakerReturned(t) \/ BreakerRaised(t)
  \/ RunRaises(t) \/ HandleUnexpected(t) \/ Notify(t)
  \/ BreakerStep(t) /\ UNCHANGED buyVars

(***************************************************************************)
(* The environment: the poll loop stores the snapshot of an alert it sent; *)
(* the daemon's process dies, and with it every task and every call in     *)
(* flight, though not the remote agents.                                   *)
(***************************************************************************)
PersistSnapshot(a) ==
  /\ a \notin snapshots
  /\ snapshots' = snapshots \cup {a}
  /\ UNCHANGED <<rowVars, pc, keyboard, auditVars, cross, agentVars, receipt, verdict, told, otherVars>>

InFlight(t) == pc[t] \notin Final \cup {"idle"}

Crash ==
  /\ crashes < MaxCrashes
  /\ crashes' = crashes + 1
  /\ pc' = [t \in Taps |-> IF InFlight(t) THEN "crashed" ELSE pc[t]]
  /\ brk' = [t \in Taps |-> NoCall]
  /\ UNCHANGED <<row, openAlerts, dataVars, verdict, told, enabled>>
==============================================================================
