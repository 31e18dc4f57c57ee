------------------------------ MODULE PriceCheck ------------------------------
(***************************************************************************)
(* The prices of one buy.  The alert names the price of the listing and    *)
(* the ceiling of its entry; the tap passes the gate at the ceiling the    *)
(* wishlist has by then; a second source must agree with the alert's       *)
(* price; the remote agent pays and writes the amount down; the amount is  *)
(* read and compared with the alert's price.  compute_tolerance is the     *)
(* comparison in both places.                                              *)
(*                                                                         *)
(* Amounts are whole numbers and the percentage is multiplied out, so that *)
(* the boundary of the tolerance is exact, as it is in Decimal arithmetic. *)
(***************************************************************************)
EXTENDS Naturals

CONSTANTS
  Amounts,       \* prices and ceilings
  TolEur,        \* reconciliation tolerance, an amount
  TolPct,        \* reconciliation tolerance, a percentage
  Thousand,      \* what a point between the digits divides by, 1000 in life
  NoAmount,      \* no ceiling, no price yet, or nothing that reads as a price
  MaxChanges     \* bound: changes of the ceiling by the operator

ASSUME PriceAssumption ==
  /\ Amounts \subseteq Nat
  /\ TolEur \in Nat /\ TolPct \in Nat /\ MaxChanges \in Nat
  /\ Thousand \in Nat \ {0}
  /\ NoAmount \notin Nat

VARIABLES
  alertPrice,    \* price of the listing when it was alerted
  alertCeiling,  \* ceiling the alert shows, kept in its snapshot
  ceiling,       \* ceiling of the entry in the wishlist
  gateCeiling,   \* ceiling the gate read
  crossPrice,    \* price from the second source
  paid,          \* what the order cost
  amount,        \* what _coerce_price made of the agent's report
  step,          \* where the buy stands
  phase2Off,     \* Phase 2 was switched off by this buy
  rechecks,      \* exit codes of `phase2 reconcile` for this receipt
  changes        \* changes of the ceiling so far

ceilingVars == <<alertPrice, alertCeiling, ceiling, changes>>
priceVars == <<ceilingVars, gateCeiling, crossPrice, paid, amount, step, phase2Off, rechecks>>

PriceSteps == {"tapped", "gated", "agreed", "paid", "read", "recorded", "refused", "tripped", "aborted", "failed", "success"}

PriceTypeOK ==
  /\ alertPrice \in Amounts /\ alertCeiling \in Amounts
  /\ ceiling \in Amounts \cup {NoAmount} /\ gateCeiling \in Amounts \cup {NoAmount}
  /\ crossPrice \in Amounts \cup {NoAmount} /\ paid \in Amounts \cup {NoAmount}
  /\ amount \in Nat \cup {NoAmount}
  /\ step \in PriceSteps /\ phase2Off \in BOOLEAN /\ rechecks \subseteq {0, 1, 5}
  /\ changes \in 0..MaxChanges

\* The dearer of the two tolerances, a hundredfold.
Tolerance(price) == IF 100 * TolEur >= price * TolPct THEN 100 * TolEur ELSE price * TolPct

Delta(a, b) == IF a >= b THEN a - b ELSE b - a

\* Mutant: the percentage of the price that is checked.
AgreesOther(a, b) == 100 * Delta(a, b) <= Tolerance(b)

\* compute_tolerance(a, b).passed; a is the reference.
Agrees(a, b) == 100 * Delta(a, b) <= Tolerance(a)

\* What _coerce_price may make of the amount n, as the agent writes it: n itself,
\* with a point or a comma before the cents; nothing, for prose, a price of zero
\* or points between thousands and before cents; or, when a point only groups the
\* thousands, n divided.
Positive(n) == IF n = 0 THEN NoAmount ELSE n
Coerced(n) == {Positive(n), NoAmount} \cup (IF n >= Thousand THEN {n \div Thousand} ELSE {})

PriceInit ==
  /\ alertPrice \in Amounts
  /\ alertCeiling \in {c \in Amounts : alertPrice <= c}
  /\ ceiling = alertCeiling
  /\ gateCeiling = NoAmount /\ crossPrice = NoAmount /\ paid = NoAmount /\ amount = NoAmount
  /\ step = "tapped" /\ phase2Off = FALSE /\ rechecks = {} /\ changes = 0

\* The operator edits phase2.max_price_eur of the entry, or takes it out.
ChangesCeiling ==
  /\ changes < MaxChanges /\ changes' = changes + 1
  /\ ceiling' \in Amounts \cup {NoAmount}
  /\ UNCHANGED <<alertPrice, alertCeiling, gateCeiling, crossPrice, paid, amount, step, phase2Off, rechecks>>

Turn(from, to) == step = from /\ step' = to

\* The price part of Phase2Preflight.check, at the ceiling of the moment.
ChecksCeiling ==
  /\ IF ceiling # NoAmount /\ alertPrice <= ceiling THEN Turn("tapped", "gated") ELSE Turn("tapped", "refused")
  /\ gateCeiling' = ceiling
  /\ UNCHANGED <<ceilingVars, crossPrice, paid, amount, phase2Off, rechecks>>

\* reconcile_cross_source; a source that cannot be read stops the buy.
ChecksSource ==
  /\ \/ /\ crossPrice' \in Amounts
        /\ IF Agrees(alertPrice, crossPrice') THEN Turn("gated", "agreed") ELSE Turn("gated", "tripped")
     \/ Turn("gated", "failed") /\ UNCHANGED crossPrice
  /\ UNCHANGED <<ceilingVars, gateCeiling, paid, amount, phase2Off, rechecks>>

\* The agent is told the ceiling of the snapshot.  It should give up at a dearer
\* price; it is a remote program, and what it pays is not taken on trust.
AgentPays ==
  /\ \/ Turn("agreed", "paid") /\ paid' \in Amounts
     \/ Turn("agreed", "aborted") /\ UNCHANGED paid
  /\ UNCHANGED <<ceilingVars, gateCeiling, crossPrice, amount, phase2Off, rechecks>>

ReadsPrice ==
  /\ step = "paid"
  /\ amount' \in Coerced(paid)
  /\ IF amount' = NoAmount THEN Turn("paid", "failed") ELSE Turn("paid", "read")
  /\ UNCHANGED <<ceilingVars, gateCeiling, crossPrice, paid, phase2Off, rechecks>>

RecordsPrice ==
  /\ Turn("read", "recorded")
  /\ UNCHANGED <<ceilingVars, gateCeiling, crossPrice, paid, amount, phase2Off, rechecks>>

\* The buy is a success either way; a receipt beyond the tolerance switches
\* Phase 2 off.
ChecksReceipt ==
  /\ Turn("recorded", "success")
  /\ phase2Off' = ~Agrees(alertPrice, amount)
  /\ UNCHANGED <<ceilingVars, gateCeiling, crossPrice, paid, amount, rechecks>>

\* `phase2 reconcile` looks for the row of the receipt and compares again.
Reconciles ==
  /\ rechecks' = rechecks \cup {IF step \notin {"recorded", "success"} THEN 1
                                ELSE IF Agrees(alertPrice, amount) THEN 0 ELSE 5}
  /\ UNCHANGED <<ceilingVars, gateCeiling, crossPrice, paid, amount, step, phase2Off>>

PriceNext ==
  \/ ChangesCeiling \/ ChecksCeiling \/ ChecksSource \/ AgentPays
  \/ ReadsPrice \/ RecordsPrice \/ ChecksReceipt \/ Reconciles

PriceSpec == PriceInit /\ [][PriceNext]_priceVars

(***************************************************************************)
(* Safety.                                                                 *)
(***************************************************************************)
\* The code never compares a receipt with a ceiling.  All the same, a purchase
\* that was read as it was paid, and that left Phase 2 on or passed `phase2
\* reconcile`, cost no more than the ceiling of the gate and the tolerance on
\* that ceiling, whatever the agent did and however the operator moved the
\* ceiling since the alert.
QuietBuysAreAffordable ==
  amount = paid /\ ((step = "success" /\ ~phase2Off) \/ 0 \in rechecks) =>
    paid <= gateCeiling \/ 100 * (paid - gateCeiling) <= Tolerance(gateCeiling)
=============================================================================
