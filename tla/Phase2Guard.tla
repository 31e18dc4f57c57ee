----------------------------- MODULE Phase2Guard -----------------------------
(***************************************************************************)
(* What Phase 2 promises its owner, with nothing of how: purchases are     *)
(* admitted one tap at a time and only while Phase 2 is unlocked, a tap    *)
(* orders at most once and only after it was admitted, anything may lock   *)
(* Phase 2, and only the operator, while re-enabling an entry, unlocks it. *)
(***************************************************************************)
CONSTANT Taps

VARIABLES
  locked,      \* no tap is being admitted
  enabling,    \* the operator is re-enabling an entry
  admitted,    \* taps the gate let through that may yet order
  ordered      \* taps that placed an order

vars == <<locked, enabling, admitted, ordered>>

Init ==
  /\ locked = FALSE /\ enabling = FALSE
  /\ admitted = {} /\ ordered = {}

Admit(t) ==
  /\ ~locked
  /\ t \notin admitted \cup ordered
  /\ admitted' = admitted \cup {t}
  /\ UNCHANGED <<locked, enabling, ordered>>

\* Taps give up, one by one or all at once when the daemon dies.
Withdraw ==
  /\ admitted' \in SUBSET admitted
  /\ UNCHANGED <<locked, enabling, ordered>>

Order(t) ==
  /\ t \in admitted \ ordered
  /\ ordered' = ordered \cup {t}
  /\ admitted' = admitted \ {t}
  /\ UNCHANGED <<locked, enabling>>

Lock ==
  /\ locked' = TRUE
  /\ UNCHANGED <<enabling, admitted, ordered>>

Enabling ==
  /\ enabling' = ~enabling
  /\ UNCHANGED <<locked, admitted, ordered>>

Unlock ==
  /\ enabling
  /\ locked' = FALSE /\ enabling' = FALSE
  /\ UNCHANGED <<admitted, ordered>>

Next ==
  \/ \E t \in Taps : Admit(t) \/ Order(t)
  \/ Withdraw \/ Lock \/ Enabling \/ Unlock

Spec == Init /\ [][Next]_vars
==============================================================================
