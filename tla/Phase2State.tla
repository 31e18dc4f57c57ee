----------------------------- MODULE Phase2State -----------------------------
(***************************************************************************)
(* What Phase 2 keeps on disk and all its processes share: the single row  *)
(* of the SQLite table phase2_state (migration 0002), and the phase2       *)
(* switch of every wishlist entry.  The daemon's buy tasks, the smoke test *)
(* and the operator's CLI reach the row through connections of their own   *)
(* in autocommit mode, so one statement of Phase2AuditWriter is one atomic *)
(* step and nothing larger is.                                             *)
(*                                                                         *)
(* Abstractions: disabled_at and disabled_reason are display data.  The    *)
(* pair (last_smoke_result, last_smoke_at) is one value: "stale" is a pass *)
(* older than the freshness window, "never" is no result at all.           *)
(***************************************************************************)
EXTENDS Integers

CONSTANTS
  Threshold,   \* consecutive failures that open the circuit
  Entries      \* wishlist entries

\* With no entry there is no alert and Phase 2 has nothing to do.
ASSUME StateAssumption == Threshold \in Nat \ {0} /\ Entries # {}

VARIABLES
  row,         \* the phase2_state row
  enabled      \* enabled[e]: phase2.enabled of entry e in wishlist.yaml

SmokeResults == {"never", "pass", "stale", "fail"}

Switches == [Entries -> BOOLEAN]

Rows == [disabled : BOOLEAN, failures : Nat, smoke : SmokeResults]

(***************************************************************************)
(* A migrated database, with or without an earlier smoke pass on record.   *)
(***************************************************************************)
InitRow ==
  \E res \in {"never", "pass"} : row = [disabled |-> FALSE, failures |-> 0, smoke |-> res]

Disabled(r)       == [r EXCEPT !.disabled = TRUE]
DisableCleared(r) == [r EXCEPT !.disabled = FALSE]
Incremented(r)    == [r EXCEPT !.failures = @ + 1]
CounterLowered(r) == [r EXCEPT !.failures = @ - 1]
CounterReset(r)   == [r EXCEPT !.failures = 0]
Mirrored(r, res)  == [r EXCEPT !.smoke = res]

(***************************************************************************)
(* The state half of Phase2Preflight.check, evaluated on one read.         *)
(***************************************************************************)
GateIgnoringLockout(r) == r.failures < Threshold /\ r.smoke = "pass"

GateOpen(r) ==
  /\ ~r.disabled
  /\ r.failures < Threshold
  /\ r.smoke = "pass"

(***************************************************************************)
(* compute_next_state's just_opened: the failure that reaches the          *)
(* threshold while the circuit is closed, judged on the row the caller     *)
(* read.                                                                   *)
(***************************************************************************)
JustOpened(r, outcome) ==
  /\ outcome = "failure"
  /\ ~r.disabled
  /\ r.failures + 1 >= Threshold

(***************************************************************************)
(* More than smoke_freshness_hours go by after a pass.                     *)
(***************************************************************************)
SmokeGoesStale == row.smoke = "pass" /\ row' = [row EXCEPT !.smoke = "stale"]
==============================================================================
