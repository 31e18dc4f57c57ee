----------------------------- MODULE OperatorCli -----------------------------
(***************************************************************************)
(* The commands `salvager phase2 enable <entry>`, `disable <entry>` and    *)
(* `disable --all`: a process of its own beside the daemon that rewrites   *)
(* wishlist.yaml and then updates the phase2_state row, one step each, and *)
(* may be killed between two of them.  The operator runs one at a time.    *)
(*                                                                         *)
(* A command that ends without writing (entry not found, prompt cancelled, *)
(* nothing enabled) is a command not started.                              *)
(***************************************************************************)
EXTENDS Phase2State

CONSTANT MaxCommands   \* bound: commands in a behaviour

ASSUME OperatorAssumption == MaxCommands \in Nat

VARIABLE cli   \* the command in progress: its kind, entry and step; how many ran

Steps == {"idle", "save", "clear", "reset", "lock"}

CliTypeOK ==
  cli \in [at : Steps, kind : {"enable", "disable", "all"}, entry : Entries, ran : Nat]

\* Until a command runs, the kind and entry say nothing.
CliInit ==
  cli \in [at : {"idle"}, kind : {"disable"}, entry : {CHOOSE e \in Entries : TRUE}, ran : {0}]

BeginByLifting(kind, e) ==
  /\ cli.at = "idle" /\ cli.ran < MaxCommands
  /\ cli' = [at |-> IF kind = "enable" THEN "clear" ELSE "save", kind |-> kind, entry |-> e,
             ran |-> cli.ran + 1]
  /\ UNCHANGED <<row, enabled>>

Begin(kind, e) ==
  /\ cli.at = "idle" /\ cli.ran < MaxCommands
  /\ cli' = [at |-> "save", kind |-> kind, entry |-> e, ran |-> cli.ran + 1]
  /\ UNCHANGED <<row, enabled>>

Enable(e)  == Begin("enable", e)
Disable(e) == Begin("disable", e)

\* The operator confirms the number of enabled entries; with none it ends.
DisableAll ==
  /\ \E e \in Entries : enabled[e]
  /\ Begin("all", cli.entry)

(***************************************************************************)
(* save_wishlist, then what the command does to the state row: enable      *)
(* lifts the lockout, --all sets it, a plain disable leaves it alone.      *)
(***************************************************************************)
Save ==
  /\ cli.at = "save"
  /\ enabled' = CASE cli.kind = "enable"  -> [enabled EXCEPT ![cli.entry] = TRUE]
                  [] cli.kind = "disable" -> [enabled EXCEPT ![cli.entry] = FALSE]
                  [] cli.kind = "all"     -> [e \in Entries |-> FALSE]
  /\ cli' = [cli EXCEPT !.at = CASE cli.kind = "enable"  -> "clear"
                                 [] cli.kind = "disable" -> "idle"
                                 [] cli.kind = "all"     -> "lock"]
  /\ UNCHANGED row

ClearGlobalDisable ==
  /\ cli.at = "clear"
  /\ row' = DisableCleared(row)
  /\ cli' = [cli EXCEPT !.at = "reset"]
  /\ UNCHANGED enabled

ResetFailureCounter ==
  /\ cli.at = "reset"
  /\ row' = CounterReset(row)
  /\ cli' = [cli EXCEPT !.at = "idle"]
  /\ UNCHANGED enabled

SetGlobalLockout ==
  /\ cli.at = "lock"
  /\ row' = Disabled(row)
  /\ cli' = [cli EXCEPT !.at = "idle"]
  /\ UNCHANGED enabled

\* Ctrl-C, a raising statement, a lost terminal.
CliKilled ==
  /\ cli.at # "idle"
  /\ cli' = [cli EXCEPT !.at = "idle"]
  /\ UNCHANGED <<row, enabled>>

Command == DisableAll \/ \E e \in Entries : Enable(e) \/ Disable(e)

CliProgress == Save \/ ClearGlobalDisable \/ ResetFailureCounter \/ SetGlobalLockout
==============================================================================
