----------------------------- MODULE Migrations -----------------------------
(***************************************************************************)
(* MigrationRunner.run, as every start of the daemon calls it before it    *)
(* opens the store.  executescript commits statement by statement, and the *)
(* version is written after the script, so that a kill, or a start beside  *)
(* one that has not ended, finds a part of it.  Releases differ in the     *)
(* migrations they bring.                                                  *)
(***************************************************************************)
EXTENDS Naturals

CONSTANTS
  Releases,      \* what may be started; each is one process at a time
  Brings        \* Brings[s]: the highest migration of that release

\* Each script stands for a table and what follows it: in 0001 the table is
\* _meta, in 0002 what follows seeds the row of phase2_state.
Statements == 1..2

ASSUME MigrationAssumption == Brings \in [Releases -> {1, 2}]

VARIABLES
  applied,      \* the statements, <<script, number>>, that have been committed
  version,      \* _meta.schema_version, 0 when there is none
  stateRow,     \* globally_disabled of the row of phase2_state
  runner        \* runner[s]: where the migrations of a start stand

migrationVars == <<applied, version, stateRow, runner>>

Whole(v) == {<<n, k>> : n \in 1..v, k \in Statements}

MigrationTypeOK ==
  /\ applied \subseteq Whole(2) /\ version \in 0..2
  /\ stateRow \in {"none", "active", "locked"}
  /\ runner \in [Releases -> [at : {"off", "script", "version", "open", "drift"}, script : 0..2, next : 1..3]]

Off == [at |-> "off", script |-> 0, next |-> 1]

MigrationInit ==
  /\ applied = {} /\ version = 0 /\ stateRow = "none"
  /\ runner = [s \in Releases |-> Off]

\* The version is read once, and decides what is pending.
Compares(s) ==
  /\ runner[s] = Off
  /\ runner' = [runner EXCEPT ![s] =
       CASE version > Brings[s] -> [Off EXCEPT !.at = "drift"]     \* SchemaDriftError
         [] version = Brings[s] -> [Off EXCEPT !.at = "open"]
         [] OTHER               -> [at |-> "script", script |-> version + 1, next |-> 1]]
  /\ UNCHANGED <<applied, version, stateRow>>

\* Mutant: the seed replaces the row.
SeededAnew == "active"

\* INSERT OR IGNORE: a row that is there stays as it is.
Seeded == IF stateRow = "none" THEN "active" ELSE stateRow

\* Mutant: the version is written with the first statement of the script.
StatementEarly(s) ==
  /\ runner[s].at = "script"
  /\ LET r == runner[s]
     IN /\ applied' = applied \cup {<<r.script, r.next>>}
        /\ stateRow' = IF <<r.script, r.next>> = <<2, 2>> THEN Seeded ELSE stateRow
        /\ runner' = [runner EXCEPT ![s] =
             IF r.next = 2 THEN [r EXCEPT !.at = "version"] ELSE [r EXCEPT !.next = @ + 1]]
        /\ version' = r.script

\* IF NOT EXISTS, OR IGNORE: a statement that was applied before does nothing.
Statement(s) ==
  /\ runner[s].at = "script"
  /\ LET r == runner[s]
     IN /\ applied' = applied \cup {<<r.script, r.next>>}
        /\ stateRow' = IF <<r.script, r.next>> = <<2, 2>> THEN Seeded ELSE stateRow
        /\ runner' = [runner EXCEPT ![s] =
             IF r.next = 2 THEN [r EXCEPT !.at = "version"] ELSE [r EXCEPT !.next = @ + 1]]
  /\ UNCHANGED version

\* Mutant: one migration more than the release brings.
WriteVersionPast(s) ==
  /\ runner[s].at = "version"
  /\ version' = runner[s].script
  /\ runner' = [runner EXCEPT ![s] =
       IF @.script > Brings[s] THEN [Off EXCEPT !.at = "open"]
       ELSE [at |-> "script", script |-> @.script + 1, next |-> 1]]
  /\ UNCHANGED <<applied, stateRow>>

WriteVersion(s) ==
  /\ runner[s].at = "version"
  /\ version' = runner[s].script
  /\ runner' = [runner EXCEPT ![s] =
       IF @.script = Brings[s] THEN [Off EXCEPT !.at = "open"]
       ELSE [at |-> "script", script |-> @.script + 1, next |-> 1]]
  /\ UNCHANGED <<applied, stateRow>>

\* The daemon ends, or its start is killed where it stands.
StartEnds(s) ==
  /\ runner[s] # Off
  /\ runner' = [runner EXCEPT ![s] = Off]
  /\ UNCHANGED <<applied, version, stateRow>>

\* Phase 2 locks itself, over a store that is open.
Locks ==
  /\ \E s \in Releases : runner[s].at = "open"
  /\ stateRow = "active" /\ stateRow' = "locked"
  /\ UNCHANGED <<applied, version, runner>>

MigrationNext ==
  \/ \E s \in Releases : Compares(s) \/ Statement(s) \/ WriteVersion(s) \/ StartEnds(s)
  \/ Locks

MigrationSpec == MigrationInit /\ [][MigrationNext]_migrationVars

(***************************************************************************)
(* Safety.                                                                 *)
(***************************************************************************)
\* The schema is complete up to the version that _meta names, and up to the
\* migrations of every daemon that got to open it - however starts of the same
\* or of different releases overlap and die.
VersionMeansSchema ==
  /\ Whole(version) \subseteq applied
  /\ \A s \in Releases : runner[s].at = "open" => Whole(Brings[s]) \subseteq applied

\* A migration that is applied again - an overlapping start of an older release
\* sets the version back - does not lift the lock of Phase 2.
LockSurvivesMigration == [][stateRow = "locked" => stateRow' = "locked"]_migrationVars
=============================================================================
