----------------------------- MODULE FilesProofs -----------------------------
(***************************************************************************)
(* Proofs about what a start finds on disk: the migrations, the credential *)
(* files, and the files that init and the operator write.                  *)
(***************************************************************************)
EXTENDS Migrations, CredentialFiles, Startup, TLAPS

(***************************************************************************)
(* Migrations.  That an open store has its whole schema is not inductive:  *)
(* the last step to it is WriteVersion, which looks at no table.  Reached  *)
(* says what the start has applied by where it stands.                     *)
(***************************************************************************)
Reached(s) ==
  LET r == runner[s]
  IN /\ r.at = "open" => Whole(Brings[s]) \subseteq applied
     /\ r.at = "script" => /\ r.script \in 1..Brings[s] /\ r.next \in 1..2
                           /\ Whole(r.script - 1) \subseteq applied
                           /\ r.next = 2 => <<r.script, 1>> \in applied
     /\ r.at = "version" => /\ r.script \in 1..Brings[s]
                            /\ Whole(r.script) \subseteq applied

MigrationInv ==
  /\ MigrationTypeOK
  /\ Whole(version) \subseteq applied
  /\ \A s \in Releases : Reached(s)

\* A script is applied once its two statements are, and the scripts before it.
LEMMA ScriptIsWhole ==
  ASSUME NEW n \in Nat \ {0}, NEW done,
         Whole(n - 1) \subseteq done, <<n, 1>> \in done, <<n, 2>> \in done
  PROVE  Whole(n) \subseteq done
<1> SUFFICES ASSUME NEW m \in 1..n, NEW k \in Statements PROVE <<m, k>> \in done
  BY DEF Whole
<1>1. CASE m = n
  BY <1>1 DEF Statements
<1>2. CASE m # n
  <2>1. m \in 1..(n - 1)
    BY <1>2
  <2> QED BY <2>1 DEF Whole
<1> QED BY <1>1, <1>2

\* A start that does not move keeps what it has reached while tables are added.
LEMMA ReachedStays ==
  ASSUME NEW s, Reached(s), runner'[s] = runner[s], applied \subseteq applied'
  PROVE  Reached(s)'
BY DEF Reached, Whole, Statements

\* Every step keeps the inductive invariant: each step of a start keeps what the
\* others have reached, and reaches what its new place promises.
LEMMA MigrationInvStep == MigrationInv /\ [MigrationNext]_migrationVars => MigrationInv'
<1> SUFFICES ASSUME MigrationInv, [MigrationNext]_migrationVars PROVE MigrationInv'
  OBVIOUS
<1> USE MigrationAssumption
<1>1. ASSUME NEW s \in Releases, Compares(s) PROVE MigrationInv'
  <2>1. runner' = [runner EXCEPT ![s] = runner'[s]]
    BY <1>1 DEF Compares, MigrationInv, MigrationTypeOK
  <2>2. /\ runner'[s] \in [at : {"off", "script", "version", "open", "drift"}, script : 0..2, next : 1..3]
        /\ Reached(s)'
    <3>1. CASE version > Brings[s]
      BY <1>1, <3>1 DEF Compares, MigrationInv, MigrationTypeOK, Off, Reached
    <3>2. CASE version = Brings[s]
      BY <1>1, <3>2 DEF Compares, MigrationInv, MigrationTypeOK, Off, Reached
    <3>3. CASE version < Brings[s]
      <4>1. version \in Nat /\ Brings[s] \in {1, 2}
        BY DEF MigrationInv, MigrationTypeOK
      <4>2. runner'[s] = [at |-> "script", script |-> version + 1, next |-> 1]
        BY <1>1, <3>3, <4>1 DEF Compares, MigrationInv, MigrationTypeOK
      <4>3. applied' = applied /\ Whole(version) \subseteq applied
        BY <1>1 DEF Compares, MigrationInv
      <4>4. PICK n \in 1..Brings[s] : n = version + 1 /\ n - 1 = version
        BY <3>3, <4>1
      <4>5. runner'[s] = [at |-> "script", script |-> n, next |-> 1] /\ n \in 0..2
        BY <4>1, <4>2, <4>4
      <4>6. Whole(n - 1) \subseteq applied'
        BY <4>3, <4>4
      <4>7. Reached(s)'
        BY <4>5, <4>6 DEF Reached
      <4> QED BY <4>5, <4>7
    <3> QED BY <3>1, <3>2, <3>3 DEF MigrationInv, MigrationTypeOK
  <2>3. ASSUME NEW x \in Releases, x # s PROVE Reached(x)'
    BY <1>1, <2>1, <2>3, ReachedStays DEF Compares, MigrationInv, MigrationTypeOK
  <2> QED BY <1>1, <2>1, <2>2, <2>3 DEF Compares, MigrationInv, MigrationTypeOK
<1>2. ASSUME NEW s \in Releases, Statement(s) PROVE MigrationInv'
  <2> DEFINE r == runner[s]
  <2>1. /\ r \in [at : {"off", "script", "version", "open", "drift"}, script : 0..2, next : 1..3]
        /\ r.script \in 1..Brings[s] /\ r.next \in 1..2 /\ Brings[s] \in {1, 2}
        /\ Whole(r.script - 1) \subseteq applied
        /\ r.next = 2 => <<r.script, 1>> \in applied
    BY <1>2 DEF Statement, MigrationInv, MigrationTypeOK, Reached
  <2>2. applied' = applied \cup {<<r.script, r.next>>} /\ <<r.script, r.next>> \in Whole(2)
    BY <1>2, <2>1 DEF Statement, Whole, Statements
  <2>3. stateRow' \in {"none", "active", "locked"} /\ version' = version
    BY <1>2 DEF Statement, Seeded, MigrationInv, MigrationTypeOK
  <2>4. CASE r.next = 1
    <3>1. runner' = [runner EXCEPT ![s] = [r EXCEPT !.next = 2]]
      BY <1>2, <2>4 DEF Statement
    <3>2. runner'[s] = [r EXCEPT !.next = 2]
      BY <3>1 DEF MigrationInv, MigrationTypeOK
    <3>3. r.at = "script"
      BY <1>2 DEF Statement
    <3>4. Reached(s)'
      BY <2>1, <2>2, <2>4, <3>2, <3>3 DEF Reached, Whole
    <3>5. ASSUME NEW x \in Releases, x # s PROVE Reached(x)'
      BY <2>2, <3>1, <3>5, ReachedStays DEF MigrationInv, MigrationTypeOK
    <3> QED BY <2>1, <2>2, <2>3, <3>1, <3>2, <3>4, <3>5, SMTT(30) DEF MigrationInv, MigrationTypeOK
  <2>5. CASE r.next = 2
    <3>1. runner' = [runner EXCEPT ![s] = [r EXCEPT !.at = "version"]]
      BY <1>2, <2>5 DEF Statement
    <3>2. runner'[s] = [r EXCEPT !.at = "version"]
      BY <3>1 DEF MigrationInv, MigrationTypeOK
    <3>3. Whole(r.script) \subseteq applied'
      BY <2>1, <2>2, <2>5, ScriptIsWhole
    <3>4. Reached(s)'
      BY <2>1, <3>2, <3>3 DEF Reached, Whole
    <3>5. ASSUME NEW x \in Releases, x # s PROVE Reached(x)'
      BY <2>2, <3>1, <3>5, ReachedStays DEF MigrationInv, MigrationTypeOK
    <3> QED BY <2>1, <2>2, <2>3, <3>1, <3>2, <3>4, <3>5 DEF MigrationInv, MigrationTypeOK
  <2> QED BY <2>1, <2>4, <2>5
<1>3. ASSUME NEW s \in Releases, WriteVersion(s) PROVE MigrationInv'
  <2> DEFINE r == runner[s]
  <2>1. /\ r \in [at : {"off", "script", "version", "open", "drift"}, script : 0..2, next : 1..3]
        /\ r.script \in 1..Brings[s] /\ Brings[s] \in {1, 2} /\ Whole(r.script) \subseteq applied
    BY <1>3 DEF WriteVersion, MigrationInv, MigrationTypeOK, Reached
  <2>2. version' = r.script /\ applied' = applied /\ stateRow' = stateRow
    BY <1>3 DEF WriteVersion
  <2>3. /\ runner' = [runner EXCEPT ![s] = runner'[s]]
        /\ runner'[s] = IF r.script = Brings[s] THEN [Off EXCEPT !.at = "open"]
                        ELSE [at |-> "script", script |-> r.script + 1, next |-> 1]
    BY <1>3 DEF WriteVersion, MigrationInv, MigrationTypeOK
  <2>4. Reached(s)' /\ runner'[s] \in [at : {"off", "script", "version", "open", "drift"}, script : 0..2, next : 1..3]
    <3>1. CASE r.script = Brings[s]
      BY <2>1, <2>2, <2>3, <3>1 DEF Reached, Off
    <3>2. CASE r.script # Brings[s]
      <4>1. r.script + 1 - 1 = r.script /\ r.script + 1 \in 1..Brings[s] /\ r.script + 1 \in 0..2
        BY <2>1, <3>2
      <4> QED BY <2>1, <2>2, <2>3, <3>2, <4>1 DEF Reached, Whole
    <3> QED BY <3>1, <3>2
  <2>5. ASSUME NEW x \in Releases, x # s PROVE Reached(x)'
    BY <2>2, <2>3, <2>5, ReachedStays DEF MigrationInv, MigrationTypeOK
  <2> QED BY <2>1, <2>2, <2>3, <2>4, <2>5 DEF MigrationInv, MigrationTypeOK
<1>4. ASSUME NEW s \in Releases, StartEnds(s) PROVE MigrationInv'
  <2>1. runner' = [runner EXCEPT ![s] = Off] /\ UNCHANGED <<applied, version, stateRow>>
    BY <1>4 DEF StartEnds
  <2>2. Reached(s)'
    BY <2>1 DEF Reached, Off, MigrationInv, MigrationTypeOK
  <2>3. ASSUME NEW x \in Releases, x # s PROVE Reached(x)'
    BY <2>1, <2>3, ReachedStays DEF MigrationInv, MigrationTypeOK
  <2> QED BY <2>1, <2>2, <2>3 DEF MigrationInv, MigrationTypeOK, Off
<1>5. CASE Locks
  <2>1. UNCHANGED <<applied, version, runner>> /\ stateRow' = "locked"
    BY <1>5 DEF Locks
  <2> QED BY <2>1, ReachedStays DEF MigrationInv, MigrationTypeOK
<1>6. CASE UNCHANGED migrationVars
  BY <1>6, ReachedStays DEF migrationVars, MigrationInv, MigrationTypeOK
<1> QED BY <1>1, <1>2, <1>3, <1>4, <1>5, <1>6 DEF MigrationNext

\* The inductive invariant of the migrations.
LEMMA MigrationInvHolds == MigrationSpec => []MigrationInv
<1>1. MigrationInit => MigrationInv
  BY DEF MigrationInit, MigrationInv, MigrationTypeOK, Reached, Off, Whole
<1> QED BY <1>1, MigrationInvStep, PTL DEF MigrationSpec

\* Whatever releases there are and however their starts overlap and die, an open
\* store has the schema of its release, and _meta never names a version whose
\* tables are missing.
THEOREM SchemaIsComplete == MigrationSpec => []VersionMeansSchema
<1>1. MigrationInv => VersionMeansSchema
  BY DEF MigrationInv, Reached, VersionMeansSchema
<1> QED BY <1>1, MigrationInvHolds, PTL

\* No migration lifts the lock of Phase 2.
THEOREM MigrationsKeepLock == MigrationSpec => LockSurvivesMigration
<1>1. [MigrationNext]_migrationVars => [stateRow = "locked" => stateRow' = "locked"]_migrationVars
  BY DEF MigrationNext, migrationVars, Compares, Statement, Seeded, WriteVersion, StartEnds, Locks
<1> QED BY <1>1, PTL DEF MigrationSpec, LockSurvivesMigration

(***************************************************************************)
(* The credential files.  What is renamed over a file was completed and    *)
(* restricted in the temporary file, two steps before.                     *)
(***************************************************************************)
JarFile == [rows : SUBSET CookieKinds, whole : BOOLEAN, private : BOOLEAN]

CredentialInv ==
  /\ login \in [at : {"off", "wait", "part", "whole", "private", "renamed"}, jar : SUBSET CookieKinds]
  /\ temp \in JarFile /\ cookies \in JarFile
  /\ ReadersSeeWhole
  /\ login.at \in {"whole", "private"} => temp.whole
  /\ login.at = "private" => temp.private

\* Every step of a login or of a save of tokens keeps the inductive invariant.
LEMMA CredentialInvStep == CredentialInv /\ [CredentialNext]_credentialVars => CredentialInv'
<1> SUFFICES ASSUME CredentialInv, [CredentialNext]_credentialVars PROVE CredentialInv'
  OBVIOUS
<1> USE DEF CredentialInv, JarFile, ReadersSeeWhole, saving, logging
<1>1. ASSUME LoginOpens PROVE CredentialInv'
  BY <1>1 DEF LoginOpens
<1>8. ASSUME LoginCaptures PROVE CredentialInv'
  <2>1. PICK jar \in SUBSET CookieKinds : login' = [at |-> "part", jar |-> jar]
    BY <1>8 DEF LoginCaptures
  <2> DEFINE kept == temp.private /\ temp # NoFile
  <2>2. temp' = [rows |-> {}, whole |-> FALSE, private |-> kept]
    BY <1>8 DEF LoginCaptures
  <2>3. kept \in BOOLEAN
    OBVIOUS
  <2>4. temp' \in JarFile
    <3> HIDE DEF kept
    <3> QED BY <2>2, <2>3
  <2> QED BY <1>8, <2>1, <2>4 DEF LoginCaptures
<1>2. ASSUME LoginWrites PROVE CredentialInv'
  BY <1>2 DEF LoginWrites, KeptRows
<1>3. ASSUME LoginRestricts PROVE CredentialInv'
  BY <1>3 DEF LoginRestricts
<1>4. ASSUME LoginRenames PROVE CredentialInv'
  BY <1>4 DEF LoginRenames, NoFile
<1>5. ASSUME LoginEnds \/ LoginKilled PROVE CredentialInv'
  <2>1. login' = [at |-> "off", jar |-> {}] /\ temp' = temp /\ UNCHANGED saving
    BY <1>5 DEF LoginEnds, LoginKilled, LoginOff
  <2>2. cookies' = cookies \/ cookies' = [cookies EXCEPT !.private = TRUE]
    BY <1>5 DEF LoginEnds, LoginKilled
  <2> QED BY <2>1, <2>2
<1>6. ASSUME NEW s \in Savers, SaveOpens(s) \/ SaveSyncs(s) \/ SaveRenames(s) \/ SaveEnds(s)
      PROVE  CredentialInv'
  BY <1>6 DEF SaveOpens, SaveSyncs, SaveRenames, SaveEnds
<1>7. CASE UNCHANGED credentialVars
  BY <1>7 DEF credentialVars
<1> QED BY <1>1, <1>2, <1>3, <1>4, <1>5, <1>6, <1>7, <1>8 DEF CredentialNext

\* However many processes save tokens, and wherever they and the login are
\* killed, a reader finds whole and private files.
THEOREM CredentialsStayWhole == CredentialSpec => []ReadersSeeWhole
<1>1. CredentialInit => CredentialInv
  <2>1. NoFile \in JarFile /\ NoFile.whole /\ NoFile.private
    BY DEF NoFile, JarFile
  <2>2. CredentialInit => tokens.whole /\ tokens.private
    BY DEF CredentialInit
  <2> QED BY <2>1, <2>2 DEF CredentialInit, CredentialInv, ReadersSeeWhole, LoginOff
<1>2. CredentialInv => ReadersSeeWhole
  BY DEF CredentialInv
<1> QED BY <1>1, <1>2, CredentialInvStep, PTL DEF CredentialSpec

(***************************************************************************)
(* Start-up.  A file that is judged loads, and a start that is steady runs *)
(* over judged files.                                                      *)
(***************************************************************************)
StartRecord ==
  [at : {"off", "config", "wishlist", "evaluator", "jobs", "serving", "exited"},
   keys : SUBSET Keys, provider : Providers, jobs : SUBSET {"wallapop", "ebay"},
   steady : BOOLEAN, stop : {"no"} \cup DOMAIN ExitCode]

JudgedLoads ==
  /\ "env" \in judged => EnvLoads
  /\ "config" \in judged => ConfigLoads
  /\ "wishlist" \in judged => WishlistLoads

StartupInv ==
  /\ DOMAIN files = Files
  /\ start \in StartRecord
  /\ JudgedLoads
  /\ start.steady => Steady
  /\ ValidatedStarts

\* The names of the files.
LEMMA TheFiles == Files = {"env", "config", "wishlist", "wallapop", "ebay"}
BY DEF Files, FileOutcomes

\* A change of a file voids what was said of it and leaves the other files alone.
LEMMA ChangeKeepsInv ==
  ASSUME StartupInv, NEW f, NEW content, Changes(f, content)
  PROVE  StartupInv'
<1>1. files' = [files EXCEPT ![f] = content] /\ judged' = judged \ {f}
  BY DEF Changes
<1>2. \A g \in Files : g # f => files'[g] = files[g]
  BY <1>1 DEF StartupInv
<1>3. JudgedLoads'
  BY <1>1, <1>2, TheFiles DEF StartupInv, JudgedLoads, EnvLoads, ConfigLoads, WishlistLoads
<1>4. start' \in StartRecord /\ ~start'.steady
  BY DEF Changes, StartupInv, StartRecord
<1> QED BY <1>1, <1>3, <1>4 DEF StartupInv, ValidatedStarts

\* What a validate command accepts, the loaders of a start accept.
LEMMA ValidatedLoads ==
  /\ ValidateConfig = 0 => EnvLoads /\ ConfigLoads
  /\ ValidateWishlist = 0 => WishlistLoads
BY DEF ValidateConfig, ValidateWishlist

\* Every step keeps the inductive invariant.
LEMMA StartupInvStep == StartupInv /\ [StartupNext]_startupVars => StartupInv'
<1> SUFFICES ASSUME StartupInv, [StartupNext]_startupVars PROVE StartupInv'
  OBVIOUS
<1> USE DEF StartupInv, ValidatedStarts, Steady
<1>1. ASSUME UNCHANGED <<files, judged, start>> PROVE StartupInv'
  BY <1>1 DEF JudgedLoads, EnvLoads, ConfigLoads, WishlistLoads
<1>2. ASSUME NEW f, NEW content, Changes(f, content) PROVE StartupInv'
  BY <1>2, ChangeKeepsInv
<1>3. CASE Validates
  <2>1. UNCHANGED <<files, start>> /\ judged \subseteq judged'
    BY <1>3 DEF Validates
  <2>2. JudgedLoads'
    BY <1>3, <2>1, ValidatedLoads DEF Validates, JudgedLoads, EnvLoads, ConfigLoads, WishlistLoads
  <2> QED BY <2>1, <2>2
<1>5. ASSUME StartStep PROVE JudgedLoads'
  BY <1>5 DEF StartStep, JudgedLoads, EnvLoads, ConfigLoads, WishlistLoads
<1>6. CASE LoadEnv
  <2>1. StartStep /\ JudgedLoads'
    BY <1>5, <1>6 DEF LoadEnv
  <2>2. CASE EnvLoads
    <3>1. start' = [NoStart EXCEPT !.at = "config", !.keys = KeysIn[files.env], !.steady = Steady]
      BY <1>6, <2>2 DEF LoadEnv
    <3>2. KeysIn[files.env] \subseteq Keys
      BY <2>2 DEF EnvLoads, KeysIn, Keys
    <3> QED BY <2>1, <3>1, <3>2 DEF StartStep, StartRecord, NoStart, Providers, ExitCode
  <2>3. CASE ~EnvLoads
    <3>1. start' = [NoStart EXCEPT !.at = "exited", !.stop = "env", !.steady = Steady]
      BY <1>6, <2>3 DEF LoadEnv
    <3> QED BY <2>1, <2>3, <3>1 DEF StartStep, StartRecord, NoStart, Providers, ExitCode, JudgedLoads
  <2> QED BY <2>2, <2>3
<1>7. CASE LoadConfig
  BY <1>5, <1>7, ZenonT(60) DEF LoadConfig, StartStep, StartRecord, Fails, ExitCode, ConfigLoads, JudgedLoads
<1>8. CASE LoadWishlist
  BY <1>5, <1>8, ZenonT(60) DEF LoadWishlist, StartStep, StartRecord, Fails, ExitCode, JudgedLoads
<1>9. CASE BuildEvaluator
  BY <1>5, <1>9, ZenonT(60) DEF BuildEvaluator, StartStep, StartRecord, Fails, ExitCode
<1>10. CASE BuildJobs
  <2>1. \/ \E why \in {"credential", "none"} : Fails(why)
        \/ \E there \in SUBSET {"wallapop", "ebay"} : start' = [start EXCEPT !.at = "serving", !.jobs = there]
    BY <1>10 DEF BuildJobs
  <2>2. StartStep /\ JudgedLoads'
    BY <1>5, <1>10 DEF BuildJobs
  <2> QED BY <2>1, <2>2 DEF StartStep, StartRecord, Fails, ExitCode
<1>11. CASE Restarts
  BY <1>5, <1>11 DEF Restarts, StartStep, StartRecord, NoStart, Providers, ExitCode
<1>12. CASE InitCopies \/ LoginWallapop \/ LoginEbayFile \/ \E f \in Files : Edit(f)
  BY <1>2, <1>12 DEF InitCopies, LoginWallapop, LoginEbayFile, Edit
<1>13. CASE InitKilled \/ \E force, token \in BOOLEAN : InitBegins(force, token)
  BY <1>1, <1>13 DEF InitKilled, InitBegins
<1>14. CASE UNCHANGED startupVars
  BY <1>1, <1>14 DEF startupVars
<1> QED BY <1>3, <1>6, <1>7, <1>8, <1>9, <1>10, <1>11, <1>12, <1>13, <1>14 DEF StartupNext

\* However edits, logins, inits and starts interleave, what the validate commands
\* accepted and nobody touched since does not fail a start.
THEOREM ValidationIsKept == StartupSpec => []ValidatedStarts
<1>1. StartupInit => StartupInv
  BY TheFiles DEF StartupInit, StartupInv, StartRecord, NoStart, Providers, ExitCode, JudgedLoads, ValidatedStarts
<1>2. StartupInv => ValidatedStarts
  BY DEF StartupInv
<1> QED BY <1>1, <1>2, StartupInvStep, PTL DEF StartupSpec
=============================================================================
