------------------------------ MODULE Startup -------------------------------
(***************************************************************************)
(* What the operator's files let the program do: init scaffolds them, the  *)
(* two validate commands judge them, the two login commands write the      *)
(* credentials, and the bare command composes the daemon from them - one   *)
(* file after the other, so that an edit, a login or a kill falls between. *)
(*                                                                         *)
(* A file is known by what its loader makes of it.  An exception that no   *)
(* command catches is the exit code 1 of a traceback.                      *)
(***************************************************************************)
EXTENDS Naturals, Sequences

CONSTANT MaxEdits      \* bound: edits of a file by hand, and logins

ASSUME StartupAssumption == MaxEdits \in Nat

VARIABLES
  files,      \* what is on disk
  scaffold,   \* what a running init has still to copy
  judged,     \* the files whose validate command said 0 and that are unchanged since
  start,      \* how far a start of the daemon is, and what it has loaded
  apart,      \* config.yaml's data_dir is not the --data-dir of the logins
  edits

startupVars == <<files, scaffold, judged, start, apart, edits>>

(***************************************************************************)
(* The loaders' outcomes.  A missing .env is one with variables missing; a *)
(* key that is set to nothing counts as set.                               *)
(***************************************************************************)
Keys      == {"GEMINI_API_KEY", "ANTHROPIC_API_KEY"}
Providers == {"gemini-flash", "claude-haiku", "gpt-4o-mini"}

\* The keys of a .env that loads.
KeysIn == [neither |-> {}, gemini |-> {"GEMINI_API_KEY"}, claude |-> {"ANTHROPIC_API_KEY"}, both |-> Keys]

FileOutcomes ==
  [env      |-> {"absent", "invalid"} \cup DOMAIN KeysIn,
   config   |-> {"absent", "broken", "invalid"} \cup Providers,
   wishlist |-> {"absent", "broken", "forbidden", "invalid", "entries"},
   wallapop |-> {"absent", "broken", "good"},
   ebay     |-> {"absent", "broken", "good"}]

Files == DOMAIN FileOutcomes

EnvLoads      == files.env \in DOMAIN KeysIn
ConfigLoads   == files.config \in Providers
WishlistLoads == files.wishlist = "entries"

\* Mutant: config.yaml and wishlist.yaml are found valid when they are well-formed.
ValidateConfigLax ==
  IF files.config = "absent" THEN 1
  ELSE IF files.config = "broken" THEN 3
  ELSE IF ~EnvLoads THEN 4 ELSE 0

\* The exit codes of the two validate commands.
ValidateConfig ==
  IF files.config = "absent" THEN 1
  ELSE IF ~ConfigLoads THEN 3
  ELSE IF ~EnvLoads THEN 4 ELSE 0

ValidateWishlist ==
  IF files.wishlist = "absent" THEN 1
  ELSE IF ~WishlistLoads THEN 3 ELSE 0

(***************************************************************************)
(* init copies three templates; the .env it leaves has a blank chat id.    *)
(***************************************************************************)
Templates == <<"env", "wishlist", "config">>

TemplateOf == [env |-> "invalid", wishlist |-> "entries", config |-> "gemini-flash"]

NoStart == [at |-> "off", keys |-> {}, provider |-> "gpt-4o-mini", jobs |-> {},
            steady |-> FALSE, stop |-> "no"]

StartupTypeOK ==
  /\ DOMAIN files = Files /\ \A f \in Files : files[f] \in FileOutcomes[f]
  /\ scaffold \in Seq(Files)
  /\ judged \subseteq {"env", "config", "wishlist"}
  /\ start.at \in {"off", "config", "wishlist", "evaluator", "jobs", "serving", "exited"}
  /\ start.keys \subseteq Keys /\ start.provider \in Providers
  /\ start.jobs \subseteq {"wallapop", "ebay"} /\ start.steady \in BOOLEAN
  /\ apart \in BOOLEAN /\ edits \in 0..MaxEdits

StartupInit ==
  /\ files = [f \in Files |-> "absent"]
  /\ scaffold = <<>> /\ judged = {} /\ start = NoStart
  /\ apart \in BOOLEAN /\ edits = 0

\* A file changes: what was said of it is void, and a start is not steady.
Changes(f, content) ==
  /\ files' = [files EXCEPT ![f] = content]
  /\ judged' = judged \ {f}
  /\ start' = [start EXCEPT !.steady = FALSE]

ToFind == {Templates[i] : i \in DOMAIN Templates}

Existing == {f \in ToFind : files[f] # "absent"}

(***************************************************************************)
(* init.  What exists is overwritten only with --force, from a terminal,   *)
(* once the token was typed (token is FALSE where it was not).  The copies *)
(* follow one by one.                                                      *)
(***************************************************************************)
InitBegins(force, token) ==
  /\ scaffold = <<>>
  /\ Existing # {} => force /\ token
  /\ scaffold' = Templates
  /\ UNCHANGED <<files, judged, start, apart, edits>>

InitCopies ==
  /\ scaffold # <<>>
  /\ Changes(Head(scaffold), TemplateOf[Head(scaffold)])
  /\ scaffold' = Tail(scaffold)
  /\ UNCHANGED <<apart, edits>>

InitKilled ==
  /\ scaffold # <<>>
  /\ scaffold' = <<>>
  /\ UNCHANGED <<files, judged, start, apart, edits>>

(***************************************************************************)
(* The validate commands, which read and change nothing.                   *)
(***************************************************************************)
Validates ==
  /\ judged' = judged \cup (IF ValidateConfig = 0 THEN {"config", "env"} ELSE {})
                      \cup (IF ValidateWishlist = 0 THEN {"wishlist"} ELSE {})
  /\ UNCHANGED <<files, scaffold, start, apart, edits>>

(***************************************************************************)
(* The operator edits a file by hand.                                      *)
(***************************************************************************)
Edit(f) ==
  /\ edits < MaxEdits
  /\ edits' = edits + 1
  /\ \E content \in FileOutcomes[f] \ {files[f]} : Changes(f, content)
  /\ UNCHANGED <<scaffold, apart>>

\* login wallapop renames a complete file in place; without a terminal (1), a
\* session cookie in time or a browser (4) it writes nothing.
LoginWallapop ==
  /\ edits < MaxEdits
  /\ edits' = edits + 1
  /\ Changes("wallapop", "good")
  /\ UNCHANGED <<scaffold, apart>>

\* login ebay wants the .env first (4), then the terminal (1), then a code that
\* eBay exchanges for tokens (4).
LoginEbayFile ==
  /\ edits < MaxEdits
  /\ edits' = edits + 1
  /\ EnvLoads
  /\ Changes("ebay", "good")
  /\ UNCHANGED <<scaffold, apart>>

(***************************************************************************)
(* The bare command.  Each loader raises, or its result is kept for good.  *)
(***************************************************************************)
Steady == {"env", "config", "wishlist"} \subseteq judged

Fails(why) == start' = [start EXCEPT !.at = "exited", !.stop = why]

StartStep == UNCHANGED <<files, scaffold, judged, apart, edits>>

LoadEnv ==
  /\ start.at = "off"
  /\ IF EnvLoads
       THEN start' = [NoStart EXCEPT !.at = "config", !.keys = KeysIn[files.env], !.steady = Steady]
       ELSE start' = [NoStart EXCEPT !.at = "exited", !.stop = "env", !.steady = Steady]
  /\ StartStep

LoadConfig ==
  /\ start.at = "config"
  /\ IF ConfigLoads
       THEN start' = [start EXCEPT !.at = "wishlist", !.provider = files.config]
       ELSE Fails("config")
  /\ StartStep

LoadWishlist ==
  /\ start.at = "wishlist"
  /\ IF WishlistLoads THEN start' = [start EXCEPT !.at = "evaluator"] ELSE Fails("wishlist")
  /\ StartStep

\* build_inner_evaluator: the OpenAI adapter is not built, and the others want
\* their key.
Builds ==
  CASE start.provider = "gemini-flash" -> "GEMINI_API_KEY" \in start.keys
    [] start.provider = "claude-haiku" -> "ANTHROPIC_API_KEY" \in start.keys
    [] OTHER -> FALSE

BuildEvaluator ==
  /\ start.at = "evaluator"
  /\ IF Builds THEN start' = [start EXCEPT !.at = "jobs"] ELSE Fails("evaluator")
  /\ StartStep

\* What the daemon finds of a credential under its own data_dir.
Found(m) == IF apart THEN "absent" ELSE files[m]

\* Each marketplace has a job if its credential file is there, and fails the
\* start if the file is there and does not load.
BuildJobs ==
  /\ start.at = "jobs"
  /\ LET there == {m \in {"wallapop", "ebay"} : Found(m) # "absent"}
     IN IF \E m \in there : Found(m) = "broken" THEN Fails("credential")
        ELSE IF there = {} THEN Fails("none")
        ELSE start' = [start EXCEPT !.at = "serving", !.jobs = there]
  /\ StartStep

\* It is stopped, or the operator tries again.
Restarts ==
  /\ start.at \in {"serving", "exited"}
  /\ start' = NoStart
  /\ StartStep

\* The documented exit code of a start that has ended (0 for a signal).
ExitCode == [env |-> 4, none |-> 5, config |-> 1, wishlist |-> 1, evaluator |-> 1, credential |-> 1]

StartupNext ==
  \/ \E force, token \in BOOLEAN : InitBegins(force, token)
  \/ InitCopies \/ InitKilled
  \/ Validates
  \/ \E f \in Files : Edit(f)
  \/ LoginWallapop \/ LoginEbayFile
  \/ LoadEnv \/ LoadConfig \/ LoadWishlist \/ BuildEvaluator \/ BuildJobs
  \/ Restarts

StartupSpec == StartupInit /\ [][StartupNext]_startupVars

(***************************************************************************)
(* Safety.                                                                 *)
(***************************************************************************)
\* A start over files that the validate commands accepted, and that nobody has
\* touched since, fails neither for .env nor for config.yaml nor wishlist.yaml.
ValidatedStarts ==
  start.at = "exited" /\ start.steady => start.stop \notin {"env", "config", "wishlist"}
=============================================================================
