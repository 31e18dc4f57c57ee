-------------------------- MODULE WallapopFallback --------------------------
(***************************************************************************)
(* The Wallapop leg of the daemon: WallapopFallbackFetcher.search, which   *)
(* tries the unofficial API with the operator's cookies, then TinyFish,    *)
(* over the health it keeps from search to search; the login command that  *)
(* rewrites the cookie file meanwhile; a restart of the daemon.            *)
(*                                                                         *)
(* Searches come one after the other (one poll job, one entry at a time).  *)
(* Each await - the API call, a report, the TinyFish run - is a step of    *)
(* its own.  The n-th login writes the n-th jar, at mtime n.               *)
(***************************************************************************)
EXTENDS DegradationReporter

CONSTANTS
  Job,           \* the poll job, a caller of the reporter
  NoMtime,       \* no mtime is kept
  MaxLogins,     \* bound: logins during the behaviour
  MaxRestarts,   \* bound: restarts of the daemon
  MaxDown        \* bound: searches in a row that find both paths down

VARIABLES
  health,        \* WallapopHealth: the latch, the renewal to confirm, the streak
  baseline,      \* _cookie_mtime_at_expiry
  jar,           \* the cookies in the API fetcher's client
  file,          \* the cookie file: its content and its mtime
  expired,       \* the jars whose session Wallapop has ended
  search,        \* where the search stands, and what it noted at its start
  restarts,
  missed,        \* ghost: searches since one was served, in this process
  renewals       \* ghost: session_renewed reports so far

fallbackVars == <<health, baseline, jar, file, expired, search, restarts, missed, renewals>>

Down(n)  == <<"both_paths_down", n>>
Event(e) == <<e, 0>>

\* What the leg reports; the context of both_paths_down counts the streak, so
\* that no two searches of an outage report the same.
LegReports ==
  {Event(e) : e \in {"session_expired", "api_degraded", "session_renewed"}} \cup {Down(n) : n \in 2..MaxDown}

ApiAdapter == {"wallapop_api"}

ASSUME FallbackAssumption ==
  /\ Job \in Callers /\ ApiAdapter \subseteq Adapters /\ LegReports \subseteq Reports
  /\ MaxLogins \in Nat /\ MaxRestarts \in Nat /\ MaxDown \in Nat \ {0, 1} /\ NoMtime \notin Nat

Fresh == [enabled |-> TRUE, pending |-> FALSE, streak |-> 0]

NoSearch == [at |-> "idle", was |-> TRUE]

FallbackTypeOK ==
  /\ health \in [enabled : BOOLEAN, pending : BOOLEAN, streak : 0..MaxDown]
  /\ baseline \in 0..MaxLogins \cup {NoMtime}
  /\ jar \in 0..MaxLogins /\ file \in 0..MaxLogins /\ expired \subseteq 0..MaxLogins
  /\ search \in [at : {"idle", "api", "tinyfish", "end"}, was : BOOLEAN]
  /\ restarts \in 0..MaxRestarts
  /\ missed \in 0..MaxDown
  /\ renewals \in Nat

FallbackInit ==
  /\ health = Fresh /\ baseline = NoMtime
  /\ jar = 0 /\ file = 0 /\ expired = {}
  /\ search = NoSearch
  /\ restarts = 0 /\ missed = 0 /\ renewals = 0

outside == <<jar, file, expired, restarts>>

(***************************************************************************)
(* The start of a search.  While the API is latched off, the cookie file   *)
(* is looked at: the first mtime seen is adopted when none was kept, a     *)
(* later one than the kept one re-enables the API.                         *)
(***************************************************************************)
Adopts    == ~health.enabled /\ baseline = NoMtime
Redetects == ~health.enabled /\ baseline # NoMtime /\ file > baseline

\* Mutant: a rewritten file is adopted as the new baseline.
StartSearchAdopting ==
  /\ search.at = "idle"
  /\ baseline' = IF health.enabled THEN baseline ELSE file
  /\ search' = [at  |-> IF health.enabled THEN "api" ELSE "tinyfish",
                was |-> health.enabled]
  /\ UNCHANGED <<health, reporterVars, outside, missed, renewals>>

StartSearch ==
  /\ search.at = "idle"
  /\ baseline' = IF Adopts THEN file ELSE IF Redetects THEN NoMtime ELSE baseline
  /\ health' = IF Redetects THEN [health EXCEPT !.enabled = TRUE, !.pending = TRUE] ELSE health
  /\ search' = [at  |-> IF health'.enabled THEN "api" ELSE "tinyfish",
                was |-> health.enabled]
  /\ UNCHANGED <<reporterVars, outside, missed, renewals>>

(***************************************************************************)
(* The API answers.  A 401 latches the path off; any other WallapopError - *)
(* transport, status, drifted schema - does not.  Both are reported, and   *)
(* TinyFish is asked in the same search once the report has returned.      *)
(***************************************************************************)
Leg(r, recovers) == Report(Job, r, ApiAdapter, recovers)

\* Mutant: the streak survives a success of the API.
ApiServesStreak ==
  /\ search.at = "api" /\ jar \notin expired
  /\ health' = [health EXCEPT !.pending = FALSE]
  /\ IF health.pending
       THEN Leg(Event("session_renewed"), TRUE) /\ renewals' = renewals + 1
       ELSE UNCHANGED <<reporterVars, renewals>>
  /\ search' = [search EXCEPT !.at = "end"]
  /\ missed' = 0
  /\ UNCHANGED <<baseline, outside>>

ApiServes ==
  /\ search.at = "api" /\ jar \notin expired
  /\ health' = [health EXCEPT !.streak = 0, !.pending = FALSE]
  /\ IF health.pending
       THEN Leg(Event("session_renewed"), TRUE) /\ renewals' = renewals + 1
       ELSE UNCHANGED <<reporterVars, renewals>>
  /\ search' = [search EXCEPT !.at = "end"]
  /\ missed' = 0
  /\ UNCHANGED <<baseline, outside>>

\* Wallapop may answer 401 to a session it goes on to accept later.
ApiRefuses ==
  /\ search.at = "api"
  /\ health' = [health EXCEPT !.enabled = FALSE]
  /\ Leg(Event("session_expired"), FALSE)
  /\ search' = [search EXCEPT !.at = "tinyfish"]
  /\ UNCHANGED <<baseline, outside, missed, renewals>>

ApiFails ==
  /\ search.at = "api"
  /\ Leg(Event("api_degraded"), FALSE)
  /\ search' = [search EXCEPT !.at = "tinyfish"]
  /\ UNCHANGED <<health, baseline, outside, missed, renewals>>

(***************************************************************************)
(* Anything else that is raised - a 200 whose body is not JSON, a bug in   *)
(* the TinyFish SDK - leaves the search, past the note of the mtime.       *)
(***************************************************************************)
Reported == sending[Job] = NoSend

SearchRaises ==
  /\ \/ search.at = "api"
     \/ search.at = "tinyfish" /\ Reported
  /\ search' = NoSearch
  /\ UNCHANGED <<reporterVars, health, baseline, outside, missed, renewals>>

TinyfishServes ==
  /\ search.at = "tinyfish" /\ Reported
  /\ health' = [health EXCEPT !.streak = 0]
  /\ search' = [search EXCEPT !.at = "end"]
  /\ missed' = 0
  /\ UNCHANGED <<reporterVars, baseline, outside, renewals>>

\* The first search that finds both paths down is logged, later ones warn.
TinyfishFails ==
  /\ search.at = "tinyfish" /\ Reported
  /\ health.streak < MaxDown
  /\ health' = [health EXCEPT !.streak = @ + 1]
  /\ IF health'.streak >= 2 THEN Report(Job, Down(health'.streak), {}, FALSE)
                            ELSE UNCHANGED reporterVars
  /\ search' = [search EXCEPT !.at = "end"]
  /\ missed' = IF missed < MaxDown THEN missed + 1 ELSE missed
  /\ UNCHANGED <<baseline, outside, renewals>>

(***************************************************************************)
(* The mtime of a cookie file that expired in this search is noted last,   *)
(* after the awaits above: a login during them is taken for the old file.  *)
(***************************************************************************)
EndSearch ==
  /\ search.at = "end" /\ Reported
  /\ baseline' = IF search.was /\ ~health.enabled THEN file ELSE baseline
  /\ search' = NoSearch
  /\ UNCHANGED <<reporterVars, health, outside, missed, renewals>>

SearchStep ==
  \/ StartSearch \/ EndSearch
  \/ ApiServes \/ ApiRefuses \/ ApiFails
  \/ TinyfishServes \/ TinyfishFails

(***************************************************************************)
(* The outside.                                                            *)
(***************************************************************************)
legVars == <<health, baseline, search, missed, renewals>>

SessionExpires ==
  /\ expired' = 0..file
  /\ expired' # expired
  /\ UNCHANGED <<reporterVars, legVars, jar, file, restarts>>

\* login wallapop renames a complete file over the old one.
Login ==
  /\ file < MaxLogins
  /\ file' = file + 1
  /\ UNCHANGED <<reporterVars, legVars, jar, expired, restarts>>

\* The composer builds the leg anew, over the cookies of the file.
LegRestarts ==
  /\ restarts < MaxRestarts
  /\ restarts' = restarts + 1
  /\ health' = Fresh /\ baseline' = NoMtime /\ search' = NoSearch /\ missed' = 0
  /\ jar' = file
  /\ ReporterLost
  /\ UNCHANGED <<file, expired, renewals>>

FallbackNext ==
  \/ SearchStep \/ SearchRaises
  \/ SendStep(Job) /\ UNCHANGED fallbackVars
  \/ Tick /\ UNCHANGED fallbackVars
  \/ SessionExpires \/ Login \/ LegRestarts

FallbackSpec == ReporterInit /\ FallbackInit /\ [][FallbackNext]_<<reporterVars, fallbackVars>>

\* The event loop resumes the search, and a send returns or fails.
LegProgress == SearchStep \/ (SendStep(Job) /\ UNCHANGED fallbackVars)

FallbackFairness == WF_<<reporterVars, fallbackVars>>(LegProgress)

(***************************************************************************)
(* Safety.                                                                 *)
(***************************************************************************)
\* The warning that both paths are down reaches the operator only when two
\* searches or more in this process found them down and none was served since
\* (UX-DR13, no false warnings), whichever path served in between.
WarningNeedsTwoMisses ==
  sending[Job] # NoSend /\ sending[Job].report \in {Down(n) : n \in 2..MaxDown} => missed >= 2

\* Over any number of expiries and restarts, session_renewed is reported at
\* most once per login.
RenewalsNeedLogins == renewals <= file

\* While the API is latched off, the health state calls it degraded: no order
\* of 401s, renewals and restarts leaves the one without the other.
LatchIsVisible == ~health.enabled => ApiAdapter \subseteq degraded

(***************************************************************************)
(* Liveness, under FallbackFairness.                                       *)
(***************************************************************************)
\* A login after the noted mtime brings the API back into use, without a
\* restart and whatever else fails.
LoginIsNoticed ==
  ~health.enabled /\ baseline # NoMtime /\ file > baseline ~> health.enabled

(***************************************************************************)
(* What the documents say and the code does not do.                        *)
(***************************************************************************)
\* wallapop_fallback.py: a rewrite of the cookie file re-enables the API path,
\* no daemon restart needed.  So the call that is to confirm a renewal should
\* carry the rewritten cookies.
RenewalIsTried == search.at = "api" /\ health.pending => jar = file
=============================================================================
