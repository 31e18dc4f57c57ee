--------------------------- MODULE CredentialFiles --------------------------
(***************************************************************************)
(* How the two credential files are written and read: login wallapop waits *)
(* for a session cookie in the browser, writes the jar to the one          *)
(* temporary file and renames it; OAuthTokenStore.save, in the daemon and  *)
(* in login ebay, does so with a temporary file of its own.  Any of them   *)
(* may be killed between two steps.  One login wallapop runs at a time.    *)
(***************************************************************************)
EXTENDS FiniteSets

CONSTANTS Savers       \* the processes that save tokens

VARIABLES
  login,      \* where login wallapop stands, and the jar it captured
  temp,       \* its temporary file: what is in it, and its mode
  cookies,    \* wallapop_cookies.txt, likewise
  saver,      \* saver[s]: where a save of tokens stands
  tokens      \* oauth_tokens.json: whether it is there, whole and private

credentialVars == <<login, temp, cookies, saver, tokens>>

(***************************************************************************)
(* A cookie is known by its fields: one that proves a session, any other   *)
(* with a value, one with an empty value, one without a name or value.     *)
(***************************************************************************)
CookieKinds == {"session", "plain", "blank", "nameless"}

HasSession(jar) == "session" \in jar

\* _serialize_to_netscape drops what has no name or no value at all.
KeptRows(jar) == jar \ {"nameless"}

\* load_cookies strips the line and wants seven fields, so that a row which
\* ends with an empty value is one short.
Loads(rows) == rows \cap {"blank", "nameless"} = {}

NoFile == [rows |-> {}, whole |-> TRUE, private |-> TRUE]

CredentialTypeOK ==
  /\ login \in [at : {"off", "wait", "part", "whole", "private", "renamed"}, jar : SUBSET CookieKinds]
  /\ {temp, cookies} \subseteq [rows : SUBSET CookieKinds, whole : BOOLEAN, private : BOOLEAN]
  /\ saver \in [Savers -> {"off", "part", "whole", "renamed"}]
  /\ tokens \in [there : BOOLEAN, whole : BOOLEAN, private : BOOLEAN]

LoginOff == [at |-> "off", jar |-> {}]

CredentialInit ==
  /\ login = LoginOff /\ temp = NoFile /\ cookies = NoFile
  /\ saver = [s \in Savers |-> "off"]
  /\ tokens \in [there : BOOLEAN, whole : {TRUE}, private : {TRUE}]

saving  == <<saver, tokens>>
logging == <<login, temp, cookies>>

\* Without a terminal nothing happens; the browser may be missing (exit 4).
LoginOpens ==
  /\ login.at = "off"
  /\ login' = [login EXCEPT !.at = "wait"]
  /\ UNCHANGED <<temp, cookies, saving>>

\* The browser is polled until a session cookie with a value is there.
LoginCaptures ==
  /\ login.at = "wait"
  /\ \E jar \in SUBSET CookieKinds :
       HasSession(jar) /\ login' = [at |-> "part", jar |-> jar]
  /\ temp' = [rows |-> {}, whole |-> FALSE,
              private |-> temp.private /\ temp # NoFile]   \* an old temporary file keeps its mode
  /\ UNCHANGED <<cookies, saving>>

LoginWrites ==
  /\ login.at = "part"
  /\ temp' = [temp EXCEPT !.rows = KeptRows(login.jar), !.whole = TRUE]
  /\ login' = [login EXCEPT !.at = "whole"]
  /\ UNCHANGED <<cookies, saving>>

\* Mutant: the file is renamed first and restricted where it is.
LoginRestrictsLate ==
  /\ login.at = "whole"
  /\ login' = [login EXCEPT !.at = "private"]
  /\ UNCHANGED <<temp, cookies, saving>>

LoginRestricts ==
  /\ login.at = "whole"
  /\ temp' = [temp EXCEPT !.private = TRUE]
  /\ login' = [login EXCEPT !.at = "private"]
  /\ UNCHANGED <<cookies, saving>>

LoginRenames ==
  /\ login.at = "private"
  /\ cookies' = temp /\ temp' = NoFile
  /\ login' = [login EXCEPT !.at = "renamed"]
  /\ UNCHANGED saving

\* _enforce_0600, and the end of the command; or the wait times out (exit 4).
LoginEnds ==
  /\ login.at \in {"renamed", "wait"}
  /\ cookies' = IF login.at = "renamed" THEN [cookies EXCEPT !.private = TRUE] ELSE cookies
  /\ login' = LoginOff
  /\ UNCHANGED <<temp, saving>>

LoginKilled ==
  /\ login.at # "off"
  /\ login' = LoginOff
  /\ UNCHANGED <<temp, cookies, saving>>

(***************************************************************************)
(* OAuthTokenStore.save.  The temporary file is created private.           *)
(***************************************************************************)
SaveOpens(s) ==
  /\ saver[s] = "off"
  /\ saver' = [saver EXCEPT ![s] = "part"]
  /\ UNCHANGED <<logging, tokens>>

SaveSyncs(s) ==
  /\ saver[s] = "part"
  /\ saver' = [saver EXCEPT ![s] = "whole"]
  /\ UNCHANGED <<logging, tokens>>

SaveRenames(s) ==
  /\ saver[s] = "whole"
  /\ saver' = [saver EXCEPT ![s] = "renamed"]
  /\ tokens' = [there |-> TRUE, whole |-> TRUE, private |-> TRUE]
  /\ UNCHANGED logging

\* The save returns, raises and removes its temporary file, or is killed.
SaveEnds(s) ==
  /\ saver[s] # "off"
  /\ saver' = [saver EXCEPT ![s] = "off"]
  /\ UNCHANGED <<logging, tokens>>

CredentialNext ==
  \/ LoginOpens \/ LoginCaptures \/ LoginWrites \/ LoginRestricts \/ LoginRenames
  \/ LoginEnds \/ LoginKilled
  \/ \E s \in Savers : SaveOpens(s) \/ SaveSyncs(s) \/ SaveRenames(s) \/ SaveEnds(s)

CredentialSpec == CredentialInit /\ [][CredentialNext]_credentialVars

(***************************************************************************)
(* Safety.                                                                 *)
(***************************************************************************)
\* A reader finds each credential file as it was or complete, and under mode
\* 0600, wherever its writers stand or were killed.
ReadersSeeWhole == cookies.whole /\ cookies.private /\ tokens.whole /\ tokens.private

\* The rows that are not dropped are those that load_cookies takes: so says the
\* docstring of _serialize_to_netscape of those it drops.
WrittenJarLoads == Loads(cookies.rows)
=============================================================================
