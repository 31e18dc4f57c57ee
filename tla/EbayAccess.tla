----------------------------- MODULE EbayAccess -----------------------------
(***************************************************************************)
(* Access to eBay: the OAuth token file, the processes that load it into   *)
(* an EbayApiFetcher - the daemon, and test-search from the command line - *)
(* with a DailyQuotaTracker each, and the login command that replaces it.  *)
(*                                                                         *)
(* A token pair is an access token a, which ages, and a refresh token r,   *)
(* which eBay accepts or not; the n-th answer of eBay issues the tokens n. *)
(* Within a process searches come one after the other.                     *)
(***************************************************************************)
EXTENDS Naturals

CONSTANTS
  Procs,          \* the processes that may hold a fetcher
  Poller,         \* the one of them that polls
  Budget,         \* ebay.daily_request_quota
  Nothing,        \* no tokens: the process does not run
  MaxExpiries,    \* bound: how often the access tokens issued so far expire
  MaxStarts,      \* bound: starts of a process
  MaxEbayLogins   \* bound: runs of login ebay

ASSUME EbayAssumption ==
  /\ Poller \in Procs
  /\ Budget \in Nat \ {0}     \* DailyQuotaTracker refuses a smaller one
  /\ MaxExpiries \in Nat /\ MaxStarts \in Nat /\ MaxEbayLogins \in Nat

VARIABLES
  disk,           \* oauth_tokens.json
  mem,            \* mem[p]: the tokens in p's fetcher
  at,             \* at[p]: where p's search stands
  quota,          \* quota[p]: whether the tracker's date is today, and _used
  stale,          \* access tokens within the lead time of their expiry
  accepted,       \* refresh tokens that eBay accepts
  issued,         \* the last answer of eBay that issued tokens
  spent,          \* what is used up of the bounds
  answered,       \* ghost: p's searches that eBay answered today
  lost            \* ghost: since the last login a pair was lost on its way, or on disk to an older one

ebayVars == <<disk, mem, at, quota, stale, accepted, issued, spent, answered, lost>>

Tokens == [a : Nat, r : Nat]

EbayTypeOK ==
  /\ disk \in Tokens /\ mem \in [Procs -> Tokens \cup {Nothing}]
  /\ at \in [Procs -> {"off", "idle", "refresh", "refreshed", "get"}]
  /\ quota \in [Procs -> [today : BOOLEAN, used : Nat]]
  /\ stale \subseteq Nat /\ accepted \subseteq Nat /\ issued \in Nat
  /\ spent \in [expiries : 0..MaxExpiries, starts : 0..MaxStarts, logins : 0..MaxEbayLogins]
  /\ answered \in [Procs -> Nat] /\ lost \in BOOLEAN

First == [a |-> 0, r |-> 0]

Unused == [today |-> FALSE, used |-> 0]

EbayInit ==
  /\ disk = First /\ stale = {} /\ accepted = {0} /\ issued = 0
  /\ mem = [p \in Procs |-> Nothing] /\ at = [p \in Procs |-> "off"]
  /\ quota = [p \in Procs |-> Unused]
  /\ spent = [expiries |-> 0, starts |-> 0, logins |-> 0]
  /\ answered = [p \in Procs |-> 0] /\ lost = FALSE

\* Mutant: a new day does not reset the count.
TodayKept(q) == [q EXCEPT !.today = TRUE]

(***************************************************************************)
(* DailyQuotaTracker: every use of it first drops yesterday's count.       *)
(***************************************************************************)
Today(q) == IF q.today THEN q ELSE [today |-> TRUE, used |-> 0]

\* Mutant: a charge late in the day is booked on a count of its own.
ConsumedElse(q) == [today |-> TRUE, used |-> 1]

Consumed(q) == [Today(q) EXCEPT !.used = @ + 1]

CanConsume(q) == Today(q).used < Budget

(***************************************************************************)
(* A process builds its fetcher: the file's tokens, a tracker of its own.  *)
(***************************************************************************)
ebaySide == <<stale, accepted, issued>>

Starts(p) ==
  /\ at[p] = "off" /\ spent.starts < MaxStarts
  /\ spent' = [spent EXCEPT !.starts = @ + 1]
  /\ at' = [at EXCEPT ![p] = "idle"]
  /\ mem' = [mem EXCEPT ![p] = disk]
  /\ quota' = [quota EXCEPT ![p] = Unused]
  /\ answered' = [answered EXCEPT ![p] = 0]
  /\ UNCHANGED <<disk, ebaySide, lost>>

(***************************************************************************)
(* search: the budget first, then a refresh if the access token is about   *)
(* to expire.  A search beyond the budget raises and asks eBay nothing.    *)
(***************************************************************************)
BudgetGate(p) ==
  /\ at[p] = "idle" /\ CanConsume(quota[p])
  /\ quota' = [quota EXCEPT ![p] = Today(@)]
  /\ at' = [at EXCEPT ![p] = IF mem[p].a \in stale THEN "refresh" ELSE "get"]
  /\ UNCHANGED <<disk, mem, ebaySide, spent, answered, lost>>

(***************************************************************************)
(* _refresh_tokens.  The answer may carry a new refresh token, which takes *)
(* the old one's place; without one the old one is kept.                   *)
(***************************************************************************)
RefreshAnswered(p) ==
  /\ at[p] = "refresh" /\ mem[p].r \in accepted
  /\ issued' = issued + 1
  /\ \E rotated \in BOOLEAN :
       /\ mem' = [mem EXCEPT ![p] = [a |-> issued', r |-> IF rotated THEN issued' ELSE @.r]]
       /\ accepted' = IF rotated THEN (accepted \ {mem[p].r}) \cup {issued'} ELSE accepted
  /\ at' = [at EXCEPT ![p] = "refreshed"]
  /\ UNCHANGED <<disk, quota, stale, spent, answered, lost>>

\* A 401 (EbayAuthFailed), another status or a transport error: it raises.
RefreshFails(p) ==
  /\ at[p] = "refresh"
  /\ at' = [at EXCEPT ![p] = "idle"]
  /\ UNCHANGED <<disk, mem, quota, ebaySide, spent, answered, lost>>

\* The same, after eBay has rotated the refresh token: the answer is lost on its
\* way, and the pair in memory and on disk is spent.
RefreshAnswerLost(p) ==
  /\ at[p] = "refresh" /\ mem[p].r \in accepted
  /\ issued' = issued + 1
  /\ accepted' = (accepted \ {mem[p].r}) \cup {issued'}
  /\ at' = [at EXCEPT ![p] = "idle"]
  /\ lost' = TRUE
  /\ UNCHANGED <<disk, mem, quota, stale, spent, answered>>

\* Mutant: the refreshed pair stays in memory.
SaveNothing(p) ==
  /\ at[p] = "refreshed"
  /\ at' = [at EXCEPT ![p] = "get"]
  /\ UNCHANGED <<disk, mem, quota, ebaySide, spent, answered, lost>>

\* OAuthTokenStore.save: a complete temporary file is renamed over the old,
\* whatever another process or a login has put there meanwhile.
SaveTokens(p) ==
  /\ at[p] = "refreshed"
  /\ disk' = mem[p]
  /\ at' = [at EXCEPT ![p] = "get"]
  /\ lost' = (lost \/ disk.a > mem[p].a)
  /\ UNCHANGED <<mem, quota, ebaySide, spent, answered>>

\* The search raises; the next one finds the access token fresh and does not
\* save again.
SaveFails(p) ==
  /\ at[p] = "refreshed"
  /\ at' = [at EXCEPT ![p] = "idle"]
  /\ lost' = TRUE
  /\ UNCHANGED <<disk, mem, quota, ebaySide, spent, answered>>

\* Any answer is charged, a 401 or an error status too, on the day it comes.
Answered(p) ==
  /\ at[p] = "get"
  /\ quota' = [quota EXCEPT ![p] = Consumed(@)]
  /\ answered' = [answered EXCEPT ![p] = @ + 1]
  /\ at' = [at EXCEPT ![p] = "idle"]
  /\ UNCHANGED <<disk, mem, ebaySide, spent, lost>>

Unanswered(p) ==
  /\ at[p] = "get"
  /\ at' = [at EXCEPT ![p] = "idle"]
  /\ UNCHANGED <<disk, mem, quota, ebaySide, spent, answered, lost>>

EbaySearchStep(p) ==
  \/ BudgetGate(p)
  \/ RefreshAnswered(p) \/ RefreshFails(p) \/ RefreshAnswerLost(p)
  \/ SaveTokens(p) \/ SaveFails(p)
  \/ Answered(p) \/ Unanswered(p)

(***************************************************************************)
(* A process ends, at any point; what it had not saved is gone.            *)
(***************************************************************************)
Ends(p) ==
  /\ at[p] # "off"
  /\ at' = [at EXCEPT ![p] = "off"]
  /\ mem' = [mem EXCEPT ![p] = Nothing]
  /\ lost' = (lost \/ at[p] = "refreshed")
  /\ UNCHANGED <<disk, quota, ebaySide, spent, answered>>

\* login ebay: the code is exchanged for tokens, which replace the file's and
\* make up for what was lost.
LoginEbay ==
  /\ spent.logins < MaxEbayLogins
  /\ spent' = [spent EXCEPT !.logins = @ + 1]
  /\ issued' = issued + 1
  /\ disk' = [a |-> issued', r |-> issued']
  /\ accepted' = accepted \cup {issued'}
  /\ lost' = FALSE
  /\ UNCHANGED <<mem, at, quota, stale, answered>>

AccessExpires ==
  /\ spent.expiries < MaxExpiries
  /\ spent' = [spent EXCEPT !.expiries = @ + 1]
  /\ stale' = 0..issued
  /\ UNCHANGED <<disk, mem, at, quota, accepted, issued, answered, lost>>

Midnight ==
  /\ quota' = [p \in Procs |-> [quota[p] EXCEPT !.today = FALSE]]
  /\ answered' = [p \in Procs |-> 0]
  /\ UNCHANGED <<disk, mem, at, ebaySide, spent, lost>>

EbayNext ==
  \/ \E p \in Procs : Starts(p) \/ EbaySearchStep(p) \/ Ends(p)
  \/ LoginEbay \/ AccessExpires \/ Midnight

EbaySpec == EbayInit /\ [][EbayNext]_ebayVars

(***************************************************************************)
(* The event loop resumes the daemon's search and the next poll follows;   *)
(* days pass; of eBay it is assumed that a refresh it would accept, tried  *)
(* again and again, is answered some time.                                 *)
(***************************************************************************)
EbayFairness ==
  /\ WF_ebayVars(EbaySearchStep(Poller))
  /\ SF_ebayVars(RefreshAnswered(Poller))
  /\ WF_ebayVars(Midnight)

(***************************************************************************)
(* Safety.                                                                 *)
(***************************************************************************)
\* A process takes at most Budget answers from eBay in a UTC day (NFR-I5), also
\* when midnight falls between the check of the budget and the charge.
DailyBudgetHolds == \A p \in Procs : answered[p] <= Budget

\* The refresh token on disk is one that eBay accepts, whichever processes and
\* logins write the file: a restart finds a way in, unless a refreshed pair is
\* on its way to the disk, or since the last login one was lost on its way from
\* eBay or to the disk, or an older pair was written over a newer one.
FileStaysUsable ==
  disk.r \in accepted \/ lost \/ \E p \in Procs : at[p] = "refreshed"

(***************************************************************************)
(* Liveness, under EbayFairness.                                           *)
(***************************************************************************)
\* The daemon replaces an access token that expires while eBay accepts its
\* refresh token, although the budget may be spent for the day.
AccessIsRefreshed ==
  mem[Poller] # Nothing /\ mem[Poller].a \in stale
    ~> \/ mem[Poller] = Nothing
       \/ mem[Poller].a \notin stale
       \/ mem[Poller].r \notin accepted
=============================================================================
