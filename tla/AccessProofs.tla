----------------------------- MODULE AccessProofs -----------------------------
(***************************************************************************)
(* Proofs about the daemon's access to the marketplaces - the Wallapop     *)
(* leg, the eBay tokens and quota - and about what health says of it.      *)
(***************************************************************************)
EXTENDS WallapopFallback, EbayAccess, Health, TLAPS

(***************************************************************************)
(* The Wallapop leg.  A warning under way was earned when its search ended *)
(* (LegSends); a renewal to confirm, or a baseline that was noted, has its *)
(* login in reserve (LegRenews).                                           *)
(***************************************************************************)
DownReports == {Down(n) : n \in 2..MaxDown}

LegTyped ==
  /\ health \in [enabled : BOOLEAN, pending : BOOLEAN, streak : 0..MaxDown]
  /\ search.at \in {"idle", "api", "tinyfish", "end"}
  /\ DOMAIN search = {"at", "was"}
  /\ DOMAIN sending = Callers /\ DOMAIN armed = Reports
  /\ file \in Nat /\ renewals \in Nat /\ missed \in 0..MaxDown
  /\ baseline \in Nat \cup {NoMtime}

LegSends ==
  /\ search.at \in {"idle", "api"} => sending[Job] = NoSend
  /\ sending[Job] # NoSend /\ sending[Job].report \in DownReports => missed >= 2
  /\ health.streak <= missed

LegLatch ==
  /\ search.at = "api" => health.enabled
  /\ LatchIsVisible

LegRenews ==
  /\ renewals <= file
  /\ health.pending => renewals < file
  /\ baseline # NoMtime => ~health.enabled /\ renewals <= baseline /\ baseline <= file

LegInv == LegTyped /\ LegSends /\ LegLatch /\ LegRenews

\* What a report of the leg changes: the health state, and perhaps the job's send.
LEMMA LegReport ==
  ASSUME DOMAIN sending = Callers, NEW r, NEW recovers \in BOOLEAN, NEW adapter, Report(Job, r, adapter, recovers)
  PROVE  /\ DOMAIN sending' = Callers /\ UNCHANGED armed
         /\ degraded' = Recorded(adapter, recovers)
         /\ sending[Job] = NoSend
         /\ sending'[Job] = NoSend \/ sending'[Job].report = r
BY FallbackAssumption DEF Report

\* The other reports are no warnings.
LEMMA EventsAreNoWarnings == \A e : Event(e) \in DownReports => e = "both_paths_down"
BY DEF Event, Down, DownReports

\* Every step keeps the inductive invariant of the leg.
LEMMA LegInvStep == LegInv /\ [FallbackNext]_<<reporterVars, fallbackVars>> => LegInv'
<1> SUFFICES ASSUME LegInv, [FallbackNext]_<<reporterVars, fallbackVars>> PROVE LegInv'
  OBVIOUS
<1> USE FallbackAssumption DEF LegInv, LegTyped, outside, legVars
<1>1. CASE StartSearch
  <2>1. UNCHANGED <<armed, sending, degraded, file, missed, renewals>> /\ search.at = "idle"
    BY <1>1 DEF StartSearch, reporterVars
  <2>2. search' = [at |-> IF health'.enabled THEN "api" ELSE "tinyfish", was |-> health.enabled]
    BY <1>1 DEF StartSearch
  <2>3. health' = IF Redetects THEN [health EXCEPT !.enabled = TRUE, !.pending = TRUE] ELSE health
    BY <1>1 DEF StartSearch
  <2>4. baseline' = IF Adopts THEN file ELSE IF Redetects THEN NoMtime ELSE baseline
    BY <1>1 DEF StartSearch
  <2>5. LegTyped'
    BY <2>1, <2>2, <2>3, <2>4
  <2>6. LegSends'
    BY <2>1, <2>2, <2>3 DEF LegSends
  <2>7. LegLatch'
    BY <2>1, <2>2, <2>3 DEF LegLatch, LatchIsVisible
  <2>8. LegRenews'
    BY <2>1, <2>3, <2>4 DEF LegRenews, Adopts, Redetects
  <2> QED BY <2>5, <2>6, <2>7, <2>8
<1>2. CASE ApiServes
  <2>1. /\ search.at = "api" /\ search' = [search EXCEPT !.at = "end"] /\ missed' = 0
        /\ UNCHANGED <<baseline, file>>
    BY <1>2 DEF ApiServes
  <2>4. /\ health' \in [enabled : BOOLEAN, pending : BOOLEAN, streak : 0..MaxDown]
        /\ health'.enabled /\ ~health'.pending /\ health'.streak = 0
    <3>1. health' = [health EXCEPT !.streak = 0, !.pending = FALSE] /\ health.enabled
      BY <1>2 DEF ApiServes, LegLatch
    <3>2. health' = [enabled |-> TRUE, pending |-> FALSE, streak |-> 0]
      BY <3>1
    <3> QED BY <3>2
  <2>2. CASE health.pending
    <3>1. Report(Job, Event("session_renewed"), ApiAdapter, TRUE) /\ renewals' = renewals + 1
      BY <1>2, <2>2 DEF ApiServes, Leg
    <3>2. /\ DOMAIN sending' = Callers /\ UNCHANGED armed
          /\ sending'[Job] = NoSend \/ sending'[Job].report = Event("session_renewed")
      BY <3>1, LegReport
    <3>3. LegTyped'
      BY <2>1, <2>4, <3>1, <3>2
    <3>4. LegSends'
      BY <2>1, <2>4, <3>2, EventsAreNoWarnings DEF LegSends
    <3>5. LegLatch'
      BY <2>1, <2>4 DEF LegLatch, LatchIsVisible
    <3>6. LegRenews'
      BY <2>1, <2>2, <2>4, <3>1 DEF LegRenews, LegLatch
    <3> QED BY <3>3, <3>4, <3>5, <3>6
  <2>3. CASE ~health.pending
    <3>1. UNCHANGED <<armed, sending, degraded, renewals>>
      BY <1>2, <2>3 DEF ApiServes, reporterVars
    <3>2. LegTyped' /\ LegSends'
      BY <2>1, <2>4, <3>1 DEF LegSends
    <3>3. LegLatch' /\ LegRenews'
      BY <2>1, <2>4, <3>1 DEF LegLatch, LatchIsVisible, LegRenews
    <3> QED BY <3>2, <3>3
  <2> QED BY <2>2, <2>3
<1>3. ASSUME ApiRefuses \/ ApiFails PROVE LegInv'
  <2>1. PICK e \in {"session_expired", "api_degraded"} : Report(Job, Event(e), ApiAdapter, FALSE)
    BY <1>3 DEF ApiRefuses, ApiFails, Leg
  <2>2. /\ search.at = "api" /\ search' = [search EXCEPT !.at = "tinyfish"]
        /\ UNCHANGED <<baseline, file, missed, renewals>>
        /\ health' = health \/ health' = [health EXCEPT !.enabled = FALSE]
    BY <1>3 DEF ApiRefuses, ApiFails
  <2>3. /\ DOMAIN sending' = Callers /\ UNCHANGED armed
        /\ ApiAdapter \subseteq degraded'
        /\ sending'[Job] = NoSend \/ sending'[Job].report = Event(e)
    <3>1. degraded' = Recorded(ApiAdapter, FALSE)
      BY <2>1, LegReport
    <3> QED BY <2>1, <3>1, LegReport DEF Recorded
  <2>4. LegTyped'
    BY <2>2, <2>3
  <2>5. LegSends'
    BY <2>2, <2>3, EventsAreNoWarnings DEF LegSends
  <2>6. LegLatch' /\ LegRenews'
    BY <2>2, <2>3 DEF LegLatch, LatchIsVisible, LegRenews
  <2> QED BY <2>4, <2>5, <2>6
<1>4. CASE SearchRaises
  <2>1. /\ UNCHANGED <<armed, sending, degraded, health, baseline, file, missed, renewals>>
        /\ search' = NoSearch
        /\ search.at = "api" \/ sending[Job] = NoSend
    BY <1>4 DEF SearchRaises, reporterVars, Reported
  <2> QED BY <2>1 DEF NoSearch, LegSends, LegLatch, LatchIsVisible, LegRenews
<1>5. CASE TinyfishServes
  <2>1. /\ UNCHANGED <<armed, sending, degraded, baseline, file, renewals>>
        /\ health' = [health EXCEPT !.streak = 0] /\ missed' = 0
        /\ search' = [search EXCEPT !.at = "end"] /\ sending[Job] = NoSend
    BY <1>5 DEF TinyfishServes, reporterVars, Reported
  <2> QED BY <2>1 DEF LegSends, LegLatch, LatchIsVisible, LegRenews
<1>6. CASE TinyfishFails
  <2>1. /\ health.streak < MaxDown /\ health' = [health EXCEPT !.streak = @ + 1]
        /\ search' = [search EXCEPT !.at = "end"] /\ sending[Job] = NoSend
        /\ missed' = IF missed < MaxDown THEN missed + 1 ELSE missed
        /\ UNCHANGED <<baseline, file, renewals>>
    BY <1>6 DEF TinyfishFails, Reported
  <2>2. health'.streak = health.streak + 1 /\ health'.streak <= missed'
    BY <2>1 DEF LegSends
  <2>3. CASE health'.streak >= 2
    <3>1. Report(Job, Down(health'.streak), {}, FALSE)
      BY <1>6, <2>3 DEF TinyfishFails
    <3>2. /\ DOMAIN sending' = Callers /\ UNCHANGED armed
          /\ degraded' = degraded \cup {}
      BY <3>1, LegReport DEF Recorded
    <3>3. LegTyped'
      BY <2>1, <3>2
    <3>4. LegSends' 
      BY <2>1, <2>2, <2>3, <3>3 DEF LegSends
    <3>5. LegLatch' /\ LegRenews'
      BY <2>1, <3>2 DEF LegLatch, LatchIsVisible, LegRenews
    <3> QED BY <3>3, <3>4, <3>5
  <2>4. CASE ~(health'.streak >= 2)
    <3>1. UNCHANGED <<armed, sending, degraded>>
      BY <1>6, <2>4 DEF TinyfishFails, reporterVars
    <3> QED BY <2>1, <2>2, <3>1 DEF LegSends, LegLatch, LatchIsVisible, LegRenews
  <2> QED BY <2>3, <2>4
<1>7. CASE EndSearch
  <2>1. /\ UNCHANGED <<armed, sending, degraded, health, file, missed, renewals>>
        /\ baseline' = baseline \/ (baseline' = file /\ ~health.enabled)
        /\ search' = NoSearch /\ sending[Job] = NoSend
    BY <1>7 DEF EndSearch, reporterVars, Reported
  <2> QED BY <2>1 DEF NoSearch, LegSends, LegLatch, LatchIsVisible, LegRenews
<1>8. ASSUME SendStep(Job), UNCHANGED fallbackVars PROVE LegInv'
  <2>1. DOMAIN sending' = Callers /\ DOMAIN armed' = Reports /\ UNCHANGED degraded /\ sending'[Job] = NoSend
    BY <1>8 DEF SendStep, SendReturns, SendFails
  <2> QED BY <1>8, <2>1 DEF fallbackVars, LegSends, LegLatch, LatchIsVisible, LegRenews
<1>9. ASSUME Tick, UNCHANGED fallbackVars PROVE LegInv'
  <2>1. DOMAIN sending' = Callers /\ DOMAIN armed' = Reports /\ UNCHANGED degraded
    BY <1>9 DEF Tick
  <2>2. sending'[Job] = IF sending[Job] = NoSend THEN NoSend ELSE [sending[Job] EXCEPT !.age = Older(@)]
    BY <1>9 DEF Tick
  <2> QED BY <1>9, <2>1, <2>2 DEF fallbackVars, LegSends, LegLatch, LatchIsVisible, LegRenews
<1>10. ASSUME SessionExpires \/ Login PROVE LegInv'
  <2>1. UNCHANGED <<armed, sending, degraded, health, baseline, search, missed, renewals>> /\ file' \in {file, file + 1}
    BY <1>10 DEF SessionExpires, Login, reporterVars
  <2> QED BY <2>1 DEF LegSends, LegLatch, LatchIsVisible, LegRenews
<1>11. CASE LegRestarts
  <2>1. /\ health' = Fresh /\ baseline' = NoMtime /\ search' = NoSearch /\ missed' = 0
        /\ DOMAIN sending' = Callers /\ DOMAIN armed' = Reports /\ sending'[Job] = NoSend
        /\ UNCHANGED <<file, renewals>>
    BY <1>11 DEF LegRestarts, ReporterLost
  <2> QED BY <2>1 DEF Fresh, NoSearch, LegSends, LegLatch, LatchIsVisible, LegRenews
<1>12. CASE UNCHANGED <<reporterVars, fallbackVars>>
  BY <1>12 DEF reporterVars, fallbackVars, LegSends, LegLatch, LatchIsVisible, LegRenews
<1> QED
  BY <1>1, <1>2, <1>3, <1>4, <1>5, <1>6, <1>7, <1>8, <1>9, <1>10, <1>11, <1>12
  DEF FallbackNext, SearchStep

\* The inductive invariant of the leg.
LEMMA LegInvHolds == FallbackSpec => []LegInv
<1>1. ReporterInit /\ FallbackInit => LegInv
  BY FallbackAssumption
  DEF ReporterInit, FallbackInit, LegInv, LegTyped, LegSends, LegLatch, LatchIsVisible, LegRenews, Fresh, NoSearch
<1> QED BY <1>1, LegInvStep, PTL DEF FallbackSpec

\* For any bound of searches, logins and restarts, and however sends fail or are
\* held back, the operator is not warned of an outage after a served search.
THEOREM WarningsAreEarned == FallbackSpec => []WarningNeedsTwoMisses
<1>1. LegInv => WarningNeedsTwoMisses
  BY DEF LegInv, LegSends, WarningNeedsTwoMisses, DownReports
<1> QED BY <1>1, LegInvHolds, PTL

\* A latched API path is degraded in the health state, whatever came before.
THEOREM LatchedIsDegraded == FallbackSpec => []LatchIsVisible
<1>1. LegInv => LatchIsVisible
  BY DEF LegInv, LegLatch
<1> QED BY <1>1, LegInvHolds, PTL

\* session_renewed is reported at most once per login, over any restarts: the
\* baseline, or the renewal that is to be confirmed, holds a login in reserve.
THEOREM RenewalsAreEarned == FallbackSpec => []RenewalsNeedLogins
<1>1. LegInv => RenewalsNeedLogins
  BY DEF LegInv, LegRenews, RenewalsNeedLogins
<1> QED BY <1>1, LegInvHolds, PTL

(***************************************************************************)
(* eBay's quota.  A search that is past the check of the budget has room   *)
(* for one more answer, because midnight only makes room.                  *)
(***************************************************************************)
Charged(p) ==
  /\ DOMAIN quota[p] = {"today", "used"} /\ quota[p].today \in BOOLEAN /\ quota[p].used \in Nat
  /\ answered[p] \in 0..Budget
  /\ quota[p].today => answered[p] <= quota[p].used
  /\ ~quota[p].today => answered[p] = 0
  /\ at[p] \in {"refresh", "refreshed", "get"} => answered[p] < Budget

QuotaInv ==
  /\ DOMAIN at = Procs /\ DOMAIN quota = Procs /\ DOMAIN answered = Procs
  /\ \A p \in Procs : Charged(p)

\* A step of one process is looked at for that process only.
LEMMA QuotaOfOne ==
  ASSUME QuotaInv, NEW p \in Procs, Charged(p)',
         DOMAIN at' = Procs, DOMAIN quota' = Procs, DOMAIN answered' = Procs,
         \A o \in Procs \ {p} : at'[o] = at[o] /\ quota'[o] = quota[o] /\ answered'[o] = answered[o]
  PROVE  QuotaInv'
<1> SUFFICES ASSUME NEW o \in Procs PROVE Charged(o)'
  BY DEF QuotaInv
<1>1. CASE o = p
  BY <1>1
<1>2. CASE o # p
  BY <1>2 DEF QuotaInv, Charged
<1> QED BY <1>1, <1>2

\* Every step keeps the books of the quota.
LEMMA QuotaInvStep == QuotaInv /\ [EbayNext]_ebayVars => QuotaInv'
<1> SUFFICES ASSUME QuotaInv, [EbayNext]_ebayVars PROVE QuotaInv'
  OBVIOUS
<1> USE EbayAssumption DEF QuotaInv, ebaySide
<1>1. ASSUME NEW p \in Procs, Starts(p) PROVE QuotaInv'
  <2>1. at'[p] = "idle" /\ quota'[p] = [today |-> FALSE, used |-> 0] /\ answered'[p] = 0
    BY <1>1 DEF Starts, Unused
  <2>2. Charged(p)'
    BY <2>1 DEF Charged
  <2> QED BY <1>1, <2>2, QuotaOfOne DEF Starts
<1>2. ASSUME NEW p \in Procs, BudgetGate(p) PROVE QuotaInv'
  <2>1. answered' = answered /\ quota'[p] = Today(quota[p]) /\ Today(quota[p]).used < Budget
    BY <1>2 DEF BudgetGate, CanConsume
  <2>2. /\ DOMAIN Today(quota[p]) = {"today", "used"} /\ Today(quota[p]).today = TRUE
        /\ Today(quota[p]).used \in Nat /\ answered[p] <= Today(quota[p]).used
    BY DEF Charged, Today
  <2>3. answered[p] \in 0..Budget /\ answered[p] < Budget
    BY <2>1, <2>2 DEF Charged
  <2>4. Charged(p)'
    BY <2>1, <2>2, <2>3 DEF Charged
  <2> QED BY <1>2, <2>4, QuotaOfOne DEF BudgetGate
<1>3. ASSUME NEW p \in Procs,
             \/ RefreshAnswered(p) \/ RefreshFails(p) \/ RefreshAnswerLost(p)
             \/ SaveTokens(p) \/ SaveFails(p) \/ Unanswered(p) \/ Ends(p)
      PROVE  QuotaInv'
  <2>1. UNCHANGED <<quota, answered>> /\ \E stage : at' = [at EXCEPT ![p] = stage]
    BY <1>3 DEF RefreshAnswered, RefreshFails, RefreshAnswerLost, SaveTokens, SaveFails, Unanswered, Ends
  <2>2. at[p] \in {"refresh", "refreshed", "get"} \/ at'[p] \notin {"refresh", "refreshed", "get"}
    BY <1>3 DEF RefreshAnswered, RefreshFails, RefreshAnswerLost, SaveTokens, SaveFails, Unanswered, Ends
  <2>3. Charged(p)'
    BY <2>1, <2>2 DEF Charged
  <2> QED BY <2>1, <2>3, QuotaOfOne
<1>4. ASSUME NEW p \in Procs, Answered(p) PROVE QuotaInv'
  <2> DEFINE q == Today(quota[p])
  <2>1. /\ at[p] = "get" /\ at'[p] = "idle"
        /\ quota'[p] = [q EXCEPT !.used = @ + 1] /\ answered'[p] = answered[p] + 1
    BY <1>4 DEF Answered, Consumed
  <2>2. answered[p] < Budget /\ answered[p] \in Nat
    BY <2>1 DEF Charged
  <2>3. /\ DOMAIN q = {"today", "used"} /\ q.today = TRUE
        /\ q.used \in Nat /\ answered[p] <= q.used
    BY DEF Charged, Today
  <2> HIDE DEF q
  <2>4. /\ DOMAIN quota'[p] = {"today", "used"} /\ quota'[p].today = TRUE
        /\ quota'[p].used = q.used + 1
    BY <2>1, <2>3
  <2>5. Charged(p)'
    <3>1. quota'[p].today \in BOOLEAN
      BY <2>4
    <3>2. quota'[p].used \in Nat
      BY <2>3, <2>4
    <3>3. answered'[p] \in 0..Budget
      BY <2>1, <2>2
    <3>4. answered'[p] <= quota'[p].used
      BY <2>1, <2>2, <2>3, <2>4
    <3>5. at'[p] \notin {"refresh", "refreshed", "get"}
      BY <2>1
    <3> QED BY <2>4, <3>1, <3>2, <3>3, <3>4, <3>5 DEF Charged
  <2> QED BY <1>4, <2>5, QuotaOfOne DEF Answered
<1>5. CASE Midnight
  <2>1. /\ at' = at /\ DOMAIN quota' = Procs /\ DOMAIN answered' = Procs
        /\ \A p \in Procs : quota'[p] = [quota[p] EXCEPT !.today = FALSE] /\ answered'[p] = 0
    BY <1>5 DEF Midnight
  <2>2. ASSUME NEW p \in Procs PROVE Charged(p)'
    <3>1. /\ DOMAIN quota'[p] = {"today", "used"} /\ quota'[p].today = FALSE
          /\ quota'[p].used = quota[p].used /\ quota[p].used \in Nat
      BY <2>1 DEF Charged
    <3>2. answered'[p] = 0 /\ answered'[p] \in 0..Budget /\ answered'[p] < Budget
      BY <2>1
    <3> QED BY <2>1, <3>1, <3>2 DEF Charged
  <2> QED BY <2>1, <2>2
<1>6. CASE UNCHANGED <<at, quota, answered>>
  BY <1>6 DEF Charged
<1> QED
  BY <1>1, <1>2, <1>3, <1>4, <1>5, <1>6
  DEF EbayNext, EbaySearchStep, ebayVars, LoginEbay, AccessExpires

\* For any number of processes and any budget, no process gets more answers from
\* eBay in a UTC day than the budget allows.
THEOREM BudgetIsKept == EbaySpec => []DailyBudgetHolds
<1>1. ASSUME EbayInit PROVE QuotaInv
  <2>1. DOMAIN at = Procs /\ DOMAIN quota = Procs /\ DOMAIN answered = Procs
    BY <1>1 DEF EbayInit
  <2>2. ASSUME NEW p \in Procs PROVE Charged(p)
    <3>1. at[p] = "off" /\ quota[p] = Unused /\ answered[p] = 0
      BY <1>1 DEF EbayInit
    <3>2. DOMAIN Unused = {"today", "used"} /\ Unused.today = FALSE /\ Unused.used = 0
      BY DEF Unused
    <3>3. answered[p] \in 0..Budget
      BY <3>1, EbayAssumption
    <3>4. /\ DOMAIN quota[p] = {"today", "used"} /\ quota[p].today = FALSE
          /\ quota[p].used = 0 /\ at[p] \notin {"refresh", "refreshed", "get"}
      BY <3>1, <3>2
    <3>5. quota[p].today \in BOOLEAN
      BY <3>4, Zenon
    <3>7. quota[p].used \in Nat
      BY <3>4
    <3>6. (quota[p].today => answered[p] <= quota[p].used) /\ (~quota[p].today => answered[p] = 0)
      BY <3>1, <3>4
    <3> QED BY <3>3, <3>4, <3>5, <3>6, <3>7 DEF Charged
  <2> QED BY <2>1, <2>2 DEF QuotaInv
<1>2. QuotaInv => DailyBudgetHolds
  BY EbayAssumption DEF QuotaInv, Charged, DailyBudgetHolds
<1> QED BY <1>1, <1>2, QuotaInvStep, PTL DEF EbaySpec

(***************************************************************************)
(* eBay's tokens.  That the file is usable is not inductive: a pair that   *)
(* is on its way to the disk may have lost its refresh token to another    *)
(* process.  A pair is then older than one that is still good, and the age *)
(* of the access tokens tells which.                                       *)
(***************************************************************************)
Waiting(p) == at[p] = "refreshed"

NewerWaits(x) == \E q \in Procs : Waiting(q) /\ mem[q].a > x

TokenInv ==
  /\ DOMAIN at = Procs /\ DOMAIN mem = Procs
  /\ issued \in Nat /\ disk.a \in 0..issued
  /\ \A p \in Procs : at[p] # "off" => mem[p].a \in 0..issued
  /\ ~lost => disk.r \in accepted \/ NewerWaits(disk.a)
  /\ ~lost => \A p \in Procs : Waiting(p) =>
       mem[p].r \in accepted \/ disk.a > mem[p].a \/ NewerWaits(mem[p].a)

\* A step that leaves the tokens alone, on disk and on their way to it.
LEMMA TokensStay ==
  ASSUME TokenInv, UNCHANGED <<disk, accepted, issued>>, lost => lost',
         DOMAIN at' = Procs, DOMAIN mem' = Procs,
         \A p \in Procs : at'[p] # "off" => mem'[p].a \in 0..issued,
         lost' \/ \A p \in Procs : Waiting(p)' = Waiting(p) /\ (Waiting(p) => mem'[p] = mem[p])
  PROVE  TokenInv'
<1>1. CASE lost'
  BY <1>1 DEF TokenInv
<1>2. CASE ~lost'
  <2>1. ~lost
    BY <1>2, Zenon
  <2>2. \A p \in Procs : Waiting(p)' = Waiting(p) /\ (Waiting(p) => mem'[p] = mem[p])
    BY <1>2 DEF Waiting
  <2>3. \A x : NewerWaits(x) => NewerWaits(x)'
    BY <2>2 DEF NewerWaits
  <2>4. disk.r \in accepted \/ NewerWaits(disk.a)'
    BY <2>1, <2>3 DEF TokenInv
  <2>5. ASSUME NEW p \in Procs, Waiting(p)'
        PROVE  mem'[p].r \in accepted \/ disk.a > mem'[p].a \/ NewerWaits(mem[p].a)'
    <3>1. Waiting(p) /\ mem'[p] = mem[p]
      BY <2>2, <2>5
    <3>2. mem[p].r \in accepted \/ disk.a > mem[p].a \/ NewerWaits(mem[p].a)
      BY <2>1, <3>1 DEF TokenInv
    <3> QED BY <2>3, <3>1, <3>2
  <2> QED BY <2>4, <2>5 DEF TokenInv
<1> QED BY <1>1, <1>2

\* Every step keeps the inductive invariant of the tokens.
LEMMA TokenInvStep == TokenInv /\ [EbayNext]_ebayVars => TokenInv'
<1> SUFFICES ASSUME TokenInv, [EbayNext]_ebayVars PROVE TokenInv'
  OBVIOUS
<1> USE DEF ebaySide
<1>1. ASSUME NEW p \in Procs, Starts(p) PROVE TokenInv'
  BY <1>1, TokensStay DEF TokenInv, Starts, Waiting
<1>2. ASSUME NEW p \in Procs, BudgetGate(p) \/ RefreshFails(p) \/ Answered(p) \/ Unanswered(p) PROVE TokenInv'
  BY <1>2, TokensStay DEF TokenInv, BudgetGate, RefreshFails, Answered, Unanswered, Waiting
<1>3. ASSUME NEW p \in Procs, SaveFails(p) \/ Ends(p) PROVE TokenInv'
  BY <1>3, TokensStay DEF TokenInv, SaveFails, Ends, Waiting
<1>8. ASSUME NEW p \in Procs, RefreshAnswerLost(p) PROVE TokenInv'
  <2>1. lost' /\ issued' = issued + 1 /\ at' = [at EXCEPT ![p] = "idle"] /\ at[p] = "refresh"
        /\ UNCHANGED <<disk, mem>>
    BY <1>8 DEF RefreshAnswerLost
  <2> QED BY <2>1 DEF TokenInv
<1>4. ASSUME NEW p \in Procs, RefreshAnswered(p) PROVE TokenInv'
  <2>1. PICK rotated \in BOOLEAN :
          /\ mem' = [mem EXCEPT ![p] = [a |-> issued', r |-> IF rotated THEN issued' ELSE @.r]]
          /\ accepted' = IF rotated THEN (accepted \ {mem[p].r}) \cup {issued'} ELSE accepted
    BY <1>4 DEF RefreshAnswered
  <2>2. /\ at' = [at EXCEPT ![p] = "refreshed"] /\ at[p] = "refresh" /\ mem[p].r \in accepted
        /\ issued' = issued + 1 /\ UNCHANGED <<disk, lost>>
    BY <1>4 DEF RefreshAnswered
  <2>3. mem'[p].a = issued + 1 /\ mem'[p].r \in accepted' /\ Waiting(p)'
    BY <2>1, <2>2 DEF TokenInv, Waiting
  <2>4. ASSUME NEW q \in Procs, q # p PROVE mem'[q] = mem[q] /\ at'[q] = at[q]
    BY <2>1, <2>2, <2>4 DEF TokenInv
  <2>5. \A x \in 0..issued : NewerWaits(x)'
    BY <2>3 DEF NewerWaits, TokenInv
  <2> QED BY <2>1, <2>2, <2>3, <2>4, <2>5 DEF TokenInv, Waiting
<1>5. ASSUME NEW p \in Procs, SaveTokens(p) PROVE TokenInv'
  <2>1. /\ at[p] = "refreshed" /\ disk' = mem[p] /\ at' = [at EXCEPT ![p] = "get"]
        /\ lost' = (lost \/ disk.a > mem[p].a) /\ UNCHANGED <<mem, accepted, issued>>
    BY <1>5 DEF SaveTokens
  <2>2. mem[p].a \in 0..issued /\ disk.a \in 0..issued
    BY <2>1 DEF TokenInv
  <2>3. ASSUME ~lost' PROVE ~lost /\ disk.a <= mem[p].a
    <3>1. ~lost /\ ~(disk.a > mem[p].a)
      BY <2>1, <2>3, Zenon
    <3> QED BY <2>2, <3>1
  <2>4. ASSUME NEW x \in 0..issued, NewerWaits(x) PROVE mem[p].a > x \/ NewerWaits(x)'
    BY <2>1, <2>4 DEF NewerWaits, Waiting, TokenInv
  <2>5. ASSUME ~lost', NEW t, NEW x \in 0..issued,
               t.r \in accepted \/ disk.a > x \/ NewerWaits(x)
        PROVE  t.r \in accepted \/ mem[p].a > x \/ NewerWaits(x)'
    BY <2>2, <2>3, <2>4, <2>5
  <2>6. ASSUME ~lost' PROVE disk'.r \in accepted \/ NewerWaits(disk.a)'
    <3>1. mem[p].r \in accepted \/ disk.a > mem[p].a \/ NewerWaits(mem[p].a)
      BY <2>1, <2>3, <2>6 DEF TokenInv, Waiting
    <3>2. mem[p].r \in accepted \/ mem[p].a > mem[p].a \/ NewerWaits(disk.a)'
      BY <2>1, <2>2, <2>3, <2>4, <2>6, <3>1
    <3> QED BY <2>1, <2>2, <3>2
  <2>7. ASSUME ~lost', NEW q \in Procs, Waiting(q)'
        PROVE  mem[q].r \in accepted \/ disk'.a > mem[q].a \/ NewerWaits(mem[q].a)'
    <3>1. Waiting(q) /\ mem[q].a \in 0..issued /\ mem'[q] = mem[q]
      BY <2>1, <2>7 DEF TokenInv, Waiting
    <3>2. mem[q].r \in accepted \/ disk.a > mem[q].a \/ NewerWaits(mem[q].a)
      BY <2>3, <2>7, <3>1 DEF TokenInv
    <3> QED BY <2>1, <2>5, <2>7, <3>1, <3>2
  <2> QED BY <2>1, <2>2, <2>6, <2>7 DEF TokenInv
<1>6. CASE LoginEbay
  <2>1. /\ issued' = issued + 1 /\ disk' = [a |-> issued', r |-> issued'] /\ accepted' = accepted \cup {issued'}
        /\ UNCHANGED <<mem, at>>
    BY <1>6 DEF LoginEbay
  <2>2. disk'.a = issued + 1 /\ disk'.r \in accepted'
    BY <2>1
  <2>3. \A q \in Procs : Waiting(q)' => disk'.a > mem'[q].a
    BY <2>1, <2>2 DEF TokenInv, Waiting
  <2> QED BY <2>1, <2>2, <2>3 DEF TokenInv, Waiting
<1>7. CASE UNCHANGED <<disk, mem, at, accepted, issued, lost>>
  BY <1>7, TokensStay DEF TokenInv, Waiting
<1> QED
  BY <1>1, <1>2, <1>3, <1>4, <1>5, <1>6, <1>7, <1>8
  DEF EbayNext, EbaySearchStep, ebayVars, AccessExpires, Midnight

\* For any number of processes, logins and expiries, the refresh token on disk is
\* good while nothing was lost and nothing is on its way.
THEOREM TokensStayUsable == EbaySpec => []FileStaysUsable
<1>1. EbayInit => TokenInv
  BY DEF EbayInit, TokenInv, First, Waiting
<1>2. TokenInv => FileStaysUsable
  BY DEF TokenInv, NewerWaits, Waiting, FileStaysUsable
<1> QED BY <1>1, <1>2, TokenInvStep, PTL DEF EbaySpec

(***************************************************************************)
(* health.  Between the end of a cycle and the write of its status the     *)
(* latch does not move; past it the row says what the cycle found.         *)
(***************************************************************************)
HealthInv ==
  /\ DOMAIN cycle = Marketplaces
  /\ latchOpen \in BOOLEAN /\ foundOpen \in BOOLEAN
  /\ serves = {} => cycle["wallapop"] = "rest"
  /\ cycle["wallapop"] = "ended" => foundOpen = latchOpen
  /\ cycle["wallapop"] # "ended" /\ ~halved /\ statusRow # "degraded" => foundOpen

\* Every step keeps the inductive invariant of the health rows.
LEMMA HealthInvStep == HealthInv /\ [HealthNext]_healthVars => HealthInv'
<1> SUFFICES ASSUME HealthInv, [HealthNext]_healthVars PROVE HealthInv'
  OBVIOUS
<1> USE DEF HealthInv, rowsVars, Marketplaces
<1>1. CASE Boots
  BY <1>1 DEF Boots
<1>2. CASE DaemonGone
  BY <1>2 DEF DaemonGone
<1>3. ASSUME NEW m \in Marketplaces, CycleBegins(m) PROVE HealthInv'
  BY <1>3 DEF CycleBegins
<1>4. ASSUME NEW m \in Marketplaces, CycleEnds(m) PROVE HealthInv'
  BY <1>4 DEF CycleEnds
<1>5. ASSUME NEW m \in Marketplaces, CycleRaises(m) PROVE HealthInv'
  BY <1>5 DEF CycleRaises
<1>6. CASE LatchMoves
  BY <1>6 DEF LatchMoves
<1>7. CASE WritesStatus
  BY <1>7 DEF WritesStatus
<1>8. CASE StatusFails
  BY <1>8 DEF StatusFails
<1>9. CASE PidPasses \/ CredentialMoves \/ PollsAge \/ UNCHANGED healthVars
  BY <1>9 DEF PidPasses, CredentialMoves, PollsAge, healthVars
<1> QED BY <1>1, <1>2, <1>3, <1>4, <1>5, <1>6, <1>7, <1>8, <1>9 DEF HealthNext

\* However often the daemon dies, hangs, or fails to write, a healthy row of the
\* API path was earned by the last cycle.
THEOREM HealthIsEarned == HealthSpec => []HealthyRowIsEarned
<1>1. HealthInit => HealthInv
  BY DEF HealthInit, HealthInv, Marketplaces
<1>2. HealthInv => HealthyRowIsEarned
  BY DEF HealthInv, HealthyRowIsEarned, ApiRow
<1> QED BY <1>1, <1>2, HealthInvStep, PTL DEF HealthSpec
=============================================================================
