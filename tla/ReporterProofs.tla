---------------------------- MODULE ReporterProofs ----------------------------
(***************************************************************************)
(* Proofs about what concurrent tasks of the daemon share without a lock:  *)
(* the dedup window of the degradation reporter, and the rate limiter of   *)
(* the TinyFish searches.  Both are checked, then a call is awaited, then  *)
(* they are written.                                                       *)
(***************************************************************************)
EXTENDS WallapopFallback, RateLimiter, FiniteSetTheorems, TLAPS

(***************************************************************************)
(* The reporter.  An armed window starts at some caller's delivery; where  *)
(* it starts before a caller's delivery it was set back (SetBack), and so  *)
(* it stays for the report that this caller then sends.                    *)
(***************************************************************************)
ArmedByDelivery ==
  \A r \in Reports : armed[r] < Window => \E c \in Callers : recent[r][c] = armed[r]

SetBack ==
  \A r \in Reports, c \in Callers : recent[r][c] < armed[r] => overtaken[r] <= recent[r][c]

ReporterInv == ReporterTypeOK /\ ArmedByDelivery /\ SetBack /\ RepeatsWereOvertaken

\* What is a window old stays so, and of two ages the smaller stays the smaller.
LEMMA OlderAges ==
  ASSUME NEW a \in Ages, NEW b \in Ages
  PROVE  /\ Older(a) \in Ages
         /\ a <= b => Older(a) <= Older(b)
         /\ Older(a) < Window => a < Window
         /\ ~(a < Window) => a = Window
         /\ Older(a) < Older(b) => a < b
BY ReporterAssumption DEF Older, Ages

\* A report that is sent starts out unrepeated, or repeated over a window that was
\* set back: the window it was checked against had run out.
LEMMA ReportKeeps ==
  ASSUME ReporterInv, NEW c \in Callers, NEW r \in Reports, NEW adapter \in SUBSET Adapters,
         NEW recovers \in BOOLEAN, Report(c, r, adapter, recovers)
  PROVE  ReporterInv'
<1> USE ReporterAssumption DEF ReporterInv, ReporterTypeOK, ghostVars
<1>1. UNCHANGED <<armed, recent, overtaken>> /\ degraded' \subseteq Adapters
  BY DEF Report, Recorded
<1>2. CASE Deduped(r)
  BY <1>1, <1>2 DEF Report, ArmedByDelivery, SetBack, RepeatsWereOvertaken
<1>3. CASE ~Deduped(r)
  <2>1. sending' = [sending EXCEPT ![c] = [report |-> r, age |-> 0]]
    BY <1>3 DEF Report
  <2>2. sending' \in [Callers -> Underway \cup {NoSend}]
    BY <2>1 DEF Underway, Ages
  <2>3. armed[r] = Window
    <3>1. armed[r] \in Ages /\ ~(armed[r] < Window)
      BY <1>3 DEF Deduped
    <3> QED BY <3>1, OlderAges
  <2>4. ASSUME NEW d \in Callers, sending'[d] # NoSend
        PROVE  LET s == sending'[d].report
               IN recent[s][d] < Window => overtaken[s] <= recent[s][d]
    <3>1. CASE d = c
      BY <2>1, <2>3, <3>1 DEF SetBack
    <3>2. CASE d # c
      BY <2>1, <2>4, <3>2 DEF RepeatsWereOvertaken
    <3> QED BY <3>1, <3>2
  <2> QED BY <1>1, <2>2, <2>4 DEF ArmedByDelivery, SetBack, RepeatsWereOvertaken
<1> QED BY <1>2, <1>3

\* A delivery arms the window with its own beginning, and one that sets it back
\* says so.
LEMMA SendReturnsKeeps ==
  ASSUME ReporterInv, NEW c \in Callers, SendReturns(c) PROVE ReporterInv'
<1> USE ReporterAssumption DEF ReporterInv, ReporterTypeOK
<1> DEFINE r     == sending[c].report
           began == sending[c].age
<1>1. sending[c] \in Underway /\ r \in Reports /\ began \in Ages
  BY DEF SendReturns, Underway
<1>2. /\ armed' = [armed EXCEPT ![r] = began]
      /\ recent' = [recent EXCEPT ![r][c] = began]
      /\ sending' = [sending EXCEPT ![c] = NoSend] /\ degraded' = degraded
  BY DEF SendReturns, Delivered
<1>3. overtaken' = IF armed[r] < began
                   THEN [overtaken EXCEPT ![r] = Younger(overtaken[r], armed[r])]
                   ELSE overtaken
  BY DEF SendReturns, Delivered
<1> HIDE DEF r, began
<1>4. ReporterTypeOK'
  <2>1. armed' \in [Reports -> Ages] /\ sending' \in [Callers -> Underway \cup {NoSend}]
    BY <1>1, <1>2
  <2>2. recent' \in [Reports -> [Callers -> Ages]]
    BY <1>1, <1>2
  <2>3. overtaken' \in [Reports -> Ages]
    BY <1>1, <1>3 DEF Younger
  <2> QED BY <1>2, <2>1, <2>2, <2>3
<1>5. \A s \in Reports : overtaken'[s] <= overtaken[s]
  BY <1>1, <1>3 DEF Younger, Ages
<1>6. \A s \in Reports, d \in Callers : s # r \/ d # c => recent'[s][d] = recent[s][d]
  BY <1>1, <1>2
<1>7. \A s \in Reports \ {r} : armed'[s] = armed[s]
  BY <1>2
<1>8. armed'[r] = began /\ recent'[r][c] = began
  BY <1>1, <1>2
<1>9. ArmedByDelivery'
  BY <1>1, <1>6, <1>7, <1>8 DEF ArmedByDelivery
<1>10. SetBack'
  <2> SUFFICES ASSUME NEW s \in Reports, NEW d \in Callers, recent'[s][d] < armed'[s]
               PROVE  overtaken'[s] <= recent'[s][d]
    BY DEF SetBack
  <2>0. /\ recent[s][d] \in Ages /\ armed[s] \in Ages /\ overtaken[s] \in Ages
        /\ recent'[s][d] \in Ages /\ armed'[s] \in Ages /\ overtaken'[s] \in Ages
    BY <1>4
  <2>1. CASE s # r
    BY <1>5, <1>6, <1>7, <2>0, <2>1 DEF SetBack, Ages
  <2>2. CASE s = r
    <3>1. d # c /\ recent'[s][d] = recent[s][d] /\ recent[s][d] < began
      BY <1>1, <1>6, <1>8, <2>0, <2>2 DEF Ages
    <3>2. CASE recent[s][d] < armed[s]
      BY <1>5, <2>0, <3>1, <3>2 DEF SetBack, Ages
    <3>3. CASE ~(recent[s][d] < armed[s])
      <4>1. armed[s] < began /\ armed[s] <= recent[s][d]
        BY <1>1, <2>0, <3>1, <3>3 DEF Ages
      <4>2. overtaken'[s] <= armed[s]
        BY <1>1, <1>3, <2>0, <2>2, <4>1 DEF Younger, Ages
      <4> QED BY <2>0, <3>1, <4>1, <4>2 DEF Ages
    <3> QED BY <3>2, <3>3
  <2> QED BY <2>1, <2>2
<1>11. RepeatsWereOvertaken'
  <2> SUFFICES ASSUME NEW d \in Callers, sending'[d] # NoSend, recent'[sending'[d].report][d] < Window
               PROVE  overtaken'[sending'[d].report] <= recent'[sending'[d].report][d]
    BY DEF RepeatsWereOvertaken
  <2>1. d # c /\ sending'[d] = sending[d]
    BY <1>2
  <2>2. sending[d].report \in Reports
    BY <2>1 DEF Underway
  <2>3. recent'[sending[d].report][d] = recent[sending[d].report][d]
    BY <1>6, <2>1, <2>2
  <2>4. overtaken[sending[d].report] <= recent[sending[d].report][d]
    BY <2>1, <2>3 DEF RepeatsWereOvertaken
  <2>5. /\ overtaken[sending[d].report] \in Ages /\ overtaken'[sending[d].report] \in Ages
        /\ recent[sending[d].report][d] \in Ages
    BY <1>4, <2>2
  <2> QED BY <1>5, <2>1, <2>2, <2>3, <2>4, <2>5 DEF Ages
<1> QED BY <1>4, <1>9, <1>10, <1>11

\* Time keeps the order of the moments.
LEMMA TickKeeps == ASSUME ReporterInv, Tick PROVE ReporterInv'
<1> USE ReporterAssumption DEF ReporterInv, ReporterTypeOK
<1>1. /\ \A r \in Reports : armed'[r] = Older(armed[r]) /\ overtaken'[r] = Older(overtaken[r])
      /\ \A r \in Reports, c \in Callers : recent'[r][c] = Older(recent[r][c])
      /\ degraded' = degraded
  BY DEF Tick
<1>2. \A c \in Callers : /\ sending'[c] = NoSend <=> sending[c] = NoSend
                         /\ sending[c] # NoSend => sending'[c].report = sending[c].report
                         /\ sending'[c] \in Underway \cup {NoSend}
  <2> SUFFICES ASSUME NEW c \in Callers
               PROVE  /\ sending'[c] = NoSend <=> sending[c] = NoSend
                      /\ sending[c] # NoSend => sending'[c].report = sending[c].report
                      /\ sending'[c] \in Underway \cup {NoSend}
    OBVIOUS
  <2>1. CASE sending[c] = NoSend
    BY <2>1 DEF Tick
  <2>2. CASE sending[c] # NoSend
    <3>1. sending[c] \in Underway /\ sending'[c] = [sending[c] EXCEPT !.age = Older(@)]
      BY <2>2 DEF Tick
    <3>2. sending'[c] = [report |-> sending[c].report, age |-> Older(sending[c].age)]
      BY <3>1 DEF Underway
    <3>3. sending'[c] \in Underway
      BY <3>1, <3>2, OlderAges DEF Underway
    <3> QED BY <2>2, <3>2, <3>3
  <2> QED BY <2>1, <2>2
<1>3. ReporterTypeOK'
  <2>1. \A a \in Ages : Older(a) \in Ages
    BY OlderAges
  <2>2. armed' \in [Reports -> Ages] /\ overtaken' \in [Reports -> Ages]
        /\ recent' \in [Reports -> [Callers -> Ages]]
    BY <2>1 DEF Tick
  <2>3. sending' \in [Callers -> Underway \cup {NoSend}]
    BY <1>2 DEF Tick
  <2> QED BY <1>1, <2>2, <2>3
<1>4. ArmedByDelivery'
  BY <1>1, OlderAges DEF ArmedByDelivery
<1>5. SetBack'
  BY <1>1, OlderAges DEF SetBack
<1>6. RepeatsWereOvertaken'
  <2> SUFFICES ASSUME NEW c \in Callers, sending'[c] # NoSend, recent'[sending'[c].report][c] < Window
               PROVE  overtaken'[sending'[c].report] <= recent'[sending'[c].report][c]
    BY DEF RepeatsWereOvertaken
  <2>1. sending[c] \in Underway /\ sending[c] # NoSend /\ sending'[c].report = sending[c].report
    BY <1>2
  <2>2. sending[c].report \in Reports
    BY <2>1 DEF Underway
  <2>3. recent[sending[c].report][c] < Window
    BY <1>1, <2>1, <2>2, OlderAges
  <2>4. overtaken[sending[c].report] <= recent[sending[c].report][c]
    BY <2>1, <2>3 DEF RepeatsWereOvertaken
  <2> QED BY <1>1, <2>1, <2>2, <2>4, OlderAges
<1> QED BY <1>3, <1>4, <1>5, <1>6

\* Every step keeps the reporter's invariant.
LEMMA ReporterInvStep == ReporterInv /\ [ReporterNext]_reporterVars => ReporterInv'
<1> SUFFICES ASSUME ReporterInv, [ReporterNext]_reporterVars PROVE ReporterInv'
  OBVIOUS
<1>1. ASSUME NEW c \in Callers, SendFails(c) PROVE ReporterInv'
  BY <1>1 DEF SendFails, ghostVars, ReporterInv, ReporterTypeOK, ArmedByDelivery, SetBack,
     RepeatsWereOvertaken
<1>2. CASE ReporterLost
  BY <1>2, ReporterAssumption DEF ReporterLost, ReporterInv, ReporterTypeOK, ArmedByDelivery,
     SetBack, RepeatsWereOvertaken, Ages
<1>3. CASE UNCHANGED reporterVars
  BY <1>3 DEF reporterVars, ghostVars, ReporterInv, ReporterTypeOK, ArmedByDelivery, SetBack,
     RepeatsWereOvertaken
<1> QED BY <1>1, <1>2, <1>3, ReportKeeps, SendReturnsKeeps, TickKeeps DEF ReporterNext, SendStep

\* The reporter's invariant, for any callers, reports and window.
THEOREM ReporterInvariance == ReporterSpec => []ReporterInv
<1>1. ReporterInit => ReporterInv
  BY ReporterAssumption DEF ReporterInit, ReporterInv, ReporterTypeOK, ArmedByDelivery, SetBack,
     RepeatsWereOvertaken, Ages
<1> QED BY <1>1, ReporterInvStep, PTL DEF ReporterSpec

\* For any number of callers and any window, an alert is held back only behind a
\* delivery of the same alert within the window.
THEOREM SuppressionsAreEarned == ReporterSpec => []SuppressionIsEarned
<1>1. ReporterInv => SuppressionIsEarned
  BY DEF ReporterInv, ArmedByDelivery, SuppressionIsEarned, Deduped
<1> QED BY <1>1, ReporterInvariance, PTL

\* For any number of callers and any window, a caller repeats an alert within the
\* window of its own delivery only after an older delivery set the window back.
THEOREM RepeatsAreOvertaken == ReporterSpec => []RepeatsWereOvertaken
<1>1. ReporterInv => RepeatsWereOvertaken
  BY DEF ReporterInv
<1> QED BY <1>1, ReporterInvariance, PTL


\* Every step of the leg keeps its variables of their types.
LEMMA LegTypeStep ==
  FallbackTypeOK /\ [FallbackNext]_<<reporterVars, fallbackVars>> => FallbackTypeOK'
<1> SUFFICES ASSUME FallbackTypeOK, [FallbackNext]_<<reporterVars, fallbackVars>> PROVE FallbackTypeOK'
  OBVIOUS
<1> USE FallbackAssumption DEF FallbackTypeOK, outside, legVars, fallbackVars
<1>1. CASE StartSearch
  <2>1. baseline' \in 0..MaxLogins \cup {NoMtime}
    BY <1>1 DEF StartSearch
  <2>2. health' \in [enabled : BOOLEAN, pending : BOOLEAN, streak : 0..MaxDown]
    BY <1>1 DEF StartSearch
  <2>3. search' \in [at : {"idle", "api", "tinyfish", "end"}, was : BOOLEAN]
    BY <1>1 DEF StartSearch
  <2> QED BY <1>1, <2>1, <2>2, <2>3 DEF StartSearch
<1>2. CASE ApiServes
  <2>1. health' \in [enabled : BOOLEAN, pending : BOOLEAN, streak : 0..MaxDown] /\ missed' \in 0..MaxDown
    <3>1. health' = [health EXCEPT !.streak = 0, !.pending = FALSE] /\ missed' = 0
      BY <1>2 DEF ApiServes
    <3>2. 0 \in 0..MaxDown /\ health \in [enabled : BOOLEAN, pending : BOOLEAN, streak : 0..MaxDown]
      OBVIOUS
    <3> QED BY ONLY <3>1, <3>2
  <2>2. renewals' \in {renewals, renewals + 1}
    BY <1>2 DEF ApiServes
  <2>3. search' \in [at : {"idle", "api", "tinyfish", "end"}, was : BOOLEAN]
    BY <1>2 DEF ApiServes
  <2> QED BY <1>2, <2>1, <2>2, <2>3 DEF ApiServes
<1>3. CASE ApiRefuses \/ ApiFails
  <2>1. health' \in [enabled : BOOLEAN, pending : BOOLEAN, streak : 0..MaxDown]
    BY <1>3 DEF ApiRefuses, ApiFails
  <2>2. search' \in [at : {"idle", "api", "tinyfish", "end"}, was : BOOLEAN]
    BY <1>3 DEF ApiRefuses, ApiFails
  <2>3. UNCHANGED <<baseline, jar, file, expired, restarts, missed, renewals>>
    BY <1>3 DEF ApiRefuses, ApiFails
  <2> QED BY <2>1, <2>2, <2>3
<1>4. CASE SearchRaises
  BY <1>4 DEF SearchRaises, NoSearch
<1>5. CASE TinyfishServes
  BY <1>5 DEF TinyfishServes
<1>6. CASE TinyfishFails
  BY <1>6 DEF TinyfishFails
<1>7. CASE EndSearch
  BY <1>7 DEF EndSearch, NoSearch
<1>8. CASE SessionExpires
  BY <1>8 DEF SessionExpires
<1>9. CASE Login
  BY <1>9 DEF Login
<1>10. CASE LegRestarts
  BY <1>10 DEF LegRestarts, Fresh, NoSearch
<1>11. CASE UNCHANGED fallbackVars
  BY <1>11
<1> QED
  BY <1>1, <1>2, <1>3, <1>4, <1>5, <1>6, <1>7, <1>8, <1>9, <1>10, <1>11 DEF FallbackNext, SearchStep

\* The leg keeps its variables of their types.
LEMMA LegTypes == FallbackSpec => []FallbackTypeOK
<1>1. FallbackInit => FallbackTypeOK
  BY FallbackAssumption DEF FallbackInit, FallbackTypeOK, Fresh, NoSearch
<1> QED BY <1>1, LegTypeStep, PTL DEF FallbackSpec

\* A step of the leg is one of the reporter, with the leg as the caller, or
\* leaves the reporter alone.
LEMMA LegStepReports ==
  FallbackTypeOK /\ [FallbackNext]_<<reporterVars, fallbackVars>> => [ReporterNext]_reporterVars
<1> SUFFICES ASSUME FallbackTypeOK, [FallbackNext]_<<reporterVars, fallbackVars>>
             PROVE  ReporterNext \/ UNCHANGED reporterVars
  OBVIOUS
<1>0. Job \in Callers /\ ApiAdapter \in SUBSET Adapters /\ {} \in SUBSET Adapters
  BY FallbackAssumption
<1>1. ASSUME NEW r \in LegReports, NEW adapter \in SUBSET Adapters, NEW recovers \in BOOLEAN,
             Report(Job, r, adapter, recovers)
      PROVE  ReporterNext
  BY <1>0, <1>1, FallbackAssumption DEF ReporterNext
<1>2. \A e \in {"session_expired", "api_degraded", "session_renewed"} : Event(e) \in LegReports
  BY DEF LegReports
<1>3. CASE ApiServes \/ ApiRefuses \/ ApiFails
  BY <1>0, <1>1, <1>2, <1>3 DEF ApiServes, ApiRefuses, ApiFails, Leg
<1>4. CASE TinyfishFails
  <2>1. health'.streak = health.streak + 1 /\ health'.streak \in 0..MaxDown
    BY <1>4, FallbackAssumption DEF TinyfishFails, FallbackTypeOK
  <2>2. CASE ~(health'.streak >= 2)
    BY <1>4, <2>2 DEF TinyfishFails
  <2>3. CASE health'.streak >= 2
    <3>1. health'.streak \in 2..MaxDown
      BY <2>1, <2>3, FallbackAssumption
    <3>2. Down(health'.streak) \in LegReports
      BY <3>1 DEF LegReports
    <3> QED BY <1>0, <1>1, <1>4, <2>3, <3>2 DEF TinyfishFails
  <2> QED BY <2>2, <2>3
<1>5. CASE SendStep(Job)
  BY <1>0, <1>5 DEF ReporterNext
<1>6. CASE Tick \/ ReporterLost
  BY <1>6 DEF ReporterNext
<1>7. CASE \/ StartSearch \/ SearchRaises \/ TinyfishServes \/ EndSearch
           \/ SessionExpires \/ Login \/ UNCHANGED <<reporterVars, fallbackVars>>
  BY <1>7 DEF StartSearch, SearchRaises, TinyfishServes, EndSearch, SessionExpires, Login
<1> QED BY <1>3, <1>4, <1>5, <1>6, <1>7 DEF FallbackNext, SearchStep, LegRestarts

\* The Wallapop leg, with its searches, logins and restarts, uses the reporter as
\* one of its callers: what holds of the reporter holds beneath the leg.
THEOREM LegUsesReporter == FallbackSpec => ReporterSpec
<1> QED BY LegStepReports, LegTypes, PTL DEF FallbackSpec, ReporterSpec

(***************************************************************************)
(* The rate limiter.  A call that began within the period is under way or  *)
(* its record is younger still, so that the check sees it.                 *)
(***************************************************************************)
Recent == {k \in CallNames : begun[k] <= Period}

LimiterInv ==
  /\ LimiterTypeOK
  /\ IsFiniteSet(running) /\ Cardinality(running) <= Together
  /\ IsFiniteSet(InDeque(events))
  /\ \A k \in CallNames : begun[k] <= Period => k \in running \/ events[k] <= begun[k]
  /\ IsFiniteSet(Recent) /\ Cardinality(Recent) <= Limit + Together - 1

\* _evict keeps a deque a deque, and drops exactly what is older than the period.
LEMMA Eviction ==
  ASSUME NEW ages \in [CallNames -> 0..Gone], IsFiniteSet(InDeque(ages))
  PROVE  /\ Evicted(ages) \in [CallNames -> 0..Gone]
         /\ \A k \in CallNames : ages[k] <= Period => Evicted(ages)[k] = ages[k]
         /\ \A k \in CallNames : k \in InDeque(Evicted(ages)) <=> ages[k] <= Period
         /\ IsFiniteSet(InDeque(Evicted(ages)))
<1> USE LimiterAssumption DEF Gone
<1>1. Evicted(ages) \in [CallNames -> 0..Gone]
  BY DEF Evicted
<1>2. \A k \in CallNames : ages[k] <= Period => Evicted(ages)[k] = ages[k]
  BY DEF Evicted, Kept
<1>3. \A k \in CallNames : k \in InDeque(Evicted(ages)) <=> ages[k] <= Period
  BY DEF Evicted, Kept, InDeque
<1>4. InDeque(Evicted(ages)) \subseteq InDeque(ages)
  BY <1>3 DEF InDeque
<1>5. IsFiniteSet(InDeque(Evicted(ages)))
  BY <1>4, FS_Subset
<1> QED BY <1>1, <1>2, <1>3, <1>5

\* A call that passes the check finds room: what began within the period is in the
\* deque that the check counted, or under way.
LEMMA BeginKeeps == ASSUME LimiterInv, NEW k \in CallNames, BeginCall(k) PROVE LimiterInv'
<1> USE LimiterAssumption DEF LimiterInv, LimiterTypeOK
<1> DEFINE left == Evicted(events)
<1>1. /\ running' = running \cup {k} /\ events' = left /\ begun' = [begun EXCEPT ![k] = 0]
      /\ k \notin running /\ Cardinality(running) < Together
      /\ Cardinality(InDeque(left)) < Limit
  BY DEF BeginCall, Allow, Searching
<1>2. /\ left \in [CallNames -> 0..Gone]
      /\ \A j \in CallNames : events[j] <= Period => left[j] = events[j]
      /\ \A j \in CallNames : j \in InDeque(left) <=> events[j] <= Period
      /\ IsFiniteSet(InDeque(left))
  BY Eviction
<1> HIDE DEF left
<1>3. LimiterTypeOK'
  <2>1. begun' \in [CallNames -> 0..Period + 1]
    BY <1>1
  <2>2. running' \subseteq CallNames
    BY <1>1
  <2> QED BY <1>1, <1>2, <2>1, <2>2
<1>4. IsFiniteSet(running') /\ Cardinality(running') <= Together
  <2>1. Cardinality(running) \in Nat
    BY FS_CardinalityType
  <2>2. IsFiniteSet(running \cup {k}) /\ Cardinality(running \cup {k}) = Cardinality(running) + 1
    BY <1>1, FS_AddElement
  <2> QED BY <1>1, <2>1, <2>2
<1>5. IsFiniteSet(InDeque(events'))
  BY <1>1, <1>2
<1>6. \A j \in CallNames : begun'[j] <= Period => j \in running' \/ events'[j] <= begun'[j]
  <2> SUFFICES ASSUME NEW j \in CallNames, begun'[j] <= Period, j # k, j \notin running
               PROVE  events'[j] <= begun'[j]
    BY <1>1
  <2>1. begun'[j] = begun[j] /\ events[j] <= begun[j]
    BY <1>1
  <2>2. events[j] <= Period
    BY <2>1 DEF Gone
  <2> QED BY <1>1, <1>2, <2>1, <2>2
<1>7. IsFiniteSet(Recent') /\ Cardinality(Recent') <= Limit + Together - 1
  <2>1. Recent \subseteq running \cup InDeque(left)
    <3> SUFFICES ASSUME NEW j \in CallNames, begun[j] <= Period, j \notin running
                 PROVE  j \in InDeque(left)
      BY DEF Recent
    <3>1. events[j] <= begun[j]
      OBVIOUS
    <3>2. events[j] <= Period
      BY <3>1 DEF Gone
    <3> QED BY <1>2, <3>2
  <2>2. /\ IsFiniteSet(running \cup InDeque(left))
        /\ Cardinality(running \cup InDeque(left))
             = Cardinality(running) + Cardinality(InDeque(left)) - Cardinality(running \cap InDeque(left))
    BY <1>2, FS_Union
  <2>3. /\ Cardinality(running) \in Nat /\ Cardinality(InDeque(left)) \in Nat
        /\ Cardinality(running \cap InDeque(left)) \in Nat
    BY <1>2, FS_CardinalityType, FS_Intersection
  <2>4. Cardinality(Recent) \in Nat /\ Cardinality(Recent) <= Cardinality(running \cup InDeque(left))
    BY <2>1, <2>2, FS_Subset, FS_CardinalityType
  <2>5. Recent' = Recent \cup {k}
    BY <1>1 DEF Recent
  <2>6. /\ IsFiniteSet(Recent \cup {k})
        /\ Cardinality(Recent \cup {k}) = IF k \in Recent THEN Cardinality(Recent) ELSE Cardinality(Recent) + 1
    BY FS_AddElement
  <2>7. Cardinality(Recent \cup {k}) \in Nat
    BY <2>6, FS_CardinalityType
  <2>8. Cardinality(Recent) <= (Together - 1) + (Limit - 1)
    BY <1>1, <2>2, <2>3, <2>4
  <2> QED BY <2>4, <2>5, <2>6, <2>7, <2>8
<1> QED BY <1>3, <1>4, <1>5, <1>6, <1>7

\* What ends is recorded at once, at the age zero.
LEMMA EndKeeps == ASSUME LimiterInv, NEW k \in CallNames, EndCall(k) PROVE LimiterInv'
<1> USE LimiterAssumption DEF LimiterInv, LimiterTypeOK
<1> DEFINE recorded == [events EXCEPT ![k] = 0]
<1>1. running' = running \ {k} /\ events' = Evicted(recorded) /\ begun' = begun /\ k \in running
  BY DEF EndCall
<1>2. recorded \in [CallNames -> 0..Gone]
  BY DEF Gone
<1>3. IsFiniteSet(InDeque(recorded))
  <2>1. InDeque(recorded) \subseteq InDeque(events) \cup {k}
    BY DEF InDeque
  <2>2. IsFiniteSet(InDeque(events) \cup {k})
    BY FS_AddElement
  <2> QED BY <2>1, <2>2, FS_Subset
<1>4. /\ events' \in [CallNames -> 0..Gone] /\ IsFiniteSet(InDeque(events'))
      /\ \A j \in CallNames : recorded[j] <= Period => events'[j] = recorded[j]
  BY <1>1, <1>2, <1>3, Eviction
<1>5. IsFiniteSet(running') /\ Cardinality(running') <= Together
  <2>1. IsFiniteSet(running \ {k}) /\ Cardinality(running \ {k}) = Cardinality(running) - 1
    BY <1>1, FS_RemoveElement
  <2>2. Cardinality(running) \in Nat
    BY FS_CardinalityType
  <2> QED BY <1>1, <2>1, <2>2
<1>6. \A j \in CallNames : begun'[j] <= Period => j \in running' \/ events'[j] <= begun'[j]
  <2> SUFFICES ASSUME NEW j \in CallNames, begun[j] <= Period, j \notin running \/ j = k
               PROVE  events'[j] <= begun[j]
    BY <1>1
  <2>1. recorded[j] <= begun[j] /\ begun[j] \in 0..Period + 1 /\ recorded[j] \in 0..Gone
    BY <1>2
  <2>2. recorded[j] <= Period
    BY <2>1 DEF Gone
  <2> QED BY <1>4, <2>1, <2>2
<1>7. Recent' = Recent
  BY <1>1 DEF Recent
<1> QED BY <1>1, <1>4, <1>5, <1>6, <1>7

\* A tick can only make a recent call old.
LEMMA LimiterTickKeeps == ASSUME LimiterInv, LimiterTick PROVE LimiterInv'
<1> USE LimiterAssumption DEF LimiterInv, LimiterTypeOK
<1>1. /\ \A k \in CallNames : events'[k] = IF events[k] > Period THEN events[k] ELSE events[k] + 1
      /\ \A k \in CallNames : begun'[k] = IF begun[k] > Period THEN begun[k] ELSE begun[k] + 1
      /\ running' = running
  BY DEF LimiterTick
<1>2. events' \in [CallNames -> 0..Gone] /\ begun' \in [CallNames -> 0..Period + 1]
  BY DEF LimiterTick, Gone
<1>3. InDeque(events') = InDeque(events)
  BY <1>1, <1>2 DEF InDeque, Gone
<1>4. Recent' \subseteq Recent
  BY <1>1, <1>2 DEF Recent
<1>5. IsFiniteSet(Recent') /\ Cardinality(Recent') <= Cardinality(Recent)
  BY <1>4, FS_Subset
<1>6. Cardinality(Recent') \in Nat /\ Cardinality(Recent) \in Nat
  BY <1>5, FS_CardinalityType
<1>7. \A k \in CallNames : begun'[k] <= Period => k \in running' \/ events'[k] <= begun'[k]
  BY <1>1, <1>2 DEF Gone
<1> QED BY <1>1, <1>2, <1>3, <1>5, <1>6, <1>7

\* Every step keeps the limiter's invariant.
LEMMA LimiterInvStep == LimiterInv /\ [LimiterNext]_limiterVars => LimiterInv'
<1> SUFFICES ASSUME LimiterInv, [LimiterNext]_limiterVars PROVE LimiterInv'
  OBVIOUS
<1>1. CASE RefuseCall
  <2>1. events' = Evicted(events) /\ UNCHANGED <<running, begun>>
    BY <1>1 DEF RefuseCall
  <2>2. /\ events' \in [CallNames -> 0..Gone] /\ IsFiniteSet(InDeque(events'))
        /\ \A k \in CallNames : events[k] <= Period => events'[k] = events[k]
    BY <2>1, Eviction DEF LimiterInv, LimiterTypeOK
  <2>3. Recent' = Recent
    BY <2>1 DEF Recent
  <2>4. ASSUME NEW k \in CallNames, begun[k] <= Period, k \notin running PROVE events'[k] <= begun[k]
    <3>1. events[k] <= begun[k] /\ begun[k] \in 0..Period + 1 /\ events[k] \in 0..Gone
      BY <2>4 DEF LimiterInv, LimiterTypeOK
    <3>2. events[k] <= Period
      BY <2>4, <3>1, LimiterAssumption DEF Gone
    <3> QED BY <2>2, <3>1, <3>2
  <2> QED BY <2>1, <2>2, <2>3, <2>4 DEF LimiterInv, LimiterTypeOK
<1>2. CASE UNCHANGED limiterVars
  BY <1>2 DEF limiterVars, LimiterInv, LimiterTypeOK, InDeque, Recent
<1> QED BY <1>1, <1>2, BeginKeeps, EndKeeps, LimiterTickKeeps DEF LimiterNext

\* The inductive invariant of the limiter.
LEMMA LimiterInvariance == LimiterSpec => []LimiterInv
<1>1. LimiterInit => LimiterInv
  <2> SUFFICES ASSUME LimiterInit PROVE LimiterInv
    OBVIOUS
  <2>1. LimiterTypeOK
    BY LimiterAssumption DEF LimiterInit, LimiterTypeOK, Gone
  <2>2. running = {} /\ InDeque(events) = {} /\ Recent = {}
    BY LimiterAssumption DEF LimiterInit, InDeque, Recent
  <2>3. \A k \in CallNames : ~(begun[k] <= Period)
    BY LimiterAssumption DEF LimiterInit
  <2> QED BY <2>1, <2>2, <2>3, FS_EmptySet, LimiterAssumption DEF LimiterInv
<1> QED BY <1>1, LimiterInvStep, PTL DEF LimiterSpec

\* For any limit, period and number of searches at a time: TinyFish is asked at
\* most Limit times in any period, and once more for each further search that
\* runs at the same time (NFR-I2).
THEOREM CallsStayLimited == LimiterSpec => []CallsAreLimited
<1>1. LimiterInv => CallsAreLimited
  BY DEF LimiterInv, CallsAreLimited, Recent
<1> QED BY <1>1, LimiterInvariance, PTL
===============================================================================
