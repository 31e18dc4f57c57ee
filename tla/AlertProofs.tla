----------------------------- MODULE AlertProofs ------------------------------
(***************************************************************************)
(* Proofs about an alert: what its buttons say of the taps, and what its   *)
(* prices let a buy cost.                                                  *)
(***************************************************************************)
EXTENDS Chat, PriceCheck, TLAPS

(***************************************************************************)
(* The chat.  A badge is put up two awaits after the row of its tap and    *)
(* one after the snooze.  TapInv says what a tap has done by where it is.  *)
(***************************************************************************)
TapInv(h) ==
  /\ DOMAIN hand[h] = {"at", "verb", "copy"} /\ hand[h].copy \in Copies
  /\ hand[h].at \in {"record", "lookup", "snooze", "badge"} => hand[h].verb \in Verbs
  /\ hand[h].at \in {"lookup", "snooze", "badge"} => <<hand[h].verb, hand[h].copy>> \in logged
  /\ hand[h].at = "badge" /\ hand[h].verb = "snooze" => snoozed \/ h \in unlinked
  /\ h \in unlinked => hand[h].at \in {"badge", "over", "raised"}

CopyInv(c) ==
  on[c] \in Verbs =>
    /\ <<on[c], c>> \in logged
    /\ on[c] = "snooze" => snoozed \/ \E h \in unlinked : hand[h].copy = c

ChatInv ==
  /\ try \in Copies
  /\ DOMAIN on = Copies /\ DOMAIN hand = Hands
  /\ unlinked \subseteq Hands
  /\ \A h \in Hands : TapInv(h)
  /\ \A c \in Copies : CopyInv(c)

\* A tap moves on: the others stay, and so do copies whose badge it does not touch.
LEMMA TapMoves ==
  ASSUME ChatInv, NEW h \in Hands, NEW to, hand' = [hand EXCEPT ![h].at = to],
         logged \subseteq logged', snoozed => snoozed', unlinked \subseteq unlinked', unlinked' \subseteq unlinked \cup {h},
         try' = try, DOMAIN on' = Copies, TapInv(h)',
         \A c \in Copies : on'[c] = on[c] \/ (c = hand[h].copy /\ CopyInv(c)')
  PROVE  ChatInv'
<1>1. \A o \in Hands : hand'[o].copy = hand[o].copy
  BY DEF ChatInv, TapInv
<1>2. \A o \in Hands \ {h} : hand'[o] = hand[o]
  BY DEF ChatInv
<1>3. ASSUME NEW o \in Hands PROVE TapInv(o)'
  <2>1. CASE o = h
    BY <2>1
  <2>2. CASE o # h
    <3>1. hand'[o] = hand[o] /\ TapInv(o) /\ (o \in unlinked' <=> o \in unlinked)
      BY <1>2, <2>2 DEF ChatInv
    <3> QED BY <3>1 DEF TapInv
  <2> QED BY <2>1, <2>2
<1>4. ASSUME NEW c \in Copies PROVE CopyInv(c)'
  <2>1. CASE on'[c] = on[c]
    <3>1. CopyInv(c)
      BY DEF ChatInv
    <3>2. \A o \in unlinked : o \in unlinked' /\ hand'[o].copy = hand[o].copy
      BY <1>1 DEF ChatInv
    <3> QED BY <2>1, <3>1, <3>2 DEF CopyInv
  <2>2. CASE on'[c] # on[c]
    BY <2>2
  <2> QED BY <2>1, <2>2
<1> QED BY <1>3, <1>4 DEF ChatInv

\* The send puts up rows of the alert, which are no badges.
LEMMA RowsAreNoBadges ==
  ASSUME ChatInv, UNCHANGED handlerVars, try' \in Copies, Arrives \/ on' = on
  PROVE  ChatInv'
<1>1. DOMAIN on' = Copies /\ \A c \in Copies : on'[c] = on[c] \/ on'[c] \notin Verbs
  BY DEF ChatInv, Arrives, Verbs
<1> QED BY <1>1 DEF ChatInv, TapInv, CopyInv, handlerVars

\* Every step keeps the inductive invariant of the chat.
LEMMA ChatInvStep == ChatInv /\ [ChatNext]_chatVars => ChatInv'
<1> SUFFICES ASSUME ChatInv, [ChatNext]_chatVars PROVE ChatInv'
  OBVIOUS
<1>1. CASE Sends \/ TriesAgain \/ GivesUp \/ StoresSnapshot \/ UNCHANGED chatVars
  <2>1. try' \in Copies
    BY <1>1, ChatAssumption DEF Sends, TriesAgain, GivesUp, StoresSnapshot, chatVars, Copies, ChatInv
  <2> QED BY <1>1, <2>1, RowsAreNoBadges DEF Sends, TriesAgain, GivesUp, StoresSnapshot, chatVars
<1>2. ASSUME NEW h \in Hands, NEW c \in Copies, NEW v, Presses(h, c, v) PROVE ChatInv'
  <2>1. /\ hand' = [hand EXCEPT ![h] = [at |-> "parse", verb |-> v, copy |-> c]]
        /\ hand[h] = NoTap /\ UNCHANGED <<try, on, logged, snoozed, unlinked>>
    BY <1>2 DEF Presses
  <2>2. h \notin unlinked
    <3>1. hand[h].at = "idle"
      BY <2>1 DEF NoTap
    <3>2. TapInv(h)
      BY DEF ChatInv
    <3> QED BY <3>1, <3>2 DEF TapInv
  <2>3. ASSUME NEW o \in Hands PROVE TapInv(o)'
    BY <2>1, <2>2 DEF ChatInv, TapInv
  <2>4. ASSUME NEW d \in Copies PROVE CopyInv(d)'
    BY <2>1, <2>2 DEF ChatInv, CopyInv
  <2> QED BY <2>1, <2>3, <2>4 DEF ChatInv
<1>3. ASSUME NEW h \in Hands, ParsesTap(h) PROVE ChatInv'
  <2>1. PICK to \in {"record", "over"} :
          hand' = [hand EXCEPT ![h].at = to] /\ (to = "record" => hand[h].verb \in Verbs)
    BY <1>3 DEF ParsesTap, Moves
  <2>2. hand[h].at = "parse" /\ UNCHANGED <<try, on, logged, snoozed, unlinked>>
    BY <1>3 DEF ParsesTap, Moves
  <2>3. TapInv(h)'
    BY <2>1, <2>2 DEF ChatInv, TapInv
  <2> QED BY <2>1, <2>2, <2>3, TapMoves DEF ChatInv
<1>4. ASSUME NEW h \in Hands, RecordsTap(h) PROVE ChatInv'
  <2>1. PICK to \in {"lookup", "badge"} :
          hand' = [hand EXCEPT ![h].at = to] /\ (to = "badge" => hand[h].verb # "snooze")
    BY <1>4 DEF RecordsTap, Moves
  <2>2. /\ hand[h].at = "record" /\ logged' = logged \cup {<<hand[h].verb, hand[h].copy>>}
        /\ UNCHANGED <<try, on, snoozed, unlinked>>
    BY <1>4 DEF RecordsTap, Moves
  <2>3. TapInv(h)'
    BY <2>1, <2>2 DEF ChatInv, TapInv
  <2> QED BY <2>1, <2>2, <2>3, TapMoves DEF ChatInv
<1>5. ASSUME NEW h \in Hands, LooksUp(h) PROVE ChatInv'
  <2>1. PICK to \in {"snooze", "badge"} :
          hand' = [hand EXCEPT ![h].at = to] /\ unlinked' = IF to = "badge" THEN unlinked \cup {h} ELSE unlinked
    BY <1>5 DEF LooksUp, Moves
  <2>2. hand[h].at = "lookup" /\ UNCHANGED <<try, on, logged, snoozed>>
    BY <1>5 DEF LooksUp, Moves
  <2>3. TapInv(h)'
    BY <2>1, <2>2 DEF ChatInv, TapInv
  <2>4. unlinked \subseteq unlinked' /\ unlinked' \subseteq unlinked \cup {h}
    BY <2>1
  <2> QED BY <2>1, <2>2, <2>3, <2>4, TapMoves DEF ChatInv
<1>6. ASSUME NEW h \in Hands, SetsSnooze(h) PROVE ChatInv'
  <2>1. /\ hand' = [hand EXCEPT ![h].at = "badge"] /\ hand[h].at = "snooze" /\ snoozed' = TRUE
        /\ UNCHANGED <<try, on, logged, unlinked>>
    BY <1>6 DEF SetsSnooze, Moves
  <2>2. TapInv(h)'
    BY <2>1 DEF ChatInv, TapInv
  <2> QED BY <2>1, <2>2, TapMoves DEF ChatInv
<1>7. ASSUME NEW h \in Hands, Badges(h) \/ HandlerFails(h) PROVE ChatInv'
  <2>1. PICK to \in {"over", "raised"} : hand' = [hand EXCEPT ![h].at = to]
    BY <1>7 DEF Badges, HandlerFails, Moves
  <2>2. /\ hand[h].at \in {"record", "lookup", "snooze", "badge"}
        /\ UNCHANGED <<try, logged, snoozed, unlinked>>
        /\ on' = on \/ (hand[h].at = "badge" /\ on' = [on EXCEPT ![hand[h].copy] = hand[h].verb])
    BY <1>7 DEF Badges, HandlerFails, Moves
  <2>3. TapInv(h)'
    BY <2>1, <2>2 DEF ChatInv, TapInv
  <2>4. hand'[h].copy = hand[h].copy /\ TapInv(h)
    BY <2>1 DEF ChatInv, TapInv
  <2>5. DOMAIN on' = Copies
    BY <2>2 DEF ChatInv
  <2>6. ASSUME NEW c \in Copies PROVE on'[c] = on[c] \/ (c = hand[h].copy /\ CopyInv(c)')
    <3>1. CASE on'[c] # on[c]
      <4>1. c = hand[h].copy /\ on'[c] = hand[h].verb /\ hand[h].at = "badge"
        BY <2>2, <3>1 DEF ChatInv
      <4> QED BY <2>2, <2>4, <4>1 DEF CopyInv, TapInv
    <3> QED BY <3>1
  <2> QED BY <2>1, <2>2, <2>3, <2>5, <2>6, TapMoves DEF ChatInv
<1> QED BY <1>1, <1>2, <1>3, <1>4, <1>5, <1>6, <1>7 DEF ChatNext, Handles

\* For any number of taps, tries and verbs offered, every badge in the chat is true.
THEOREM BadgesAreTrue == ChatSpec => []BadgeIsTrue
<1>1. ChatInit => ChatInv
  BY ChatAssumption DEF ChatInit, ChatInv, TapInv, CopyInv, NoTap, Copies, Verbs
<1>2. ChatInv => BadgeIsTrue
  BY DEF ChatInv, CopyInv, BadgeIsTrue
<1> QED BY <1>1, <1>2, ChatInvStep, PTL DEF ChatSpec

(***************************************************************************)
(* The prices.  A buy that is left quiet agreed with the alert's price,    *)
(* and the gate held that price against the ceiling before the agent ran.  *)
(***************************************************************************)
Past(s) == step \in s

PriceInv ==
  /\ alertPrice \in Nat /\ ceiling \in Nat \cup {NoAmount}
  /\ step \in PriceSteps
  /\ Past({"gated", "agreed", "paid", "read", "recorded", "success"}) =>
       gateCeiling \in Nat /\ alertPrice <= gateCeiling
  /\ Past({"paid", "read", "recorded", "success"}) => paid \in Nat
  /\ step = "success" /\ ~phase2Off => Agrees(alertPrice, amount)
  /\ 0 \in rechecks => Past({"recorded", "success"}) /\ Agrees(alertPrice, amount)

\* Every step keeps the inductive invariant of the prices.
LEMMA PriceInvStep == PriceInv /\ [PriceNext]_priceVars => PriceInv'
<1> SUFFICES ASSUME PriceInv, [PriceNext]_priceVars PROVE PriceInv'
  OBVIOUS
<1> USE PriceAssumption DEF PriceInv, Past, PriceSteps, Turn, ceilingVars, Agrees, Tolerance, Delta
<1>1. CASE ChangesCeiling
  BY <1>1 DEF ChangesCeiling
<1>2. CASE ChecksCeiling
  BY <1>2 DEF ChecksCeiling
<1>3. CASE ChecksSource
  BY <1>3 DEF ChecksSource
<1>4. CASE AgentPays
  BY <1>4 DEF AgentPays
<1>5. CASE ReadsPrice
  BY <1>5 DEF ReadsPrice
<1>6. CASE RecordsPrice
  BY <1>6 DEF RecordsPrice
<1>7. CASE ChecksReceipt
  BY <1>7, ZenonT(60) DEF ChecksReceipt
<1>8. CASE Reconciles
  BY <1>8 DEF Reconciles
<1>9. CASE UNCHANGED priceVars
  BY <1>9 DEF priceVars
<1> QED BY <1>1, <1>2, <1>3, <1>4, <1>5, <1>6, <1>7, <1>8, <1>9 DEF PriceNext

\* The tolerance grows with its reference.
LEMMA ToleranceGrows ==
  ASSUME NEW a \in Nat, NEW b \in Nat, a <= b
  PROVE  Tolerance(a) \in Nat /\ Tolerance(b) \in Nat /\ Tolerance(a) <= Tolerance(b)
<1>1. PICK d \in Nat : b = a + d
  <2>1. b - a \in Nat /\ b = a + (b - a)
    OBVIOUS
  <2> QED BY <2>1
<1>2. b * TolPct = a * TolPct + d * TolPct
  BY <1>1, PriceAssumption
<1>3. a * TolPct \in Nat /\ d * TolPct \in Nat /\ b * TolPct \in Nat /\ 100 * TolEur \in Nat
  BY PriceAssumption
<1>4. a * TolPct <= b * TolPct
  BY <1>2, <1>3
<1> QED BY <1>3, <1>4 DEF Tolerance

\* For any amounts and tolerances: what a quiet buy cost is within the tolerance
\* of the gate's ceiling.
THEOREM QuietBuysStayAffordable == PriceSpec => []QuietBuysAreAffordable
<1>1. PriceInit => PriceInv
  BY PriceAssumption DEF PriceInit, PriceInv, Past, PriceSteps
<1>2. PriceInv => QuietBuysAreAffordable
  <2> SUFFICES ASSUME PriceInv, amount = paid, (step = "success" /\ ~phase2Off) \/ 0 \in rechecks,
                      ~(paid <= gateCeiling)
               PROVE  100 * (paid - gateCeiling) <= Tolerance(gateCeiling)
    BY DEF QuietBuysAreAffordable
  <2>1. /\ alertPrice \in Nat /\ gateCeiling \in Nat /\ paid \in Nat
        /\ alertPrice <= gateCeiling /\ Agrees(alertPrice, paid)
    BY DEF PriceInv, Past
  <2>2. Delta(alertPrice, paid) = paid - alertPrice /\ paid - gateCeiling <= paid - alertPrice
    BY <2>1 DEF Delta
  <2>3. 100 * (paid - alertPrice) <= Tolerance(alertPrice)
    BY <2>1, <2>2 DEF Agrees
  <2>4. Tolerance(alertPrice) \in Nat /\ Tolerance(gateCeiling) \in Nat /\ Tolerance(alertPrice) <= Tolerance(gateCeiling)
    BY <2>1, ToleranceGrows
  <2> QED BY <2>1, <2>2, <2>3, <2>4
<1> QED BY <1>1, <1>2, PriceInvStep, PTL DEF PriceSpec
=============================================================================
