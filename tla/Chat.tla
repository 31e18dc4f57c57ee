--------------------------------- MODULE Chat ---------------------------------
(***************************************************************************)
(* One alert in the operator's chat: TelegramBotSurface.send tries to put  *)
(* it on the screen, again after a failure that may pass; the poll loop    *)
(* then stores its snapshot; the operator taps the buttons of its row, and *)
(* each tap is parsed by the surface and handled by CallbackDispatcher.    *)
(* Handlers of different taps interleave at every await.                   *)
(*                                                                         *)
(* A try that ends in an error may have reached the chat all the same, so  *)
(* that one alert can stand there in several copies, told apart here by    *)
(* the try that sent them.  A row of buttons is "offer", the row of the    *)
(* alert, or the badge of a verb, which the dispatcher put in its place.   *)
(***************************************************************************)
EXTENDS Naturals

CONSTANTS
  Hands,        \* taps of the operator
  Offered,      \* verbs of the alert's row
  Retries       \* retries after the first try (two in DEFAULT_RETRY_DELAYS)

VARIABLES
  try,          \* the try that is under way, or that was the last
  delivery,      \* "trying", "sent", "failed": how send stands
  on,           \* on[c]: the row under copy c, "none" while it is not in the chat
  stored,       \* the snapshot of the alert is in the store
  hand,         \* hand[h]: the tap and where its handling stands
  logged,       \* <<verb, copy>> of the callback rows
  snoozed,      \* the alert's entry is snoozed
  unlinked,       \* taps that found no snapshot, as the log says
  begunBuys     \* taps that started a task of the buy orchestrator

handlerVars == <<hand, logged, snoozed, unlinked, begunBuys>>
chatVars == <<try, delivery, on, stored, handlerVars>>

Phase1Row == {"view", "skip", "snooze"}
Phase2Row == {"buy", "skip", "view"}
Verbs  == {"view", "skip", "snooze", "buy"}       \* _KNOWN_VERBS, HANDLED_VERBS
Copies == 0..Retries

ASSUME ChatAssumption == Retries \in Nat /\ Offered \subseteq Verbs

\* The verbs behind the buttons of a row; ack and noop are not known verbs.
Buttons(row) == CASE row = "offer" -> Offered
                  [] row = "none" -> {}
                  [] row = "buy" -> {"noop"}
                  [] OTHER -> {"ack"}

NoTap == [at |-> "idle", verb |-> "view", copy |-> 0]

ChatTypeOK ==
  /\ try \in Copies /\ delivery \in {"trying", "sent", "failed"}
  /\ on \in [Copies -> {"none", "offer"} \cup Verbs]
  /\ stored \in BOOLEAN /\ snoozed \in BOOLEAN
  /\ hand \in [Hands -> [at: {"idle", "parse", "record", "lookup", "snooze", "badge", "over", "raised"},
                         verb: Verbs \cup {"ack", "noop"}, copy: Copies]]
  /\ logged \subseteq Verbs \X Copies
  /\ unlinked \subseteq Hands /\ begunBuys \subseteq Hands

ChatInit ==
  /\ try = 0 /\ delivery = "trying"
  /\ on = [c \in Copies |-> "none"]
  /\ stored = FALSE /\ snoozed = FALSE
  /\ hand = [h \in Hands |-> NoTap]
  /\ logged = {} /\ unlinked = {} /\ begunBuys = {}

(***************************************************************************)
(* send: a network error, a timeout or a rate limit is tried again, while  *)
(* there are delays left; any other error raises at once.                  *)
(***************************************************************************)
Arrives == on' = [on EXCEPT ![try] = "offer"]

Sends ==
  /\ delivery = "trying"
  /\ Arrives /\ delivery' = "sent"
  /\ UNCHANGED <<try, stored, handlerVars>>

TriesAgain ==
  /\ delivery = "trying" /\ try < Retries
  /\ Arrives \/ UNCHANGED on
  /\ try' = try + 1
  /\ UNCHANGED <<delivery, stored, handlerVars>>

GivesUp ==
  /\ delivery = "trying"
  /\ \/ try = Retries /\ (Arrives \/ UNCHANGED on)
     \/ UNCHANGED on
  /\ delivery' = "failed"
  /\ UNCHANGED <<try, stored, handlerVars>>

\* The poll loop stores the snapshot of an alert that was sent.
StoresSnapshot ==
  /\ delivery = "sent" /\ ~stored
  /\ stored' = TRUE
  /\ UNCHANGED <<try, delivery, on, handlerVars>>

(***************************************************************************)
(* A tap.  Telegram delivers it some time after the operator saw the row.  *)
(***************************************************************************)
Moves(h, from, to) == hand[h].at = from /\ hand' = [hand EXCEPT ![h].at = to]

Presses(h, c, v) ==
  /\ hand[h] = NoTap /\ v \in Buttons(on[c])
  /\ hand' = [hand EXCEPT ![h] = [at |-> "parse", verb |-> v, copy |-> c]]
  /\ UNCHANGED <<try, delivery, on, stored, logged, snoozed, unlinked, begunBuys>>

\* parse_callback drops what is not the operator's or has no known verb.
ParsesTap(h) ==
  /\ IF hand[h].verb \in Verbs THEN Moves(h, "parse", "record") ELSE Moves(h, "parse", "over")
  /\ UNCHANGED <<try, delivery, on, stored, logged, snoozed, unlinked, begunBuys>>

\* Mutant: the handler goes on when the row cannot be written, as a buy does
\* when its own row of the tap cannot.
RecordsTapBestEffort(h) ==
  /\ Moves(h, "record", IF hand[h].verb = "snooze" THEN "lookup" ELSE "badge")
  /\ logged' \in {logged, logged \cup {<<hand[h].verb, hand[h].copy>>}}
  /\ UNCHANGED <<try, delivery, on, stored, snoozed, unlinked, begunBuys>>

RecordsTap(h) ==
  /\ Moves(h, "record", IF hand[h].verb = "snooze" THEN "lookup" ELSE "badge")
  /\ logged' = logged \cup {<<hand[h].verb, hand[h].copy>>}
  /\ UNCHANGED <<try, delivery, on, stored, snoozed, unlinked, begunBuys>>

\* _apply_snooze: an alert without a snapshot names no entry to snooze.
LooksUp(h) ==
  /\ IF stored THEN Moves(h, "lookup", "snooze") /\ UNCHANGED unlinked
               ELSE Moves(h, "lookup", "badge") /\ unlinked' = unlinked \cup {h}
  /\ UNCHANGED <<try, delivery, on, stored, logged, snoozed, begunBuys>>

SetsSnooze(h) ==
  /\ Moves(h, "snooze", "badge")
  /\ snoozed' = TRUE
  /\ UNCHANGED <<try, delivery, on, stored, logged, unlinked, begunBuys>>

\* The badge of the verb; a buy then starts its task, with no await between.
Badges(h) ==
  /\ Moves(h, "badge", "over")
  /\ on' = [on EXCEPT ![hand[h].copy] = hand[h].verb]
  /\ begunBuys' = IF hand[h].verb = "buy" THEN begunBuys \cup {h} ELSE begunBuys
  /\ UNCHANGED <<try, delivery, stored, logged, snoozed, unlinked>>

\* A statement or the edit of the keyboard raises, and the handler with it;
\* an edit that timed out may have been made all the same.
HandlerFails(h) ==
  /\ \/ Moves(h, "record", "raised") /\ UNCHANGED on
     \/ Moves(h, "lookup", "raised") /\ UNCHANGED on
     \/ Moves(h, "snooze", "raised") /\ UNCHANGED on
     \/ /\ Moves(h, "badge", "raised")
        /\ on' \in {on, [on EXCEPT ![hand[h].copy] = hand[h].verb]}
  /\ UNCHANGED <<try, delivery, stored, logged, snoozed, unlinked, begunBuys>>

Handles(h) ==
  ParsesTap(h) \/ RecordsTap(h) \/ LooksUp(h) \/ SetsSnooze(h) \/ Badges(h) \/ HandlerFails(h)

ChatNext ==
  \/ Sends \/ TriesAgain \/ GivesUp \/ StoresSnapshot
  \/ \E h \in Hands : Handles(h) \/ \E c \in Copies : \E v \in Offered \cup {"ack", "noop"} : Presses(h, c, v)

ChatSpec == ChatInit /\ [][ChatNext]_chatVars

(***************************************************************************)
(* Safety.                                                                 *)
(***************************************************************************)
\* What the badge under a copy says has happened: the tap on that copy has its
\* audit row, and a "snoozed" badge means that the entry is snoozed, unless the
\* tap was there before the snapshot; however taps, retries and errors interleave.
BadgeIsTrue ==
  \A c \in Copies : on[c] \in Verbs =>
    /\ <<on[c], c>> \in logged
    /\ on[c] = "snooze" => snoozed \/ \E h \in unlinked : hand[h].copy = c

(***************************************************************************)
(* What a comment says and the code does not do.                           *)
(***************************************************************************)
\* callback_handler.py: taps in flight together are safe to interleave, and the
\* badge of a buy stands while it runs.  The edits of one message are not
\* ordered: a later one takes the badge of a running buy away.
BuyStaysShown == \A h \in begunBuys : on[hand[h].copy] = "buy"
=============================================================================
