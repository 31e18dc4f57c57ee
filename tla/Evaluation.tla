----------------------------- MODULE Evaluation -----------------------------
(*************************************************************************)
(* How a listing gets its verdict: the query of a poll, the budget       *)
(* guard and the answer of the Gemini and Claude evaluators, and the cache*)
(* they are wrapped in, which the daemon, explain and test-search open   *)
(* side by side, each with time-to-lives of its own.                     *)
(*                                                                       *)
(* One listing, whose seller changes its price.  Between the moment it is*)
(* fetched and the write of its verdict lie three awaits: a read of the  *)
(* cache, the model and the write.                                       *)
(*************************************************************************)
EXTENDS Naturals

CONSTANTS
  Askers,         \* the processes that evaluate: the poll, explain, test-search
  Poll,           \* the poll of the daemon
  Wants,          \* the entries of the wishlist
  Solo, InDevice, \* Solo[e], InDevice[e]: the ceilings of an entry, or NoCeiling
  Asks,           \* Asks[a]: the entries for which a looks at the listing
  Prices,         \* what the listing may cost
  Normal, Low,    \* Normal[a], Low[a]: a's time-to-lives, in ticks
  NoCeiling, NoRow,
  MaxAge,         \* bound: ages are kept up to here
  MaxMoves        \* bound: changes of the price

ASSUME EvaluationAssumption ==
  /\ Poll \in Askers /\ Asks \in [Askers -> SUBSET Wants]
  /\ Prices \subseteq Nat \ {0} /\ NoCeiling \notin Nat
  /\ \A e \in Wants : {Solo[e], InDevice[e]} \subseteq Nat \cup {NoCeiling}
  /\ \A e \in Wants : {Solo[e], InDevice[e]} # {NoCeiling}     \* FR5, by the loader
  /\ \A a \in Askers : Normal[a] < MaxAge /\ Low[a] < MaxAge
  /\ MaxMoves \in Nat /\ MaxAge \in Nat

VARIABLES
  price,          \* of the listing, now
  cached,         \* the row of llm_evaluation_cache for its URL
  asking,         \* asking[a]: where a's evaluation stands, and of what
  acted,          \* the last verdict that the poll acted on
  marked,         \* the entries for which the poll has the listing in seen_listings
  moves

evaluationVars == <<price, cached, asking, acted, marked, moves>>

Confidences == {"low", "medium", "high"}

Resting == [at |-> "rest"]

Asked == [at : {"get", "model"}, entry : Wants, price : Prices]

EvaluationTypeOK ==
  /\ price \in Prices /\ moves \in 0..MaxMoves
  /\ cached # NoRow => cached \in
       [entry : Wants, price : Prices, confidence : Confidences, age : 0..MaxAge]
  /\ asking \in [Askers -> {Resting} \cup Asked \cup [at : {"set"}, entry : Wants, price : Prices, confidence : Confidences]]
  /\ acted # NoRow => acted \in [entry : Wants, price : Prices, confidence : Confidences]
  /\ marked \subseteq Wants

EvaluationInit ==
  /\ price \in Prices /\ cached = NoRow /\ acted = NoRow /\ marked = {} /\ moves = 0
  /\ asking = [a \in Askers |-> Resting]

(*************************************************************************)
(* The query of a poll names one ceiling: the first that is set.         *)
(*************************************************************************)
QueryCeiling(e) == IF Solo[e] \notin {NoCeiling, 0} THEN Solo[e] ELSE InDevice[e]

Returned(e) == QueryCeiling(e) = NoCeiling \/ price <= QueryCeiling(e)

\* exceeds_all_ceilings: a ceiling that is not set bounds nothing.
CeilingsOf(e) == {Solo[e], InDevice[e]} \ {NoCeiling}

Exceeds(e, p) == CeilingsOf(e) # {} /\ \A ceiling \in CeilingsOf(e) : p > ceiling

(*************************************************************************)
(* A listing is fetched: by a search of a poll, which passes over what is*)
(* marked seen for the entry, or by a command, which does not.           *)
(*************************************************************************)
Fetches(a, e) ==
  /\ asking[a] = Resting /\ e \in Asks[a]
  /\ a = Poll => Returned(e) /\ e \notin marked
  /\ asking' = [asking EXCEPT ![a] = [at |-> "get", entry |-> e, price |-> price]]
  /\ UNCHANGED <<price, cached, acted, marked, moves>>

\* The time-to-live is the reader's, by the confidence of the row.
Expired(a, row) == row.age > (IF row.confidence = "low" THEN Low[a] ELSE Normal[a])

\* The poll alerts or drops, and marks the listing either way (that a send or a
\* mark may fail is in PollLoop).
Acts(a, row) ==
  /\ acted' = IF a = Poll
                  THEN [entry |-> row.entry, price |-> row.price, confidence |-> row.confidence]
                  ELSE acted
  /\ marked' = IF a = Poll THEN marked \cup {asking[a].entry} ELSE marked

\* A row of the URL and the prompt version that has not expired is the verdict,
\* whatever entry and price it was given for.
Hits(a) ==
  /\ asking[a].at = "get" /\ cached # NoRow /\ ~Expired(a, cached)
  /\ Acts(a, cached)
  /\ asking' = [asking EXCEPT ![a] = Resting]
  /\ UNCHANGED <<price, cached, moves>>

\* Mutant: a row that has expired is taken for one that is there.
MissesAbsent(a) ==
  /\ asking[a].at = "get" /\ cached = NoRow
  /\ asking' = [asking EXCEPT ![a] =
       IF Exceeds(@.entry, @.price)
         THEN [at |-> "set", entry |-> @.entry, price |-> @.price, confidence |-> "low"]
         ELSE [@ EXCEPT !.at = "model"]]
  /\ UNCHANGED <<price, cached, acted, marked, moves>>

\* A listing above every ceiling is given "low", without asking the model.
Misses(a) ==
  /\ asking[a].at = "get" /\ (cached # NoRow => Expired(a, cached))
  /\ asking' = [asking EXCEPT ![a] =
       IF Exceeds(@.entry, @.price)
         THEN [at |-> "set", entry |-> @.entry, price |-> @.price, confidence |-> "low"]
         ELSE [@ EXCEPT !.at = "model"]]
  /\ UNCHANGED <<price, cached, acted, marked, moves>>

\* What the answer of the model may hold: fences and prose around the object do
\* not matter; a missing object, a bad field, a take of more than 120
\* characters, a rate limit or another error of the API raise.
Answers(a) ==
  /\ asking[a].at = "model"
  /\ \E confidence \in Confidences :
       asking' = [asking EXCEPT ![a] =
         [at |-> "set", entry |-> @.entry, price |-> @.price, confidence |-> confidence]]
  /\ UNCHANGED <<price, cached, acted, marked, moves>>

\* The evaluation raises, in the model or a statement of the cache, or its
\* process ends: no verdict and no row.
Raises(a) ==
  /\ asking[a] # Resting
  /\ asking' = [asking EXCEPT ![a] = Resting]
  /\ UNCHANGED <<price, cached, acted, marked, moves>>

\* The row replaces whatever is there; its age counts from the write.
Sets(a) ==
  /\ asking[a].at = "set"
  /\ cached' = [entry |-> asking[a].entry, price |-> asking[a].price,
                confidence |-> asking[a].confidence, age |-> 0]
  /\ Acts(a, asking[a])
  /\ asking' = [asking EXCEPT ![a] = Resting]
  /\ UNCHANGED <<price, moves>>

PriceChanges ==
  /\ moves < MaxMoves
  /\ moves' = moves + 1
  /\ price' \in Prices \ {price}
  /\ UNCHANGED <<cached, asking, acted, marked>>

RowAges ==
  /\ cached # NoRow
  /\ cached' = [cached EXCEPT !.age = IF @ < MaxAge THEN @ + 1 ELSE @]
  /\ UNCHANGED <<price, asking, acted, marked, moves>>

EvaluationNext ==
  \/ \E a \in Askers : \/ \E e \in Wants : Fetches(a, e)
                       \/ Hits(a) \/ Misses(a) \/ Answers(a) \/ Raises(a) \/ Sets(a)
  \/ PriceChanges \/ RowAges

EvaluationSpec == EvaluationInit /\ [][EvaluationNext]_evaluationVars

(*************************************************************************)
(* The scheduler polls again and again, time passes; a model that is asked*)
(* again and again answers some time, and the cache's statements succeed.*)
(*************************************************************************)
EvaluationFairness ==
  /\ WF_evaluationVars(\E e \in Wants : Fetches(Poll, e))
  /\ SF_evaluationVars(Hits(Poll) \/ Misses(Poll))
  /\ SF_evaluationVars(Answers(Poll))
  /\ SF_evaluationVars(Sets(Poll))
  /\ WF_evaluationVars(RowAges)

(*************************************************************************)
(* Liveness, under EvaluationFairness.                                   *)
(*************************************************************************)
\* A listing that a poll's search returns is judged for its entry, unless it
\* gets too dear for the search first: no row that this daemon, an earlier one
\* or a command left in the cache stands in its way for good.
FindsAreJudged ==
  \A e \in Wants :
    e \in Asks[Poll] /\ Returned(e) ~> e \in marked \/ ~Returned(e)

(*************************************************************************)
(* What the documents say and the code does not do.                      *)
(*************************************************************************)
ActedOn(p) == acted # NoRow /\ acted.price = p

\* config.example.yaml: low-confidence verdicts are cached for less long, so a
\* re-fetch does not get stuck with a stale "unsure" verdict.  So one that was
\* given at a former price is replaced while the searches return the listing.
UnsureIsRetried ==
  acted # NoRow /\ acted.confidence = "low" /\ ~ActedOn(price)
    ~> ActedOn(price) \/ \E e \in Asks[Poll] : ~Returned(e)

\* wishlist.example.yaml: max_price_in_device is the ceiling for container
\* matches, beside the one for the part alone.  So a listing that stays within
\* one of the two comes to be judged, at its price.
AffordableIsJudged ==
  \A p \in Prices :
    price = p /\ (\E e \in Asks[Poll] : ~Exceeds(e, p)) ~> ActedOn(p) \/ price # p

\* explain_cmd.py: it runs the full evaluation against every plausible entry.
\* So what explain reports for an entry is a verdict on that entry.
EveryEntryIsEvaluated ==
  [][\A a \in Askers \ {Poll} : Hits(a) => cached.entry = asking[a].entry]_evaluationVars
=============================================================================
