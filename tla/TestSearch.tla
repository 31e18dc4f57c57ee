----------------------------- MODULE TestSearch -----------------------------
(***************************************************************************)
(* test-search: a dry run of the searches, one marketplace after the       *)
(* other, with the model's verdict on request.  What the two fetchers make *)
(* of an answer - which error, or listings - is modelled here; what they   *)
(* keep from call to call is in WallapopFallback and EbayAccess.           *)
(***************************************************************************)
EXTENDS Naturals, Sequences

CONSTANT MaxListings      \* bound: listings in an answer

ASSUME TestSearchAssumption == MaxListings \in Nat

VARIABLES
  asked,      \* the command line: the marketplace, if one is named; --evaluate; a known ref
  there,      \* the marketplaces whose credential file is there
  stage,      \* where the run stands
  left,       \* the targets still to search
  todo,       \* the listings of the current search still to judge
  found,      \* how many results are kept
  notes,      \* what is said of the run, beside the results
  limited,    \* outcome.rate_limited
  code,       \* the exit code; 1 is a traceback
  gaps        \* ghost: the targets whose listings are not all among the results

testSearchVars == <<asked, there, stage, left, todo, found, notes, limited, code, gaps>>

Markets == <<"wallapop", "ebay">>

TestSearchTypeOK ==
  /\ asked \in [market : {"any", "wallapop", "ebay", "other"}, evaluate : BOOLEAN, ref : BOOLEAN]
  /\ stage \in {"start", "market", "search", "judge", "end", "over"}
  /\ left \in Seq({"wallapop", "ebay"}) /\ todo \in 0..MaxListings /\ found \in Nat
  /\ there \subseteq {"wallapop", "ebay"} /\ gaps \subseteq {"wallapop", "ebay"}
  /\ limited \in BOOLEAN /\ code \in {0, 1, 2, 4}

TestSearchInit ==
  /\ asked \in [market : {"any", "wallapop", "ebay", "other"}, evaluate : BOOLEAN, ref : BOOLEAN]
  /\ there \in SUBSET {"wallapop", "ebay"}
  /\ stage = "start" /\ left = <<>> /\ todo = 0 /\ found = 0
  /\ notes = {} /\ limited = FALSE /\ code = 0 /\ gaps = {}

(***************************************************************************)
(* What may become of a request, and what the fetchers raise for it.  An   *)
(* answer with one item of the wrong shape is refused as a whole; one that *)
(* is not JSON is nowhere expected, nor is a transport error of eBay's     *)
(* search (of its refresh it is).                                          *)
(***************************************************************************)
HttpAnswers == {"transport", "401", "4xx", "not_json", "wrong_shape", "items"}

WallapopSearch(answer) ==
  CASE answer = "transport"   -> "WallapopApiError"
    [] answer = "401"         -> "WallapopSessionExpired"
    [] answer = "4xx"         -> "WallapopApiError"
    [] answer = "wrong_shape" -> "WallapopSchemaDrift"
    [] answer = "not_json"    -> "unexpected"
    [] answer = "items"       -> "listings"

EbaySearch(answer) ==
  CASE answer = "transport"   -> "unexpected"
    [] answer \in {"401", "4xx"} -> "EbayApiError"
    [] answer = "wrong_shape" -> "EbaySchemaDrift"
    [] answer = "not_json"    -> "unexpected"
    [] answer = "items"       -> "listings"

\* Before it asks, eBay's fetcher may find the budget spent, or fail to refresh.
EbayRefusals == {"EbayQuotaExceeded", "EbayAuthFailed", "EbayApiError"}

SearchOutcomes(market) ==
  IF market = "wallapop" THEN {WallapopSearch(answer) : answer \in HttpAnswers}
  ELSE {EbaySearch(answer) : answer \in HttpAnswers} \cup EbayRefusals

(***************************************************************************)
(* The run.                                                                *)
(***************************************************************************)
Evaluating == asked.evaluate /\ asked.ref

commandLine == <<asked, there>>

Parses ==
  /\ stage = "start"
  /\ \/ /\ asked.market # "other"
        /\ stage' = "market" /\ code' = 0
        /\ left' = IF asked.market = "any" THEN Markets ELSE <<asked.market>>
        /\ notes' = IF asked.evaluate /\ ~asked.ref THEN {<<"evaluate", "needs an entry">>} ELSE {}
     \/ /\ asked.market = "other"
        /\ stage' = "over" /\ code' = 2 /\ UNCHANGED <<left, notes>>
     \* the evaluator is built before any search, and may lack its key
     \/ /\ asked.market # "other" /\ Evaluating
        /\ stage' = "over" /\ code' = 1 /\ UNCHANGED <<left, notes>>
  /\ UNCHANGED <<commandLine, todo, found, limited, gaps>>

\* The next target: it is passed over with a note if its credentials are not
\* there, and one that does not load raises.
Opens ==
  /\ stage = "market" /\ left # <<>>
  /\ IF Head(left) \in there
       THEN /\ \/ stage' = "search" /\ code' = code
               \/ stage' = "over" /\ code' = 1
            /\ UNCHANGED <<left, notes, gaps>>
       ELSE /\ left' = Tail(left) /\ notes' = notes \cup {<<Head(left), "skipped">>}
            /\ gaps' = gaps \cup {Head(left)}
            /\ UNCHANGED <<stage, code>>
  /\ UNCHANGED <<commandLine, todo, found, limited>>

\* Mutant: a search that fails is passed over in silence.
SearchesSilently ==
  /\ stage = "search"
  /\ \E outcome \in SearchOutcomes(Head(left)) :
       CASE outcome = "listings" ->
              /\ todo' \in 0..MaxListings /\ stage' = "judge"
              /\ UNCHANGED <<left, notes, gaps, code>>
         [] outcome = "unexpected" ->
              stage' = "over" /\ code' = 1 /\ UNCHANGED <<left, notes, gaps, todo>>
         [] OTHER ->
              /\ gaps' = gaps \cup {Head(left)}
              /\ left' = Tail(left) /\ stage' = "market"
              /\ UNCHANGED <<todo, code, notes>>
  /\ UNCHANGED <<commandLine, found, limited>>

\* A MarketplaceError is noted and the next target follows; whatever else is
\* raised leaves the command, past the closing of fetcher and cache.
Searches ==
  /\ stage = "search"
  /\ \E outcome \in SearchOutcomes(Head(left)) :
       CASE outcome = "listings" ->
              /\ todo' \in 0..MaxListings /\ stage' = "judge"
              /\ UNCHANGED <<left, notes, gaps, code>>
         [] outcome = "unexpected" ->
              stage' = "over" /\ code' = 1 /\ UNCHANGED <<left, notes, gaps, todo>>
         [] OTHER ->
              /\ notes' = notes \cup {<<Head(left), outcome>>} /\ gaps' = gaps \cup {Head(left)}
              /\ left' = Tail(left) /\ stage' = "market"
              /\ UNCHANGED <<todo, code>>
  /\ UNCHANGED <<commandLine, found, limited>>

\* Each listing is a result, judged or not: a rate limit of the model leaves it
\* without a verdict, any other error of the model leaves the command.
Judges ==
  /\ stage = "judge" /\ todo > 0
  /\ \/ /\ todo' = todo - 1 /\ found' = found + 1
        /\ UNCHANGED <<stage, notes, limited, code>>
     \/ /\ Evaluating
        /\ todo' = todo - 1 /\ found' = found + 1
        /\ limited' = TRUE /\ notes' = notes \cup {<<"llm", "rate limited">>}
        /\ UNCHANGED <<stage, code>>
     \/ /\ Evaluating
        /\ stage' = "over" /\ code' = 1
        /\ UNCHANGED <<todo, found, notes, limited>>
  /\ UNCHANGED <<commandLine, left, gaps>>

LeavesMarket ==
  /\ stage = "judge" /\ todo = 0
  /\ left' = Tail(left) /\ stage' = "market"
  /\ UNCHANGED <<commandLine, todo, found, notes, limited, code, gaps>>

Unbuilt == asked.market # "any" /\ found = 0 /\ notes # {}

Prints ==
  /\ stage = "market" /\ left = <<>>
  /\ code' = IF Unbuilt THEN 4 ELSE 0
  /\ stage' = "over"
  /\ UNCHANGED <<commandLine, left, todo, found, notes, limited, gaps>>

TestSearchNext == Parses \/ Opens \/ Searches \/ Judges \/ LeavesMarket \/ Prints

TestSearchSpec == TestSearchInit /\ [][TestSearchNext]_testSearchVars

(***************************************************************************)
(* Safety.                                                                 *)
(***************************************************************************)
\* A run that ends with 0 says which targets are missing from its results: an
\* empty list without a note means that every target answered with none.
GapsAreSaid ==
  stage = "over" /\ code = 0 => \A m \in gaps : \E note \in notes : note[1] = m

(***************************************************************************)
(* What a comment says and the code does not do.                           *)
(***************************************************************************)
\* test_search_cmd.py: the exit code 4 stands for an explicitly-requested
\* marketplace that could not even be built, for want of credentials.
FourMeansUnbuilt == stage = "over" /\ code = 4 => asked.market \notin there
=============================================================================
