----------------------------- MODULE TypeProofs -----------------------------
(***************************************************************************)
(* Proofs that every component keeps to its type: on its own, and in the   *)
(* scenes that TLC looks at (MCSurroundings).                              *)
(***************************************************************************)
EXTENDS MCSurroundings, ReporterProofs, AccessProofs, FilesProofs, AlertProofs, CommandProofs

(***************************************************************************)
(* eBay.  What is saved is what a process that runs has in memory.         *)
(***************************************************************************)
EbayTyped ==
  /\ EbayTypeOK
  /\ \A p \in Procs : at[p] # "off" => mem[p] \in Tokens

\* Every step of a process, of a login and of the clock keeps the types of eBay.
LEMMA EbayTypeStep == EbayTyped /\ [EbayNext]_ebayVars => EbayTyped'
<1> SUFFICES ASSUME EbayTyped, [EbayNext]_ebayVars PROVE EbayTyped'
  OBVIOUS
<1> USE DEF EbayTyped, EbayTypeOK, ebaySide
<1>1. ASSUME NEW p \in Procs, Starts(p) PROVE EbayTyped'
  <2>1. spent' \in [expiries : 0..MaxExpiries, starts : 0..MaxStarts, logins : 0..MaxEbayLogins]
    BY <1>1, EbayAssumption DEF Starts
  <2> QED BY <1>1, <2>1 DEF Starts, Unused
<1>2. ASSUME NEW p \in Procs, BudgetGate(p) PROVE EbayTyped'
  <2>1. Today(quota[p]) \in [today : BOOLEAN, used : Nat]
    BY DEF Today
  <2> HIDE DEF Today
  <2> QED BY <1>2, <2>1 DEF BudgetGate
<1>3. ASSUME NEW p \in Procs, RefreshAnswered(p) PROVE EbayTyped'
  <2> PICK rotated \in BOOLEAN :
        /\ mem' = [mem EXCEPT ![p] = [a |-> issued', r |-> IF rotated THEN issued' ELSE @.r]]
        /\ accepted' = IF rotated THEN (accepted \ {mem[p].r}) \cup {issued'} ELSE accepted
    BY <1>3 DEF RefreshAnswered
  <2>1. issued' \in Nat /\ mem[p].r \in Nat
    <3>1. issued \in Nat /\ accepted \subseteq Nat
      OBVIOUS
    <3>2. issued' = issued + 1 /\ mem[p].r \in accepted
      BY <1>3 DEF RefreshAnswered
    <3>3. issued' \in Nat
      BY <3>1, <3>2, SMT
    <3>4. mem[p].r \in Nat
      BY <3>1, <3>2, Zenon
    <3> QED BY <3>3, <3>4
  <2>2. accepted' \subseteq Nat
    BY <2>1
  <2>3. [a |-> issued', r |-> IF rotated THEN issued' ELSE mem[p].r] \in Tokens
    BY <2>1 DEF Tokens
  <2>4. /\ mem' \in [Procs -> Tokens \cup {Nothing}] /\ mem'[p] \in Tokens
        /\ \A o \in Procs \ {p} : mem'[o] = mem[o]
    BY <2>3
  <2> QED BY <1>3, <2>1, <2>2, <2>4 DEF RefreshAnswered
<1>4. ASSUME NEW p \in Procs, RefreshFails(p) \/ SaveTokens(p) \/ SaveFails(p) \/ Unanswered(p) PROVE EbayTyped'
  BY <1>4 DEF RefreshFails, SaveTokens, SaveFails, Unanswered
<1>11. ASSUME NEW p \in Procs, RefreshAnswerLost(p) PROVE EbayTyped'
  <2>1. /\ issued \in Nat /\ accepted \subseteq Nat /\ issued' = issued + 1
        /\ accepted' = (accepted \ {mem[p].r}) \cup {issued'}
    BY <1>11 DEF RefreshAnswerLost
  <2>2. issued' \in Nat
    BY <2>1, SMT
  <2>3. accepted' \subseteq Nat
    BY <2>1, <2>2, Zenon
  <2> QED BY <1>11, <2>2, <2>3 DEF RefreshAnswerLost
<1>5. ASSUME NEW p \in Procs, Answered(p) PROVE EbayTyped'
  <2>1. Today(quota[p]) \in [today : BOOLEAN, used : Nat]
    BY DEF Today
  <2>2. Consumed(quota[p]) \in [today : BOOLEAN, used : Nat]
    BY <2>1 DEF Consumed
  <2> HIDE DEF Consumed
  <2> QED BY <1>5, <2>2 DEF Answered
<1>6. ASSUME NEW p \in Procs, Ends(p) PROVE EbayTyped'
  BY <1>6 DEF Ends
<1>7. CASE LoginEbay
  <2>1. spent' \in [expiries : 0..MaxExpiries, starts : 0..MaxStarts, logins : 0..MaxEbayLogins]
    BY <1>7, EbayAssumption DEF LoginEbay
  <2>2. lost' \in BOOLEAN
    BY <1>7 DEF LoginEbay
  <2> QED BY <1>7, <2>1, <2>2 DEF LoginEbay, Tokens
<1>8. CASE AccessExpires
  <2>1. spent' \in [expiries : 0..MaxExpiries, starts : 0..MaxStarts, logins : 0..MaxEbayLogins]
    <3>1. spent \in [expiries : 0..MaxExpiries, starts : 0..MaxStarts, logins : 0..MaxEbayLogins]
      OBVIOUS
    <3>2. spent.expiries < MaxExpiries /\ spent' = [spent EXCEPT !.expiries = @ + 1]
      BY <1>8 DEF AccessExpires
    <3> QED BY ONLY <3>1, <3>2, EbayAssumption
  <2> QED BY <1>8, <2>1 DEF AccessExpires
<1>9. CASE Midnight
  BY <1>9 DEF Midnight
<1>10. CASE UNCHANGED ebayVars
  BY <1>10 DEF ebayVars
<1> QED
  BY <1>1, <1>2, <1>3, <1>4, <1>5, <1>6, <1>7, <1>8, <1>9, <1>10, <1>11 DEF EbayNext, EbaySearchStep

\* eBay's tokens, quotas and their books are of their types.
LEMMA EbayTypes == EbaySpec => []EbayTypeOK
<1>1. ASSUME EbayInit PROVE EbayTyped
  <2>1. First \in Tokens
    BY DEF First, Tokens
  <2>2. spent \in [expiries : 0..MaxExpiries, starts : 0..MaxStarts, logins : 0..MaxEbayLogins]
    BY <1>1, EbayAssumption DEF EbayInit
  <2>3. quota \in [Procs -> [today : BOOLEAN, used : Nat]]
    BY <1>1 DEF EbayInit, Unused
  <2>4. EbayTypeOK
    <3>1. /\ disk \in Tokens /\ mem \in [Procs -> Tokens \cup {Nothing}]
          /\ at \in [Procs -> {"off", "idle", "refresh", "refreshed", "get"}]
          /\ answered \in [Procs -> Nat] /\ lost \in BOOLEAN
      BY <1>1, <2>1 DEF EbayInit
    <3>2. stale \subseteq Nat /\ accepted \subseteq Nat /\ issued \in Nat
      BY <1>1 DEF EbayInit
    <3> QED BY <2>2, <2>3, <3>1, <3>2 DEF EbayTypeOK
  <2> QED BY <1>1, <2>4 DEF EbayInit, EbayTyped
<1>2. EbayTyped => EbayTypeOK
  BY DEF EbayTyped
<1> QED BY <1>1, <1>2, EbayTypeStep, PTL DEF EbaySpec

(***************************************************************************)
(* The evaluators.                                                         *)
(***************************************************************************)
Verdict == [at : {"set"}, entry : Wants, price : Prices, confidence : Confidences]

\* Every step of an evaluation keeps the types.
LEMMA EvaluationTypeStep == EvaluationTypeOK /\ [EvaluationNext]_evaluationVars => EvaluationTypeOK'
<1> SUFFICES ASSUME EvaluationTypeOK, [EvaluationNext]_evaluationVars PROVE EvaluationTypeOK'
  OBVIOUS
<1> DEFINE Places == {Resting} \cup Asked \cup Verdict
<1>0. /\ price \in Prices /\ moves \in 0..MaxMoves /\ marked \subseteq Wants
      /\ asking \in [Askers -> Places] /\ Resting \in Places
      /\ cached # NoRow => cached \in [entry : Wants, price : Prices, confidence : Confidences, age : 0..MaxAge]
      /\ acted # NoRow => acted \in [entry : Wants, price : Prices, confidence : Confidences]
  BY DEF EvaluationTypeOK, Verdict
<1>a. ASSUME NEW a \in Askers, asking[a].at # "rest"
      PROVE  asking[a].entry \in Wants /\ asking[a].price \in Prices
             /\ (asking[a].at = "set" => asking[a].confidence \in Confidences)
  <2>1. asking[a] \in Places
    BY <1>0
  <2>2. CASE asking[a] \in Asked
    BY <2>2 DEF Asked
  <2>3. CASE asking[a] \in Verdict
    BY <2>3 DEF Verdict
  <2> QED BY <1>a, <2>1, <2>2, <2>3 DEF Resting
<1>b. ASSUME NEW a \in Askers, NEW place \in Places, asking' = [asking EXCEPT ![a] = place],
             UNCHANGED <<price, cached, acted, marked, moves>>
      PROVE  EvaluationTypeOK'
  <2>1. asking' \in [Askers -> Places]
    BY <1>0, <1>b
  <2> QED BY <1>0, <1>b, <2>1 DEF EvaluationTypeOK, Verdict
<1>c. ASSUME NEW a \in Askers, NEW row, asking[a].at # "rest", Acts(a, row),
             row.entry \in Wants, row.price \in Prices, row.confidence \in Confidences
      PROVE  marked' \subseteq Wants /\ (acted' # NoRow => acted' \in [entry : Wants, price : Prices, confidence : Confidences])
  BY <1>0, <1>a, <1>c DEF Acts
<1>1. ASSUME NEW a \in Askers, NEW e \in Wants, Fetches(a, e) PROVE EvaluationTypeOK'
  <2>1. [at |-> "get", entry |-> e, price |-> price] \in Places
    BY <1>0 DEF Asked
  <2> HIDE DEF Places
  <2> QED BY <1>1, <1>b, <2>1 DEF Fetches
<1>2. ASSUME NEW a \in Askers, Hits(a) PROVE EvaluationTypeOK'
  <2>1. cached # NoRow /\ asking[a].at = "get" /\ Acts(a, cached) /\ asking' = [asking EXCEPT ![a] = Resting]
        /\ UNCHANGED <<price, cached, moves>>
    BY <1>2 DEF Hits
  <2>2. marked' \subseteq Wants /\ (acted' # NoRow => acted' \in [entry : Wants, price : Prices, confidence : Confidences])
    BY <1>0, <1>c, <2>1
  <2>3. asking' \in [Askers -> Places]
    BY <1>0, <2>1
  <2> QED BY <1>0, <2>1, <2>2, <2>3 DEF EvaluationTypeOK, Verdict
<1>3. ASSUME NEW a \in Askers, Misses(a) PROVE EvaluationTypeOK'
  <2>1. asking[a].at = "get" /\ UNCHANGED <<price, cached, acted, marked, moves>>
        /\ asking' = [asking EXCEPT ![a] = IF Exceeds(asking[a].entry, asking[a].price)
             THEN [at |-> "set", entry |-> asking[a].entry, price |-> asking[a].price, confidence |-> "low"]
             ELSE [asking[a] EXCEPT !.at = "model"]]
    BY <1>3 DEF Misses
  <2>2. [at |-> "set", entry |-> asking[a].entry, price |-> asking[a].price, confidence |-> "low"] \in Places
    BY <1>a, <2>1 DEF Verdict, Confidences
  <2>3. [asking[a] EXCEPT !.at = "model"] \in Places
    <3>1. asking[a] \in Asked
      BY <1>0, <2>1 DEF Verdict, Resting
    <3> QED BY <3>1 DEF Asked
  <2> HIDE DEF Places
  <2> QED BY <1>b, <2>1, <2>2, <2>3
<1>4. ASSUME NEW a \in Askers, Answers(a) PROVE EvaluationTypeOK'
  <2> PICK confidence \in Confidences :
        asking' = [asking EXCEPT ![a] =
          [at |-> "set", entry |-> asking[a].entry, price |-> asking[a].price, confidence |-> confidence]]
    BY <1>4 DEF Answers
  <2>1. asking[a].at = "model" /\ UNCHANGED <<price, cached, acted, marked, moves>>
    BY <1>4 DEF Answers
  <2>2. [at |-> "set", entry |-> asking[a].entry, price |-> asking[a].price, confidence |-> confidence] \in Places
    BY <1>a, <2>1 DEF Verdict
  <2> HIDE DEF Places
  <2> QED BY <1>b, <2>1, <2>2
<1>5. ASSUME NEW a \in Askers, Raises(a) PROVE EvaluationTypeOK'
  BY <1>0, <1>5, <1>b DEF Raises
<1>6. ASSUME NEW a \in Askers, Sets(a) PROVE EvaluationTypeOK'
  <2>1. asking[a].at = "set" /\ Acts(a, asking[a]) /\ asking' = [asking EXCEPT ![a] = Resting]
        /\ UNCHANGED <<price, moves>>
        /\ cached' = [entry |-> asking[a].entry, price |-> asking[a].price,
                      confidence |-> asking[a].confidence, age |-> 0]
    BY <1>6 DEF Sets
  <2>2. marked' \subseteq Wants /\ (acted' # NoRow => acted' \in [entry : Wants, price : Prices, confidence : Confidences])
    BY <1>a, <1>c, <2>1
  <2>3. cached' \in [entry : Wants, price : Prices, confidence : Confidences, age : 0..MaxAge]
    BY <1>a, <2>1, EvaluationAssumption
  <2>4. asking' \in [Askers -> Places]
    BY <1>0, <2>1
  <2> QED BY <1>0, <2>1, <2>2, <2>3, <2>4 DEF EvaluationTypeOK, Verdict
<1>7. CASE PriceChanges
  <2>1. moves' \in 0..MaxMoves /\ price' \in Prices /\ UNCHANGED <<cached, asking, acted, marked>>
    BY <1>0, <1>7, EvaluationAssumption DEF PriceChanges
  <2> QED BY <1>0, <2>1 DEF EvaluationTypeOK, Verdict
<1>8. CASE RowAges
  <2>1. cached # NoRow /\ cached' = [cached EXCEPT !.age = IF @ < MaxAge THEN @ + 1 ELSE @]
        /\ UNCHANGED <<price, asking, acted, marked, moves>>
    BY <1>8 DEF RowAges
  <2>2. cached' \in [entry : Wants, price : Prices, confidence : Confidences, age : 0..MaxAge]
    BY <1>0, <2>1, EvaluationAssumption
  <2> QED BY <1>0, <2>1, <2>2 DEF EvaluationTypeOK, Verdict
<1>9. CASE UNCHANGED evaluationVars
  BY <1>9 DEF EvaluationTypeOK, evaluationVars
<1> QED BY <1>1, <1>2, <1>3, <1>4, <1>5, <1>6, <1>7, <1>8, <1>9 DEF EvaluationNext

\* Evaluations, cached rows and verdicts are of their types.
LEMMA EvaluationTypes == EvaluationSpec => []EvaluationTypeOK
<1>1. EvaluationInit => EvaluationTypeOK
  BY EvaluationAssumption DEF EvaluationInit, EvaluationTypeOK
<1> QED BY <1>1, EvaluationTypeStep, PTL DEF EvaluationSpec

(***************************************************************************)
(* The start of the daemon, and the files it reads.  What init has still   *)
(* to copy has a template.                                                 *)
(***************************************************************************)
WithTemplate == {"env", "wishlist", "config"}

StartupTyped == StartupInv /\ StartupTypeOK /\ scaffold \in Seq(WithTemplate)

\* A template is a file that the loaders know, in one of its outcomes.
LEMMA TemplatesAreOutcomes ==
  /\ WithTemplate \subseteq Files /\ Templates \in Seq(WithTemplate)
  /\ \A f \in WithTemplate : TemplateOf[f] \in FileOutcomes[f]
BY TheFiles DEF WithTemplate, Templates, TemplateOf, FileOutcomes, KeysIn, Providers

\* A change of a file to one of its outcomes keeps the types of the files.
LEMMA ChangeKeepsTypes ==
  ASSUME StartupTyped, NEW f \in Files, NEW content \in FileOutcomes[f], Changes(f, content)
  PROVE  /\ DOMAIN files' = Files /\ \A g \in Files : files'[g] \in FileOutcomes[g]
         /\ judged' \subseteq {"env", "config", "wishlist"}
<1>1. files' = [files EXCEPT ![f] = content] /\ judged' \subseteq judged
  BY DEF Changes
<1>2. ASSUME NEW g \in Files PROVE files'[g] \in FileOutcomes[g]
  <2>1. CASE g = f
    BY <1>1, <2>1 DEF StartupTyped, StartupTypeOK
  <2>2. CASE g # f
    BY <1>1, <2>2 DEF StartupTyped, StartupTypeOK
  <2> QED BY <2>1, <2>2
<1> QED BY <1>1, <1>2 DEF StartupTyped, StartupTypeOK

\* Every step of init, of a validation, an edit, a login or a start keeps the types.
LEMMA StartupTypeStep == StartupTyped /\ [StartupNext]_startupVars => StartupTyped'
<1> SUFFICES ASSUME StartupTyped, [StartupNext]_startupVars PROVE StartupTyped'
  OBVIOUS
<1>1. StartupInv'
  BY StartupInvStep DEF StartupTyped
<1> DEFINE TypesStay == /\ DOMAIN files' = Files /\ \A f \in Files : files'[f] \in FileOutcomes[f]
                        /\ scaffold' \in Seq(WithTemplate)
                        /\ judged' \subseteq {"env", "config", "wishlist"}
                        /\ apart' \in BOOLEAN /\ edits' \in 0..MaxEdits
<1>2. ASSUME TypesStay PROVE StartupTyped'
  <2>1. /\ start'.at \in {"off", "config", "wishlist", "evaluator", "jobs", "serving", "exited"}
        /\ start'.keys \subseteq Keys /\ start'.provider \in Providers
        /\ start'.jobs \subseteq {"wallapop", "ebay"} /\ start'.steady \in BOOLEAN
    BY <1>1 DEF StartupInv, StartRecord
  <2>2. Seq(WithTemplate) \subseteq Seq(Files)
    BY TemplatesAreOutcomes
  <2> QED BY <1>1, <1>2, <2>1, <2>2 DEF StartupTyped, StartupTypeOK
<1>3. /\ DOMAIN files = Files /\ \A f \in Files : files[f] \in FileOutcomes[f]
      /\ scaffold \in Seq(WithTemplate) /\ judged \subseteq {"env", "config", "wishlist"}
      /\ apart \in BOOLEAN /\ edits \in 0..MaxEdits
  BY DEF StartupTyped, StartupTypeOK
<1>4. CASE UNCHANGED <<files, scaffold, judged, apart, edits>>
  BY <1>2, <1>3, <1>4
<1>5. CASE InitKilled \/ \E force, token \in BOOLEAN : InitBegins(force, token)
  <2>1. scaffold' \in {<<>>, Templates} /\ UNCHANGED <<files, judged, apart, edits>>
    BY <1>5 DEF InitKilled, InitBegins
  <2>2. scaffold' \in Seq(WithTemplate)
    <3>1. <<>> \in Seq(WithTemplate)
      OBVIOUS
    <3> QED BY <2>1, <3>1, TemplatesAreOutcomes
  <2> QED BY <1>2, <1>3, <2>1, <2>2
<1>6. CASE InitCopies
  <2>1. /\ scaffold # <<>> /\ Changes(Head(scaffold), TemplateOf[Head(scaffold)])
        /\ scaffold' = Tail(scaffold) /\ UNCHANGED <<apart, edits>>
    BY <1>6 DEF InitCopies
  <2>2. Head(scaffold) \in WithTemplate /\ scaffold' \in Seq(WithTemplate)
    BY <1>3, <2>1
  <2>3. Head(scaffold) \in Files /\ TemplateOf[Head(scaffold)] \in FileOutcomes[Head(scaffold)]
    BY <2>2, TemplatesAreOutcomes
  <2> QED BY <1>2, <1>3, <2>1, <2>2, <2>3, ChangeKeepsTypes
<1>7. CASE Validates
  <2>1. judged' \subseteq {"env", "config", "wishlist"} /\ UNCHANGED <<files, scaffold, apart, edits>>
    BY <1>3, <1>7 DEF Validates
  <2> QED BY <1>2, <1>3, <2>1
<1>8. CASE LoginWallapop \/ LoginEbayFile \/ \E f \in Files : Edit(f)
  <2>1. edits < MaxEdits /\ edits' = edits + 1 /\ UNCHANGED <<scaffold, apart>>
    BY <1>8 DEF LoginWallapop, LoginEbayFile, Edit
  <2>2. edits' \in 0..MaxEdits
    BY <1>3, <2>1, StartupAssumption
  <2>3. \E f \in Files : \E content \in FileOutcomes[f] : Changes(f, content)
    <3>1. /\ "wallapop" \in Files /\ "good" \in FileOutcomes["wallapop"]
          /\ "ebay" \in Files /\ "good" \in FileOutcomes["ebay"]
      BY TheFiles DEF FileOutcomes
    <3> QED BY <1>8, <3>1 DEF LoginWallapop, LoginEbayFile, Edit
  <2> QED BY <1>2, <1>3, <2>1, <2>2, <2>3, ChangeKeepsTypes
<1>9. CASE LoadEnv \/ LoadConfig \/ LoadWishlist \/ BuildEvaluator \/ BuildJobs \/ Restarts \/ UNCHANGED startupVars
  BY <1>4, <1>9 DEF LoadEnv, LoadConfig, LoadWishlist, BuildEvaluator, BuildJobs, Restarts, StartStep, startupVars
<1> QED BY <1>5, <1>6, <1>7, <1>8, <1>9 DEF StartupNext

\* The files and the start are of their types at first.
LEMMA StartupTypesInit == StartupInit => StartupTyped
<1> SUFFICES ASSUME StartupInit PROVE StartupTyped
  OBVIOUS
<1>1. StartupInv
  BY TheFiles DEF StartupInit, StartupInv, StartRecord, NoStart, Providers, ExitCode, JudgedLoads, ValidatedStarts
<1>2. \A f \in Files : "absent" \in FileOutcomes[f]
  BY TheFiles DEF FileOutcomes
<1>3. scaffold \in Seq(WithTemplate) /\ scaffold \in Seq(Files)
  BY DEF StartupInit
<1> QED BY <1>1, <1>2, <1>3, StartupAssumption
        DEF StartupTyped, StartupTypeOK, StartupInit, NoStart, Providers, Keys

(***************************************************************************)
(* The credential files.                                                   *)
(***************************************************************************)
CredentialTyped ==
  /\ CredentialInv
  /\ saver \in [Savers -> {"off", "part", "whole", "renamed"}]
  /\ tokens \in [there : BOOLEAN, whole : BOOLEAN, private : BOOLEAN]

\* Every step of a login or of a save of tokens keeps the types.
LEMMA CredentialTypeStep == CredentialTyped /\ [CredentialNext]_credentialVars => CredentialTyped'
<1> SUFFICES ASSUME CredentialTyped, [CredentialNext]_credentialVars PROVE CredentialTyped'
  OBVIOUS
<1>1. CredentialInv'
  BY CredentialInvStep DEF CredentialTyped
<1>2. CASE UNCHANGED saving
  BY <1>1, <1>2 DEF CredentialTyped, saving
<1>3. CASE \/ LoginOpens \/ LoginCaptures \/ LoginWrites \/ LoginRestricts \/ LoginRenames
           \/ LoginEnds \/ LoginKilled \/ UNCHANGED credentialVars
  BY <1>2, <1>3 DEF LoginOpens, LoginCaptures, LoginWrites, LoginRestricts, LoginRenames, LoginEnds,
                    LoginKilled, credentialVars, saving
<1>4. ASSUME NEW s \in Savers, SaveOpens(s) \/ SaveSyncs(s) \/ SaveRenames(s) \/ SaveEnds(s)
      PROVE  CredentialTyped'
  <2>1. /\ \E to \in {"off", "part", "whole", "renamed"} : saver' = [saver EXCEPT ![s] = to]
        /\ tokens' \in {tokens, [there |-> TRUE, whole |-> TRUE, private |-> TRUE]}
    BY <1>4 DEF SaveOpens, SaveSyncs, SaveRenames, SaveEnds
  <2>2. saver' \in [Savers -> {"off", "part", "whole", "renamed"}]
    BY <2>1 DEF CredentialTyped
  <2>3. tokens' \in [there : BOOLEAN, whole : BOOLEAN, private : BOOLEAN]
    <3>1. tokens \in [there : BOOLEAN, whole : BOOLEAN, private : BOOLEAN]
      BY DEF CredentialTyped
    <3>2. [there |-> TRUE, whole |-> TRUE, private |-> TRUE] \in [there : BOOLEAN, whole : BOOLEAN, private : BOOLEAN]
      OBVIOUS
    <3> QED BY <2>1, <3>1, <3>2, Zenon
  <2> QED BY <1>1, <2>2, <2>3 DEF CredentialTyped
<1> QED BY <1>3, <1>4 DEF CredentialNext

\* The credential files are of their types at first.
LEMMA CredentialTypesInit == CredentialInit => CredentialTyped
<1> SUFFICES ASSUME CredentialInit PROVE CredentialTyped
  OBVIOUS
<1>1. NoFile \in JarFile /\ NoFile.whole /\ NoFile.private
  BY DEF NoFile, JarFile
<1>2. tokens \in [there : BOOLEAN, whole : BOOLEAN, private : BOOLEAN] /\ tokens.whole /\ tokens.private
  BY DEF CredentialInit
<1> QED BY <1>1, <1>2 DEF CredentialInit, CredentialTyped, CredentialInv, ReadersSeeWhole, LoginOff

(***************************************************************************)
(* test-search.  While a target is searched and judged it is the first of  *)
(* those that are left.                                                    *)
(***************************************************************************)
TestSearchTyped == TestSearchTypeOK /\ (stage \in {"search", "judge"} => left # <<>>)

\* Every step of test-search keeps the types.
LEMMA TestSearchTypeStep == TestSearchTyped /\ [TestSearchNext]_testSearchVars => TestSearchTyped'
<1> SUFFICES ASSUME TestSearchTyped, [TestSearchNext]_testSearchVars PROVE TestSearchTyped'
  OBVIOUS
<1> DEFINE Targets == {"wallapop", "ebay"}
<1> USE TestSearchAssumption DEF TestSearchTyped, TestSearchTypeOK, commandLine
<1>1. ASSUME left # <<>> PROVE Head(left) \in Targets /\ Tail(left) \in Seq(Targets)
  BY <1>1
<1>2. CASE Parses
  <2>1. Markets \in Seq(Targets) /\ <<"wallapop">> \in Seq(Targets) /\ <<"ebay">> \in Seq(Targets)
    BY DEF Markets
  <2>2. left' \in Seq(Targets)
    <3>1. left' \in {left, Markets, <<asked.market>>} /\ (left' = <<asked.market>> => asked.market \in Targets \/ left' \in {left, Markets})
      BY <1>2 DEF Parses
    <3> QED BY <2>1, <3>1
  <2>3. stage' \in {"market", "over"} /\ code' \in {0, 1, 2}
    BY <1>2 DEF Parses
  <2> QED BY <1>2, <2>2, <2>3 DEF Parses
<1>3. CASE Opens
  <2>1. stage' \in {"market", "search", "over"} /\ code' \in {code, 1}
    BY <1>3 DEF Opens
  <2>2. left' \in Seq(Targets) /\ gaps' \subseteq Targets /\ (stage' = "search" => left' # <<>>)
    BY <1>1, <1>3 DEF Opens
  <2> QED BY <1>3, <2>1, <2>2 DEF Opens
<1>4. CASE Searches
  <2>1. stage = "search" /\ UNCHANGED <<asked, there, found, limited>>
    BY <1>4 DEF Searches
  <2>2. \/ todo' \in 0..MaxListings /\ stage' = "judge" /\ UNCHANGED <<left, gaps, code>>
        \/ stage' = "over" /\ code' = 1 /\ UNCHANGED <<left, gaps, todo>>
        \/ gaps' = gaps \cup {Head(left)} /\ left' = Tail(left) /\ stage' = "market" /\ UNCHANGED <<todo, code>>
    BY <1>4 DEF Searches
  <2> QED BY <1>1, <2>1, <2>2
<1>5. CASE Judges
  <2>1. stage = "judge" /\ todo > 0 /\ UNCHANGED <<asked, there, left, gaps>>
    BY <1>5 DEF Judges
  <2>2. \/ todo' = todo - 1 /\ found' = found + 1 /\ limited' \in {limited, TRUE} /\ UNCHANGED <<stage, code>>
        \/ stage' = "over" /\ code' = 1 /\ UNCHANGED <<todo, found, limited>>
    BY <1>5 DEF Judges
  <2>3. todo \in 0..MaxListings /\ found \in Nat
    OBVIOUS
  <2>4. todo' \in {todo, todo - 1} /\ found' \in {found, found + 1}
    BY <2>2
  <2>5. todo' \in 0..MaxListings /\ found' \in Nat
    BY <2>1, <2>3, <2>4
  <2> QED BY <2>1, <2>2, <2>5
<1>6. CASE LeavesMarket
  BY <1>1, <1>6 DEF LeavesMarket
<1>7. CASE Prints
  BY <1>7 DEF Prints
<1>8. CASE UNCHANGED testSearchVars
  BY <1>8 DEF testSearchVars
<1> QED BY <1>2, <1>3, <1>4, <1>5, <1>6, <1>7, <1>8 DEF TestSearchNext

(***************************************************************************)
(* health.                                                                 *)
(***************************************************************************)
\* Every step of the daemon, its files and the clock keeps the types of health.
LEMMA HealthTypeStep == HealthTypeOK /\ [HealthNext]_healthVars => HealthTypeOK'
<1> SUFFICES ASSUME HealthTypeOK, [HealthNext]_healthVars PROVE HealthTypeOK'
  OBVIOUS
<1> USE HealthAssumption DEF HealthTypeOK, rowsVars
<1>1. /\ "wallapop" \in Marketplaces
      /\ StaleAfter \in Nat /\ 0 \in 0..Never /\ \A age \in 0..Never : age <= StaleAfter => age + 1 \in 0..Never
  BY DEF Marketplaces, StaleAfter, Never
<1>2. CASE Boots
  BY <1>2 DEF Boots
<1>3. CASE DaemonGone
  BY <1>3 DEF DaemonGone
<1>4. ASSUME NEW m \in Marketplaces, CycleBegins(m) PROVE HealthTypeOK'
  BY <1>4 DEF CycleBegins
<1>5. ASSUME NEW m \in Marketplaces, CycleEnds(m) PROVE HealthTypeOK'
  <2>1. polled' \in [Marketplaces -> 0..Never]
    BY <1>1, <1>5 DEF CycleEnds
  <2> QED BY <1>5, <2>1 DEF CycleEnds
<1>6. ASSUME NEW m \in Marketplaces, CycleRaises(m) PROVE HealthTypeOK'
  BY <1>6 DEF CycleRaises
<1>7. CASE LatchMoves
  BY <1>7 DEF LatchMoves
<1>8. CASE WritesStatus
  BY <1>8 DEF WritesStatus
<1>9. CASE StatusFails
  BY <1>9 DEF StatusFails
<1>10. CASE PidPasses
  BY <1>10 DEF PidPasses
<1>11. CASE CredentialMoves
  BY <1>11 DEF CredentialMoves
<1>12. CASE PollsAge
  <2>1. ASSUME NEW m \in Marketplaces
        PROVE  (IF polled[m] > StaleAfter THEN polled[m] ELSE polled[m] + 1) \in 0..Never
    <3>1. polled[m] \in 0..Never
      OBVIOUS
    <3> QED BY <1>1, <3>1
  <2>2. polled' \in [Marketplaces -> 0..Never]
    BY <1>12, <2>1 DEF PollsAge
  <2> QED BY <1>12, <2>2 DEF PollsAge
<1>13. CASE UNCHANGED healthVars
  BY <1>13 DEF healthVars
<1> QED BY <1>2, <1>3, <1>4, <1>5, <1>6, <1>7, <1>8, <1>9, <1>10, <1>11, <1>12, <1>13 DEF HealthNext

(***************************************************************************)
(* The chat.                                                               *)
(***************************************************************************)
ChatTyped == ChatInv /\ ChatTypeOK

Tap == [at : {"idle", "parse", "record", "lookup", "snooze", "badge", "over", "raised"},
        verb : Verbs \cup {"ack", "noop"}, copy : Copies]

\* A tap that moves on keeps its type.
LEMMA TapTyped ==
  ASSUME ChatTyped, NEW h \in Hands, NEW to, hand' = [hand EXCEPT ![h].at = to],
         to \in {"parse", "record", "lookup", "snooze", "badge", "over", "raised"}
  PROVE  hand' \in [Hands -> Tap]
<1>1. hand \in [Hands -> Tap]
  BY DEF ChatTyped, ChatTypeOK, Tap
<1>2. [hand[h] EXCEPT !.at = to] \in Tap
  <2>1. hand[h] \in Tap
    BY <1>1
  <2> QED BY <2>1 DEF Tap
<1> QED BY <1>1, <1>2

\* Every step of a send, of the poll loop and of a tap keeps the types.
LEMMA ChatTypeStep == ChatTyped /\ [ChatNext]_chatVars => ChatTyped'
<1> SUFFICES ASSUME ChatTyped, [ChatNext]_chatVars PROVE ChatTyped'
  OBVIOUS
<1>1. ChatInv'
  BY ChatInvStep DEF ChatTyped
<1>2. /\ try \in Copies /\ delivery \in {"trying", "sent", "failed"}
      /\ on \in [Copies -> {"none", "offer"} \cup Verbs] /\ hand \in [Hands -> Tap]
      /\ stored \in BOOLEAN /\ snoozed \in BOOLEAN /\ logged \subseteq Verbs \X Copies
      /\ unlinked \subseteq Hands /\ begunBuys \subseteq Hands
  BY DEF ChatTyped, ChatTypeOK, Tap
<1>3. try' \in Copies /\ unlinked' \subseteq Hands
  BY <1>1 DEF ChatInv
<1>4. SUFFICES ASSUME TRUE PROVE
      /\ delivery' \in {"trying", "sent", "failed"}
      /\ on' \in [Copies -> {"none", "offer"} \cup Verbs] /\ hand' \in [Hands -> Tap]
      /\ stored' \in BOOLEAN /\ snoozed' \in BOOLEAN /\ logged' \subseteq Verbs \X Copies
      /\ begunBuys' \subseteq Hands
  BY <1>1, <1>3 DEF ChatTyped, ChatTypeOK, Tap
<1>5. CASE Sends \/ TriesAgain \/ GivesUp \/ StoresSnapshot \/ UNCHANGED chatVars
  <2>1. on' \in {on, [on EXCEPT ![try] = "offer"]} /\ UNCHANGED handlerVars
    BY <1>5 DEF Sends, TriesAgain, GivesUp, StoresSnapshot, Arrives, chatVars
  <2>2. on' \in [Copies -> {"none", "offer"} \cup Verbs]
    BY <1>2, <2>1
  <2>3. delivery' \in {delivery, "sent", "failed"} /\ stored' \in {stored, TRUE}
    BY <1>5 DEF Sends, TriesAgain, GivesUp, StoresSnapshot, chatVars
  <2> QED BY <1>2, <2>1, <2>2, <2>3 DEF handlerVars
<1>6. ASSUME NEW h \in Hands, NEW c \in Copies, NEW v \in Offered \cup {"ack", "noop"}, Presses(h, c, v)
      PROVE  hand' \in [Hands -> Tap] /\ UNCHANGED <<delivery, on, stored, snoozed, logged, begunBuys>>
  <2>1. [at |-> "parse", verb |-> v, copy |-> c] \in Tap
    BY ChatAssumption DEF Tap
  <2> QED BY <1>2, <1>6, <2>1 DEF Presses
<1>7. ASSUME NEW h \in Hands, Handles(h)
      PROVE  /\ hand' \in [Hands -> Tap]
             /\ UNCHANGED <<delivery, stored>> /\ snoozed' \in {snoozed, TRUE}
             /\ logged' \in {logged, logged \cup {<<hand[h].verb, hand[h].copy>>}}
             /\ begunBuys' \in {begunBuys, begunBuys \cup {h}}
             /\ on' \in {on, [on EXCEPT ![hand[h].copy] = hand[h].verb]}
             /\ (logged' # logged \/ on' # on => hand[h].at \in {"record", "badge"})
  <2>1. \E to \in {"parse", "record", "lookup", "snooze", "badge", "over", "raised"} : hand' = [hand EXCEPT ![h].at = to]
    BY <1>7 DEF Handles, Moves, ParsesTap, RecordsTap, LooksUp, SetsSnooze, Badges, HandlerFails
  <2>2. hand' \in [Hands -> Tap]
    BY <2>1, TapTyped
  <2>3. CASE ParsesTap(h) \/ RecordsTap(h) \/ LooksUp(h) \/ SetsSnooze(h)
    BY <2>2, <2>3 DEF Moves, ParsesTap, RecordsTap, LooksUp, SetsSnooze
  <2>4. CASE Badges(h) \/ HandlerFails(h)
    BY <2>2, <2>4 DEF Moves, Badges, HandlerFails
  <2> QED BY <1>7, <2>3, <2>4 DEF Handles
<1>8. ASSUME NEW h \in Hands, Handles(h)
      PROVE  logged' \subseteq Verbs \X Copies /\ on' \in [Copies -> {"none", "offer"} \cup Verbs]
  <2>1. TapInv(h)
    BY DEF ChatTyped, ChatInv
  <2>2. hand[h].at \in {"record", "badge"} => hand[h].verb \in Verbs /\ hand[h].copy \in Copies
    BY <2>1 DEF TapInv
  <2>3. logged' \subseteq Verbs \X Copies
    <3>1. CASE logged' = logged
      BY <1>2, <3>1
    <3>2. CASE logged' # logged
      <4>1. hand[h].at \in {"record", "badge"} /\ logged' = logged \cup {<<hand[h].verb, hand[h].copy>>}
        BY <1>7, <1>8, <3>2
      <4>2. <<hand[h].verb, hand[h].copy>> \in Verbs \X Copies
        BY <2>2, <4>1
      <4> QED BY <1>2, <4>1, <4>2
    <3> QED BY <3>1, <3>2
  <2>4. on' \in [Copies -> {"none", "offer"} \cup Verbs]
    <3>1. CASE on' = on
      BY <1>2, <3>1
    <3>2. CASE on' # on
      <4>1. hand[h].verb \in Verbs /\ on' = [on EXCEPT ![hand[h].copy] = hand[h].verb]
        BY <1>7, <1>8, <2>2, <3>2
      <4> QED BY <1>2, <4>1
    <3> QED BY <3>1, <3>2
  <2> QED BY <2>3, <2>4
<1>9. CASE \E h \in Hands : Handles(h)
  <2> PICK h \in Hands : Handles(h)
    BY <1>9
  <2>1. UNCHANGED <<delivery, stored>> /\ snoozed' \in {snoozed, TRUE} /\ begunBuys' \in {begunBuys, begunBuys \cup {h}}
    BY <1>7
  <2>2. stored' \in BOOLEAN /\ snoozed' \in BOOLEAN /\ begunBuys' \subseteq Hands
    BY <1>2, <2>1
  <2> QED BY <1>2, <1>7, <1>8, <2>1, <2>2
<1>10. CASE \E h \in Hands, c \in Copies : \E v \in Offered \cup {"ack", "noop"} : Presses(h, c, v)
  BY <1>2, <1>6, <1>10
<1> QED BY <1>5, <1>9, <1>10 DEF ChatNext

(***************************************************************************)
(* The prices of a buy.                                                    *)
(***************************************************************************)
PriceTyped == PriceInv /\ PriceTypeOK

\* Every step of a buy and of the operator keeps the types of the prices.
LEMMA PriceTypeStep == PriceTyped /\ [PriceNext]_priceVars => PriceTyped'
<1> SUFFICES ASSUME PriceTyped, [PriceNext]_priceVars PROVE PriceTyped'
  OBVIOUS
<1>1. PriceInv' /\ step' \in PriceSteps
  BY PriceInvStep DEF PriceTyped, PriceInv
<1> USE PriceAssumption DEF PriceTypeOK, ceilingVars
<1>2. PriceTypeOK
  BY DEF PriceTyped
<1>3. CASE ChangesCeiling
  BY <1>1, <1>2, <1>3 DEF ChangesCeiling, PriceTyped
<1>4. CASE ChecksCeiling
  BY <1>1, <1>2, <1>4 DEF ChecksCeiling, PriceTyped
<1>5. CASE ChecksSource
  <2>1. crossPrice' \in Amounts \cup {NoAmount}
    BY <1>2, <1>5 DEF ChecksSource
  <2> QED BY <1>1, <1>2, <1>5, <2>1 DEF ChecksSource, PriceTyped
<1>6. CASE AgentPays
  BY <1>1, <1>2, <1>6 DEF AgentPays, PriceTyped
<1>7. CASE ReadsPrice
  <2>1. paid \in Nat
    BY <1>7 DEF PriceTyped, PriceInv, Past, ReadsPrice
  <2>2. \A n \in Nat : n \div Thousand \in Nat
    OBVIOUS
  <2>3. amount' \in Nat \cup {NoAmount}
    BY <1>7, <2>1, <2>2 DEF ReadsPrice, Coerced, Positive
  <2> QED BY <1>1, <1>2, <1>7, <2>3 DEF ReadsPrice, PriceTyped
<1>8. CASE RecordsPrice
  BY <1>1, <1>2, <1>8 DEF RecordsPrice, PriceTyped
<1>9. CASE ChecksReceipt
  <2>1. phase2Off' \in BOOLEAN
    BY <1>9 DEF ChecksReceipt
  <2> QED BY <1>1, <1>2, <1>9, <2>1 DEF ChecksReceipt, PriceTyped
<1>10. CASE Reconciles
  BY <1>1, <1>2, <1>10 DEF Reconciles, PriceTyped
<1>11. CASE UNCHANGED priceVars
  BY <1>1, <1>2, <1>11 DEF priceVars, PriceTyped
<1> QED BY <1>3, <1>4, <1>5, <1>6, <1>7, <1>8, <1>9, <1>10, <1>11 DEF PriceNext

(***************************************************************************)
(* The types of each component, on its own.                                *)
(***************************************************************************)
\* The files of a start, and how far it is, are of their types.
LEMMA StartupTypes == StartupSpec => []StartupTypeOK
<1>1. StartupTyped => StartupTypeOK
  BY DEF StartupTyped
<1> QED BY <1>1, StartupTypesInit, StartupTypeStep, PTL DEF StartupSpec

\* The credential files, and their writers, are of their types.
LEMMA CredentialTypes == CredentialSpec => []CredentialTypeOK
<1>1. CredentialTyped => CredentialTypeOK
  BY DEF CredentialTyped, CredentialTypeOK, CredentialInv, JarFile
<1> QED BY <1>1, CredentialTypesInit, CredentialTypeStep, PTL DEF CredentialSpec

\* A run of test-search is of its type.
LEMMA TestSearchTypes == TestSearchSpec => []TestSearchTypeOK
<1>1. ASSUME TestSearchInit PROVE TestSearchTyped
  <2>1. left \in Seq({"wallapop", "ebay"}) /\ todo \in 0..MaxListings
    BY <1>1, TestSearchAssumption DEF TestSearchInit
  <2>2. /\ asked \in [market : {"any", "wallapop", "ebay", "other"}, evaluate : BOOLEAN, ref : BOOLEAN]
        /\ there \subseteq {"wallapop", "ebay"} /\ stage = "start" /\ found = 0 /\ limited = FALSE
        /\ code = 0 /\ gaps = {}
    BY <1>1 DEF TestSearchInit
  <2> QED BY <2>1, <2>2 DEF TestSearchTyped, TestSearchTypeOK
<1>2. TestSearchTyped => TestSearchTypeOK
  BY DEF TestSearchTyped
<1> QED BY <1>1, <1>2, TestSearchTypeStep, PTL DEF TestSearchSpec

\* What health reads is of its type.
LEMMA HealthTypes == HealthSpec => []HealthTypeOK
<1>1. HealthInit => HealthTypeOK
  <2>1. Never \in 0..Never
    BY HealthAssumption DEF Never, StaleAfter
  <2>2. ASSUME HealthInit
        PROVE  /\ polled \in [Marketplaces -> 0..Never] /\ spentRows \in 0..MaxRows
               /\ cycle \in [Marketplaces -> {"rest", "poll", "ended"}]
    BY <2>1, <2>2, HealthAssumption DEF HealthInit
  <2> QED BY <2>2 DEF HealthInit, HealthTypeOK
<1> QED BY <1>1, HealthTypeStep, PTL DEF HealthSpec

\* An alert in the chat, and the taps on it, are of their types.
LEMMA ChatTypes == ChatSpec => []ChatTypeOK
<1>1. ChatInit => ChatTyped
  <2> SUFFICES ASSUME ChatInit PROVE ChatTyped
    OBVIOUS
  <2>1. ChatInv
    BY ChatAssumption DEF ChatInit, ChatInv, TapInv, CopyInv, NoTap, Copies, Verbs
  <2>2. NoTap \in Tap /\ 0 \in Copies
    BY ChatAssumption DEF NoTap, Tap, Copies, Verbs
  <2>3. on \in [Copies -> {"none", "offer"} \cup Verbs] /\ hand \in [Hands -> Tap]
    BY <2>2 DEF ChatInit
  <2> QED BY <2>1, <2>2, <2>3 DEF ChatTyped, ChatTypeOK, ChatInit, Tap
<1>2. ChatTyped => ChatTypeOK
  BY DEF ChatTyped
<1> QED BY <1>1, <1>2, ChatTypeStep, PTL DEF ChatSpec

\* The prices of a buy are of their types.
LEMMA PriceTypes == PriceSpec => []PriceTypeOK
<1>1. PriceInit => PriceTyped
  <2> SUFFICES ASSUME PriceInit PROVE PriceTyped
    OBVIOUS
  <2>1. alertPrice \in Nat /\ alertCeiling \in Amounts /\ alertPrice \in Amounts /\ ceiling = alertCeiling
    BY PriceAssumption DEF PriceInit
  <2>2. PriceInv
    BY <2>1, PriceAssumption DEF PriceInit, PriceInv, Past, PriceSteps
  <2>3. PriceTypeOK
    <3>1. step \in PriceSteps /\ phase2Off \in BOOLEAN /\ rechecks \subseteq {0, 1, 5}
      BY DEF PriceInit, PriceSteps
    <3>3. changes \in 0..MaxChanges
      BY PriceAssumption DEF PriceInit
    <3>2. gateCeiling = NoAmount /\ crossPrice = NoAmount /\ paid = NoAmount /\ amount = NoAmount
      BY DEF PriceInit
    <3> QED BY <2>1, <3>1, <3>2, <3>3 DEF PriceTypeOK
  <2> QED BY <2>2, <2>3 DEF PriceTyped
<1>2. PriceTyped => PriceTypeOK
  BY DEF PriceTyped
<1> QED BY <1>1, <1>2, PriceTypeStep, PTL DEF PriceSpec

(***************************************************************************)
(* The scenes.  Each step is a step of one component and leaves the others *)
(* alone, so that whatever is proved of a component holds in its scene.    *)
(***************************************************************************)
\* A task of the Buy button is a caller of the reporter.
LEMMA BuyTasksReport == BuyTaskReports => ReporterNext
<1>1. {} \in SUBSET Adapters /\ FALSE \in BOOLEAN
  OBVIOUS
<1> QED BY <1>1, SceneAssumption DEF BuyTaskReports, ReporterNext

\* A step of a scene, seen by the leg and by its reporter.
LEMMA SceneOfLeg ==
  FallbackTypeOK /\ [SceneNext]_sceneVars => FallbackTypeOK' /\ [ReporterNext]_reporterVars
<1> SUFFICES ASSUME FallbackTypeOK, [SceneNext]_sceneVars
             PROVE  FallbackTypeOK' /\ [ReporterNext]_reporterVars
  OBVIOUS
<1>1. \/ FallbackNext
      \/ BuyTaskReports /\ UNCHANGED fallbackVars
      \/ UNCHANGED <<reporterVars, fallbackVars>>
  BY DEF SceneNext, sceneVars, legAndReporter, LegScene, BuyTasksScene, EbayScene, LimiterScene, EvaluationScene,
         StartupScene, CredentialScene, WishlistScene, MigrationScene, TestSearchScene, HealthScene,
         AuditScene, ChatScene, PriceScene
<1>2. CASE FallbackNext \/ UNCHANGED <<reporterVars, fallbackVars>>
  BY <1>2, LegTypeStep, LegStepReports
<1>3. CASE BuyTaskReports /\ UNCHANGED fallbackVars
  BY <1>3, BuyTasksReport DEF FallbackTypeOK, fallbackVars, legVars
<1> QED BY <1>1, <1>2, <1>3

\* A step of a scene, seen by each of the other components.
LEMMA SceneOfOthers ==
  [SceneNext]_sceneVars =>
    /\ [EbayNext]_ebayVars /\ [LimiterNext]_limiterVars /\ [EvaluationNext]_evaluationVars
    /\ [StartupNext]_startupVars /\ [CredentialNext]_credentialVars /\ [WishlistNext]_wishlistVars
    /\ [MigrationNext]_migrationVars /\ [TestSearchNext]_testSearchVars /\ [HealthNext]_healthVars
    /\ [AuditNext]_trailVars /\ [ChatNext]_chatVars /\ [PriceNext]_priceVars
BY DEF SceneNext, sceneVars, LegScene, BuyTasksScene, EbayScene, LimiterScene, EvaluationScene,
       StartupScene, CredentialScene, WishlistScene, MigrationScene, TestSearchScene, HealthScene,
       AuditScene, ChatScene, PriceScene

\* The scenes that TLC looks at are behaviours of the components: what is proved of
\* a component, for every value of its constants, holds in its scene.
THEOREM ScenesAreComponents ==
  SceneSpec =>
    /\ ReporterSpec /\ EbaySpec /\ LimiterSpec /\ EvaluationSpec /\ StartupSpec /\ CredentialSpec
    /\ WishlistSpec /\ MigrationSpec /\ TestSearchSpec /\ HealthSpec /\ TrailSpec /\ ChatSpec /\ PriceSpec
    /\ []FallbackTypeOK
<1>1. SceneInit =>
        /\ ReporterInit /\ EbayInit /\ LimiterInit /\ EvaluationInit /\ StartupInit /\ CredentialInit
        /\ WishlistInit /\ MigrationInit /\ TestSearchInit /\ HealthInit /\ AuditInit /\ ChatInit /\ PriceInit
        /\ FallbackTypeOK
  BY FallbackAssumption DEF SceneInit, FallbackInit, FallbackTypeOK, Fresh, NoSearch
<1> QED
  BY <1>1, SceneOfLeg, SceneOfOthers, PTL
  DEF SceneSpec, ReporterSpec, EbaySpec, LimiterSpec, EvaluationSpec, StartupSpec, CredentialSpec,
      WishlistSpec, MigrationSpec, TestSearchSpec, HealthSpec, TrailSpec, ChatSpec, PriceSpec

\* Whatever the constants, every component keeps to its type in every scene.
THEOREM TypesAreKept == SceneSpec => []TypesOK
<1>1. /\ ReporterInv => ReporterTypeOK
      /\ LimiterInv => LimiterTypeOK
      /\ WishlistInv => WishlistTypeOK
      /\ MigrationInv => MigrationTypeOK
      /\ TrailInv => AuditTypeOK
  BY DEF ReporterInv, LimiterInv, WishlistInv, MigrationInv, TrailInv
<1>2. SceneSpec => [](ReporterTypeOK /\ FallbackTypeOK /\ LimiterTypeOK)
  BY <1>1, ScenesAreComponents, ReporterInvariance, LimiterInvariance, PTL
<1>3. SceneSpec => [](WishlistTypeOK /\ MigrationTypeOK /\ AuditTypeOK)
  BY <1>1, ScenesAreComponents, WishlistInvariance, MigrationInvHolds, TrailInvariance, PTL
<1>4. SceneSpec => [](EbayTypeOK /\ EvaluationTypeOK /\ StartupTypeOK /\ CredentialTypeOK)
  BY ScenesAreComponents, EbayTypes, EvaluationTypes, StartupTypes, CredentialTypes, PTL
<1>5. SceneSpec => [](TestSearchTypeOK /\ HealthTypeOK /\ ChatTypeOK /\ PriceTypeOK)
  BY ScenesAreComponents, TestSearchTypes, HealthTypes, ChatTypes, PriceTypes, PTL
<1> QED BY <1>2, <1>3, <1>4, <1>5, PTL DEF TypesOK
=============================================================================
