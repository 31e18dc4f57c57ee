--------------------------- MODULE MCSurroundings ---------------------------
(***************************************************************************)
(* Small instances, for TLC, of the components around the poll loop and    *)
(* the buy flow.  They keep no state in common, so that a run looks at one *)
(* after the other: the scene, chosen at the start, is the component that  *)
(* moves, while the others stay as they began.                             *)
(***************************************************************************)
EXTENDS WallapopFallback, EbayAccess, RateLimiter, Evaluation,
        Startup, CredentialFiles, WishlistFile, Migrations,
        TestSearch, Health, AuditTrail, Chat, PriceCheck

CONSTANTS
  Scenes,                       \* the components a run looks at
  leg, buy1, buy2,              \* callers of the reporter
  daemon, tester,               \* processes that hold eBay tokens
  poll, explain, w1, w2         \* evaluators of a listing, and wishlist entries

VARIABLE scene

(***************************************************************************)
(* The reporter and the Wallapop leg.  A task of the Buy button reports to *)
(* the same reporter.                                                      *)
(***************************************************************************)
SomeCallers  == {leg, buy1, buy2}
BuyError     == Event("buy_orchestrator_error")
SomeReports  == LegReports \cup {BuyError}
SomeAdapters == {"wallapop_api"}

ASSUME SceneAssumption == BuyError \in Reports

BuyTaskReports ==
  \/ \E c \in Callers \ {Job} : Report(c, BuyError, {}, FALSE) \/ SendStep(c)
  \/ Tick

SomeProcs == {daemon, tester}

\* Two calls more than the bound lets into a period.
FiveCalls == 1..5

(***************************************************************************)
(* The evaluators: two entries, each with one ceiling, so that the dearer  *)
(* price is beyond both.                                                   *)
(***************************************************************************)
SomeAskers == {poll, explain}
TwoWants   == {w1, w2}
SoloTwo    == [e \in {w1, w2} |-> IF e = w1 THEN NoCeiling ELSE 1]
DeviceTwo  == [e \in {w1, w2} |-> IF e = w1 THEN 1 ELSE NoCeiling]
AsksAll    == [a \in {poll, explain} |-> {w1, w2}]
Cheap      == {1, 2}
TimeToLive == [a \in {poll, explain} |-> 1]
ShortLive  == [a \in {poll, explain} |-> 0]

(***************************************************************************)
(* The files and the commands that read them.                              *)
(***************************************************************************)
SomeReleases == {"older", "newer", "again"}
SomeBrings   == [s \in SomeReleases |-> IF s = "older" THEN 1 ELSE 2]

SomeEntry(key, valid, forbidden, enabled) ==
  [key |-> key, valid |-> valid, forbidden |-> forbidden, enabled |-> enabled]

TwoRuns    == {1, 2}
FirstRun   == {1}
TwoEntries == <<SomeEntry(1, TRUE, FALSE, FALSE), SomeEntry(2, TRUE, FALSE, TRUE)>>
Blemished  == {SomeEntry(3, FALSE, FALSE, FALSE), SomeEntry(3, TRUE, TRUE, FALSE),
               SomeEntry(1, TRUE, FALSE, FALSE), SomeEntry(3, TRUE, FALSE, TRUE)}

ZeroOrOne == {0, 1}

TwoTaps    == {"one", "other"}
EveryVerb  == Phase1Row \cup Phase2Row
SomePrices == {0, 2, 4, 7, 8}

(***************************************************************************)
(* One scene at a time.                                                    *)
(***************************************************************************)
legAndReporter == <<reporterVars, fallbackVars>>

SceneInit ==
  /\ scene \in Scenes
  /\ ReporterInit /\ FallbackInit /\ EbayInit /\ LimiterInit /\ EvaluationInit
  /\ StartupInit /\ CredentialInit /\ WishlistInit /\ MigrationInit
  /\ TestSearchInit /\ HealthInit /\ AuditInit /\ ChatInit /\ PriceInit
  /\ scene # "evaluation" => price = 2
  /\ scene # "startup" => ~apart
  /\ scene # "credentials" => ~tokens.there
  /\ scene # "test_search" => asked = [market |-> "any", evaluate |-> FALSE, ref |-> FALSE] /\ there = {}
  /\ scene # "health" => present = {}
  /\ scene # "price" => alertPrice = 0 /\ alertCeiling = 0

LegScene ==
  /\ scene = "leg" /\ FallbackNext
  /\ UNCHANGED <<scene, ebayVars, limiterVars, evaluationVars, startupVars, credentialVars,
                 wishlistVars, migrationVars, testSearchVars, healthVars, trailVars, chatVars, priceVars>>

BuyTasksScene ==
  /\ scene = "buy_tasks" /\ BuyTaskReports
  /\ UNCHANGED <<scene, fallbackVars, ebayVars, limiterVars, evaluationVars, startupVars, credentialVars,
                 wishlistVars, migrationVars, testSearchVars, healthVars, trailVars, chatVars, priceVars>>

EbayScene ==
  /\ scene = "ebay" /\ EbayNext
  /\ UNCHANGED <<scene, legAndReporter, limiterVars, evaluationVars, startupVars, credentialVars,
                 wishlistVars, migrationVars, testSearchVars, healthVars, trailVars, chatVars, priceVars>>

LimiterScene ==
  /\ scene = "limiter" /\ LimiterNext
  /\ UNCHANGED <<scene, legAndReporter, ebayVars, evaluationVars, startupVars, credentialVars,
                 wishlistVars, migrationVars, testSearchVars, healthVars, trailVars, chatVars, priceVars>>

EvaluationScene ==
  /\ scene = "evaluation" /\ EvaluationNext
  /\ UNCHANGED <<scene, legAndReporter, ebayVars, limiterVars, startupVars, credentialVars,
                 wishlistVars, migrationVars, testSearchVars, healthVars, trailVars, chatVars, priceVars>>

StartupScene ==
  /\ scene = "startup" /\ StartupNext
  /\ UNCHANGED <<scene, legAndReporter, ebayVars, limiterVars, evaluationVars, credentialVars,
                 wishlistVars, migrationVars, testSearchVars, healthVars, trailVars, chatVars, priceVars>>

CredentialScene ==
  /\ scene = "credentials" /\ CredentialNext
  /\ UNCHANGED <<scene, legAndReporter, ebayVars, limiterVars, evaluationVars, startupVars,
                 wishlistVars, migrationVars, testSearchVars, healthVars, trailVars, chatVars, priceVars>>

WishlistScene ==
  /\ scene = "wishlist" /\ WishlistNext
  /\ UNCHANGED <<scene, legAndReporter, ebayVars, limiterVars, evaluationVars, startupVars, credentialVars,
                 migrationVars, testSearchVars, healthVars, trailVars, chatVars, priceVars>>

MigrationScene ==
  /\ scene = "migrations" /\ MigrationNext
  /\ UNCHANGED <<scene, legAndReporter, ebayVars, limiterVars, evaluationVars, startupVars, credentialVars,
                 wishlistVars, testSearchVars, healthVars, trailVars, chatVars, priceVars>>

TestSearchScene ==
  /\ scene = "test_search" /\ TestSearchNext
  /\ UNCHANGED <<scene, legAndReporter, ebayVars, limiterVars, evaluationVars, startupVars, credentialVars,
                 wishlistVars, migrationVars, healthVars, trailVars, chatVars, priceVars>>

HealthScene ==
  /\ scene = "health" /\ HealthNext
  /\ UNCHANGED <<scene, legAndReporter, ebayVars, limiterVars, evaluationVars, startupVars, credentialVars,
                 wishlistVars, migrationVars, testSearchVars, trailVars, chatVars, priceVars>>

AuditScene ==
  /\ scene = "audit" /\ AuditNext
  /\ UNCHANGED <<scene, legAndReporter, ebayVars, limiterVars, evaluationVars, startupVars, credentialVars,
                 wishlistVars, migrationVars, testSearchVars, healthVars, chatVars, priceVars>>

ChatScene ==
  /\ scene = "chat" /\ ChatNext
  /\ UNCHANGED <<scene, legAndReporter, ebayVars, limiterVars, evaluationVars, startupVars, credentialVars,
                 wishlistVars, migrationVars, testSearchVars, healthVars, trailVars, priceVars>>

PriceScene ==
  /\ scene = "price" /\ PriceNext
  /\ UNCHANGED <<scene, legAndReporter, ebayVars, limiterVars, evaluationVars, startupVars, credentialVars,
                 wishlistVars, migrationVars, testSearchVars, healthVars, trailVars, chatVars>>

SceneNext ==
  \/ LegScene \/ BuyTasksScene \/ EbayScene \/ LimiterScene \/ EvaluationScene
  \/ StartupScene \/ CredentialScene \/ WishlistScene \/ MigrationScene
  \/ TestSearchScene \/ HealthScene \/ AuditScene \/ ChatScene \/ PriceScene

sceneVars == <<scene, legAndReporter, ebayVars, limiterVars, evaluationVars, startupVars, credentialVars,
               wishlistVars, migrationVars, testSearchVars, healthVars, trailVars, chatVars, priceVars>>

SceneSpec == SceneInit /\ [][SceneNext]_sceneVars

\* The fairness of each component, in its scene.
SceneFairness ==
  /\ WF_legAndReporter(scene = "leg" /\ LegProgress)
  /\ WF_ebayVars(scene = "ebay" /\ EbaySearchStep(Poller))
  /\ SF_ebayVars(scene = "ebay" /\ RefreshAnswered(Poller))
  /\ WF_ebayVars(scene = "ebay" /\ Midnight)
  /\ WF_evaluationVars(scene = "evaluation" /\ \E e \in Wants : Fetches(Poll, e))
  /\ SF_evaluationVars(scene = "evaluation" /\ (Hits(Poll) \/ Misses(Poll)))
  /\ SF_evaluationVars(scene = "evaluation" /\ Answers(Poll))
  /\ SF_evaluationVars(scene = "evaluation" /\ Sets(Poll))
  /\ WF_evaluationVars(scene = "evaluation" /\ RowAges)
  /\ WF_healthVars(scene = "health" /\ PollsAge)

FairScenes == SceneSpec /\ SceneFairness

\* Each component keeps to its type.
TypesOK ==
  /\ ReporterTypeOK /\ FallbackTypeOK /\ EbayTypeOK /\ LimiterTypeOK /\ EvaluationTypeOK
  /\ StartupTypeOK /\ CredentialTypeOK /\ WishlistTypeOK /\ MigrationTypeOK
  /\ TestSearchTypeOK /\ HealthTypeOK /\ AuditTypeOK /\ ChatTypeOK /\ PriceTypeOK
=============================================================================
