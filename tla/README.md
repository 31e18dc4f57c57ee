# Verification project for hardware-hunter (package `salvager`)

`salvager` watches second-hand marketplaces (Wallapop, eBay) for the entries of
an operator's wishlist, lets an LLM judge every new listing, and sends an alert
to Telegram (Phase 1). For entries that opted in, the alert has a Buy button: a
tap makes the daemon re-check the price and let a remote browser agent buy the
listing (Phase 2), guarded by a gate, a circuit breaker, a smoke test of the
price parsers and a global lockout only the operator lifts.

This directory holds TLA+ models of that program, the TLC runs that check them
on small instances, and TLAPS proofs for every instance. Paths below are
relative to the repository; `PROJECT.json` maps every definition to the lines it
models.

## 1. Inventory

| Component | Keeps | Operations | Talks to | Hard behaviour | What makes it correct |
|---|---|---|---|---|---|
| Callback dispatcher (`orchestration/callback_handler.py`) | nothing of its own | `handle`: record the callback, then swap the keyboard and start a buy task, or snooze | store, Telegram, buy orchestrator | two taps before the keyboard is edited; any await may raise | every tap on record before anything happens; one purchase per alert |
| Buy orchestrator (`orchestration/buy_orchestrator.py`) | one task per tap | `execute_buy_from_callback`: snapshot, wishlist, gate, tap row, second price, agent, transaction row, receipt check, breaker, message | everything of Phase 2 | tasks interleave at every await, statements raise, the daemon dies mid-buy | FR26-FR36: no unwarranted agent run, every success on record, a wrong price locks, a task ends in its message |
| Gate (`orchestration/phase2_preflight.py`) | reads the state row | `check` | state reader | what it read is stale afterwards | nobody passes under a lockout |
| Circuit breaker (`orchestration/circuit_breaker.py`, `domain/circuit.py`) | counter and lockout in the row | `record_outcome` | writer, reporter | read, decide, count and lock are separate awaits | counts exactly; locks at the threshold; never unlocks |
| State row and audit tables (`adapters/sqlite_store/audit_writer.py`, `phase2_state_reader.py`) | `phase2_state`, `tap_events`, `transactions`, `phase2_smoke_tests` | one statement per operation | all processes | three processes, autocommit | no lost update |
| Smoke test (`orchestration/smoke_test.py`) | one run | fixture by fixture: parse, record, mirror; then lock or report | state row, reporter | killed between fixtures; the row holds the last fixture, not the run | a failed fixture locks |
| Operator commands (`cli/commands/phase2_cmd.py`) | wishlist.yaml | `enable`, `disable`, `disable --all`, `status`, `smoke-test` | wishlist file, state row | killed between file and row | lifts only what is enabled on disk |
| Browser agent (`adapters/tinyfish_browser/`) | the remote run | `execute_buy` under `wait_for` | marketplace | outlives the wait | a failure message means no order (it does not: see Findings) |
| Reconciliation (`orchestration/reconciler.py`, `domain/reconciliation.py`) | nothing | two comparisons with a tolerance | fetcher | boundaries | the larger tolerance decides |
| Poll loop (`orchestration/poll_loop.py`) and store (`adapters/sqlite_store/store.py`) | `seen_listings`, `alert_snapshots`, snoozes, heartbeat | search, filter, evaluate, send, persist | fetchers, evaluator, Telegram, gate | crash or shutdown between send and persist; failed evaluations retry | no listing lost, one alert and one row for each time a search result lists it, while nothing fails |
| LLM cache (`adapters/llm_cache_sqlite/cache.py`) | evaluations by (url, prompt version) | get, set | evaluator | the key has no entry | serves what was judged for this entry |
| Wallapop fallback (`orchestration/wallapop_fallback.py`) | latch, pending renewal, streak, cookie mtime | `search`: API, else TinyFish | two fetchers, cookie file, reporter | the operator logs in while a search runs; the state outlives cycles, not restarts | the API path comes back after a login; a warning needs two misses |
| Degradation reporter (`orchestration/degradation_reporter.py`, `health_state.py`) | dedup window, degraded adapters | `report` | Telegram | the window is checked, the send awaited, then the window armed | a suppressed report was delivered within the window |
| Scheduler, daemon (`adapters/asyncio_scheduler/`, `orchestration/daemon.py`, `cli/app.py`) | job loops | register, shutdown, signal | poll loop | a signal during a cycle | drains before it closes (it does not: see Findings) |
| eBay adapter (`adapters/ebay_api/`) | token pair, daily quota | search, refresh, save | HTTP, token file | several processes on one file; the quota is charged after an await; midnight | within the budget; a usable pair on disk |
| Wallapop adapters (`adapters/wallapop_api/`, `wallapop_tinyfish/`) | the loaded cookies; the call times | search; allow, record | HTTP, TinyFish | a run takes time between the check and the record | at most a period's calls, and what runs |
| Telegram surface (`adapters/telegram_bot/surface.py`) | nothing | `send` with retries, `edit_keyboard`, `parse_callback` | Bot API | a try that failed may have arrived: several copies of an alert | what a badge says has happened |
| Migrations (`adapters/sqlite_store/migrations.py`, `migrations/`) | tables, schema version, the seeded state row | `run` | SQLite | statements commit one by one; starts overlap; releases differ | a version has its tables; no lock is lifted |
| Wishlist file (`config/wishlist_yaml.py`) | `wishlist.yaml` | load, save, sync | CLI commands, poll, gate | rewritten in place, without a lock | no unconfirmed enabling; no entry lost but one edited in under an open prompt |
| Configuration and start-up (`config/config_yaml.py`, `env.py`, `cli/commands/init_cmd.py`, `validate_config.py`, `validate_wishlist.py`, `orchestration/composer.py`) | the operator's files | init, validate, load, compose | all files | an edit, a login or a kill between two loads | what was validated starts |
| Credential files and logins (`cli/commands/login_*.py`, `adapters/wallapop_browser/`, `adapters/ebay_api/tokens.py`) | `wallapop_cookies.txt`, `oauth_tokens.json` | capture, save | browser, daemon | killed between write, mode and rename | readers see whole, private files |
| LLM adapters (`adapters/llm_gemini/`, `adapters/llm_claude/`) | nothing | budget guard, ask, validate | LLM | an error leaves nothing in the cache | a find is judged |
| `test-search` (`cli/commands/test_search_cmd.py`) | one run | search each market, judge | fetchers, evaluator | one market fails, the other goes on | what is missing is said |
| `health` (`cli/commands/health_cmd.py`) | nothing | read `_meta` and files | daemon, by `_meta` alone | the daemon hangs, dies, returns between its writes | a healthy row was earned |
| `audit` (`cli/commands/audit_cmd.py`) | nothing | read three tables, filter, sort, cut | store | rows written or changed between the reads, stamped earlier; a read that fails | all that was asked for, or nothing |
| Alert rendering and value types (`domain/`) | - | pure | - | - | the ceiling, the buttons and the promise of a message |

How they meet: the daemon is one asyncio process, so its handlers, buy tasks and
poll jobs interleave at awaits; SQLite statements run in worker threads behind
one write lock per object and commit one by one. The CLI and the smoke test run
in processes of their own on the same database and wishlist file. The TinyFish
agent is remote. The production composer (`orchestration/composer.py`) wires
Phase 1; Phase 2 is composed in the tests and, for the smoke test, in the CLI.
No code in the repository reads Telegram updates and calls `handle`, so whether
two handlers of one chat may overlap is left open: the model lets them.

## 2. Modules

| Module | Models | How its state and actions correspond |
|---|---|---|
| `Phase2State` | the `phase2_state` row, `phase2.enabled` of each entry | `row` has `disabled`, `failures`, `smoke`; one operator per SQL statement (`Disabled`, `DisableCleared`, `Incremented`, `CounterReset`, `Mirrored`); `GateOpen` is the state half of the gate, `JustOpened` is `compute_next_state` |
| `CircuitBreaker` | `record_outcome` | `brk[t]` is the call in progress for a tap: `BrkRead` (decides on what it read), `BrkCount`, `BrkLock`, `BrkReport`, `BrkRaise` |
| `BuyFlow` | dispatcher, buy orchestrator, remote agent, snapshot persistence, daemon crash | `pc[t]` names the await a tap's handling stands at; one action per step of the code, with its error paths; audit tables are sets of taps; `agent`, `ordered` are the world outside |
| `OperatorCli` | `enable`, `disable`, `disable --all` | `cli.at`: save, then clear and reset, or lock; `CliKilled` between any two |
| `SmokeTest` | `run_smoke_test` | `smoke` is the run in progress, `lastRun` what the last complete run found |
| `Phase2Guard` | nothing: the abstract specification | locked, enabling, admitted, ordered |
| `Phase2` | the composition, its fairness and properties | each process's steps with the others' variables unchanged; `lifted` is a history variable |
| `PriceCheck` | the ceiling, the second price, the amount paid and `compute_tolerance` of one buy | `alertPrice`, `alertCeiling` are the snapshot's, `ceiling` the wishlist's; exact arithmetic over small amounts |
| `Chat` | `send` with its retries, the buttons under each copy of an alert, `parse_callback` and the dispatcher's handler per verb | `on[c]` is the row under copy `c`; `hand[h]` is a tap and the await its handling stands at |
| `MCPhase2` | the instances for TLC | one or two taps on one alert, one or two entries |
| `Phase2Proofs` | theorems and proofs about `Phase2` | see section 5 |
| `PollLoop` | `run_poll_cycle`, the store's Phase 1 tables, the LLM cache, a Telegram send, the Snooze tap | `job[j]` is the cycle under way: its stage (named for the next await), the position in the wishlist, how many copies of each listing of the batch are not yet judged, matched, declined, and the one in hand; `seen`, `snaps`, `snoozed`, `cache` are the tables; `alerts` is the user's screen |
| `DaemonLifecycle` | `_job_loop`, signal handler, `Daemon.shutdown`, `_serve`, `asyncio.run`'s end | `drain` is the signal handler's task, `main` the main coroutine, `over` the loops that returned; a crash leaves the process `dead` and the supervisor restarts it (`Restart`), a signal leaves it `stopped` until the operator does (`Start`) |
| `Watch` | the composition: Phase 1, its fairness and properties | jobs, process and market interleave |
| `MCWatch` | the instances for TLC | one job, one or two listings, two entries |
| `WatchProofs` | theorems and proofs about `Watch` | see section 5 |
| `Evaluation` | the query of a poll, the cache with each process's time-to-lives, the evaluators' budget guard and answer, `explain` | `asker[a]` goes fetch, get, ask, set; the seller changes the price in between |
| `DegradationReporter` | `report` and the health state | check, send and arm are steps, and a slow delivery may follow a later one; time is kept as ages up to `Window`; ghosts: `recent`, what each caller delivered, and `overtaken` |
| `WallapopFallback` | `WallapopFallbackFetcher.search`, the cookie file, restarts | `search` names the await; `health` is `WallapopHealth`; `jar` is what the API fetcher has loaded |
| `RateLimiter` | the sliding window around a TinyFish run | calls have names: `running` are those under way, `events[k]` is the age of a call's record in the deque, `begun[k]` (ghost) that of its beginning |
| `EbayAccess` | the token file, a fetcher and a quota per process, `login ebay` | a pair is two generation numbers; refresh, save and charge are steps |
| `Startup` | init, the validate commands, the order in which a start loads and composes, exit codes | a file is known by what its loader makes of it |
| `CredentialFiles` | the capture and the two write-then-rename saves | temporary file, mode, rename are steps; `Killed` between any two |
| `WishlistFile` | `load_wishlist`, `save_wishlist` in place, enable and disable around a prompt | `text` is a document or torn; `EditAdds` is the operator's editor, also while a command waits; ghosts: `promised`, the entries that no save has overwritten unread, and `unread[c]`, those edited in since command `c` loaded |
| `Migrations` | `MigrationRunner.run` | `applied` statement by statement; the version after the script |
| `TestSearch` | `test-search` and the fetchers' outcome classes | `stage`, the targets left, the notes and the exit code |
| `Health` | the daemon's writes to `_meta`, the files, and the rows `health` derives | `polled` are ages; `RowsOf` is what the command shows |
| `AuditTrail` | `audit show` and `export` beside a daemon that writes | a read per table, each of which may fail; a row is stamped before it is written; a sighting replaces that of the same listing (`Writes`); a sort yields any of the orders that fit the stamps (`OldestFirst`, `NewestFirst`) |
| `MCSurroundings` | the instances of `PriceCheck`, `Chat` and the twelve modules just above | they share no state, so `scene`, chosen at the start, is the one that moves while the others rest |
| `MCLive` | liveness: `Phase2` as one more scene | see section 4 |
| `FilesProofs`, `AccessProofs`, `AlertProofs`, `ReporterProofs`, `CommandProofs`, `TypeProofs` | theorems and proofs about these modules and their scenes | see section 5 |

Abstractions. Prices, listings and texts are reduced to what the control flow
tells apart: a comparison passes, trips or raises; a message is success, failure
or maybe (the `screenshot_missing` text that says the purchase may have gone
through). `disabled_reason` and timestamps are display data; the smoke result
and its age are one value (`never`, `pass`, `stale`, `fail`). The per-entry
refusals of the gate other than the switch (ceiling, price, confidence) may
always happen in `BuyFlow`; `PriceCheck` has the ceiling's. `record_smoke_test` inserts a history row and then updates the
mirror; only the mirror is modelled, as nothing reads the history back into a
decision. A failing statement writes nothing; a report or a message that cannot
be sent is logged by the code and changes nothing. The agent that reports a
completed purchase with price, receipt and screenshot is believed
(`BuySucceeds` needs an order); one that reports anything else may have ordered.
A remote agent outlives the wait for it and the daemon.

In `PollLoop` an evaluation passes the entry's confidence threshold or it does
not, and the LLM gives one answer per listing and entry; a search returns all
that is on sale, each listing once or several times (`Copies` bounds it): nobody
merges the copies, and each is judged, alerted and marked for itself. A statement of an open connection may raise (a mishap), one
of a closed connection raises. The evaluations of a batch run concurrently and
are gathered before the first alert; the semaphore of eight only limits how many
run, which no property depends on. Reading the snooze and entering the search,
and the checks of `is_seen` after a search, are one step each: only the cycle
itself writes the seen marks of its marketplace's listings.

In the modules around these two flows: a document's field is valid, forbidden or
switched on; a credential file is there, whole, private; an HTTP answer is the
class of outcome the code maps it to; time is ticks, kept as ages up to the
largest age a comparison tells apart. Several have ghosts that the code
does not keep (`recent`, `begun`, `renewals` and the like, marked in the
modules): a property compares what the code believes with what happened.
`Evaluation` and `WishlistFile` look at one listing and one document.
`PriceCheck` divides by `Thousand` where the code reads a point between digits as
the decimal point. The details of a module's abstraction are in its header.

Assumptions on the environment: the operator runs one command at a time and one
smoke test runs at a time; there is at least one wishlist entry
(`StateAssumption`). No listing is on two marketplaces (`PollAssumption`). The
searches of the Wallapop leg come one after the other (one poll job, one entry at
a time), and so do those of one process on eBay. One `login wallapop` runs at a
time in `CredentialFiles`. A release is started as one process at a time, and
eBay issues a new refresh token with a refresh, or keeps the old one. Nobody
edits the wishlist between the truncation and the end of a save, and one cycle at
a time sights a listing (`AuditTrail`). The
other named `ASSUME`s say what kind of value a constant is, that constants fit each
other, or what a constructor or loader refuses (a limit of 0, an entry without a
ceiling).

## 3. Runs

`CHECK_DEADLOCK FALSE` everywhere: taps, commands, runs, edits and crashes are
finitely many, and when they are used up nothing is left to do, as in an idle
daemon. The Phase 2 instances have one alert.

| Run | Instance | Distinct states | Shows |
|---|---|---|---|
| `buy_faults` | 2 taps, threshold 2, failing statements, 1 crash | 1 145 952 | `TypeOK`, `OrderIsWarranted`, `SuccessIsAudited`, implements `Phase2Guard` |
| `operator` | 2 taps, threshold 1, 2 commands | 2 272 902 | `MismatchLocks`, `FailuresCounted`, `SwitchedOffStaysOut`, implements `Phase2Guard` |
| `processes` | 1 tap, 2 entries, 1 command, 2 smoke runs of 2 fixtures, 1 process killed | 1 507 678 | `LiftFollowsSave` |
| `watch` | 1 job, 2 listings in 1 or 2 copies, 2 entries, 1 mishap | 2 675 376 | `RepeatsNeedMishaps`, `AlertsAreAudited`, `SeenIsSettled` |
| `watch_live` | 1 job, 1 listing in 1 or 2 copies, 2 entries, 2 mishaps, fair | 397 568 | `HealthyIsSettled`, `SignalEndsProcess` |
| `surroundings` | one scene per component around the two flows | 1 293 940 | the 18 properties of the next table, `TypesOK` |
| `live` | 5 scenes, fair | 65 475 | `TaskCompletes`, `MismatchLeadsToLock`, `SmokeFailureLeadsToLock`, `LoginIsNoticed`, `AccessIsRefreshed`, `FindsAreJudged`, `StuckPollersShow` |
| `threshold_race`, `failure_message`, `double_tap`, `cache_mixup`, `stale_cookies` | smallest instance that shows it | stops early | the findings of section 6 |

`Watch`'s `TypeOK` is proved, and left out of its run to make room.

| Property of `surroundings` | Question |
|---|---|
| `SuppressionIsEarned`, `RepeatsWereOvertaken` | Is a suppressed report one that was delivered within the window? Two callers may both send; can one caller, whose report went out, send it again within the window? Only if a slower delivery set the window back. |
| `WarningNeedsTwoMisses` | Does the warning that both Wallapop paths are down follow two missed searches, whatever becomes of the sends in between? |
| `LatchIsVisible` | Is a latched API path degraded in the health state? |
| `DailyBudgetHolds` | Is eBay's budget kept per process when midnight falls between check and charge? |
| `FileStaysUsable` | Does a restart find a refresh token that eBay accepts, with two processes and a login writing the file? Only if no answer of eBay was lost on its way since the last login. |
| `CallsAreLimited` | How many TinyFish runs can begin in a period, if the check precedes the run and the record follows it? |
| `ValidatedStarts` | Does a start succeed on the files that the validate commands accepted and nobody touched? |
| `ReadersSeeWhole` | Can a reader of a credential file see half of it, or one others can read? |
| `VersionMeansSchema`, `LockSurvivesMigration` | Does a store open on tables that are not there? Does a migration applied again lift the lock of Phase 2? |
| `EnabledWasConfirmed`, `EntriesSurvive` | Can overlapping commands enable an entry that nobody confirmed, or lose one? Only one that was edited in while the saving command waited at its prompt. |
| `GapsAreSaid` | Does `test-search` say of each market whose listings are missing that they are? |
| `HealthyRowIsEarned` | Can `health` call the API path healthy though the last cycle found it latched? |
| `AllOrNothingIsShown` | Can `audit --last` leave out a row older ones are shown for, while rows are being written, sighted again or fired? Can a failing read pass a part of the rows for all? |
| `BadgeIsTrue` | Does a badge under an alert say what has happened, with several copies and handlers? |
| `QuietBuysAreAffordable` | What may a purchase that raised no mismatch have cost, against the ceiling the gate saw? |

Bounds and why they are enough, Phase 2: two taps give every pairwise race of buy
tasks (over the breaker, the row, the keyboard); threshold 2 makes "one below"
and "at" the threshold different for two failures, threshold 1 makes one failure
lock; two fixtures make the last one differ from the run; two smoke runs make
"the previous run" meaningful; two commands give disable after enable and the
reverse; two entries let one be enabled while another is switched off; one crash
reaches every point of every process, as processes only meet in the row and the
file. `MaxCrashes`, `MaxCommands`, `MaxRuns` and `Fixtures` bound behaviours;
nothing else is bounded (a tap is used once).

Phase 1: two entries let one listing be judged for both, share the cache, and let
the search of one fail while the other is served; two listings make a batch in
which one fails and the other goes on. `MaxMishaps` bounds failing statements,
lost confirmations, signals and crashes together; one reaches every await, two a
failure followed by a shutdown. Two copies (`Copies`) let the second be handled
after the first is marked, or not; in `watch` one listing fits both entries and the
other neither. Restarts, cycles, snoozes and market changes are
not bounded: what they change is finite. One job is enough for TLC as jobs poll
different listings and meet only in the snooze and the connections; the theorems
hold for any number of them.

The scenes:

- Reporter and Wallapop leg: `Window` 2 (a delivery may begin within the window and
  before another, so that it sets the window back); two
  logins (`MaxLogins`: one during a search, one after), one restart
  (`MaxRestarts`), three searches in a row that find both paths down (`MaxDown`:
  the third is past the warning). In `buy_tasks` three callers report the same
  event.
- eBay: two processes on one file, `Budget` 2 (one answer and the last one), one
  expiry, two starts, one login (`MaxExpiries`, `MaxStarts`, `MaxEbayLogins`);
  any number of midnights.
- Limiter: two runs at once, `Limit` 2 in a `Period` of 2; five names for calls,
  so that one is free whenever the check passes.
- Start-up: two edits or logins (`MaxEdits`) at any point of init and of a start;
  one data directory for both.
- Credential files: two savers and one login, each killed anywhere.
- Wishlist: two commands (one enables, one disables) over two entries, and edits,
  before a command or under its prompt, that may add a third and flawed one.
- Migrations: three starts of an older and a newer release, each killed anywhere.
- Test search: one listing per answer (`MaxListings`), every outcome of each
  market and of the model.
- Health: `Cadence` 1, two starts or changes of a file (`MaxRows`).
- Audit: two rows, written or on their way (`MaxWritten`), in two seconds
  (`MaxSecond`), `--last` 0 or 1; sightings again are not bounded.
- Chat: two taps of any verb, one retry, so two copies.
- Price: amounts 0, 2, 4, 7, 8 with tolerances 1 and 50 %, so that each of the
  two is the larger one and both are met exactly; a `Thousand` of 4; one change of
  the ceiling.
- Evaluation (`live` only checks it for more than types): the poll and `explain`
  with two entries, ages to 2 (`MaxAge`), two prices.

## 4. Fairness

`Phase2` assumes weak fairness of each buy task and of the smoke run, nothing
of taps, the remote agent, the operator or the clock. A task of an asyncio loop
is resumed once what it awaits is done, and all it awaits comes back: the
browser call runs under `wait_for`, a Telegram send retries a fixed number of
times, a SQLite statement waits at most for its busy timeout. The smoke test is
a loop over a list. The scene has no crashes and no failing statements; that the
properties fail when the daemon dies is plain.

`Watch` assumes weak fairness of each job's loop (its awaits come back: searches
and evaluations have timeouts, sends a fixed number of attempts), of the shutdown
steps and of the restart after a death (`Restart`; `restart: on-failure` of
docker-compose). A process that a signal ended exits with 0 and is not restarted:
the operator may start it (`Start`), without fairness, and `HealthyIsSettled`
excepts a daemon that is at last left stopped. It assumes no
luck of the outside but for the pairs in `Healthy`: if the search for their
entry, their evaluation or the delivery of their alert is tried for ever, it
succeeds some time (strong fairness, as each attempt is followed by another). All
other searches, evaluations and deliveries may fail for ever. `HealthyIsSettled`
asks of such a pair that it stays on sale and its entry is at last not snoozed.

The scenes of `live` assume the same of their loops, each in its `...Fairness`:

- `WallapopFallback`: the search goes on (weak; every call has a timeout), and
  the next one follows. Nothing of the operator, the sessions or the restarts.
- `EbayAccess`: the daemon's search goes on and midnight comes (weak); a refresh
  that eBay would accept, tried again and again, is answered some time (strong).
  Searches themselves may go unanswered for ever.
- `Evaluation`: an entry's search comes round (weak); reading the cache, the
  model's answer and the write succeed some time if tried for ever (strong, as
  each failure is followed by the next poll); rows age (weak: time passes).
- `Health`: time passes (weak), nothing of the daemon: `StuckPollersShow` is about
  the one that does not move.

## 5. What is proved

`Phase2Proofs` proves, for any sets of taps, alerts and entries, any threshold
and bounds, under the named assumptions of the modules (`StateAssumption`,
`DbFaultsAssumption`, `BuyFlowAssumption`, `OperatorAssumption`,
`SmokeAssumption`):

| Theorem | States |
|---|---|
| `TypeCorrect` | `Spec => []TypeOK` |
| `Invariance` | `Spec => []IInv`, the inductive invariant |
| `Warranted` | `Spec => []OrderIsWarranted` |
| `Audited` | `Spec => []SuccessIsAudited` |
| `MismatchIsLocked` | `Spec => []MismatchLocks` |
| `Implements` | `Spec => GuardSpec`: Phase 2 implements `Phase2Guard` |
| `LiftsFollowSaves` | `Spec => LiftFollowsSave` |
| `SwitchedOffStays` | `Spec => SwitchedOffStaysOut` |
| `FailuresAreCounted` | `Spec => []FailuresCounted` |

`WatchProofs` proves, for any sets of jobs, listings and entries, any wishlist
and any number of mishaps, under `PollAssumption`:

| Theorem | States |
|---|---|
| `TypeCorrect` | `Spec => []TypeOK` |
| `Invariance` | `Spec => []IInv`, the inductive invariant |
| `Settled` | `Spec => []SeenIsSettled` |
| `Audited` | `Spec => []AlertsAreAudited` |
| `Repeated` | `Spec => []RepeatsNeedMishaps` |

The other six modules prove, under the assumptions of the modules they are
about:

| Theorem | States | For any |
|---|---|---|
| `FilesProofs!SchemaIsComplete` | `[]VersionMeansSchema` | releases and overlapping starts |
| `FilesProofs!MigrationsKeepLock` | `LockSurvivesMigration` | the same |
| `FilesProofs!CredentialsStayWhole` | `[]ReadersSeeWhole` | set of savers |
| `FilesProofs!ValidationIsKept` | `[]ValidatedStarts` | number of edits |
| `AccessProofs!WarningsAreEarned` | `[]WarningNeedsTwoMisses` | callers, window and bounds |
| `AccessProofs!LatchedIsDegraded` | `[]LatchIsVisible` | the same |
| `AccessProofs!RenewalsAreEarned` | `[]RenewalsNeedLogins`: `session_renewed` at most once per login | the same |
| `AccessProofs!BudgetIsKept` | `[]DailyBudgetHolds` | processes and budget |
| `AccessProofs!TokensStayUsable` | `[]FileStaysUsable` | processes, expiries, starts and logins |
| `AccessProofs!HealthIsEarned` | `[]HealthyRowIsEarned` | cadence |
| `AlertProofs!BadgesAreTrue` | `[]BadgeIsTrue` | taps, verbs and retries |
| `AlertProofs!QuietBuysStayAffordable` | `[]QuietBuysAreAffordable` | amounts and tolerances |
| `ReporterProofs!SuppressionsAreEarned` | `[]SuppressionIsEarned` | callers, reports and window |
| `ReporterProofs!RepeatsAreOvertaken` | `[]RepeatsWereOvertaken` | the same |
| `ReporterProofs!LegUsesReporter` | `FallbackSpec => ReporterSpec`: the Wallapop leg is one more caller | the same, and the leg's bounds |
| `ReporterProofs!CallsStayLimited` | `[]CallsAreLimited` | limit, period, searches at once |
| `CommandProofs!LoadsWereConfirmed` | `[]EnabledWasConfirmed` | commands and documents |
| `CommandProofs!NoEntryIsLost` | `[]EntriesSurvive` | the same |
| `CommandProofs!EveryGapIsSaid` | `[]GapsAreSaid` | listings per answer |
| `CommandProofs!NoPartPassesForAll` | `[]AllOrNothingIsShown` | rows, seconds and limits |
| `CommandProofs!SomethingIsPrinted` | `audit` has an order to print its rows in | the same |
| `TypeProofs!ScenesAreComponents` | `SceneSpec` implies the specifications of the components, all but the leg's | constants |
| `TypeProofs!TypesAreKept` | `SceneSpec => []TypesOK` | constants |

The argument for Phase 2. The safety properties speak of an agent at work or of a verdict,
but what makes them true was done several awaits earlier, so none is inductive.
`IInv` says of each tap what its task has done by where it stands:
`AgentInv` (no agent, no order before `StartBuy`; after a crash the agent is on
its own), `WarrantInv` (past the handler's first statement the callback is on
record; past the comparison the second price was confirmed), `AuditInv` (a row
only for an order; a verdict "success" only after the row) and `LockInv` (past
the mismatch's lockout the row is locked, or the operator lifted it after the
row was written, which `lifted` records). Each action touches one tap, so
`InvDaemon` has a step per action; the CLI and the smoke test only touch the row
(`InvOthers`). `Implements` uses `AgentInv` to see that an order comes from a
tap the gate admitted, and that a success cannot unlock.

`FailuresCounted` needs an invariant of its own, `CountIInv`, on top of `IInv`: what
a tap has contributed to the counter by where it stands (`CountInv`), and, as long as
nobody resets the counter or is killed before counting, that it is the cardinality of
the taps that counted (`CountsMatch`). `CountsDaemon` shows that the counter moves
together with that set, also for a task that raises before the gate; `CountTap`, that a step of one tap leaves what the others
contributed. It is stated, and holds, of a database whose statements do not fail: the
hazard at `buy_orchestrator.py:349` is what happens otherwise.

The argument for Phase 1. That repeats and lost rows are bounded by mishaps is
not inductive: a cycle that a shutdown cancels, or whose store a shutdown closes,
loses its rows without a mishap of its own, and a result that lists a listing
several times is worked through copy by copy, with the mark already set. `IInv`
therefore keeps `Books` for each pair and the job that polls it. A mishap pays for
`Copies` alerts (`Paid`). While the store is open, a shutdown under way has the
payment of its signal in reserve (`Debt`); once the store is closed, the reserve
belongs to the copies that the cycle can still alert (`Left`). `Audit` is the half of
the books about rows, `Repeat` the half about repeats: a pair that is marked has
still to come only what is left of the result it was found in. `Shape` (a cycle has
no more than `Copies` of a listing in hand, counted in `Held`, and none of another
market) gives the bound of `Left`; `Ending` says that the main coroutine leaves only
during a shutdown and that nothing runs after it. `CycleFrame` and `CycleOthers` show
that a job leaves other jobs' pairs alone, so each action is looked at for its
own job only (`BooksStep`).

The arguments for the rest:

- Migrations (`MigrationInv`): the last step to an open store writes the version
  and looks at no table. `Reached` says what a start has applied by where it
  stands; statements are never undone, so starts that overlap do not disturb it.
- Credential files (`CredentialInv`): what is renamed over the jar was completed
  and restricted in the temporary file two steps before, also when an earlier login
  was killed and left its temporary file behind.
- Start-up (`StartupInv`): a judged file loads, and a start in which nothing has
  changed since runs over judged files; an edit or a login withdraws the judgement
  (`ChangeKeepsInv`).
- Wallapop leg (`LegInv`): a warning under way was earned when its search ended
  (`LegSends`); the API is called only while the latch is off, and the step that
  sets it records the adapter as degraded (`LegLatch`); a noted mtime or a renewal
  still to confirm has a login in reserve for which none was reported
  (`LegRenews`).
- eBay's budget (`QuotaInv`): past the check there is room for one more answer
  (`Charged`), and midnight only makes room. Tokens (`TokenInv`): a pair whose
  refresh token is no longer accepted is older than one that is on disk or on its
  way there, or since the last login a pair was lost: with eBay's answer, with the
  process that held it, or under an older one. `lost` records that, and a login takes
  it back, as its pair is newer than any.
- Health (`HealthInv`): between the end of a cycle and its status the latch does not
  move; past it the row says what the cycle found, unless the write was skipped
  (`halved`).
- Chat (`ChatInv`): a handler past its first statement has its row on record
  (`TapInv`), and the badge under a copy is one of a recorded tap (`CopyInv`).
- Prices (`PriceInv`): the gate held the alert's price against the ceiling before
  the agent ran, and what was left quiet agreed with the alert's price; the
  tolerance grows with the price (`ToleranceGrows`), so that it is no larger than
  the ceiling's.
- Reporter (`ReporterInv`): an armed window starts where some caller's delivery began
  (`ArmedByDelivery`), and where it starts before one of a caller, a younger delivery
  has been overtaken (`SetBack`). A report passes the check only when the window has
  run out, which is what `RepeatsWereOvertaken` has to remember while it is sent.
- Limiter (`LimiterInv`): a call that began within the period is still running or its
  record is in the deque, so a check that passes sees fewer than `Limit` of those that
  have ended; the cardinalities of both sets give the bound.
- Wishlist (`WishlistInv`): a document, in the file or in a command's hands, enables
  only what was confirmed, also as the prefix of a torn file (`PartialEnablesNoMore`),
  and has every entry promised that the command has read (`unread` holds the others)
  until a save was killed or read halfway.
- Test search (`GapsInv`): a target passed over is noted in the step that does so.
- Audit (`TrailInv`): an alert or a tap that was there at the start is still there, a
  sighting is followed by one of the same listing that is no older (`Follows`: what is
  on its way was stamped last), and either is in hand once its table is read, unless
  the listing has fired or a read failed. What is printed is any order that fits the stamps; that
  there is one (`SomethingNewestFirst`, `SomethingOldestFirst`) is shown by picking a
  row that is last, well-foundedly, set by set. Otherwise `AllOrNothingIsShown` could hold
  for lack of anything to print.
- Types: each component's type invariant with the inductive invariant proved for it
  above, as a type often follows only from where a run stands.
- Scenes: a step of a scene is a step of one component and a stutter of the others,
  so what is proved of a component, for all constants, is what `surroundings` checks
  in its scene. The reporter's holds with the tasks of the Buy button as callers
  (`BuyTasksReport`).

Every invariant and every action property of the passing runs is stated by a
theorem. Only model-checked are the liveness properties (the two of `watch_live`, the
seven of `live`): they rest on fairness, and so on ENABLED, which the prover does not
reason about. TLC checks the scenes' `[]` properties with the constants of one
configuration each; the theorems have no bound.

## 6. Findings

Runs that TLC finds violated, each against a sentence of the repository:

- `threshold_race` / `ThresholdLocks`: two purchases failing at once reach the
  threshold without a lockout (`circuit_breaker.py:71` reads before it counts;
  `epics.md:2023`).
- `failure_message` / `FailureMessageIsTrue`: "La compra NO se ha ejecutado."
  after a timeout, though the agent bought (`buy_orchestrator.py:262`;
  `domain/alert.py:434`).
- `double_tap` / `NoDoubleBuy`: two taps before the keyboard edit buy twice
  (`callback_handler.py:169`; `architecture.md:643`).
- `cache_mixup` / `MatchIsAlerted`: a match is dropped on the verdict cached for
  another entry (`cache.py:281`; `domain/evaluation.py:24`,
  `0001_phase1_schema.sql:34`). `SeenIsSettled` is stated so that it holds of the
  code all the same: declined "for some entry".
- `stale_cookies` / `RenewalIsTried`: after a login the API path is tried again
  with the cookies loaded before it (`adapters/wallapop_api/fetcher.py:71`;
  `wallapop_fallback.py:220` promises "no daemon restart needed").

Stated in the modules, false of the code, and without a run of their own; as an
`INVARIANT` (or `PROPERTY`) of the configuration named, TLC shows a
counterexample:

| Property | Configuration | What happens |
|---|---|---|
| `ClosedAfterDrain` (`Watch`) | `watch.cfg` | a signal closes the databases under a running poll cycle and cancels it (`cli/app.py:193`; `prd.md:794`, FR50) |
| `RecoveryIsReported` (`Phase2`) | `processes.cfg` | no recovered alert when the failed fixture was not the last (`smoke_test.py:155`; its docstring, line 30) |
| `BuyStaysShown` (`Chat`) | `surroundings.cfg` | the badge of a running buy is replaced by a later handler's, as keyboard edits are unordered (`callback_handler.py:88`) |
| `WrittenJarLoads` (`CredentialFiles`) | `surroundings.cfg` | a cookie with an empty value is written and not loaded |
| `FourMeansUnbuilt` (`TestSearch`) | `surroundings.cfg` | exit code 4 for a marketplace that was built and whose search failed |
| `EveryEntryIsEvaluated` (`Evaluation`, `PROPERTY`) | `surroundings.cfg` | `explain` reports for an entry the verdict cached for another |
| `AffordableIsJudged` (`Evaluation`, `PROPERTY`) | `live.cfg`, entries with `Solo` 1 and `InDevice` 2 | a listing within `max_price_in_device` is never fetched: the query asks for `max_price_solo` where there is one (`poll_loop.py:248`; `templates/wishlist.example.yaml:34`) |
| `OneAlertPerPair` (`Watch`) | `watch.cfg` | a listing that one result lists twice is alerted twice, without any mishap (`poll_loop.py:252`; `prd.md:733`, FR10) |
| `EditsAreKept` (`WishlistFile`) | `surroundings.cfg` | `phase2 enable` writes back the document from before its prompt, over an entry edited in meanwhile (`wishlist_yaml.py:203`; its docstring, line 195) |
| `EveryRowIsExported` (`AuditTrail`) | `surroundings.cfg` | a read that fails makes `audit export` print nothing and exit with 0 (`audit_cmd.py:163`; the docstring of `run_export`, line 123) |
| `UnsureIsRetried` (`Evaluation`, `PROPERTY`) | `live.cfg` with `MaxMoves = 1` | a low-confidence verdict marks its listing as seen like any other, so that a later price is not judged (`config.example.yaml:33`) |

Seen while modelling, and in the models as the code has it:

- Phase 1: `epics.md:1424` wants matches found during a snooze recorded as seen, the
  code skips the search and alerts them afterwards; `epics.md:1449` wants snapshot
  and seen mark in one transaction, they are two (a failure between them repeats an
  alert, which `RepeatsNeedMishaps` counts); the docstring of `run_poll_cycle` says
  that it never raises, and `CycleRaises` is how it does.
- Buy: the gate checks the wishlist's current ceiling and the agent is given the
  snapshot's; the receipt is compared with the alert's price only, never with a
  ceiling; an amount whose point separates thousands is read a thousandth.
  A threshold of "low" lets an over-budget find alert.
- Reports: the dedup window starts where a report began and is armed when its delivery
  returns, so that a slower, older delivery sets it back, and one caller may alert
  twice within a window. `RepeatsWereOvertaken` says that nothing else makes it do so.
- Wallapop: the streak counts searches, the comment speaks of cycles
  (`wallapop_fallback.py:55`); `api_was_enabled` is read before the latch is
  re-examined (line 249); the API adapter's `response.json()` may raise past a
  "never raises"; a listing's id differs between the two paths.
- eBay: a running daemon never re-reads the token file; a failed save keeps the new
  pair in memory alone; two processes may overwrite a newer pair with an older one;
  the quota is per process; a transport error of a search is not mapped.
- Commands: the `phase2` block of `health` is a constant, its newest poll hides a
  market that is stale, and a second daemon overwrites the pid; `audit --id` finds an
  alert before a callback of the same number and sorts time stamps as text;
  `test-search` promises no state and saves tokens and cache rows.
- Audit: a listing that was dropped when `audit show` began and fires between its
  reads is shown neither as dropped nor as alerted.
- Files: the wishlist is truncated in place, an empty file is a valid empty
  wishlist, and two commands may lose an update: of two that overlap, the later save
  may enable what the earlier one disabled (`confirmed` never shrinks, so
  `EnabledWasConfirmed` says only that it was confirmed once); a killed `init` leaves part of its
  scaffold; two `login wallapop` at once share one temporary name; the logins'
  `--data-dir` is not the configuration's; a blank `.env` variable counts as set; a
  missing provider key ends the start in a traceback; migrations run only from the
  composer, and an older release may set the version back.

## 7. Not modelled

- Wording and layout: renderers, the tables and JSON of the commands, logging.
- Parsing of HTTP answers and LLM payloads beyond the outcome it leads to; prompts
  and the SDKs; the browser of `login wallapop` and the OAuth exchange.
- What the agent does on the marketplace's pages.
- `phase2 status`, which reads one row and prints it; `dev` commands;
  `permissions.verify_or_exit`, which has no caller; `listen_callbacks`, which raises
  NotImplementedError; `scripts/payment_rail_lint.py`.
- Re-registering a scheduler job (tests only), and a drain that runs out of its time
  budget: the process is gone before.
- The composition of Phase 2 in the daemon: the composer wires Phase 1 only.

What could be added: an abstract specification of a notifier that `Watch` implements.
