SPECIFICATION FairLive
CONSTANTS
  Scenes = {"phase2", "leg", "ebay", "evaluation", "health"}
  leg = leg  buy1 = buy1  buy2 = buy2  daemon = daemon  tester = tester
  poll = poll  explain = explain  w1 = w1  w2 = w2
  Callers <- SomeCallers  Reports <- SomeReports  Adapters <- SomeAdapters
  Window = 1  NoSend = NoSend  Job = leg  NoMtime = NoMtime
  MaxLogins = 1  MaxRestarts = 1  MaxDown = 2
  Procs <- SomeProcs  Poller = daemon  Nothing = Nothing
  Budget = 1  MaxExpiries = 2  MaxStarts = 1  MaxEbayLogins = 1
  CallNames <- FiveCalls  Together = 2  Limit = 2  Period = 2
  Askers <- SomeAskers  Poll = poll  Wants <- TwoWants  Solo <- SoloTwo  InDevice <- DeviceTwo
  Asks <- AsksAll  Prices <- Cheap  Normal <- TimeToLive  Low <- ShortLive
  NoCeiling = NoCeiling  NoRow = NoRow  MaxAge = 2  MaxMoves = 0
  MaxEdits = 2
  Savers <- TwoRuns
  Commands <- TwoRuns  WantsOn <- FirstRun  Original <- TwoEntries  Flawed <- Blemished
  Releases <- SomeReleases  Brings <- SomeBrings
  MaxListings = 1
  Cadence = 1  MaxRows = 1
  Limits <- ZeroOrOne  MaxWritten = 2  MaxSecond = 1
  Hands <- TwoTaps  Offered <- EveryVerb  Retries = 1
  Amounts <- SomePrices  TolEur = 1  TolPct = 50  Thousand = 4  NoAmount = NoAmount  MaxChanges = 1
  t1 = t1  a1 = a1  e1 = e1
  Taps <- OneTap
  Alerts <- OneAlert
  Entries <- OneEntry
  AlertOf <- ItsAlert
  EntryOf <- AboutE1
  Threshold = 1
  DbFaults = FALSE
  MaxCrashes = 0
  MaxCommands = 1
  Fixtures = 2
  MaxRuns = 1
CHECK_DEADLOCK FALSE
PROPERTIES
  TaskCompletes MismatchLeadsToLock SmokeFailureLeadsToLock
  LoginIsNoticed AccessIsRefreshed FindsAreJudged StuckPollersShow
