SPECIFICATION SceneSpec
CONSTANTS
  Scenes = {"leg"}
  leg = leg  buy1 = buy1  buy2 = buy2  daemon = daemon  tester = tester
  poll = poll  explain = explain  w1 = w1  w2 = w2
  Callers <- SomeCallers  Reports <- SomeReports  Adapters <- SomeAdapters
  Window = 1  NoSend = NoSend  Job = leg  NoMtime = NoMtime
  MaxLogins = 2  MaxRestarts = 1  MaxDown = 3
  Procs <- SomeProcs  Poller = daemon  Nothing = Nothing
  Budget = 2  MaxExpiries = 1  MaxStarts = 2  MaxEbayLogins = 1
  CallNames <- FiveCalls  Together = 2  Limit = 2  Period = 2
  Askers <- SomeAskers  Poll = poll  Wants <- TwoWants  Solo <- SoloTwo  InDevice <- DeviceTwo
  Asks <- AsksAll  Prices <- Cheap  Normal <- TimeToLive  Low <- ShortLive
  NoCeiling = NoCeiling  NoRow = NoRow  MaxAge = 2  MaxMoves = 1
  MaxEdits = 2
  Savers <- TwoRuns
  Commands <- TwoRuns  WantsOn <- FirstRun  Original <- TwoEntries  Flawed <- Blemished
  Releases <- SomeReleases  Brings <- SomeBrings
  MaxListings = 1
  Cadence = 1  MaxRows = 2
  Limits <- ZeroOrOne  MaxWritten = 2  MaxSecond = 1
  Hands <- TwoTaps  Offered <- EveryVerb  Retries = 1
  Amounts <- SomePrices  TolEur = 1  TolPct = 50  Thousand = 4  NoAmount = NoAmount  MaxChanges = 1
CHECK_DEADLOCK FALSE
INVARIANT RenewalIsTried
