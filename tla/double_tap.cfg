SPECIFICATION Spec
CONSTANTS
  t1 = t1  t2 = t2  a1 = a1  e1 = e1  e2 = e2
  Taps <- TwoTaps
  Alerts <- OneAlert
  Entries <- OneEntry
  AlertOf <- SameAlert
  EntryOf <- AboutE1
  Threshold = 2
  DbFaults = FALSE
  MaxCrashes = 0
  MaxCommands = 0
  Fixtures = 0
  MaxRuns = 0
CHECK_DEADLOCK FALSE
INVARIANT NoDoubleBuy
