SPECIFICATION Spec
CONSTANTS
  t1 = t1  t2 = t2  a1 = a1  e1 = e1  e2 = e2
  Taps <- OneTap
  Alerts <- OneAlert
  Entries <- TwoEntries
  AlertOf <- ItsAlert
  EntryOf <- AboutE1
  Threshold = 1
  DbFaults = FALSE
  MaxCrashes = 1
  MaxCommands = 1
  Fixtures = 2
  MaxRuns = 2
CHECK_DEADLOCK FALSE
PROPERTY LiftFollowsSave
