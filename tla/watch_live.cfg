SPECIFICATION FairSpec
CONSTANTS
  j1 = j1  l1 = l1  l2 = l2  e1 = e1  e2 = e2  None = None
  Jobs <- OneJob
  Listings <- OneListing
  Market <- WholeMarket
  Entries <- TwoEntries
  Wishlist <- List
  Fits <- FitsSecond
  Copies = 2
  MaxMishaps = 2
  Healthy <- FitsSecond
CHECK_DEADLOCK FALSE
PROPERTIES HealthyIsSettled SignalEndsProcess
