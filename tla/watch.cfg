SPECIFICATION Spec
CONSTANTS
  j1 = j1  l1 = l1  l2 = l2  e1 = e1  e2 = e2  None = None
  Jobs <- OneJob
  Listings <- TwoListings
  Market <- WholeMarket
  Entries <- TwoEntries
  Wishlist <- List
  Fits <- FitsBoth
  Copies = 2
  MaxMishaps = 1
  Healthy <- NoPair
CHECK_DEADLOCK FALSE
INVARIANTS RepeatsNeedMishaps AlertsAreAudited SeenIsSettled
