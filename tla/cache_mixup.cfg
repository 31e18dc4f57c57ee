SPECIFICATION Spec
CONSTANTS
  j1 = j1  l1 = l1  l2 = l2  e1 = e1  e2 = e2  None = None
  Jobs <- OneJob
  Listings <- TwoListings
  Market <- WholeMarket
  Entries <- TwoEntries
  Wishlist <- List
  Fits <- SomeFit
  Copies = 1
  MaxMishaps = 0
  Healthy <- NoPair
CHECK_DEADLOCK FALSE
INVARIANT MatchIsAlerted
