SPECIFICATION FairSpec
CONSTANTS
  Bidders = {b1, b2, b3}
  Amounts = {2, 3}
  Authorities = {a1, a2}
  DataAccounts = {a2}
  AuctionArgs <- MCAuctionArgs
  SmallestArray = 2
  MaxTime = 3
INVARIANTS
  ListOrdered
  ListedBidsBacked
  UncancelledCount
  ClaimsFromWinners
PROPERTIES
  WinnersFinal
  PruneSparesWinners
  PotsDrain
