SPECIFICATION FairSpec
CONSTANTS
  MaxItems = 4
  BatchSize = 2
  TransactionSize <- Sizes
  Adds <- Instructions
  Needs <- SaleNeeds
  Repeatable <- SaleRepeatable
INVARIANTS
  CreatedIsComplete
  JobsPackAll
PROPERTIES
  Ends
CHECK_DEADLOCK FALSE
