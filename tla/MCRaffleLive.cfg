SPECIFICATION FairSpec
CONSTANTS
  Users = {u1}
  DataAccounts = {}
  Tickets = {t1, t2, t3}
  CreateArgs <- MCCreateArgs
  MaxCreations = 1
  MaxNfts = 2
  MaxTime = 1
  NoOne = NoOne
PROPERTIES
  LosersRefunded
  WinnersPaid
  ImplementsLedger
