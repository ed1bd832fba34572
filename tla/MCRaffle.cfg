SPECIFICATION Spec
CONSTANTS
  Users = {u1, u2}
  DataAccounts = {u2}
  Tickets = {t1, t2}
  CreateArgs <- MCCreateArgs
  MaxCreations = 2
  MaxNfts = 1
  MaxTime = 1
  NoOne = NoOne
INVARIANTS
  TypeOK
  WinningNumbersDistinct
  NeverOversold
  PoolCoversRefunds
  RefundIsDeposit
  PrizeReserved
  PrizesWentToWinners
PROPERTIES
  SettledOnce
  ForwardOnly

SYMMETRY MCSymmetry
