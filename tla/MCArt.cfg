SPECIFICATION Spec
CONSTANTS
  Seller = s
  NoLimit = NoLimit
  Others = {c}
  Amounts = {0, 100}
  Supplies = {2}
  Tabs = {t1, t2}
  MaxArts = 1
  MaxPrints = 3
  MaxEdition = 3
  MaxStrays = 1
INVARIANTS
  EditionsOnce
  TokensAreWhole
PROPERTY
  ApprovalsStay
CHECK_DEADLOCK FALSE
