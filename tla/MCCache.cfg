SPECIFICATION CacheFairSpec
CONSTANTS
  w1 = w1
  w2 = w2
  k1 = k1
  k2 = k2
  Wallets = {w1, w2}
  Nobody = Nobody
  Accounts = {k1, k2}
  Owner <- MCOwner
  MaxChanges <- MCChanges
  MaxSwitches = 3
INVARIANT OnlyOwnAccounts
PROPERTY ChangesShown
CHECK_DEADLOCK FALSE
