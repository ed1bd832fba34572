SPECIFICATION WizardSpec
CONSTANTS
  Arts <- Two
  Winners = {3}
  Copies = {2}
  MaxTiers = 2
  MaxEntries = 2
  MaxEdits = 4
  MaxMoves = 9
  MaxStrays = 1
  StrayEdits = 1
INVARIANTS
  EntriesNameTheirItem
  TierAmounts
  OneSalePerPress
CHECK_DEADLOCK FALSE
