SPECIFICATION FairSpec
CONSTANTS
  Kind <- Three
  Foreign = {2}
  MaxFaults = 2
  Hasty = {0,1}
INVARIANTS
  OpensComplete
  CreatedIsReady
PROPERTY
  ItemsComeBack
