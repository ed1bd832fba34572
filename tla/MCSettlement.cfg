SPECIFICATION FairSpec
CONSTANTS
  w1 = w1
  w2 = w2
  w4 = w4
  Bidders = {w1, w2}
  Seller = w4
  Prizes <- AllKinds
  Given <- ToLosers
  KeyByte = {1}
  Results <- AnyEnding
  MaxFaults = 1
  Returning = {w1, w2, w4}
INVARIANTS PrizesByPlace MasterAfterPrints
PROPERTY AllDelivered
