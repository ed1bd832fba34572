SPECIFICATION Spec
CONSTANTS
  w1 = w1
  w2 = w2
  w4 = w4
  Bidders = {w1, w2}
  Seller = w4
  Prizes <- Shared
  Given <- ToAll
  KeyByte = {}
  Results <- OnlyBothWon
  MaxFaults = 0
  Returning = {}
INVARIANTS OncePerMint
