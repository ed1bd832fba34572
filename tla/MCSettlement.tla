----------------------------- MODULE MCSettlement -----------------------------
(* Small auctions: their prizes, and how they may end.                     *)
EXTENDS Settlement

CONSTANTS w1, w2, w4

Two(type, m, n) == [type |-> type, amounts |-> <<m, n>>]

\* a token, two for the second place; a print for each place; a participation
AllKinds ==
  <<Two("TokenOnlyTransfer", 1, 2), Two("PrintingV2", 1, 1), Two("Participation", 0, 0)>>

\* a token for each place, and a participation
Shared == <<Two("TokenOnlyTransfer", 1, 1), Two("Participation", 0, 0)>>

BothWon == [places |-> <<w1, w2>>, gone |-> {}]
OneWon == [places |-> <<w1>>, gone |-> {}]
Deserted == [places |-> <<>>, gone |-> {w1, w2}]

AnyEnding == {BothWon, OneWon, Deserted}
OnlyBothWon == {BothWon}
OnlyOneWon == {OneWon}

\* who gets the participation
ToLosers == [winners |-> FALSE, others |-> TRUE]
ToAll == [winners |-> TRUE, others |-> TRUE]
=============================================================================
