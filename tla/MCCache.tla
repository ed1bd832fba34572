--------------------------------- MODULE MCCache ---------------------------------
(* Two wallets with one account each.                                      *)
EXTENDS AccountCache

CONSTANTS w1, w2, k1, k2

MCChanges == [k \in {k1, k2} |-> IF k = k1 THEN 2 ELSE 1]

MCOwner == [k \in {k1, k2} |-> IF k = k1 THEN w1 ELSE w2]
===================================================================================
