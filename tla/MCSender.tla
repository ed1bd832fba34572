------------------------------ MODULE MCSender ------------------------------
(***************************************************************************)
(* Small instances of the sender.  The sizes keep the proportions of the   *)
(* code: a claim adds 1 instruction of 6, a settlement 1 or 2 of 6, a      *)
(* conversion 1 to 5 of 10, an edition 5 of 5.                             *)
(***************************************************************************)
EXTENDS TxSender

Sizes == [j \in Jobs |-> CASE j = "claim" -> 2 [] j = "settle" -> 2
                           [] j = "convert" -> 4 [] j = "mint" -> 5]
Instructions == [j \in Jobs |-> CASE j = "claim" -> {1} [] j = "settle" -> {1, 2}
                                  [] j = "convert" -> {1, 2, 3} [] j = "mint" -> {5}]

(* Of a sale: the vault, its tokens, one box, and a step that needs none   *)
(* of them (markItemsThatArentMineAsSold), which may be done again.        *)
SaleNeeds == [i \in Items |-> IF i \in {1, 2} THEN {} ELSE {i - 1}]
SaleRepeatable == {1, 3}

=============================================================================
