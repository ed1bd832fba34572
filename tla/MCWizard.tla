------------------------------- MODULE MCWizard -------------------------------
(* SaleWizard for TLC: an artwork without editions and a limited one.      *)
EXTENDS SaleWizard
Two == <<[edition |-> "V2", limited |-> TRUE, own |-> TRUE],
         [edition |-> "V1", limited |-> FALSE, own |-> FALSE]>>
===============================================================================
