------------------------------- MODULE MCSale -------------------------------
(* SaleSetup for TLC.                                                      *)
EXTENDS SaleSetup
Three == <<"FullRightsTransfer", "PrintingV2", "Participation">>
=============================================================================
