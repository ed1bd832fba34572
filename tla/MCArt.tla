---------------------------------- MODULE MCArt ----------------------------------
(* ArtCreate for TLC.                                                      *)
EXTENDS ArtCreate
==================================================================================
