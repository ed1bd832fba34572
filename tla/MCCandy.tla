------------------------------ MODULE MCCandy ------------------------------
(***************************************************************************)
(* Small instances of the candy machine and its uploader.                  *)
(***************************************************************************)
EXTENDS CandyUpload, TLC

=============================================================================
