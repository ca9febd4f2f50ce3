---------------------------- MODULE MCWriteBack ----------------------------
(***************************************************************************)
(* Instances of WriteBack for TLC.                                         *)
(***************************************************************************)
EXTENDS WriteBack
=============================================================================
