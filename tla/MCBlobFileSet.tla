---------------------------- MODULE MCBlobFileSet ----------------------------
(* BlobFileSet for TLC.                                                     *)
EXTENDS BlobFileSet
=============================================================================
