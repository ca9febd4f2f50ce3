---------------------------- MODULE MCBlobReads ----------------------------
(* Instances of BlobReads.  Files are numbers and actors model values.     *)
EXTENDS BlobReads
=============================================================================
