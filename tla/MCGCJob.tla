------------------------------ MODULE MCGCJob ------------------------------
(* GCJob for TLC.  Workers and files are interchangeable, but the run checks*)
(* liveness and uses no symmetry.                                           *)
EXTENDS GCJob
=============================================================================
