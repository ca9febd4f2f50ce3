--------------------------- MODULE MCGCScheduler ---------------------------
(* GCScheduler for TLC.  Threads, droppers and column families are          *)
(* interchangeable, but the run checks liveness and uses no symmetry.       *)
EXTENDS GCScheduler
=============================================================================
