----------------------------- MODULE MCLiveData -----------------------------
(* Instances of LiveData for TLC.                                          *)
EXTENDS LiveData

\* No option, GC jobs or level merge on their own, and both or everything
\* together with one table less.
AllOptions == {{}, {"gc"}, {"level_merge"}, {"gc", "level_merge"}, Uses}
TableBound == [o \in SUBSET Uses |-> IF Cardinality(o) > 1 THEN 3 ELSE 4]
=============================================================================
