SPECIFICATION Spec
CONSTANTS Key = {1}
 Reader = {}
 Worker = {w1, w2}
 Job = {"flush"}
 RunMode = {"kNormal", "kFallback"}
 Faults = TRUE
 MaxSeq = 3
 MaxPut = 2
 MaxFile = 3
 MaxCrash = 0
INVARIANTS GCLease IndInv
SYMMETRY Symmetry
CHECK_DEADLOCK FALSE
