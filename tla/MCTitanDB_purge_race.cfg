SPECIFICATION Spec
CONSTANTS
  Key = {1}
  Reader = {r1}
  Worker = {w1}
  Job = {"flush"}
  RunMode = {"kNormal"}
  Faults = FALSE
  MaxSeq = 2
  MaxPut = 1
  MaxFile = 2
  MaxCrash = 0
SYMMETRY Symmetry
INVARIANTS
  PurgedInvisible
CHECK_DEADLOCK FALSE
