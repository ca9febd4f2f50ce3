SPECIFICATION FairSpec
CONSTANTS
  Worker = {w1, w2}
  CU = {k1}
  File = {f1, f2, f3}
  Ranges = TRUE
  OpenFaults = 1
INVARIANTS CUExclusive CUReturned OpenedRead
PROPERTY LeaseEnds
CHECK_DEADLOCK FALSE
