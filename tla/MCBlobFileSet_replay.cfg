SPECIFICATION FairSpec
CONSTANTS
  CF = {c0, c1}
  c0 = c0
  c1 = c1
  DefaultCF = c0
  MaxFile = 3
  MaxCrash = 1
  MaxFault = 0
  Device = TRUE
  LevelMerge = FALSE
INVARIANTS Replayable ReplayAgrees
PROPERTY ObsoletePurged
CHECK_DEADLOCK FALSE
