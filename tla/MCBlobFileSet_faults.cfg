SPECIFICATION Spec
CONSTANTS
  CF = {c0, c1}
  c0 = c0
  c1 = c1
  DefaultCF = c0
  MaxFile = 3
  MaxCrash = 1
  MaxFault = 1
  Device = FALSE
  LevelMerge = TRUE
INVARIANT ReferencedAlive
INVARIANT ReferencedDurable
INVARIANT FreshNumber
CHECK_DEADLOCK FALSE
