SPECIFICATION Spec
CONSTANTS
  MaxFile = 2
  MaxTable <- TableBound
  MaxSize = 2
  MaxFail = 1
  MaxRestart = 1
  MaxSortedRuns = 1
  Options <- AllOptions
INVARIANTS TypeOK Accounted NeverTooLow MergeDeletesDead
CHECK_DEADLOCK FALSE
