SPECIFICATION CheckpointFairSpec
CONSTANTS
  Family = {c0}
  Caller = {t1, t2}
  MaxFile = 2
  MaxCalls = 2
  MaxDisturbed = 1
INVARIANTS QuietOpenable
PROPERTY ObsoletePurged
CHECK_DEADLOCK FALSE
