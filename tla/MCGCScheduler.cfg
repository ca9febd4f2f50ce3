SPECIFICATION FairSpec
CONSTANTS
  CF = {c1, c2}
  Thread = {t1, t2}
  Dropper = {d1, d2}
  Closing = TRUE
  Faults = {"base"}
  MaxAdd = 2
INVARIANTS QueueAccounted DropExclusive GCHasHandle
PROPERTIES DropTerminates GCProgress
CHECK_DEADLOCK FALSE
