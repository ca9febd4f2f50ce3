SPECIFICATION Spec
CONSTANTS
  File = {1, 2}
  Get = {g1}
  Iterator = {i1}
  Filter = {c1}
  Builder = {b1}
  MaxActive = 2
  DestroyOpen = FALSE
  MaxSeq = 2
INVARIANTS
  SnapshotServed
CHECK_DEADLOCK FALSE
