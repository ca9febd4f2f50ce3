SPECIFICATION Spec
CONSTANTS
  MaxPut = 2
  MaxFile = 4
  MaxSeq = 4
  MaxImm = 1
  MaxInputs = 2
  MaxRestart = 1
  MaxSnap = 1
  Path = {"hardware", "software"}
INVARIANTS RelocationInvisible Reconciled IndexResolves BitmapSound
CHECK_DEADLOCK FALSE
