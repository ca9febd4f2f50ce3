SPECIFICATION Spec
INVARIANTS
  BitmapHolds
  PickSound
  DeletesInside
  MarksOverlapping
  RelocatesLive
  RangeCovers
  ExitsAtMultiple
CHECK_DEADLOCK FALSE
