SPECIFICATION FairSpec
CONSTANTS
  o1 = o1
  o2 = o2
  t1 = t1
  None = None
  Requests = {r1, r2}
  Originals = {o1, o2}
  Thumbs = {t1}
  Videos = {}
  NChunks = 1
  MaxBytes = 9
  Bytes <- MCBytes
  Faults = {"cancel", "close"}
CHECK_DEADLOCK FALSE
INVARIANTS
  FillHasOwner
  RowsMatchFiles
  WithinCap
  WaitersAreServed
PROPERTIES
  EvictsNoMore
  EveryRequestEnds
