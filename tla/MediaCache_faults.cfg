SPECIFICATION Spec
CONSTANTS
  o1 = o1
  o2 = o2
  t1 = t1
  None = None
  Requests = {r1, r2, r3}
  Originals = {o1, o2}
  Thumbs = {t1}
  Videos = {o2}
  NChunks = 1
  MaxBytes = 5
  Bytes <- MCBytes
  Faults = {"cancel", "drop", "close", "commit", "unlink", "crash"}
SYMMETRY Symmetry
INVARIANTS
  ThumbSingleFlight
  NoPartialFile
  WaitsForRegistered
PROPERTY
  RefinesSingleFlight
