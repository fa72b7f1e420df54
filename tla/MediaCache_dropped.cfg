SPECIFICATION FairSpec
CONSTANTS
  o1 = o1
  o2 = o2
  t1 = t1
  None = None
  Requests = {r1, r2}
  Originals = {o1}
  Thumbs = {}
  Videos = {}
  NChunks = 1
  MaxBytes = 9
  Bytes <- MCBytes
  Faults = {"drop"}
CHECK_DEADLOCK FALSE
PROPERTIES
  FollowersReleased
