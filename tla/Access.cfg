SPECIFICATION Spec
CONSTANTS
  t1 = t1
  r1 = r1
  r2 = r2
  a1 = a1
  l1 = l1
  p1 = p1
  p2 = p2
  Tokens = {t1}
  Requests = {r1, r2}
  Assets = {a1}
  Albums = {l1}
  People = {p1, p2}
  Hidden = {p2}
  Faces <- OnPhotos
  Wants <- Asked
  Scopes <- GivenScopes
  ScopeTTL = 1
  PeopleTTL = 1
  Latency = 1
  MaxPages = 2
  PageSize = 1
SYMMETRY Same
INVARIANTS
  AssetsWithinScope
  PeopleWithinScope
  RevocationBites
