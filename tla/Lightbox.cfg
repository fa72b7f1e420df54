SPECIFICATION FairSpec
CONSTANTS
  p = p
  q = q
  v = v
  Assets = {p, v}
  Videos = {v}
  Lists <- PhotoList
  Pages <- VideoPage
  MaxLength = 2
  MaxGen = 2
  Uses = {"video", "more", "activity", "lists"}
  None = None
CHECK_DEADLOCK FALSE
INVARIANTS
  ShownPixels
  UrlsOwned
  ObsoleteAborted
  DetailsCurrent
PROPERTIES
  RefinesList
  RefinesScreen
  PhotoResolves
