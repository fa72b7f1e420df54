SPECIFICATION Spec
CONSTANTS
  p = p
  q = q
  v = v
  Assets = {p, q, v}
  Videos = {v}
  Lists <- OneList
  Pages <- OnePage
  MaxLength = 3
  MaxGen = 3
  Uses = {"more"}
  None = None
CHECK_DEADLOCK FALSE
PROPERTIES
  ClosedStaysClosed
