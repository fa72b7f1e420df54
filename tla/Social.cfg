SPECIFICATION Spec
CONSTANTS
  a1 = a1
  a2 = a2
  e1 = e1
  g1 = g1
  g2 = g2
  v = v
  c1 = c1
  s1 = s1
  s2 = s2
  Assets = {a1, a2}
  Emojis = {e1}
  Guests = {g1, g2, v}
  Visitor = v
  CommentIds = {c1}
  Slots = {s1, s2}
  None = None
SYMMETRY Symmetry
CONSTRAINTS OneLoadPerPhoto OthersReactEarly
INVARIANTS
  TypeOK
  PanelOfPhoto
  PatientPanel
PROPERTIES
  DeletedByAuthor
