SPECIFICATION Spec
CONSTANTS
  Tiles = {t1, t2}
INVARIANTS
  SuspendedWhileOpen
  BackdropTruthful
PROPERTY
  TilesSettle
