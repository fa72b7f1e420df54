SPECIFICATION Spec
CONSTANTS
  Photos = 2
  MaxGen = 3
  MaxFingers = 3
  Layouts <- AllWays
CHECK_DEADLOCK FALSE
INVARIANT GesturesOfPhoto
PROPERTIES
  OnlyDragsOverreach
  LiftTurnsOnePage
