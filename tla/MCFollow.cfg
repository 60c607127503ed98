CONSTANTS
  a = a
  b = b
  c = c
  Names = {a, b, c}
  Paths <- SixPlaces
  Up = Up
  Odd <- OddNames
  Starts <- AllStarts
  Texts <- ClimbFirst
  MaxParts = 3
  MaxSteps = 30
SPECIFICATION FairSpec
INVARIANTS IdentifiesConsumed MissesNothing
PROPERTIES NearsItsEnd WalkEnds
CHECK_DEADLOCK FALSE
