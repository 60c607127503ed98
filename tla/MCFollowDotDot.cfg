CONSTANTS
  a = a
  b = b
  c = c
  Names = {a, b, c}
  Paths <- ThreeIn
  Up = Up
  Odd = {}
  Starts <- AllStarts
  Texts <- ClimbLater
  MaxParts = 3
  MaxSteps = 30
SPECIFICATION Spec
INVARIANT IdentifiesTarget
CHECK_DEADLOCK FALSE
