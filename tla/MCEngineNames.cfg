\* Two branches of one name: the one not taken hides the one that arrived.
SPECIFICATION Spec
CONSTANTS
  N = 3
  NoPort = NoPort
  outer = outer
  Ports <- MCPort
  Names <- MCNames
  Given <- MCGiven
  Plans <- MCSameNamePlans
INVARIANTS
  AnyArrowIsEnough
CHECK_DEADLOCK FALSE
