\* Safety and progress of the execution over every plan of MCPlans.
SPECIFICATION Spec
CONSTANTS
  N = 3
  NoPort = NoPort
  outer = outer
  Ports <- MCPorts
  Names <- MCNames
  Given <- MCGiven
  Plans <- MCPlans
INVARIANTS
  LimitRespected
  NeverStuck
  ReportsNeverBlock
  RanWithItsNeeds
  SucceededRanEverything
  OneLateLaunch
PROPERTIES
  SettledIsFinal
  KeepsPromise
  CancelEnds
  RunEnds
\* A run ends, and once its goroutines have ended nothing happens any more.
CHECK_DEADLOCK FALSE
