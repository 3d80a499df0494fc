\* Loops of two blocks over at most two repeats.
SPECIFICATION LoopSpec
CONSTANTS
  N = 2
  NoPort = NoPort
  Ports <- MCPorts
  Names <- MCNames
  Given <- MCGiven
  Plans <- MCPlans
  MaxIterations = 2
  Until = 1
  UntilPort = "passed"
  HandlesExhausted = TRUE
INVARIANTS
  LoopSaysWhatItsBodyDid
PROPERTIES
  OneRepeatAtATime
  CancelEndsLoop
CHECK_DEADLOCK FALSE
