\* A step, or a cancellation, at the end of a repeat.
\* Each is violated: TLC shows the first; leave the other out to see one.
SPECIFICATION LoopSpec
CONSTANTS
  N = 2
  NoPort = NoPort
  Ports <- MCPorts
  Names <- MCNames
  Given <- MCGiven
  Plans <- MCStepPlans
  MaxIterations = 2
  Until = 1
  UntilPort = "passed"
  HandlesExhausted = TRUE
INVARIANTS
  ExhaustedByFullRepeats
PROPERTIES
  StepStopsBeforeTheNext
CHECK_DEADLOCK FALSE
