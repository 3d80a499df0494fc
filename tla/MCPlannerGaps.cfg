\* What the documents and comments say of the planner and a graph refutes.
\* Each is violated: TLC shows the first; leave the others out to see one.
SPECIFICATION Spec
CONSTANTS
  Graphs <- MCGraphs
  Crossing = TRUE
  MaxTries = 1
INVARIANTS
  ProblemsAreAll
  IncludedIsExecuted
  PassingPutsOut
  NothingIsBlank
  RunsOnAnArrow
CHECK_DEADLOCK FALSE
