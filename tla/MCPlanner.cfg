SPECIFICATION Spec
CONSTANTS
  Graphs <- MCGraphs
  Crossing = FALSE
  MaxTries = 2
INVARIANTS
  PlannedIsValid
  ReachedIsPlanned
  SkippedForItsArrows
  PlaceholdersHaveValues
  ReusedGiveBack
CHECK_DEADLOCK FALSE
