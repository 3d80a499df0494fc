\* Three pauses of two blocks in two runs; whoever is answered or cancelled
\* goes on.
SPECIFICATION Spec
CONSTANTS
  Runs = {r1, r2}
  Blocks = {b1, b2}
  NoBlock = NoBlock
  Answers = {step, skip}
  Nothing = Nothing
  MaxPauses = 3
INVARIANTS
  ResumeNeverBlocks
  WaitingCanBeAnswered
  ReturnsItsAnswer
PROPERTIES
  GoesOn
CHECK_DEADLOCK FALSE
