\* One of two paused blocks has registered: it is taken for the only one.
SPECIFICATION Spec
CONSTANTS
  Runs = {r1, r2}
  Blocks = {b1, b2}
  NoBlock = NoBlock
  Answers = {step, skip}
  Nothing = Nothing
  MaxPauses = 3
INVARIANTS
  OnlyBlockIsMeant
CHECK_DEADLOCK FALSE
