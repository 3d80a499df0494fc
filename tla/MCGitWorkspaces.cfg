\* Two chains, one after the other on a branch, beside one whose branch has
\* the same folder; contexts end.
SPECIFICATION Spec
CONSTANTS
  Chains = {c1, c3}
  Branches = {b1, b2}
  Paths = {p}
  Other = c3
  First = b1
  Second = b2
  Folder = p
  BranchOf <- MCBranchOf
  PathOf <- MCPathOf
  Existing = {b1}
  Clone = Clone
  NoOne = NoOne
  Ends = TRUE
  Shared = FALSE
  MaxBase = 2
  MaxEdits = 2
INVARIANTS
  OneUpdateAtATime
  WorkSurvives
  WorksOnItsBranch
PROPERTIES
  StepEnds
CHECK_DEADLOCK FALSE
