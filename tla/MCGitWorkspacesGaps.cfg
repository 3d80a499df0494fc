\* Two chains work in one worktree at the same time, or in one whose creation
\* was killed.
\* Each is violated: TLC shows the first; leave the others out to see one.
SPECIFICATION Spec
CONSTANTS
  Chains = {c1, c2}
  Branches = {b1}
  Paths = {p}
  Other = c3
  First = b1
  Second = b2
  Folder = p
  BranchOf <- MCBranchOf
  PathOf <- MCPathOf
  Existing = {b1}
  Clone = Clone
  NoOne = NoOne
  Ends = TRUE
  Shared = TRUE
  MaxBase = 2
  MaxEdits = 2
INVARIANTS
  WorkSurvives
  WorkspaceIsPrepared
CHECK_DEADLOCK FALSE
