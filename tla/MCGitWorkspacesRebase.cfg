\* One chain on one branch, in one folder, whose context may end: a rebase that
\* stopped on a conflict is not aborted.
SPECIFICATION Spec
CONSTANTS
  Chains = {c1}
  Branches = {b1}
  Paths = {p}
  Other = c3
  First = b1
  Second = b2
  Folder = p
  BranchOf <- MCBranchOf
  PathOf <- MCPathOf
  Existing = {b1}
  Clone = Clone
  NoOne = NoOne
  Ends = TRUE
  Shared = FALSE
  MaxBase = 2
  MaxEdits = 2
INVARIANT
  RebaseLeavesTheBranch
CHECK_DEADLOCK FALSE
