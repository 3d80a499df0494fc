\* A process that gets the id of the one that died.
SPECIFICATION Spec
CONSTANTS
  Procs = {p1, p2}
  NoProc = NoProc
  Pids = {n1}
  NoPid = NoPid
  Recycles = TRUE
  Steps = {s2}
  LastStep = s2
  Needs <- MCNeeds
  MaxRuns = 1
  MaxFailures = 0
SYMMETRY MCSymmetry
INVARIANTS
  InProgressIsTrue
CHECK_DEADLOCK FALSE
