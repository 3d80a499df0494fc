\* A cancelled run of two steps, with a save that fails.
SPECIFICATION Spec
CONSTANTS
  Procs = {p1}
  NoProc = NoProc
  Pids = {n1}
  NoPid = NoPid
  Recycles = FALSE
  Steps = {s1, s2}
  LastStep = s2
  Needs <- MCNeeds
  MaxRuns = 2
  MaxFailures = 1
PROPERTIES
  CancelIsHeard
CHECK_DEADLOCK FALSE
