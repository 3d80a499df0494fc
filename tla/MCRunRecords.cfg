\* Two runs of two steps, one of which may retry the other, in two processes,
\* one of which may fail to save.
SPECIFICATION Spec
CONSTANTS
  Procs = {p1, p2}
  NoProc = NoProc
  Pids = {n1, n2}
  NoPid = NoPid
  Recycles = FALSE
  Steps = {s1, s2}
  LastStep = s2
  Needs <- MCNeeds
  MaxRuns = 2
  MaxFailures = 1
CONSTRAINT MCFailsAlone
SYMMETRY MCSymmetry
INVARIANTS
  InProgressIsTrue
  RetriedIsOver
  NothingRedone
PROPERTIES
  FinishedIsFinal
CHECK_DEADLOCK FALSE
