\* A cancellation that comes too late, or for a run its schedule started, and
\* the retry of a retry that was cancelled early.
\* Each is violated: TLC shows the first; leave the others out to see one.
SPECIFICATION Spec
CONSTANTS
  Procs = {p1}
  NoProc = NoProc
  Pids = {n1}
  NoPid = NoPid
  Recycles = FALSE
  Steps = {s1, s2}
  LastStep = s2
  Needs <- MCNeeds
  MaxRuns = 3
  MaxFailures = 0
SYMMETRY MCSymmetry
INVARIANTS
  ToldIsRecorded
  ExecutingCanBeCancelled
  RanOnceInItsChain
CHECK_DEADLOCK FALSE
