\* Graphs and schedules saved without a lock, and a clock set back further
\* than a window.
\* Each is violated: TLC shows the first; leave the others out to see one.
SPECIFICATION Spec
CONSTANTS
  Workflows = {a}
  Graphs = {good, bad}
  Broken = {bad}
  Always = Always
  Alternate = Alternate
  Expressions = {Always}
  Due <- MCDue
  Off = Off
  Size = 2
  Windows = 3
  SetBack = 3
  MaxUpsets = 1
  Outlives = FALSE
INVARIANTS
  OnceInAWindow
PROPERTIES
  LeavesGraphAlone
  SavingKeepsTheSchedule
CHECK_DEADLOCK FALSE
