\* Two workflows, and a server that stops once or a clock that is set back once.
SPECIFICATION Spec
CONSTANTS
  Workflows = {a, b}
  Graphs = {good, bad}
  Broken = {bad}
  Always = Always
  Alternate = Alternate
  Expressions = {Always}
  Due <- MCDue
  Off = Off
  Size = 2
  Windows = 2
  SetBack = 1
  MaxUpsets = 1
  Outlives = FALSE
SYMMETRY MCSymmetry
INVARIANTS
  OnceInAWindow
  NoneIsMissed
CHECK_DEADLOCK FALSE
