\* Every form of entry, in a zone that keeps its offset.
SPECIFICATION PreviewSpec
CONSTANTS
  Minutes = 2
  Hours = 3
  Weekdays = 2
  Months = 2
  MonthDays = 3
  Dates <- MCYear
  SearchDays = 12
  Shift = 0
  Before = 1
  After = 1
  Expressions <- MCExpressions
  Count = 3
  End = 30
INVARIANTS
  ShownIsWhatHappens
  RunsWhenItSays
CHECK_DEADLOCK FALSE
