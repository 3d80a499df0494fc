\* The clock goes forward an hour within the day.
SPECIFICATION PreviewSpec
CONSTANTS
  Minutes = 4
  Hours = 6
  Weekdays = 2
  Months = 1
  MonthDays = 2
  Dates <- MCShortYear
  SearchDays = 6
  Shift = 4
  Before = 4
  After = 8
  Expressions <- MCShort
  Count = 3
  End = 40
INVARIANTS
  ShownIsWhatHappens
CHECK_DEADLOCK FALSE
