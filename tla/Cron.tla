-------------------------------- MODULE Cron --------------------------------
(***************************************************************************)
(* Cron expressions (internal/cron/cron.go) and the preview of the runs an *)
(* expression has coming (internal/app/schedule.go).  The scheduler asks   *)
(* of each minute whether an expression matches it; the preview searches   *)
(* the calendar for the next runs.  Both read the same expression in the   *)
(* server's zone.                                                          *)
(*                                                                         *)
(* The constants say how long an hour, a day and a week are and what the   *)
(* days of the calendar's cycle are called; the runs take a small calendar *)
(* and the proofs take any.  The zone changes its offset once, at Shift.   *)
(***************************************************************************)
EXTENDS Integers, Sequences, FiniteSets, SequencesExt

CONSTANTS
  Minutes,      \* the minutes of an hour
  Hours,        \* the hours of a day
  Weekdays,     \* the days of a week
  Months,       \* the months an expression may name
  MonthDays,    \* the days of a month it may name
  Dates,        \* the dates of the calendar's cycle, in their order
  SearchDays,   \* how many days the search goes through
  Shift,        \* when the zone changes its offset
  Before,       \* its offset until then
  After,        \* and from then on
  Expressions,  \* the expressions someone may type
  Count,        \* how many runs a preview shows
  End           \* the last minute looked at, which bounds the model

Entries == [form : {"star", "value", "range"}, from : Nat, to : Nat, step : Nat]

ASSUME CalendarAssumption ==
  /\ {Minutes, Hours, Weekdays, Months, MonthDays, SearchDays, Count} \subseteq Nat \ {0}
  /\ Dates \in Seq([month : 1..Months, day : 1..MonthDays]) /\ Dates # <<>>

ASSUME ZoneAssumption == {Shift, Before, After} \subseteq Int /\ End \in Nat

ASSUME ExpressionsAssumption ==
  Expressions \subseteq [minute : SUBSET Entries, hour : SUBSET Entries, day : SUBSET Entries,
                        month : SUBSET Entries, weekday : SUBSET Entries]

DayLength == Hours * Minutes

VARIABLES
  expression,   \* what was typed
  now,          \* the minute it is
  shown,        \* the preview of it
  happened,     \* the minutes since then in which the scheduler found it due
  asked         \* when the preview was asked for

previewVars == <<expression, now, shown, happened, asked>>

Never == -1

-----------------------------------------------------------------------------
(***************************************************************************)
(* Reading an expression.  A field is a set of entries; "*", "v" and "a-b" *)
(* have the forms star, value and range, and a step of 0 is no step.       *)
(***************************************************************************)
FirstOf(e, low) == IF e.form = "star" THEN low ELSE e.from

\* A single value with a step counts to the end of the field.
LastOf(e, high) ==
  CASE e.form = "star"  -> high
    [] e.form = "value" -> IF e.step > 0 THEN high ELSE e.from
    [] e.form = "range" -> e.to

Accepts(e, low, high) ==
  \/ e.form = "star"
  \/ e.form = "value" /\ e.from \in low..high
  \/ e.form = "range" /\ e.from \in low..high /\ e.to \in low..high /\ e.from <= e.to

Steps(e) == IF e.step > 0 THEN e.step ELSE 1

Values(field, low, high) ==
  {v \in low..high : \E e \in field : /\ v \in FirstOf(e, low)..LastOf(e, high)
                                      /\ (v - FirstOf(e, low)) % Steps(e) = 0}

\* The field "*", however else all values might be written.
IsStar(field) == \A e \in field : e.form = "star" /\ e.step = 0

\* The last weekday number is the first one again.
MutWeekdaysApart(field) == Values(field, 0, Weekdays)
WeekdaysOf(field) == {v % Weekdays : v \in Values(field, 0, Weekdays)}

Valid(x) ==
  /\ \A e \in x.minute  : Accepts(e, 0, Minutes - 1)
  /\ \A e \in x.hour    : Accepts(e, 0, Hours - 1)
  /\ \A e \in x.day     : Accepts(e, 1, MonthDays)
  /\ \A e \in x.month   : Accepts(e, 1, Months)
  /\ \A e \in x.weekday : Accepts(e, 0, Weekdays)
  /\ {} \notin {x.minute, x.hour, x.day, x.month, x.weekday}

Schedule(x) ==
  [minute  |-> Values(x.minute, 0, Minutes - 1),
   hour    |-> Values(x.hour, 0, Hours - 1),
   day     |-> Values(x.day, 1, MonthDays),
   month   |-> Values(x.month, 1, Months),
   weekday |-> WeekdaysOf(x.weekday),
   dayRestricted     |-> ~IsStar(x.day),
   weekdayRestricted |-> ~IsStar(x.weekday)]

-----------------------------------------------------------------------------
(***************************************************************************)
(* The zone.  A local time is a number of minutes too.                     *)
(***************************************************************************)
Offset(t) == IF t < Shift THEN Before ELSE After
Local(t)  == t + Offset(t)

(***************************************************************************)
(* time.Date tries the offset that is in use at the local time, taken as   *)
(* one of UTC, and the offset in use where that leads when it was not that *)
(* one.                                                                    *)
(***************************************************************************)
Date(l) == LET guess == l - Offset(l)
           IN IF guess < Shift <=> l < Shift THEN guess ELSE l - Offset(guess)

MinuteOf(l)  == l % Minutes
HourOf(l)    == (l % DayLength) \div Minutes
DayNumber(l) == l \div DayLength
DateOf(l)    == Dates[(DayNumber(l) % Len(Dates)) + 1]
DayOf(l)     == DateOf(l).day
MonthOf(l)   == DateOf(l).month
WeekdayOf(l) == DayNumber(l) % Weekdays

-----------------------------------------------------------------------------
(***************************************************************************)
(* Which minutes a schedule is due in.                                     *)
(***************************************************************************)
MatchesDay(s, l) ==
  /\ MonthOf(l) \in s.month
  /\ IF s.dayRestricted /\ s.weekdayRestricted
     THEN DayOf(l) \in s.day \/ WeekdayOf(l) \in s.weekday
     ELSE DayOf(l) \in s.day /\ WeekdayOf(l) \in s.weekday

MatchesLocal(s, l) == MinuteOf(l) \in s.minute /\ HourOf(l) \in s.hour /\ MatchesDay(s, l)

Matches(s, t) == MatchesLocal(s, Local(t))

(***************************************************************************)
(* The search goes through the days, hours and minutes of the calendar,    *)
(* and takes the first whose date has not come before the start.           *)
(***************************************************************************)
MutStartsAt(after) == after
StartsAt(after) == after + 1

Candidates(s, start) ==
  LET first == DayNumber(Local(start)) * DayLength
  IN {l \in first..(first + SearchDays * DayLength - 1) : MatchesLocal(s, l) /\ Date(l) >= start}

\* The n-th search, which is not made once one before it found nothing.
Further(s, after, earlier, n) ==
  LET from  == IF earlier = <<>> THEN after ELSE Last(earlier)
      found == Candidates(s, StartsAt(from))
  IN IF Len(earlier) < n - 1 \/ found = {} THEN earlier ELSE Append(earlier, Date(Min(found)))

Searches(s, after) ==
  LET runs[n \in 0..Count] == IF n = 0 THEN <<>> ELSE Further(s, after, runs[n - 1], n)
  IN runs

NextRuns(s, after) == Searches(s, after)[Count]

(***************************************************************************)
(* What the bound of the search takes for granted: from every day on, a    *)
(* date that ever comes, comes within the days that are searched.          *)
(***************************************************************************)
Cycle == Len(Dates) * Weekdays

ComesRound ==
  \A x \in Expressions :
    LET on == {d \in 0..(Cycle - 1) : MatchesDay(Schedule(x), d * DayLength)}
    IN Valid(x) /\ on # {} =>
         \A d \in 0..(Cycle - 1) :
           \E e \in (d + 1)..(d + SearchDays - 1) : e % Cycle \in on

-----------------------------------------------------------------------------
PreviewInit ==
  /\ expression \in Expressions
  /\ now \in 0..(End - 1)
  /\ shown = <<>>
  /\ happened = {}
  /\ asked = Never

\* The preview is asked for as the expression is typed.
Ask ==
  /\ asked = Never
  /\ Valid(expression)
  /\ shown' = NextRuns(Schedule(expression), now)
  /\ asked' = now
  /\ UNCHANGED <<expression, now, happened>>

\* A minute goes by, and the scheduler looks at the one that begins.
Pass ==
  /\ asked # Never
  /\ now < End
  /\ now' = now + 1
  /\ happened' = IF Matches(Schedule(expression), now + 1)
                 THEN happened \cup {now + 1} ELSE happened
  /\ UNCHANGED <<expression, shown, asked>>

PreviewNext == Ask \/ Pass

PreviewSpec == PreviewInit /\ [][PreviewNext]_previewVars

-----------------------------------------------------------------------------
(***************************************************************************)
(* README: the page shows the next runs, "so what is shown is what will    *)
(* happen": every moment of the preview that has come was a run, and no    *)
(* run came before the last of them that the preview does not show.        *)
(***************************************************************************)
ShownIsWhatHappens ==
  asked # Never =>
           /\ \A k \in DOMAIN shown : shown[k] <= now => shown[k] \in happened
           /\ \A t \in happened : \/ \E k \in DOMAIN shown : shown[k] = t
                                  \/ Len(shown) = Count /\ t > shown[Count]

(***************************************************************************)
(* The scheduler finds an expression due on exactly the minutes cron reads *)
(* it as, which are written out here for each entry, without the sets that *)
(* Parse fills: the last weekday is the first one again, and a day of the  *)
(* month and a weekday that are both given are alternatives.               *)
(***************************************************************************)
Says(e, v, low, high) ==
  CASE e.form = "star"  -> \E k \in 0..high : v = low + k * Steps(e)
    [] e.form = "value" -> IF e.step = 0 THEN v = e.from
                           ELSE v <= high /\ \E k \in 0..high : v = e.from + k * e.step
    [] e.form = "range" -> v <= e.to /\ \E k \in 0..high : v = e.from + k * Steps(e)

SaysOneOf(field, v, low, high) == \E e \in field : Says(e, v, low, high)

RunsWhenItSays ==
  LET dayIs(l)     == SaysOneOf(expression.day, DayOf(l), 1, MonthDays)
      weekdayIs(l) == \/ SaysOneOf(expression.weekday, WeekdayOf(l), 0, Weekdays)
                      \/ WeekdayOf(l) = 0 /\ SaysOneOf(expression.weekday, Weekdays, 0, Weekdays)
      everyDay     == IsStar(expression.day)
      everyWeekday == IsStar(expression.weekday)
      isOn(l)      == CASE everyDay /\ everyWeekday -> TRUE
                        [] everyDay /\ ~everyWeekday -> weekdayIs(l)
                        [] ~everyDay /\ everyWeekday -> dayIs(l)
                        [] OTHER -> dayIs(l) \/ weekdayIs(l)
      isDue(l)     == /\ SaysOneOf(expression.minute, MinuteOf(l), 0, Minutes - 1)
                      /\ SaysOneOf(expression.hour, HourOf(l), 0, Hours - 1)
                      /\ SaysOneOf(expression.month, MonthOf(l), 1, Months)
                      /\ isOn(l)
  IN asked # Never => happened = {t \in (asked + 1)..now : isDue(Local(t))}
=============================================================================
