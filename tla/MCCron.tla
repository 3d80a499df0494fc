------------------------------- MODULE MCCron -------------------------------
(***************************************************************************)
(* Two calendars: years of a month of three days and one of two, with days *)
(* of three hours of two minutes, and years of one month of two days of    *)
(* six hours of four minutes, in which the zone can change its offset by   *)
(* an hour.  The weeks have two days, and the entries take every form.     *)
(***************************************************************************)
EXTENDS Cron, TLC

\* The dates of a year whose months have these lengths.
Year(lengths) ==
  FlattenSeq([m \in 1..Len(lengths) |-> [d \in 1..lengths[m] |-> [month |-> m, day |-> d]]])

MCYear      == Year(<<3, 2>>)
MCShortYear == Year(<<2>>)

\* The search of these calendars is long enough for all of the expressions.
ASSUME MCComesRound == ComesRound

Star          == [form |-> "star", from |-> 0, to |-> 0, step |-> 0]
StarStep(n)   == [Star EXCEPT !.step = n]
Value(v)      == [form |-> "value", from |-> v, to |-> v, step |-> 0]
ValueStep(v, n) == [Value(v) EXCEPT !.step = n]
Span(a, b)   == [form |-> "range", from |-> a, to |-> b, step |-> 0]

Expression(minute, hour, day, month, weekday) ==
  [minute |-> minute, hour |-> hour, day |-> day, month |-> month, weekday |-> weekday]

MCExpressions ==
  {Expression(m, h, d, n, w) :
     m \in {{Star}, {Value(1)}},
     h \in {{Star}, {Value(1)}, {Span(1, 2)}, {Value(0), Value(2)}},
     d \in {{Star}, {Value(2)}, {Value(3)}, {ValueStep(1, 2)}, {StarStep(2)}, {Span(2, 1)}},
     n \in {{Star}, {Value(2)}},
     w \in {{Star}, {Value(1)}, {Value(2)}}}

\* One day of hours of four minutes; the fields above the hour are stars.
MCShort == {Expression(m, h, {Star}, {Star}, {Star}) :
              m \in {{Value(0)}, {Value(2)}},
              h \in {{Value(2)}, {Span(2, 3)}}}
=============================================================================
