--------------------------- MODULE ReadingProofs ----------------------------
(***************************************************************************)
(* Proofs about what a workflow on a schedule is read from: its cron       *)
(* expression (Cron) and its file (WorkflowDocument).                      *)
(*                                                                         *)
(* For every calendar, every set of expressions and every preview: an      *)
(* expression is due on the minutes it says, and, in a zone that keeps its *)
(* offset, the preview shows what happens.                                 *)
(*                                                                         *)
(* For every number of blocks, nesting, arrows and names that fit: what is *)
(* saved is read back as it was drawn, and saving what was read settles.   *)
(***************************************************************************)
EXTENDS Cron, WorkflowDocument, SequenceTheorems, FiniteSetTheorems, WellFoundedInduction, TLAPS

-----------------------------------------------------------------------------
(***************************************************************************)
(* Numbers: the smallest of a set, quotients and remainders.               *)
(***************************************************************************)
LEMMA SmallestNat ==
  ASSUME NEW T \in SUBSET Nat, T # {}
  PROVE  \E x \in T : \A y \in T : x <= y
<1> DEFINE R == {ss \in Nat \X Nat : ss[1] < ss[2]}
<1>1. IsWellFoundedOn(R, Nat)
  BY NatLessThanWellFounded DEF OpToRel
<1> HIDE DEF R
<1>2. \E x \in T : \A y \in T : ~(<<y, x>> \in R)
  BY <1>1, WFMin, Zenon
<1>3. \A x \in Nat, y \in Nat : <<y, x>> \in R <=> y < x
  BY DEF R
<1>4. \A x, y \in Nat : ~(y < x) => x <= y
  OBVIOUS
<1> QED BY <1>2, <1>3, <1>4

\* A set of integers that starts somewhere has a smallest one.
LEMMA MinIsSmallest ==
  ASSUME NEW b \in Int, NEW T \in SUBSET {i \in Int : b <= i}, T # {}
  PROVE  /\ Min(T) \in T
         /\ \A y \in T : Min(T) <= y
<1> DEFINE U == {i - b : i \in T}
<1>1. U \in SUBSET Nat /\ U # {}
  OBVIOUS
<1>2. PICK u \in U : \A y \in U : u <= y
  BY <1>1, SmallestNat
<1>3. PICK x \in T : u = x - b
  OBVIOUS
<1>4. \A y \in T : x <= y
  <2> TAKE y \in T
  <2>1. u <= y - b /\ x \in Int /\ y \in Int
    BY <1>2
  <2> QED BY <1>3, <2>1
<1> HIDE DEF U
<1>5. \E z \in T : \A y \in T : z <= y
  BY <1>3, <1>4
<1> QED BY <1>5 DEF Min

LEMMA QuotientAndRemainder ==
  ASSUME NEW n \in Nat \ {0}, NEW l \in Int
  PROVE  /\ l \div n \in Int
         /\ l % n \in 0..(n - 1)
         /\ l = (l \div n) * n + (l % n)
OBVIOUS

LEMMA Unique ==
  ASSUME NEW n \in Nat \ {0}, NEW q \in Int, NEW r \in 0..(n - 1)
  PROVE  /\ (q * n + r) \div n = q
         /\ (q * n + r) % n = r
<1> DEFINE l == q * n + r
           p == l \div n
           m == l % n
<1>1. l \in Int
  OBVIOUS
<1>2. p \in Int /\ m \in 0..(n - 1) /\ l = p * n + m
  BY <1>1, QuotientAndRemainder
<1>3. (q - p) * n = m - r
  <2>1. (q - p) * n = q * n - p * n /\ q * n \in Int /\ p * n \in Int
    BY <1>2
  <2> HIDE DEF p, m
  <2> QED BY <1>2, <2>1
<1> HIDE DEF p, m, l
<1>4. q - p = 0
  <2> DEFINE k == q - p
  <2>1. k \in Int /\ k * n = m - r /\ m - r < n /\ -n < m - r
    BY <1>2, <1>3
  <2> HIDE DEF k
  <2>2. CASE k >= 1
    <3>1. k * n >= n
      BY <2>1, <2>2
    <3> QED BY <2>1, <3>1
  <2>3. CASE k <= -1
    <3>1. k * n <= -n
      BY <2>1, <2>3
    <3> QED BY <2>1, <3>1
  <2> QED BY <2>1, <2>2, <2>3 DEF k
<1>5. q = p
  BY <1>2, <1>4
<1>6. m = r
  <2>1. p * n \in Int
    BY <1>2
  <2> QED BY <1>2, <1>5, <2>1 DEF l
<1> QED BY <1>5, <1>6 DEF p, m, l

LEMMA RemainderOfRemainder ==
  ASSUME NEW m \in Nat \ {0}, NEW n \in Nat \ {0}, NEW l \in Int
  PROVE  /\ m * n \in Nat \ {0}
         /\ (l % (m * n)) % n = l % n
<1> DEFINE q == l \div (m * n)
           r == l % (m * n)
           a == r \div n
           b == r % n
<1>1. m * n \in Nat \ {0}
  OBVIOUS
<1>2. q \in Int /\ r \in Int /\ l = q * (m * n) + r
  <2> HIDE DEF q, r
  <2> DEFINE c == m * n
  <2>1. c \in Nat \ {0}
    BY <1>1
  <2> HIDE DEF c
  <2>2. l \div c \in Int /\ l % c \in 0..(c - 1) /\ l = (l \div c) * c + (l % c)
    BY <2>1, QuotientAndRemainder
  <2> QED BY <2>1, <2>2 DEF c, q, r
<1> HIDE DEF q, r
<1>3. a \in Int /\ b \in 0..(n - 1) /\ r = a * n + b
  BY <1>2, QuotientAndRemainder
<1> HIDE DEF a, b
<1>4. l = (q * m + a) * n + b /\ q * m + a \in Int
  <2>1. q * (m * n) = (q * m) * n /\ q * m \in Int
    BY <1>2
  <2>2. (q * m + a) * n = (q * m) * n + a * n /\ (q * m) * n \in Int /\ a * n \in Int
    BY <1>3, <2>1
  <2> QED BY <1>2, <1>3, <2>1, <2>2
<1>5. l % n = b
  BY <1>3, <1>4, Unique
<1> QED BY <1>1, <1>5 DEF b, r

\* Whole turns change no remainder.
LEMMA WholeTurns ==
  ASSUME NEW n \in Nat \ {0}, NEW q \in Int, NEW g \in Int
  PROVE  (q * n + g) % n = g % n
<1> DEFINE p == g \div n
           r == g % n
<1>1. p \in Int /\ r \in 0..(n - 1) /\ g = p * n + r
  BY QuotientAndRemainder
<1> HIDE DEF p, r
<1>2. q * n + g = (q + p) * n + r
  <2>1. (q + p) * n = q * n + p * n /\ q * n \in Int /\ p * n \in Int
    BY <1>1
  <2> QED BY <1>1, <2>1
<1>3. ((q + p) * n + r) % n = r
  BY <1>1, Unique
<1> QED BY <1>2, <1>3 DEF r

-----------------------------------------------------------------------------
(***************************************************************************)
(* The calendar.                                                           *)
(***************************************************************************)
LEMMA Lengths ==
  /\ Minutes \in Nat \ {0} /\ Hours \in Nat \ {0} /\ DayLength \in Nat \ {0}
  /\ Weekdays \in Nat \ {0} /\ Len(Dates) \in Nat \ {0} /\ Cycle \in Nat \ {0}
  /\ Months \in Nat \ {0} /\ MonthDays \in Nat \ {0}
  /\ SearchDays \in Nat \ {0} /\ Count \in Nat \ {0}
<1>1. Minutes \in Nat \ {0} /\ Hours \in Nat \ {0} /\ Weekdays \in Nat \ {0}
      /\ Months \in Nat \ {0} /\ MonthDays \in Nat \ {0}
      /\ SearchDays \in Nat \ {0} /\ Count \in Nat \ {0}
  BY CalendarAssumption
<1>2. Len(Dates) \in Nat \ {0}
  BY CalendarAssumption, EmptySeq
<1>3. \A a, b \in Nat \ {0} : a * b \in Nat \ {0}
  OBVIOUS
<1> QED BY <1>1, <1>2, <1>3 DEF DayLength, Cycle

LEMMA Clock ==
  ASSUME NEW l \in Int
  PROVE  /\ MinuteOf(l) \in 0..(Minutes - 1)
         /\ HourOf(l) \in 0..(Hours - 1)
         /\ DayNumber(l) \in Int
         /\ l % DayLength \in 0..(DayLength - 1)
         /\ l = DayNumber(l) * DayLength + (l % DayLength)
         /\ WeekdayOf(l) \in 0..(Weekdays - 1)
         /\ DayOf(l) \in 1..MonthDays
         /\ MonthOf(l) \in 1..Months
<1>1. /\ DayNumber(l) \in Int
      /\ l % DayLength \in 0..(DayLength - 1)
      /\ l = DayNumber(l) * DayLength + (l % DayLength)
  BY Lengths, QuotientAndRemainder DEF DayNumber
<1>2. MinuteOf(l) \in 0..(Minutes - 1)
  BY Lengths, QuotientAndRemainder DEF MinuteOf
<1>3. HourOf(l) \in 0..(Hours - 1)
  <2> DEFINE r == l % DayLength
             h == r \div Minutes
  <2>1. r \in 0..(DayLength - 1) /\ r \in Int /\ DayLength = Hours * Minutes
    BY <1>1, Lengths DEF DayLength
  <2> HIDE DEF r
  <2>2. h \in Int /\ r % Minutes \in 0..(Minutes - 1) /\ r = h * Minutes + (r % Minutes)
    BY <2>1, Lengths, QuotientAndRemainder
  <2> HIDE DEF h
  <2>3. ~(h <= -1)
    <3> SUFFICES ASSUME h <= -1 PROVE FALSE
      OBVIOUS
    <3>1. h * Minutes <= -Minutes
      BY <2>2, Lengths
    <3>2. h * Minutes \in Int
      BY <2>2, Lengths
    <3> QED BY <2>1, <2>2, <3>1, <3>2, Lengths
  <2>4. ~(h >= Hours)
    <3> SUFFICES ASSUME h >= Hours PROVE FALSE
      OBVIOUS
    <3>1. h * Minutes >= Hours * Minutes
      BY <2>2, Lengths
    <3>2. h * Minutes \in Int /\ Hours * Minutes \in Int
      BY <2>2, Lengths
    <3> QED BY <2>1, <2>2, <3>1, <3>2, Lengths
  <2> QED BY <2>2, <2>3, <2>4, Lengths DEF HourOf, h, r
<1>4. WeekdayOf(l) \in 0..(Weekdays - 1)
  BY <1>1, Lengths, QuotientAndRemainder DEF WeekdayOf
<1>5. DateOf(l) \in [month : 1..Months, day : 1..MonthDays]
  <2>1. DayNumber(l) % Len(Dates) \in 0..(Len(Dates) - 1)
    BY <1>1, Lengths, QuotientAndRemainder
  <2>2. (DayNumber(l) % Len(Dates)) + 1 \in 1..Len(Dates)
    BY <2>1, Lengths
  <2> DEFINE D == [month : 1..Months, day : 1..MonthDays]
  <2>3. Dates \in Seq(D)
    BY CalendarAssumption
  <2> HIDE DEF D
  <2>4. \A j \in 1..Len(Dates) : Dates[j] \in D
    BY <2>3
  <2> QED BY <2>2, <2>4 DEF DateOf, D
<1> QED BY <1>1, <1>2, <1>3, <1>4, <1>5 DEF DayOf, MonthOf

\* The minute of another day at which the clock shows the same.
LEMMA SameTime ==
  ASSUME NEW l \in Int, NEW e \in Int
  PROVE  LET k == e * DayLength + (l % DayLength)
         IN /\ k \in Int
            /\ DayNumber(k) = e
            /\ HourOf(k) = HourOf(l)
            /\ MinuteOf(k) = MinuteOf(l)
<1> DEFINE r == l % DayLength
           k == e * DayLength + r
<1>1. r \in 0..(DayLength - 1) /\ DayLength \in Nat \ {0}
  BY Clock, Lengths
<1> HIDE DEF r
<1>2. k \in Int
  BY <1>1
<1>3. k \div DayLength = e /\ k % DayLength = r
  BY <1>1, Unique
<1>4. \A i \in Int : (i % DayLength) % Minutes = i % Minutes
  BY Lengths, RemainderOfRemainder DEF DayLength
<1> HIDE DEF k
<1>5. (k % DayLength) % Minutes = k % Minutes /\ (l % DayLength) % Minutes = l % Minutes
  BY <1>2, <1>4
<1>6. DayNumber(k) = e /\ HourOf(k) = HourOf(l) /\ MinuteOf(k) = MinuteOf(l)
  BY <1>3, <1>5 DEF DayNumber, HourOf, MinuteOf, r
<1> QED BY <1>2, <1>6 DEF k, r

LEMMA SameDay ==
  ASSUME NEW s, NEW l, NEW k, DayNumber(l) = DayNumber(k)
  PROVE  MatchesDay(s, l) = MatchesDay(s, k)
BY DEF MatchesDay, MonthOf, DayOf, WeekdayOf, DateOf

LEMMA DayStarts ==
  ASSUME NEW d \in Int
  PROVE  d * DayLength \in Int /\ DayNumber(d * DayLength) = d
<1>1. 0 \in 0..(DayLength - 1) /\ d * DayLength \in Int /\ d * DayLength + 0 = d * DayLength
  BY Lengths
<1> QED BY <1>1, Lengths, Unique DEF DayNumber

\* The calendar goes round.
LEMMA DaysComeBack ==
  ASSUME NEW s, NEW d \in Int
  PROVE  MatchesDay(s, d * DayLength) = MatchesDay(s, (d % Cycle) * DayLength)
<1>1. d % Cycle \in 0..(Cycle - 1)
  BY Lengths, QuotientAndRemainder
<1>2. DayNumber(d * DayLength) = d /\ DayNumber((d % Cycle) * DayLength) = d % Cycle
  BY <1>1, DayStarts
<1>3. (d % Cycle) % Weekdays = d % Weekdays
  BY Lengths, RemainderOfRemainder DEF Cycle
<1>4. (d % Cycle) % Len(Dates) = d % Len(Dates)
  <2>1. Cycle = Weekdays * Len(Dates)
    BY Lengths DEF Cycle
  <2> QED BY <2>1, Lengths, RemainderOfRemainder
<1> QED BY <1>2, <1>3, <1>4 DEF MatchesDay, MonthOf, DayOf, WeekdayOf, DateOf

-----------------------------------------------------------------------------
(***************************************************************************)
(* Fields: the values that Parse collects are the ones the entries say.    *)
(***************************************************************************)
LEMMA Multiples ==
  ASSUME NEW n \in Nat \ {0}, NEW a \in Int, NEW v \in Int, a <= v,
         NEW h \in Int, v - a <= h
  PROVE  (v - a) % n = 0 <=> \E k \in 0..h : v = a + k * n
<1> DEFINE d == v - a
           q == d \div n
           r == d % n
<1>1. d \in Nat /\ d <= h /\ d \in Int
  OBVIOUS
<1> HIDE DEF d
<1>2. q \in Int /\ r \in 0..(n - 1) /\ d = q * n + r
  BY <1>1, QuotientAndRemainder
<1>3. ASSUME r = 0 PROVE \E k \in 0..h : v = a + k * n
  <2> HIDE DEF q, r
  <2>1. q * n = d /\ q \in Int
    BY <1>2, <1>3
  <2>2. ~(q <= -1)
    <3> SUFFICES ASSUME q <= -1 PROVE FALSE
      OBVIOUS
    <3>1. q * n <= -n
      BY <1>2
    <3> QED BY <1>1, <2>1, <3>1
  <2>3. q <= q * n
    BY <2>1, <2>2
  <2>4. q \in 0..h
    BY <1>1, <2>1, <2>2, <2>3
  <2>5. v = a + q * n
    BY <2>1 DEF d
  <2> QED BY <2>4, <2>5
<1>4. ASSUME NEW k \in 0..h, v = a + k * n PROVE r = 0
  <2>1. d = k * n + 0 /\ k \in Int /\ 0 \in 0..(n - 1)
    <3>1. k * n \in Int
      OBVIOUS
    <3> QED BY <1>4, <3>1 DEF d
  <2>2. (k * n + 0) % n = 0
    BY <2>1, Unique
  <2> QED BY <2>1, <2>2
<1> QED BY <1>3, <1>4 DEF d

LEMMA EntrySays ==
  ASSUME NEW e \in Entries, NEW low \in Nat, NEW high \in Nat, Accepts(e, low, high),
         NEW v \in low..high
  PROVE  /\ v \in FirstOf(e, low)..LastOf(e, high)
         /\ (v - FirstOf(e, low)) % Steps(e) = 0
         <=> Says(e, v, low, high)
<1>1. e.from \in Nat /\ e.to \in Nat /\ e.step \in Nat /\ Steps(e) \in Nat \ {0}
      /\ e.form \in {"star", "value", "range"}
  BY DEF Entries, Steps
<1> DEFINE Reached(n, a) == (v - a) % n = 0 <=> \E k \in 0..high : v = a + k * n
<1>2. \A n \in Nat \ {0}, a \in Nat : a <= v => Reached(n, a)
  <2> TAKE n \in Nat \ {0}, a \in Nat
  <2> SUFFICES ASSUME a <= v PROVE Reached(n, a)
    OBVIOUS
  <2>1. v \in Int /\ a \in Int /\ high \in Int /\ v - a <= high
    OBVIOUS
  <2> QED BY <2>1, Multiples
<1>3. CASE e.form = "star"
  <2>1. FirstOf(e, low) = low /\ LastOf(e, high) = high
    BY <1>3 DEF FirstOf, LastOf
  <2>2. Reached(Steps(e), low)
    <3> HIDE DEF Reached
    <3> QED BY <1>2, <1>1
  <2> QED BY <1>3, <2>1, <2>2 DEF Says
<1>4. CASE e.form = "value" /\ e.step = 0
  <2>1. FirstOf(e, low) = e.from /\ LastOf(e, high) = e.from /\ Steps(e) = 1
    BY <1>4 DEF FirstOf, LastOf, Steps
  <2>2. \A d \in Int : d = 0 => d % 1 = 0
    OBVIOUS
  <2>3. v \in e.from..e.from <=> v = e.from
    BY <1>1
  <2> QED BY <1>1, <1>4, <2>1, <2>2, <2>3 DEF Says
<1>5. CASE e.form = "value" /\ e.step # 0
  <2>1. FirstOf(e, low) = e.from /\ LastOf(e, high) = high /\ Steps(e) = e.step
    BY <1>1, <1>5 DEF FirstOf, LastOf, Steps
  <2>2. CASE e.from <= v
    <3>1. Reached(e.step, e.from)
      <4> HIDE DEF Reached
      <4> QED BY <1>2, <1>1, <1>5, <2>2
    <3> QED BY <1>1, <1>5, <2>1, <2>2, <3>1 DEF Says
  <2>3. CASE ~(e.from <= v)
    <3>1. \A k \in 0..high : v # e.from + k * e.step
      <4> TAKE k \in 0..high
      <4>1. k * e.step \in Nat
        BY <1>1
      <4> QED BY <1>1, <2>3, <4>1
    <3> QED BY <1>1, <1>5, <2>1, <2>3, <3>1 DEF Says
  <2> QED BY <2>2, <2>3
<1>6. CASE e.form = "range"
  <2>1. FirstOf(e, low) = e.from /\ LastOf(e, high) = e.to
    BY <1>6 DEF FirstOf, LastOf
  <2>2. CASE e.from <= v
    <3>1. Reached(Steps(e), e.from)
      <4> HIDE DEF Reached
      <4> QED BY <1>2, <1>1, <2>2
    <3> QED BY <1>1, <1>6, <2>1, <2>2, <3>1 DEF Says
  <2>3. CASE ~(e.from <= v)
    <3>1. \A k \in 0..high : v # e.from + k * Steps(e)
      <4> TAKE k \in 0..high
      <4>1. k * Steps(e) \in Nat
        BY <1>1
      <4> QED BY <1>1, <2>3, <4>1
    <3> QED BY <1>1, <1>6, <2>1, <2>3, <3>1 DEF Says
  <2> QED BY <2>2, <2>3
<1> QED BY <1>1, <1>3, <1>4, <1>5, <1>6

LEMMA FieldSays ==
  ASSUME NEW field \in SUBSET Entries, NEW low \in Nat, NEW high \in Nat,
         \A e \in field : Accepts(e, low, high), NEW v \in low..high
  PROVE  v \in Values(field, low, high) <=> SaysOneOf(field, v, low, high)
BY EntrySays DEF Values, SaysOneOf

\* A star says every value.
LEMMA StarSaysAll ==
  ASSUME NEW field \in SUBSET Entries, field # {}, IsStar(field), NEW low \in Nat, NEW high \in Nat
  PROVE  Values(field, low, high) = low..high
<1> SUFFICES ASSUME NEW v \in low..high PROVE v \in Values(field, low, high)
  BY DEF Values
<1>1. PICK e \in field : e.form = "star" /\ e.step = 0
  BY DEF IsStar
<1>2. FirstOf(e, low) = low /\ LastOf(e, high) = high /\ Steps(e) = 1
  BY <1>1 DEF FirstOf, LastOf, Steps
<1>3. (v - low) % 1 = 0
  OBVIOUS
<1> QED BY <1>2, <1>3 DEF Values

LEMMA WeekdaySays ==
  ASSUME NEW field \in SUBSET Entries, \A e \in field : Accepts(e, 0, Weekdays),
         NEW w \in 0..(Weekdays - 1)
  PROVE  w \in WeekdaysOf(field) <=> \/ SaysOneOf(field, w, 0, Weekdays)
                                     \/ w = 0 /\ SaysOneOf(field, Weekdays, 0, Weekdays)
<1> DEFINE V == Values(field, 0, Weekdays)
<1>1. Weekdays \in Nat \ {0} /\ w \in 0..Weekdays /\ Weekdays \in 0..Weekdays
  BY Lengths
<1>2. \A v \in 0..Weekdays : v \in V <=> SaysOneOf(field, v, 0, Weekdays)
  BY <1>1, FieldSays
<1>3. \A v \in 0..(Weekdays - 1) : v % Weekdays = v
  <2> TAKE v \in 0..(Weekdays - 1)
  <2>1. (0 * Weekdays + v) % Weekdays = v
    BY <1>1, Unique
  <2>2. 0 * Weekdays + v = v
    BY <1>1
  <2> QED BY <2>1, <2>2
<1>4. Weekdays % Weekdays = 0
  <2>1. (1 * Weekdays + 0) % Weekdays = 0
    BY <1>1, Unique
  <2>2. 1 * Weekdays + 0 = Weekdays
    BY <1>1
  <2> QED BY <2>1, <2>2
<1>5. V \subseteq 0..Weekdays
  BY DEF Values
<1>6. WeekdaysOf(field) = {v % Weekdays : v \in V}
  BY DEF WeekdaysOf
<1> HIDE DEF V
<1>7. w \in WeekdaysOf(field) <=> w \in V \/ (w = 0 /\ Weekdays \in V)
  <2>1. ASSUME w \in WeekdaysOf(field) PROVE w \in V \/ (w = 0 /\ Weekdays \in V)
    <3>1. PICK v \in V : w = v % Weekdays
      BY <1>6, <2>1
    <3>2. v = Weekdays \/ v \in 0..(Weekdays - 1)
      BY <1>1, <1>5
    <3> QED BY <1>3, <1>4, <3>1, <3>2
  <2>2. w \in V => w \in WeekdaysOf(field)
    BY <1>3, <1>6
  <2>3. w = 0 /\ Weekdays \in V => w \in WeekdaysOf(field)
    BY <1>4, <1>6
  <2> QED BY <2>1, <2>2, <2>3
<1> QED BY <1>1, <1>2, <1>7

-----------------------------------------------------------------------------
(***************************************************************************)
(* The minutes an expression says, at local time l.                        *)
(***************************************************************************)
SaysDay(x, l) == SaysOneOf(x.day, DayOf(l), 1, MonthDays)

SaysWeekday(x, l) ==
  \/ SaysOneOf(x.weekday, WeekdayOf(l), 0, Weekdays)
  \/ WeekdayOf(l) = 0 /\ SaysOneOf(x.weekday, Weekdays, 0, Weekdays)

SaysTime(x, l) ==
  /\ SaysOneOf(x.minute, MinuteOf(l), 0, Minutes - 1)
  /\ SaysOneOf(x.hour, HourOf(l), 0, Hours - 1)
  /\ SaysOneOf(x.month, MonthOf(l), 1, Months)

SaysOn(x, l) ==
  CASE IsStar(x.day) /\ IsStar(x.weekday) -> TRUE
    [] IsStar(x.day) /\ ~IsStar(x.weekday) -> SaysWeekday(x, l)
    [] ~IsStar(x.day) /\ IsStar(x.weekday) -> SaysDay(x, l)
    [] OTHER -> SaysDay(x, l) \/ SaysWeekday(x, l)

LEMMA Fields ==
  ASSUME NEW x \in Expressions, Valid(x)
  PROVE  /\ x.minute \in SUBSET Entries /\ x.hour \in SUBSET Entries /\ x.day \in SUBSET Entries
         /\ x.month \in SUBSET Entries /\ x.weekday \in SUBSET Entries
         /\ x.day # {} /\ x.weekday # {}
BY ExpressionsAssumption DEF Valid

LEMMA MatchesWhatItSays ==
  ASSUME NEW x \in Expressions, Valid(x), NEW l \in Int
  PROVE  MatchesLocal(Schedule(x), l) <=> SaysTime(x, l) /\ SaysOn(x, l)
<1> DEFINE s == Schedule(x)
<1>1. /\ s.minute = Values(x.minute, 0, Minutes - 1)
      /\ s.hour = Values(x.hour, 0, Hours - 1)
      /\ s.day = Values(x.day, 1, MonthDays)
      /\ s.month = Values(x.month, 1, Months)
      /\ s.weekday = WeekdaysOf(x.weekday)
      /\ s.dayRestricted = ~IsStar(x.day)
      /\ s.weekdayRestricted = ~IsStar(x.weekday)
  BY DEF Schedule
<1> HIDE DEF s
<1>2. MinuteOf(l) \in s.minute <=> SaysOneOf(x.minute, MinuteOf(l), 0, Minutes - 1)
  <2>1. 0 \in Nat /\ Minutes - 1 \in Nat
    BY Lengths
  <2>2. \A e \in x.minute : Accepts(e, 0, Minutes - 1)
    BY DEF Valid
  <2>3. \A v \in 0..(Minutes - 1) : v \in Values(x.minute, 0, Minutes - 1) <=> SaysOneOf(x.minute, v, 0, Minutes - 1)
    BY <2>1, <2>2, Fields, FieldSays
  <2> QED BY <1>1, <2>3, Clock
<1>3. HourOf(l) \in s.hour <=> SaysOneOf(x.hour, HourOf(l), 0, Hours - 1)
  <2>1. 0 \in Nat /\ Hours - 1 \in Nat
    BY Lengths
  <2>2. \A e \in x.hour : Accepts(e, 0, Hours - 1)
    BY DEF Valid
  <2>3. \A v \in 0..(Hours - 1) : v \in Values(x.hour, 0, Hours - 1) <=> SaysOneOf(x.hour, v, 0, Hours - 1)
    BY <2>1, <2>2, Fields, FieldSays
  <2> QED BY <1>1, <2>3, Clock
<1>4. MonthOf(l) \in s.month <=> SaysOneOf(x.month, MonthOf(l), 1, Months)
  <2>1. 1 \in Nat /\ Months \in Nat
    BY Lengths
  <2>2. \A e \in x.month : Accepts(e, 1, Months)
    BY DEF Valid
  <2>3. \A v \in 1..Months : v \in Values(x.month, 1, Months) <=> SaysOneOf(x.month, v, 1, Months)
    BY <2>1, <2>2, Fields, FieldSays
  <2> QED BY <1>1, <2>3, Clock
<1>5. DayOf(l) \in s.day <=> SaysDay(x, l)
  <2>1. 1 \in Nat /\ MonthDays \in Nat
    BY Lengths
  <2>2. \A e \in x.day : Accepts(e, 1, MonthDays)
    BY DEF Valid
  <2>3. \A v \in 1..MonthDays : v \in Values(x.day, 1, MonthDays) <=> SaysOneOf(x.day, v, 1, MonthDays)
    BY <2>1, <2>2, Fields, FieldSays
  <2> QED BY <1>1, <2>3, Clock DEF SaysDay
<1>6. WeekdayOf(l) \in s.weekday <=> SaysWeekday(x, l)
  <2>1. \A e \in x.weekday : Accepts(e, 0, Weekdays)
    BY DEF Valid
  <2> QED BY <1>1, <2>1, Fields, Clock, WeekdaySays DEF SaysWeekday
<1>7. IsStar(x.day) => DayOf(l) \in s.day
  <2> SUFFICES ASSUME IsStar(x.day) PROVE DayOf(l) \in s.day
    OBVIOUS
  <2>1. 1 \in Nat /\ MonthDays \in Nat
    BY Lengths
  <2>2. Values(x.day, 1, MonthDays) = 1..MonthDays
    BY <2>1, Fields, StarSaysAll
  <2> QED BY <1>1, <2>2, Clock
<1>8. IsStar(x.weekday) => WeekdayOf(l) \in s.weekday
  <2> SUFFICES ASSUME IsStar(x.weekday) PROVE WeekdayOf(l) \in s.weekday
    OBVIOUS
  <2> DEFINE w == WeekdayOf(l)
  <2>1. 0 \in Nat /\ Weekdays \in Nat /\ Weekdays \in Nat \ {0}
    BY Lengths
  <2>2. Values(x.weekday, 0, Weekdays) = 0..Weekdays
    BY <2>1, Fields, StarSaysAll
  <2>3. w \in 0..(Weekdays - 1)
    BY Clock
  <2> HIDE DEF w
  <2>4. w % Weekdays = w
    <3>1. (0 * Weekdays + w) % Weekdays = w
      BY <2>1, <2>3, Unique
    <3>2. 0 * Weekdays + w = w
      BY <2>1, <2>3
    <3> QED BY <3>1, <3>2
  <2>5. w \in 0..Weekdays
    BY <2>1, <2>3
  <2>6. w \in WeekdaysOf(x.weekday)
    BY <2>2, <2>4, <2>5 DEF WeekdaysOf
  <2> QED BY <1>1, <2>6 DEF w
<1>9. /\ MatchesLocal(s, l) <=> /\ MinuteOf(l) \in s.minute /\ HourOf(l) \in s.hour /\ MonthOf(l) \in s.month
                                /\ IF s.dayRestricted /\ s.weekdayRestricted
                                   THEN DayOf(l) \in s.day \/ WeekdayOf(l) \in s.weekday
                                   ELSE DayOf(l) \in s.day /\ WeekdayOf(l) \in s.weekday
  BY DEF MatchesLocal, MatchesDay
<1>10. SaysOn(x, l) <=> IF s.dayRestricted /\ s.weekdayRestricted
                        THEN DayOf(l) \in s.day \/ WeekdayOf(l) \in s.weekday
                        ELSE DayOf(l) \in s.day /\ WeekdayOf(l) \in s.weekday
  <2>1. CASE IsStar(x.day) /\ IsStar(x.weekday)
    BY <1>1, <1>7, <1>8, <2>1 DEF SaysOn
  <2>2. CASE IsStar(x.day) /\ ~IsStar(x.weekday)
    BY <1>1, <1>6, <1>7, <2>2 DEF SaysOn
  <2>3. CASE ~IsStar(x.day) /\ IsStar(x.weekday)
    BY <1>1, <1>5, <1>8, <2>3 DEF SaysOn
  <2>4. CASE ~IsStar(x.day) /\ ~IsStar(x.weekday)
    BY <1>1, <1>5, <1>6, <2>4 DEF SaysOn
  <2> QED BY <2>1, <2>2, <2>3, <2>4
<1> QED BY <1>2, <1>3, <1>4, <1>9, <1>10 DEF SaysTime, s

-----------------------------------------------------------------------------
(***************************************************************************)
(* What a preview was made of, and what the scheduler found since then.    *)
(***************************************************************************)
Typed == expression \in Expressions /\ now \in 0..End

Asked ==
  asked # Never =>
    /\ asked \in 0..now
    /\ Valid(expression)
    /\ shown = NextRuns(Schedule(expression), asked)
    /\ happened = {t \in (asked + 1)..now : Matches(Schedule(expression), t)}

CronInv == Typed /\ Asked /\ (asked = Never => happened = {})

LEMMA InitCron == PreviewInit => CronInv
<1> SUFFICES ASSUME PreviewInit PROVE CronInv
  OBVIOUS
<1>1. now \in 0..End
  BY ZoneAssumption DEF PreviewInit
<1> QED BY <1>1 DEF PreviewInit, CronInv, Typed, Asked

LEMMA AskKeeps == CronInv /\ Ask => CronInv'
<1> SUFFICES ASSUME CronInv, Ask PROVE CronInv'
  OBVIOUS
<1>1. now \in Nat /\ now \in 0..End /\ now # Never
  BY ZoneAssumption DEF CronInv, Typed, Never
<1>2. happened = {} /\ happened' = {}
  BY DEF Ask, CronInv
<1>3. {t \in (now + 1)..now : Matches(Schedule(expression), t)} = {}
  BY <1>1
<1>4. /\ asked' = now /\ now' = now /\ expression' = expression
      /\ shown' = NextRuns(Schedule(expression), now) /\ Valid(expression)
  BY DEF Ask
<1>5. Asked'
  <2>1. asked' \in 0..now'
    BY <1>1, <1>4
  <2> QED BY <1>2, <1>3, <1>4, <2>1 DEF Asked
<1> QED BY <1>1, <1>4, <1>5 DEF CronInv, Typed

LEMMA PassKeeps == CronInv /\ Pass => CronInv'
<1> SUFFICES ASSUME CronInv, Pass PROVE CronInv'
  OBVIOUS
<1> DEFINE s == Schedule(expression)
<1>1. /\ asked # Never /\ asked' = asked /\ now' = now + 1 /\ now < End
      /\ expression' = expression /\ shown' = shown
      /\ happened' = IF Matches(s, now + 1) THEN happened \cup {now + 1} ELSE happened
  BY DEF Pass
<1>2. /\ asked \in 0..now /\ Valid(expression) /\ shown = NextRuns(s, asked)
      /\ happened = {t \in (asked + 1)..now : Matches(s, t)}
      /\ expression \in Expressions /\ now \in 0..End
  BY <1>1 DEF CronInv, Asked, Typed
<1> HIDE DEF s
<1>3. (asked + 1)..(now + 1) = ((asked + 1)..now) \cup {now + 1}
  BY <1>2, ZoneAssumption
<1>4. happened' = {t \in (asked + 1)..(now + 1) : Matches(s, t)}
  BY <1>1, <1>2, <1>3
<1>5. now + 1 \in 0..End /\ asked \in 0..(now + 1)
  BY <1>1, <1>2, ZoneAssumption
<1> QED BY <1>1, <1>2, <1>4, <1>5 DEF CronInv, Asked, Typed, s

LEMMA CronInductive == PreviewSpec => []CronInv
<1>1. CronInv /\ [PreviewNext]_previewVars => CronInv'
  <2> SUFFICES ASSUME CronInv, [PreviewNext]_previewVars PROVE CronInv'
    OBVIOUS
  <2>1. CASE UNCHANGED previewVars
    BY <2>1 DEF previewVars, CronInv, Typed, Asked
  <2> QED BY <2>1, AskKeeps, PassKeeps DEF PreviewNext
<1> QED BY <1>1, InitCron, PTL DEF PreviewSpec

(***************************************************************************)
(* An expression is due on exactly the minutes it says: the sets that      *)
(* Parse fills and the way Matches reads them come to what the entries     *)
(* mean, for every calendar, every zone and every list of entries.         *)
(***************************************************************************)
THEOREM DueWhenItSays == PreviewSpec => []RunsWhenItSays
<1>1. CronInv => RunsWhenItSays
  <2> SUFFICES ASSUME CronInv, asked # Never
               PROVE  happened = {t \in (asked + 1)..now :
                                    SaysTime(expression, Local(t)) /\ SaysOn(expression, Local(t))}
    BY DEF RunsWhenItSays, SaysTime, SaysOn, SaysDay, SaysWeekday
  <2>1. /\ asked \in 0..now /\ now \in 0..End /\ Valid(expression) /\ expression \in Expressions
        /\ happened = {t \in (asked + 1)..now : Matches(Schedule(expression), t)}
    BY DEF CronInv, Asked, Typed
  <2>2. \A t \in (asked + 1)..now : Local(t) \in Int
    BY <2>1, ZoneAssumption DEF Local, Offset
  <2>3. \A t \in (asked + 1)..now : Matches(Schedule(expression), t)
          <=> SaysTime(expression, Local(t)) /\ SaysOn(expression, Local(t))
    BY <2>1, <2>2, MatchesWhatItSays DEF Matches
  <2> QED BY <2>1, <2>3
<1> QED BY <1>1, CronInductive, PTL

-----------------------------------------------------------------------------
(***************************************************************************)
(* The search.  Where the zone keeps its offset a local time has one       *)
(* moment.                                                                 *)
(***************************************************************************)
LEMMA KeptOffset ==
  ASSUME Before = After
  PROVE  /\ \A t \in Int : Local(t) \in Int /\ Local(t) = t + Before
         /\ \A l \in Int : Date(l) \in Int /\ Date(l) = l - Before
         /\ Before \in Int
BY ZoneAssumption DEF Local, Date, Offset

\* A schedule of a valid expression is on again within the days searched.
LEMMA ComesAgain ==
  ASSUME ComesRound, NEW x \in Expressions, Valid(x),
         NEW d \in Int, NEW e \in Int, MatchesDay(Schedule(x), e * DayLength)
  PROVE  \E f \in (d + 1)..(d + SearchDays - 1) : MatchesDay(Schedule(x), f * DayLength)
<1> DEFINE s == Schedule(x)
           on == {c \in 0..(Cycle - 1) : MatchesDay(s, c * DayLength)}
           q == d \div Cycle
           r == d % Cycle
<1>1. Cycle \in Nat \ {0} /\ SearchDays \in Nat
  BY Lengths
<1>2. q \in Int /\ r \in 0..(Cycle - 1) /\ d = q * Cycle + r
  BY <1>1, QuotientAndRemainder
<1>3. e % Cycle \in on
  BY <1>1, DaysComeBack, QuotientAndRemainder
<1>4. on # {} => \A c \in 0..(Cycle - 1) : \E g \in (c + 1)..(c + SearchDays - 1) : g % Cycle \in on
  BY DEF ComesRound
<1> HIDE DEF q, r
<1>5. PICK g \in (r + 1)..(r + SearchDays - 1) : g % Cycle \in on
  <2> HIDE DEF on
  <2> QED BY <1>2, <1>3, <1>4
<1> DEFINE f == q * Cycle + g
<1>6. q * Cycle \in Int /\ g \in Int
  BY <1>1, <1>2
<1>7. f \in (d + 1)..(d + SearchDays - 1) /\ f \in Int
  BY <1>1, <1>2, <1>5, <1>6
<1>8. f % Cycle = g % Cycle
  BY <1>1, <1>2, <1>6, WholeTurns
<1> HIDE DEF f
<1>9. MatchesDay(s, (f % Cycle) * DayLength)
  BY <1>5, <1>8
<1>10. MatchesDay(s, f * DayLength)
  BY <1>7, <1>9, DaysComeBack
<1> QED BY <1>7, <1>10

FirstDay(start) == DayNumber(Local(start)) * DayLength

\* The first minute searched is not after the start.
LEMMA SearchStarts ==
  ASSUME Before = After, NEW start \in Int
  PROVE  FirstDay(start) \in Int /\ FirstDay(start) <= Local(start)
<1>1. Local(start) \in Int
  BY KeptOffset
<1>2. /\ DayNumber(Local(start)) \in Int
      /\ Local(start) % DayLength \in 0..(DayLength - 1)
      /\ Local(start) = DayNumber(Local(start)) * DayLength + (Local(start) % DayLength)
  BY <1>1, Clock
<1>3. DayNumber(Local(start)) * DayLength \in Int /\ DayLength \in Nat
  BY <1>2, Lengths
<1> QED BY <1>1, <1>2, <1>3 DEF FirstDay

LEMMA CandidatesAre ==
  ASSUME Before = After, NEW s, NEW start \in Int
  PROVE  Candidates(s, start) =
           {l \in FirstDay(start)..(FirstDay(start) + SearchDays * DayLength - 1) :
              MatchesLocal(s, l) /\ start + Before <= l}
<1>1. FirstDay(start) \in Int
  BY SearchStarts
<1>2. \A l \in Int : Date(l) >= start <=> start + Before <= l
  <2> TAKE l \in Int
  <2>1. Date(l) = l - Before /\ Before \in Int
    BY KeptOffset
  <2> QED BY <2>1
<1> QED BY <1>1, <1>2 DEF Candidates, FirstDay

\* What is found is due, and nothing is before it.
LEMMA FoundIsNext ==
  ASSUME Before = After, NEW s, NEW start \in Int, Candidates(s, start) # {}
  PROVE  LET t == Date(Min(Candidates(s, start)))
         IN /\ t \in Int /\ start <= t
            /\ Matches(s, t)
            /\ \A u \in Int : start <= u /\ Matches(s, u) => t <= u
<1> DEFINE C == Candidates(s, start)
           b == FirstDay(start)
           n == SearchDays * DayLength
           l == Min(C)
           t == Date(l)
<1>1. b \in Int /\ b <= start + Before /\ n \in Int
  BY SearchStarts, KeptOffset, Lengths
<1>2. C = {k \in b..(b + n - 1) : MatchesLocal(s, k) /\ start + Before <= k}
  BY CandidatesAre
<1>3. C # {}
  OBVIOUS
<1> HIDE DEF C, b, n
<1>4. C \in SUBSET {i \in Int : b <= i}
  BY <1>1, <1>2
<1>5. l \in C /\ \A k \in C : l <= k
  BY <1>1, <1>3, <1>4, MinIsSmallest
<1> HIDE DEF l
<1>6. l \in Int /\ l \in b..(b + n - 1) /\ MatchesLocal(s, l) /\ start + Before <= l
  BY <1>1, <1>2, <1>5
<1>7. t \in Int /\ t = l - Before /\ Local(t) = l /\ Before \in Int
  BY <1>6, KeptOffset
<1> HIDE DEF t
<1>8. start <= t /\ Matches(s, t)
  BY <1>6, <1>7 DEF Matches
<1>9. ASSUME NEW u \in Int, start <= u, Matches(s, u) PROVE t <= u
  <2>1. Local(u) = u + Before /\ MatchesLocal(s, u + Before)
    BY <1>9, KeptOffset DEF Matches
  <2>2. CASE u + Before <= b + n - 1
    <3>1. u + Before \in C
      BY <1>1, <1>2, <1>7, <1>9, <2>1, <2>2
    <3>2. l <= u + Before
      BY <1>5, <3>1
    <3> QED BY <1>6, <1>7, <3>2
  <2>3. CASE ~(u + Before <= b + n - 1)
    BY <1>1, <1>6, <1>7, <2>3
  <2> QED BY <2>2, <2>3
<1> QED BY <1>7, <1>8, <1>9 DEF t, l, C

\* When nothing is found nothing comes.
LEMMA NothingToFind ==
  ASSUME Before = After, ComesRound, NEW x \in Expressions, Valid(x), NEW start \in Int,
         Candidates(Schedule(x), start) = {}
  PROVE  \A u \in Int : start <= u => ~Matches(Schedule(x), u)
<1> DEFINE s == Schedule(x)
           b == FirstDay(start)
           n == SearchDays * DayLength
           d == DayNumber(Local(start))
<1>1. /\ b \in Int /\ b <= start + Before /\ n \in Int /\ b = d * DayLength
      /\ d \in Int /\ start + Before \in Int /\ Before \in Int
      /\ DayLength \in Nat \ {0} /\ SearchDays \in Nat \ {0}
  <2>1. DayLength \in Nat \ {0} /\ SearchDays \in Nat \ {0} /\ n \in Int
    BY Lengths
  <2>2. Local(start) = start + Before /\ Before \in Int /\ Local(start) \in Int
    BY KeptOffset
  <2>3. d \in Int
    BY <2>2, Clock
  <2>4. b \in Int /\ b <= Local(start)
    BY SearchStarts
  <2> HIDE DEF n
  <2> QED BY <2>1, <2>2, <2>3, <2>4 DEF FirstDay
<1>2. \A k \in b..(b + n - 1) : ~(MatchesLocal(s, k) /\ start + Before <= k)
  BY CandidatesAre
<1>3. start + Before < b + DayLength
  <2>1. Local(start) \in Int /\ Local(start) = start + Before
    BY KeptOffset
  <2>2. /\ Local(start) % DayLength \in 0..(DayLength - 1)
        /\ Local(start) = d * DayLength + (Local(start) % DayLength)
    BY <2>1, Clock
  <2> HIDE DEF b, d
  <2> QED BY <1>1, <2>1, <2>2
<1> HIDE DEF s, b, d
<1> SUFFICES ASSUME NEW u \in Int, start <= u, Matches(s, u) PROVE FALSE
  BY DEF s
<1> DEFINE l == u + Before
           e == DayNumber(l)
           r == l % DayLength
<1>4. l \in Int /\ start + Before <= l /\ MatchesLocal(s, l)
  BY <1>1, KeptOffset DEF Matches
<1> HIDE DEF l
<1>5. e \in Int /\ r \in 0..(DayLength - 1) /\ l = e * DayLength + r
  BY <1>4, Clock
<1>6. MinuteOf(l) \in s.minute /\ HourOf(l) \in s.hour /\ MatchesDay(s, l)
  BY <1>4 DEF MatchesLocal
<1>7. MatchesDay(s, e * DayLength)
  BY <1>5, <1>6, DayStarts, SameDay
<1> HIDE DEF e, r
<1>8. PICK f \in (d + 1)..(d + SearchDays - 1) : MatchesDay(s, f * DayLength)
  BY <1>1, <1>5, <1>7, ComesAgain DEF s
<1> DEFINE k == f * DayLength + r
<1>9. f \in Int /\ d + 1 <= f /\ f <= d + SearchDays - 1
  BY <1>1, <1>8
<1>10. /\ k \in Int /\ DayNumber(k) = f /\ DayNumber(f * DayLength) = f
       /\ HourOf(k) = HourOf(l) /\ MinuteOf(k) = MinuteOf(l)
  BY <1>4, <1>9, SameTime, DayStarts DEF r
<1>11. MatchesLocal(s, k)
  BY <1>6, <1>8, <1>10, SameDay DEF MatchesLocal
<1>12. b + DayLength <= k /\ k <= b + n - 1
  <2>1. \A i, j \in Int : i <= j => i * DayLength <= j * DayLength /\ i * DayLength \in Int
    BY <1>1
  <2>2. (d + 1) * DayLength <= f * DayLength /\ f * DayLength <= (d + SearchDays - 1) * DayLength
        /\ f * DayLength \in Int
    BY <1>1, <1>9, <2>1
  <2>3. (d + 1) * DayLength = d * DayLength + DayLength /\ d * DayLength \in Int
    BY <1>1
  <2>4. (d + SearchDays - 1) * DayLength = d * DayLength + SearchDays * DayLength - DayLength
    BY <1>1
  <2> QED BY <1>1, <1>5, <2>2, <2>3, <2>4
<1> HIDE DEF k
<1>13. k \in b..(b + n - 1) /\ start + Before <= k
  BY <1>1, <1>3, <1>10, <1>12
<1> QED BY <1>2, <1>11, <1>13

-----------------------------------------------------------------------------
(***************************************************************************)
(* The searches of a preview, one after the other.                         *)
(***************************************************************************)
SearchedUpTo(w, s, after, n) ==
  w = [k \in 0..n |-> IF k = 0 THEN <<>> ELSE Further(s, after, w[k - 1], k)]

\* What holds at 0 and goes on from each number to the next holds up to n.
LEMMA Upwards ==
  ASSUME NEW n \in Nat, NEW S \in SUBSET (0..n), 0 \in S,
         \A k \in 1..n : k - 1 \in S => k \in S
  PROVE  S = 0..n
<1> SUFFICES ASSUME NEW j \in 0..n, j \notin S PROVE FALSE
  OBVIOUS
<1> DEFINE T == (0..n) \ S
<1>1. T \in SUBSET Nat /\ T # {}
  OBVIOUS
<1>2. PICK x \in T : \A y \in T : x <= y
  BY <1>1, SmallestNat
<1>3. x \in 1..n /\ x - 1 \in 0..n /\ ~(x <= x - 1)
  BY <1>2
<1> QED BY <1>2, <1>3

LEMMA SearchesGoOn ==
  ASSUME NEW s, NEW after, NEW n \in Nat
  PROVE  \E w : SearchedUpTo(w, s, after, n)
<1> DEFINE Goes(w, m) == SearchedUpTo(w, s, after, m)
           S == {m \in 0..n : \E w : Goes(w, m)}
<1>1. 0 \in S
  <2> DEFINE w == [k \in 0..0 |-> <<>>]
  <2>1. Goes(w, 0)
    BY DEF SearchedUpTo
  <2> HIDE DEF w, Goes
  <2> QED BY <2>1
<1>2. ASSUME NEW m \in 1..n, m - 1 \in S PROVE m \in S
  <2>1. PICK w : Goes(w, m - 1)
    BY <1>2
  <2> DEFINE v == [k \in 0..m |-> IF k = m THEN Further(s, after, w[m - 1], m) ELSE w[k]]
  <2>2. \A k \in 0..(m - 1) : w[k] = IF k = 0 THEN <<>> ELSE Further(s, after, w[k - 1], k)
    BY <2>1 DEF SearchedUpTo
  <2>3. \A k \in 0..(m - 1) : v[k] = w[k]
    OBVIOUS
  <2>4. \A k \in 0..m : v[k] = IF k = 0 THEN <<>> ELSE Further(s, after, v[k - 1], k)
    <3> TAKE k \in 0..m
    <3>1. CASE k = m
      <4>1. v[k] = Further(s, after, w[m - 1], m) /\ k # 0 /\ k - 1 \in 0..(m - 1)
        BY <3>1
      <4> QED BY <4>1, <2>3, <3>1
    <3>2. CASE k # m /\ k # 0
      <4>1. k \in 0..(m - 1) /\ k - 1 \in 0..(m - 1)
        BY <3>2
      <4> HIDE DEF v
      <4> QED BY <4>1, <2>2, <2>3, <3>2
    <3>3. CASE k # m /\ k = 0
      <4>1. k \in 0..(m - 1)
        BY <3>3
      <4> HIDE DEF v
      <4> QED BY <4>1, <2>2, <2>3, <3>3
    <3> QED BY <3>1, <3>2, <3>3
  <2>5. v = [k \in 0..m |-> v[k]]
    OBVIOUS
  <2>6. Goes(v, m)
    <3> HIDE DEF v
    <3> QED BY <2>4, <2>5 DEF SearchedUpTo
  <2> HIDE DEF v, Goes
  <2> QED BY <2>6
<1> HIDE DEF Goes
<1>3. S = 0..n
  <2>1. S \in SUBSET (0..n)
    OBVIOUS
  <2> HIDE DEF S
  <2> QED BY <2>1, <1>1, <1>2, Upwards
<1>4. n \in S
  BY <1>3
<1> QED BY <1>4 DEF Goes

LEMMA SearchSteps ==
  ASSUME NEW s, NEW after
  PROVE  /\ Searches(s, after)[0] = <<>>
         /\ \A k \in 1..Count : Searches(s, after)[k] = Further(s, after, Searches(s, after)[k - 1], k)
<1>1. Count \in Nat
  BY Lengths
<1>2. PICK w : SearchedUpTo(w, s, after, Count)
  BY <1>1, SearchesGoOn
<1>3. Searches(s, after) =
        [k \in 0..Count |-> IF k = 0 THEN <<>> ELSE Further(s, after, Searches(s, after)[k - 1], k)]
  BY <1>2 DEF Searches, SearchedUpTo
<1> QED BY <1>1, <1>3

LatestOf(r, after) == IF r = <<>> THEN after ELSE Last(r)

\* What n searches have come to: the runs up to the last of them, none of
\* them missing, and all there are when fewer were found.
Foreseen(r, s, after, n) ==
  /\ r \in Seq(Int) /\ Len(r) <= n
  /\ LatestOf(r, after) \in Int /\ after <= LatestOf(r, after)
  /\ \A k \in 1..Len(r) : after < r[k] /\ Matches(s, r[k])
  /\ \A t \in Int : after < t /\ Matches(s, t) =>
        (\E k \in 1..Len(r) : r[k] = t) \/ LatestOf(r, after) < t
  /\ Len(r) < n => \A t \in Int : LatestOf(r, after) < t => ~Matches(s, t)

LEMMA FurtherForesees ==
  ASSUME Before = After, ComesRound, NEW x \in Expressions, Valid(x), NEW after \in Int,
         NEW n \in Nat \ {0}, NEW r, Foreseen(r, Schedule(x), after, n - 1)
  PROVE  Foreseen(Further(Schedule(x), after, r, n), Schedule(x), after, n)
<1> DEFINE s == Schedule(x)
           from == LatestOf(r, after)
           C == Candidates(s, from + 1)
           g == Further(s, after, r, n)
<1>1. /\ r \in Seq(Int) /\ Len(r) \in Nat /\ Len(r) <= n - 1
      /\ from \in Int /\ after <= from
      /\ \A k \in 1..Len(r) : after < r[k] /\ Matches(s, r[k])
      /\ \A t \in Int : after < t /\ Matches(s, t) => (\E k \in 1..Len(r) : r[k] = t) \/ from < t
      /\ Len(r) < n - 1 => \A t \in Int : from < t => ~Matches(s, t)
  BY DEF Foreseen
<1>2. g = IF Len(r) < n - 1 \/ C = {} THEN r ELSE Append(r, Date(Min(C)))
  BY DEF Further, StartsAt, LatestOf
<1>3. C = {} => \A t \in Int : from < t => ~Matches(s, t)
  <2> SUFFICES ASSUME C = {}, NEW t \in Int, from < t PROVE ~Matches(s, t)
    OBVIOUS
  <2>1. from + 1 \in Int /\ from + 1 <= t
    BY <1>1
  <2> QED BY <2>1, NothingToFind
<1>4. CASE Len(r) < n - 1 \/ C = {}
  <2>1. \A t \in Int : from < t => ~Matches(s, t)
    BY <1>1, <1>3, <1>4
  <2>2. g = r /\ Len(r) <= n
    BY <1>1, <1>2, <1>4
  <2> HIDE DEF s, g
  <2>3. Foreseen(r, s, after, n)
    BY <1>1, <2>1, <2>2 DEF Foreseen
  <2> QED BY <2>2, <2>3 DEF s, g
<1>5. CASE ~(Len(r) < n - 1 \/ C = {})
  <2> DEFINE t0 == Date(Min(C))
  <2>1. /\ t0 \in Int /\ from + 1 <= t0 /\ Matches(s, t0)
        /\ \A u \in Int : from + 1 <= u /\ Matches(s, u) => t0 <= u
    BY <1>1, <1>5, FoundIsNext
  <2>2. g = Append(r, t0)
    BY <1>2, <1>5
  <2> HIDE DEF t0, C, s, g, from
  <2>3. /\ g \in Seq(Int) /\ Len(g) = Len(r) + 1 /\ g # <<>> /\ Len(g) = n
        /\ g[Len(r) + 1] = t0 /\ \A k \in 1..Len(r) : g[k] = r[k]
    <3>1. /\ g \in Seq(Int) /\ Len(g) = Len(r) + 1
          /\ g[Len(r) + 1] = t0 /\ \A k \in 1..Len(r) : g[k] = r[k]
      BY <1>1, <2>1, <2>2
    <3>2. g # <<>>
      BY <1>1, <3>1
    <3> QED BY <1>1, <1>5, <3>1, <3>2
  <2>4. LatestOf(g, after) = t0 /\ from < t0 /\ after < t0
    BY <1>1, <2>1, <2>3 DEF LatestOf, Last
  <2>5. \A k \in 1..Len(g) : after < g[k] /\ Matches(s, g[k])
    <3> TAKE k \in 1..Len(g)
    <3>1. k \in 1..Len(r) \/ k = Len(r) + 1
      BY <1>1, <2>3
    <3> QED BY <1>1, <2>1, <2>3, <2>4, <3>1
  <2>6. ASSUME NEW t \in Int, after < t, Matches(s, t)
        PROVE  (\E k \in 1..Len(g) : g[k] = t) \/ t0 < t
    <3>1. CASE \E k \in 1..Len(r) : r[k] = t
      <4>1. PICK k \in 1..Len(r) : r[k] = t
        BY <3>1
      <4>2. k \in 1..Len(g) /\ g[k] = t
        BY <1>1, <2>3, <4>1
      <4> QED BY <4>2
    <3>2. CASE from < t
      <4>1. t0 <= t
        BY <1>1, <2>1, <2>6, <3>2
      <4>2. Len(r) + 1 \in 1..Len(g)
        BY <1>1, <2>3
      <4>3. t = t0 \/ t0 < t
        BY <2>1, <4>1
      <4> QED BY <2>3, <4>2, <4>3
    <3> QED BY <1>1, <2>6, <3>1, <3>2
  <2>7. Foreseen(g, s, after, n)
    BY <1>1, <2>1, <2>3, <2>4, <2>5, <2>6 DEF Foreseen
  <2> QED BY <2>7 DEF g, s
<1> QED BY <1>4, <1>5

LEMMA PreviewForesees ==
  ASSUME Before = After, ComesRound, NEW x \in Expressions, Valid(x), NEW after \in Int
  PROVE  Foreseen(NextRuns(Schedule(x), after), Schedule(x), after, Count)
<1> DEFINE s == Schedule(x)
           w == Searches(s, after)
           S == {k \in 0..Count : Foreseen(w[k], s, after, k)}
<1>1. Count \in Nat \ {0}
  BY Lengths
<1>2. w[0] = <<>> /\ \A k \in 1..Count : w[k] = Further(s, after, w[k - 1], k)
  BY SearchSteps
<1> HIDE DEF w
<1>3. 0 \in S
  <2>1. Foreseen(<<>>, s, after, 0)
    BY DEF Foreseen, LatestOf
  <2> QED BY <1>1, <1>2, <2>1
<1>4. ASSUME NEW k \in 1..Count, k - 1 \in S PROVE k \in S
  <2>1. Foreseen(w[k - 1], s, after, k - 1) /\ k \in Nat \ {0}
    BY <1>4
  <2>2. Foreseen(Further(s, after, w[k - 1], k), s, after, k)
    BY <2>1, FurtherForesees
  <2> QED BY <1>2, <2>2
<1>5. S = 0..Count
  <2>1. S \in SUBSET (0..Count)
    OBVIOUS
  <2> HIDE DEF S
  <2> QED BY <1>1, <1>3, <1>4, <2>1, Upwards
<1>6. Foreseen(w[Count], s, after, Count)
  BY <1>1, <1>5
<1> QED BY <1>6 DEF NextRuns, w

(***************************************************************************)
(* What is shown is what will happen, in a zone that keeps its offset and  *)
(* for expressions whose dates come round within the days that are         *)
(* searched: every moment of the preview that has come was a run, and no   *)
(* run came that the preview does not show but after all that it shows.    *)
(***************************************************************************)
THEOREM PreviewIsKept ==
  ASSUME Before = After, ComesRound
  PROVE  PreviewSpec => []ShownIsWhatHappens
<1>1. CronInv => ShownIsWhatHappens
  <2> SUFFICES ASSUME CronInv, asked # Never
               PROVE  /\ \A k \in DOMAIN shown : shown[k] <= now => shown[k] \in happened
                      /\ \A t \in happened : \/ \E k \in DOMAIN shown : shown[k] = t
                                             \/ Len(shown) = Count /\ t > shown[Count]
    BY DEF ShownIsWhatHappens
  <2> DEFINE s == Schedule(expression)
  <2>1. /\ asked \in Nat /\ asked \in Int /\ now \in Int /\ Valid(expression) /\ expression \in Expressions
        /\ shown = NextRuns(s, asked)
        /\ happened = {t \in (asked + 1)..now : Matches(s, t)}
    BY ZoneAssumption DEF CronInv, Asked, Typed
  <2>2. Foreseen(shown, s, asked, Count)
    BY <2>1, PreviewForesees
  <2> HIDE DEF s
  <2>3. /\ shown \in Seq(Int) /\ DOMAIN shown = 1..Len(shown) /\ Len(shown) \in Nat
        /\ \A k \in 1..Len(shown) : asked < shown[k] /\ Matches(s, shown[k]) /\ shown[k] \in Int
    BY <2>2 DEF Foreseen
  <2>4. ASSUME NEW k \in DOMAIN shown, shown[k] <= now PROVE shown[k] \in happened
    BY <2>1, <2>3, <2>4
  <2>5. ASSUME NEW t \in happened
        PROVE  (\E k \in DOMAIN shown : shown[k] = t) \/ (Len(shown) = Count /\ t > shown[Count])
    <3>1. t \in Int /\ asked < t /\ Matches(s, t)
      BY <2>1
    <3>2. CASE LatestOf(shown, asked) < t
      <4>1. Len(shown) = Count
        <5>1. Len(shown) <= Count /\ (Len(shown) < Count => \A u \in Int : LatestOf(shown, asked) < u => ~Matches(s, u))
          BY <2>2 DEF Foreseen
        <5>2. ~(Len(shown) < Count)
          BY <3>1, <3>2, <5>1
        <5>3. Len(shown) \in Nat /\ Count \in Nat
          BY <2>3, Lengths
        <5>4. \A a, b \in Nat : a <= b /\ ~(a < b) => a = b
          OBVIOUS
        <5> QED BY <5>1, <5>2, <5>3, <5>4, Zenon
      <4>2. shown # <<>> /\ Last(shown) = shown[Count]
        BY <4>1, Lengths DEF Last
      <4>3. shown[Count] < t /\ shown[Count] \in Int
        BY <2>3, <3>2, <4>1, <4>2, Lengths DEF LatestOf
      <4> QED BY <3>1, <4>1, <4>3
    <3>3. CASE ~(LatestOf(shown, asked) < t)
      BY <2>2, <2>3, <3>1, <3>3 DEF Foreseen
    <3> QED BY <3>2, <3>3
  <2> QED BY <2>4, <2>5
<1> QED BY <1>1, CronInductive, PTL

-----------------------------------------------------------------------------
(***************************************************************************)
(* Workflow documents.  Functions that are defined from one number to the  *)
(* next, which the model has instead of the loops of the code.             *)
(***************************************************************************)
LEMMA UpTo ==
  ASSUME NEW n \in Nat, NEW T \in SUBSET (0..n), 0 \in T,
         \A k \in 1..n : k - 1 \in T => k \in T
  PROVE  \A k \in 0..n : k \in T
BY Upwards

Counted(w, n, a, F) == w[0] = a /\ \A k \in 1..n : w[k] = F[<<k, w[k - 1]>>]

LEMMA CountsUp ==
  ASSUME NEW n \in Nat, NEW S, NEW a \in S, NEW F \in [(1..n) \X S -> S]
  PROVE  \E w \in [0..n -> S] : Counted(w, n, a, F)
<1> DEFINE Goes(w, m) == /\ w \in [0..m -> S] /\ w[0] = a
                         /\ \A k \in 1..m : w[k] = F[<<k, w[k - 1]>>]
           T == {m \in 0..n : \E w : Goes(w, m)}
<1>1. 0 \in T
  <2> DEFINE w == [k \in 0..0 |-> a]
  <2>1. Goes(w, 0)
    OBVIOUS
  <2> HIDE DEF w, Goes
  <2> QED BY <2>1
<1>2. ASSUME NEW m \in 1..n, m - 1 \in T PROVE m \in T
  <2>1. PICK w : Goes(w, m - 1)
    BY <1>2
  <2> DEFINE v == [k \in 0..m |-> IF k = m THEN F[<<m, w[m - 1]>>] ELSE w[k]]
  <2>2. w[m - 1] \in S /\ F[<<m, w[m - 1]>>] \in S
    BY <2>1
  <2>3. v \in [0..m -> S] /\ v[0] = a
    BY <2>1, <2>2
  <2>4. \A k \in 0..m-1 : v[k] = w[k]
    OBVIOUS
  <2>5. v[m] = F[<<m, w[m - 1]>>]
    OBVIOUS
  <2> HIDE DEF v
  <2>6. ASSUME NEW k \in 1..m PROVE v[k] = F[<<k, v[k - 1]>>]
    <3>1. k - 1 \in 0..m-1 /\ v[k - 1] = w[k - 1]
      BY <2>4
    <3>2. CASE k = m
      BY <3>1, <3>2, <2>5
    <3>3. CASE k # m
      <4>1. k \in 1..m-1 /\ v[k] = w[k]
        BY <3>3, <2>4
      <4> QED BY <4>1, <3>1, <2>1
    <3> QED BY <3>2, <3>3
  <2>7. Goes(v, m)
    BY <2>3, <2>6
  <2> HIDE DEF Goes
  <2> QED BY <2>7
<1> HIDE DEF Goes
<1>3. \A k \in 0..n : k \in T
  <2>1. T \in SUBSET (0..n)
    OBVIOUS
  <2> HIDE DEF T
  <2> QED BY <2>1, <1>1, <1>2, UpTo
<1>4. PICK w : Goes(w, n)
  BY <1>3
<1> QED BY <1>4 DEF Goes, Counted

-----------------------------------------------------------------------------
(***************************************************************************)
(* Numbers in their order.                                                 *)
(***************************************************************************)
UpOf(S, n) ==
  LET up[k \in 0..n] ==
        IF k = 0 THEN <<>> ELSE IF k \in S THEN Append(up[k - 1], k) ELSE up[k - 1]
  IN up

LEMMA UpSteps ==
  ASSUME NEW S, NEW n \in Nat
  PROVE  /\ Ascending(S, n) = UpOf(S, n)[n]
         /\ UpOf(S, n) \in [0..n -> Seq(Nat)]
         /\ UpOf(S, n)[0] = <<>>
         /\ \A k \in 1..n : UpOf(S, n)[k] = IF k \in S THEN Append(UpOf(S, n)[k - 1], k)
                                           ELSE UpOf(S, n)[k - 1]
<1> DEFINE Q == Seq(Nat)
           e == <<>>
           F == [x \in (1..n) \X Q |-> IF x[1] \in S THEN Append(x[2], x[1]) ELSE x[2]]
           u == UpOf(S, n)
<1>1. e \in Q /\ \A q \in Q, k \in 1..n : Append(q, k) \in Q
  OBVIOUS
<1>2. F \in [(1..n) \X Q -> Q]
  <2> HIDE DEF Q
  <2> QED BY <1>1
<1>3. \A k \in 1..n, q \in Q : F[<<k, q>>] = IF k \in S THEN Append(q, k) ELSE q
  <2> HIDE DEF Q
  <2> QED OBVIOUS
<1> HIDE DEF Q, e, F
<1>4. PICK w \in [0..n -> Q] : Counted(w, n, e, F)
  BY <1>1, <1>2, CountsUp, Zenon
<1>5. ASSUME NEW k \in 1..n
      PROVE  w[k] = IF k \in S THEN Append(w[k - 1], k) ELSE w[k - 1]
  <2>1. w[k - 1] \in Q
    OBVIOUS
  <2>2. w[k] = F[<<k, w[k - 1]>>]
    BY <1>4 DEF Counted
  <2> QED BY <1>3, <2>1, <2>2
<1>6. w = [k \in 0..n |-> IF k = 0 THEN e ELSE IF k \in S THEN Append(w[k - 1], k) ELSE w[k - 1]]
  <2>1. \A k \in 0..n : w[k] = IF k = 0 THEN e ELSE IF k \in S THEN Append(w[k - 1], k) ELSE w[k - 1]
    <3> TAKE k \in 0..n
    <3>1. CASE k = 0
      BY <1>4, <3>1 DEF Counted
    <3>2. CASE k # 0
      <4>1. k \in 1..n
        BY <3>2
      <4> QED BY <3>2, <4>1, <1>5, Zenon
    <3> QED BY <3>1, <3>2
  <2>2. w = [k \in 0..n |-> w[k]]
    OBVIOUS
  <2> QED BY <2>1, <2>2, Zenon
<1>7. u = [k \in 0..n |-> IF k = 0 THEN e ELSE IF k \in S THEN Append(u[k - 1], k) ELSE u[k - 1]]
  BY <1>6, Zenon DEF UpOf, e
<1>8. Ascending(S, n) = u[n]
  BY DEF Ascending, UpOf
<1> HIDE DEF u
<1>9. u[0] = e /\ \A k \in 1..n : u[k] = IF k \in S THEN Append(u[k - 1], k) ELSE u[k - 1]
  <2>1. \A k \in 0..n : u[k] = IF k = 0 THEN e ELSE IF k \in S THEN Append(u[k - 1], k) ELSE u[k - 1]
    BY <1>7, Zenon
  <2> QED BY <2>1
<1> DEFINE T == {k \in 0..n : u[k] \in Q}
<1>10. T \in SUBSET (0..n) /\ 0 \in T /\ \A k \in 1..n : k - 1 \in T => k \in T
  BY <1>1, <1>9
<1>11. \A k \in 0..n : k \in T
  <2> HIDE DEF T
  <2> QED BY <1>10, UpTo
<1>12. u \in [0..n -> Q]
  <2>1. \A k \in 0..n : u[k] \in Q
    BY <1>11
  <2> QED BY <1>7, <2>1
<1> QED BY <1>8, <1>9, <1>12 DEF u, Q, e

-----------------------------------------------------------------------------
(***************************************************************************)
(* Sequences that have everything of a set, once.                          *)
(***************************************************************************)
Lists(s, T) ==
  /\ s \in Seq(T)
  /\ \A x \in T : \E j \in 1..Len(s) : s[j] = x
  /\ \A i, j \in 1..Len(s) : s[i] = s[j] => i = j

LEMMA ListedAre ==
  ASSUME NEW s, NEW T, Lists(s, T)
  PROVE  s \in Seq(T) /\ Len(s) \in Nat /\ \A i \in 1..Len(s) : s[i] \in T
<1>1. s \in Seq(T)
  BY DEF Lists
<1> QED BY <1>1

LEMMA Joined ==
  ASSUME NEW S, NEW s \in Seq(S), NEW t \in Seq(S)
  PROVE  /\ Len(s) \in Nat /\ Len(t) \in Nat
         /\ s \o t \in Seq(S) /\ Len(s \o t) = Len(s) + Len(t)
         /\ \A i \in 1..Len(s) : (s \o t)[i] = s[i]
         /\ \A i \in 1..Len(t) : (s \o t)[Len(s) + i] = t[i]
OBVIOUS

LEMMA Elements ==
  ASSUME NEW S, NEW s \in Seq(S)
  PROVE  /\ Len(s) \in Nat /\ \A i \in 1..Len(s) : s[i] \in S
         /\ s = <<>> <=> Len(s) = 0
OBVIOUS

LEMMA InLarger ==
  ASSUME NEW S, NEW T, S \subseteq T, NEW s \in Seq(S)
  PROVE  s \in Seq(T)
<1>1. Len(s) \in Nat /\ s \in [1..Len(s) -> T]
  OBVIOUS
<1> QED BY <1>1

LEMMA Appended ==
  ASSUME NEW S, NEW s \in Seq(S), NEW x \in S
  PROVE  /\ Append(s, x) \in Seq(S) /\ Len(Append(s, x)) = Len(s) + 1
         /\ Append(s, x)[Len(s) + 1] = x
         /\ \A i \in 1..Len(s) : Append(s, x)[i] = s[i]
OBVIOUS

LEMMA HeadAndTail ==
  ASSUME NEW S, NEW s \in Seq(S), s # <<>>
  PROVE  /\ Len(s) >= 1 /\ Head(s) = s[1] /\ s[1] \in S
         /\ Tail(s) \in Seq(S) /\ Len(Tail(s)) = Len(s) - 1
         /\ \A i \in 1..(Len(s) - 1) : Tail(s)[i] = s[i + 1]
OBVIOUS

LEMMA NothingListed ==
  ASSUME NEW s, NEW T, Lists(s, T)
  PROVE  /\ s = <<>> <=> T = {}
         /\ Lists(<<>>, {})
<1>1. Lists(<<>>, {})
  BY DEF Lists
<1>2. ASSUME s = <<>> PROVE T = {}
  BY <1>2 DEF Lists
<1>3. ASSUME T = {} PROVE s = <<>>
  <2>1. s \in Seq({})
    BY <1>3 DEF Lists
  <2> QED BY <2>1
<1> QED BY <1>1, <1>2, <1>3

LEMMA ListedNext ==
  ASSUME NEW s, NEW T, NEW x, Lists(s, T), x \notin T
  PROVE  Lists(Append(s, x), T \cup {x})
<1> DEFINE t == Append(s, x)
           n == Len(s)
<1>1. s \in Seq(T) /\ n \in Nat
  BY DEF Lists
<1>2. s \in Seq(T \cup {x})
  BY <1>1
<1>3. t \in Seq(T \cup {x}) /\ Len(t) = n + 1
  BY <1>2
<1>4. t[n + 1] = x /\ \A j \in 1..n : t[j] = s[j] /\ s[j] \in T
  BY <1>1
<1>5. \A y \in T : \E j \in 1..n : s[j] = y
  BY DEF Lists
<1>6. \A i, j \in 1..n : s[i] = s[j] => i = j
  BY DEF Lists
<1> HIDE DEF t, n
<1>7. \A y \in T \cup {x} : \E j \in 1..Len(t) : t[j] = y
  <2> TAKE y \in T \cup {x}
  <2>1. CASE y = x
    BY <2>1, <1>1, <1>3, <1>4
  <2>2. CASE y \in T
    <3>1. PICK j \in 1..n : s[j] = y
      BY <2>2, <1>5
    <3>2. j \in 1..Len(t) /\ t[j] = y
      BY <3>1, <1>1, <1>3, <1>4
    <3> QED BY <3>2
  <2> QED BY <2>1, <2>2
<1>8. \A i, j \in 1..Len(t) : t[i] = t[j] => i = j
  <2> SUFFICES ASSUME NEW i \in 1..Len(t), NEW j \in 1..Len(t), t[i] = t[j], i # j PROVE FALSE
    OBVIOUS
  <2>1. CASE i \in 1..n /\ j \in 1..n
    BY <2>1, <1>4, <1>6
  <2>2. CASE i = n + 1 /\ j \in 1..n
    BY <2>2, <1>4
  <2>3. CASE i \in 1..n /\ j = n + 1
    BY <2>3, <1>4
  <2> QED BY <1>1, <1>3, <2>1, <2>2, <2>3
<1> QED BY <1>3, <1>7, <1>8 DEF Lists, t

LEMMA ListedTogether ==
  ASSUME NEW s, NEW t, NEW T, NEW U, Lists(s, T), Lists(t, U), T \cap U = {}
  PROVE  Lists(s \o t, T \cup U)
<1> DEFINE c == s \o t
           m == Len(s)
           n == Len(t)
<1>1. s \in Seq(T) /\ t \in Seq(U) /\ m \in Nat /\ n \in Nat
  BY DEF Lists
<1>2. s \in Seq(T \cup U) /\ t \in Seq(T \cup U)
  BY <1>1
<1>3. c \in Seq(T \cup U) /\ Len(c) = m + n
  BY <1>2
<1>4. /\ \A j \in 1..m : c[j] = s[j] /\ s[j] \in T
      /\ \A j \in 1..n : c[m + j] = t[j] /\ t[j] \in U
  BY <1>1
<1>5. /\ \A y \in T : \E j \in 1..m : s[j] = y
      /\ \A y \in U : \E j \in 1..n : t[j] = y
  BY DEF Lists
<1>6. /\ \A i, j \in 1..m : s[i] = s[j] => i = j
      /\ \A i, j \in 1..n : t[i] = t[j] => i = j
  BY DEF Lists
<1> HIDE DEF c, m, n
<1>7. \A y \in T \cup U : \E j \in 1..Len(c) : c[j] = y
  <2> TAKE y \in T \cup U
  <2>1. CASE y \in T
    <3>1. PICK j \in 1..m : s[j] = y
      BY <2>1, <1>5
    <3>2. j \in 1..Len(c) /\ c[j] = y
      BY <3>1, <1>1, <1>3, <1>4
    <3> QED BY <3>2
  <2>2. CASE y \in U
    <3>1. PICK j \in 1..n : t[j] = y
      BY <2>2, <1>5
    <3>2. m + j \in 1..Len(c) /\ c[m + j] = y
      BY <3>1, <1>1, <1>3, <1>4
    <3> QED BY <3>2
  <2> QED BY <2>1, <2>2
<1>8. \A i, j \in 1..Len(c) : c[i] = c[j] => i = j
  <2> SUFFICES ASSUME NEW i \in 1..Len(c), NEW j \in 1..Len(c), c[i] = c[j] PROVE i = j
    OBVIOUS
  <2>1. \A k \in 1..Len(c) : \/ k \in 1..m /\ c[k] = s[k] /\ c[k] \in T
                             \/ k - m \in 1..n /\ c[k] = t[k - m] /\ c[k] \in U
    <3> TAKE k \in 1..Len(c)
    <3>1. CASE k \in 1..m
      BY <3>1, <1>4
    <3>2. CASE k \notin 1..m
      <4>1. k - m \in 1..n /\ m + (k - m) = k
        BY <3>2, <1>1, <1>3
      <4>2. c[m + (k - m)] = t[k - m] /\ t[k - m] \in U
        BY <4>1, <1>4
      <4> QED BY <4>1, <4>2
    <3> QED BY <3>1, <3>2
  <2>2. CASE i \in 1..m /\ c[i] = s[i] /\ c[i] \in T
    <3>1. j \in 1..m /\ c[j] = s[j]
      BY <2>1, <2>2
    <3> QED BY <2>2, <3>1, <1>6
  <2>3. CASE i - m \in 1..n /\ c[i] = t[i - m] /\ c[i] \in U
    <3>1. j - m \in 1..n /\ c[j] = t[j - m]
      BY <2>1, <2>3
    <3>2. i - m = j - m
      BY <2>3, <3>1, <1>6
    <3> QED BY <3>2, <1>1, <1>3
  <2> QED BY <2>1, <2>2, <2>3
<1> QED BY <1>3, <1>7, <1>8 DEF Lists, c

LEMMA ListedBut ==
  ASSUME NEW s, NEW T, Lists(s, T), s # <<>>
  PROVE  Head(s) \in T /\ Lists(Tail(s), T \ {Head(s)})
<1> DEFINE h == Head(s)
           t == Tail(s)
           n == Len(s)
<1>1. s \in Seq(T) /\ n \in Nat /\ n >= 1
  BY DEF Lists
<1>2. h = s[1] /\ h \in T
  BY <1>1
<1>3. t \in Seq(T) /\ Len(t) = n - 1 /\ \A j \in 1..(n - 1) : t[j] = s[j + 1]
  BY <1>1
<1>4. \A y \in T : \E j \in 1..n : s[j] = y
  BY DEF Lists
<1>5. \A i, j \in 1..n : s[i] = s[j] => i = j
  BY DEF Lists
<1> HIDE DEF h, t, n
<1>6. \A j \in 1..Len(t) : t[j] \in T \ {h}
  <2> TAKE j \in 1..Len(t)
  <2>1. j \in 1..(n - 1) /\ j + 1 \in 1..n /\ 1 \in 1..n /\ j + 1 # 1
    BY <1>1, <1>3
  <2>2. t[j] = s[j + 1] /\ s[j + 1] # s[1] /\ t[j] \in T
    BY <2>1, <1>3, <1>5
  <2> QED BY <2>2, <1>2
<1>7. t \in Seq(T \ {h})
  <2>1. t = [j \in 1..Len(t) |-> t[j]] /\ Len(t) \in Nat
    BY <1>3
  <2> HIDE DEF t
  <2> QED BY <2>1, <1>6
<1>8. \A y \in T \ {h} : \E j \in 1..Len(t) : t[j] = y
  <2> TAKE y \in T \ {h}
  <2>1. PICK j \in 1..n : s[j] = y
    BY <1>4
  <2>2. j # 1
    BY <2>1, <1>2
  <2>3. j - 1 \in 1..(n - 1) /\ (j - 1) + 1 = j
    BY <2>2, <1>1
  <2>4. t[j - 1] = y
    BY <2>1, <2>3, <1>3
  <2> QED BY <2>3, <2>4, <1>3
<1>9. \A i, j \in 1..Len(t) : t[i] = t[j] => i = j
  <2> SUFFICES ASSUME NEW i \in 1..Len(t), NEW j \in 1..Len(t), t[i] = t[j] PROVE i = j
    OBVIOUS
  <2>1. i \in 1..(n - 1) /\ j \in 1..(n - 1) /\ i + 1 \in 1..n /\ j + 1 \in 1..n
    BY <1>1, <1>3
  <2>2. s[i + 1] = s[j + 1]
    BY <2>1, <1>3
  <2>3. i + 1 = j + 1
    BY <2>1, <2>2, <1>5
  <2> QED BY <2>1, <2>3
<1> QED BY <1>2, <1>7, <1>8, <1>9 DEF Lists, h, t

LEMMA AscendingLists ==
  ASSUME NEW S, NEW n \in Nat
  PROVE  /\ Lists(Ascending(S, n), S \cap (1..n))
         /\ \A i, j \in 1..Len(Ascending(S, n)) : i < j => Ascending(S, n)[i] < Ascending(S, n)[j]
<1> DEFINE u == UpOf(S, n)
           Rises(s) == \A i, j \in 1..Len(s) : i < j => s[i] < s[j]
           T == {k \in 0..n : Lists(u[k], S \cap (1..k)) /\ Rises(u[k])}
<1>1. /\ Ascending(S, n) = u[n] /\ u[0] = <<>> /\ u \in [0..n -> Seq(Nat)]
      /\ \A k \in 1..n : u[k] = IF k \in S THEN Append(u[k - 1], k) ELSE u[k - 1]
  BY UpSteps, Zenon
<1> HIDE DEF u
<1>2. 0 \in T
  <2>1. S \cap (1..0) = {}
    OBVIOUS
  <2>2. Lists(<<>>, {}) /\ Rises(<<>>)
    BY DEF Lists
  <2> HIDE DEF Rises
  <2> QED BY <1>1, <2>1, <2>2
<1>3. ASSUME NEW k \in 1..n, k - 1 \in T PROVE k \in T
  <2> DEFINE s == u[k - 1]
             A == S \cap (1..(k - 1))
  <2>1. Lists(s, A) /\ Rises(s) /\ k \notin A
    BY <1>3
  <2>2. CASE k \in S
    <3>1. 1..k = (1..(k - 1)) \cup {k}
      OBVIOUS
    <3>2. u[k] = Append(s, k) /\ S \cap (1..k) = A \cup {k}
      BY <1>1, <2>2, <3>1
    <3>3. s \in Seq(Nat)
      BY <1>1
    <3> HIDE DEF s, A
    <3>4. Lists(Append(s, k), A \cup {k})
      BY <2>1, ListedNext
    <3>5. Rises(Append(s, k))
      <4>1. Len(Append(s, k)) = Len(s) + 1 /\ Len(s) \in Nat /\ Append(s, k)[Len(s) + 1] = k
        BY <3>3
      <4>2. \A i \in 1..Len(s) : Append(s, k)[i] = s[i] /\ s[i] \in A
        BY <3>3, <2>1 DEF Lists
      <4>3. \A i \in 1..Len(s) : s[i] < k
        BY <4>2 DEF A
      <4> QED BY <4>1, <4>2, <4>3, <2>1
    <3> HIDE DEF Rises
    <3>6. Lists(u[k], S \cap (1..k)) /\ Rises(u[k])
      BY <3>2, <3>4, <3>5, Zenon
    <3> QED BY <3>6
  <2>3. CASE k \notin S
    <3>1. u[k] = s /\ S \cap (1..k) = A
      BY <1>1, <2>3
    <3> HIDE DEF s, A, Rises
    <3> QED BY <3>1, <2>1
  <2> QED BY <2>2, <2>3
<1>4. \A k \in 0..n : k \in T
  <2>1. T \in SUBSET (0..n)
    OBVIOUS
  <2> HIDE DEF T
  <2> QED BY <2>1, <1>2, <1>3, UpTo
<1>5. Lists(u[n], S \cap (1..n)) /\ Rises(u[n])
  <2> HIDE DEF Rises
  <2> QED BY <1>4
<1> QED BY <1>1, <1>5

\* Consecutive numbers are listed as they are.
LEMMA AscendingInterval ==
  ASSUME NEW p \in Nat, NEW m \in Nat, NEW n \in Nat, p + m <= n, NEW S,
         S \cap (1..n) = (p + 1)..(p + m)
  PROVE  Ascending(S, n) = [i \in 1..m |-> p + i]
<1> DEFINE u == UpOf(S, n)
           Up(k) == IF k <= p THEN 0 ELSE IF k <= p + m THEN k - p ELSE m
           T == {k \in 0..n : u[k] = [i \in 1..Up(k) |-> p + i]}
<1>1. /\ Ascending(S, n) = u[n] /\ u[0] = <<>>
      /\ \A k \in 1..n : u[k] = IF k \in S THEN Append(u[k - 1], k) ELSE u[k - 1]
  BY UpSteps, Zenon
<1> HIDE DEF u
<1>2. 0 \in T
  <2>1. Up(0) = 0
    OBVIOUS
  <2>2. [i \in 1..0 |-> p + i] = <<>>
    OBVIOUS
  <2> HIDE DEF Up
  <2> QED BY <1>1, <2>1, <2>2
<1>3. ASSUME NEW k \in 1..n, k - 1 \in T PROVE k \in T
  <2>1. k \in S <=> p < k /\ k <= p + m
    OBVIOUS
  <2>2. u[k - 1] = [i \in 1..Up(k - 1) |-> p + i]
    BY <1>3
  <2>3. CASE k \in S
    <3>1. Up(k) = k - p /\ Up(k - 1) = (k - p) - 1 /\ k - p \in Nat \ {0}
      BY <2>1, <2>3
    <3>2. u[k] = Append(u[k - 1], k)
      BY <1>1, <2>3
    <3> DEFINE q == k - p
    <3>3. q \in Nat \ {0} /\ p + q = k
      BY <3>1
    <3> HIDE DEF q
    <3>4. Append([i \in 1..(q - 1) |-> p + i], p + q) = [i \in 1..q |-> p + i]
      BY <3>3
    <3> HIDE DEF Up
    <3>5. u[k] = [i \in 1..Up(k) |-> p + i]
      BY <2>2, <3>1, <3>2, <3>3, <3>4 DEF q
    <3> QED BY <3>5
  <2>4. CASE k \notin S
    <3>1. Up(k) = Up(k - 1)
      BY <2>1, <2>4
    <3>2. u[k] = u[k - 1]
      BY <1>1, <2>4
    <3> HIDE DEF Up
    <3> QED BY <2>2, <3>1, <3>2
  <2> QED BY <2>3, <2>4
<1>4. \A k \in 0..n : k \in T
  <2>1. T \in SUBSET (0..n)
    OBVIOUS
  <2> HIDE DEF T
  <2> QED BY <2>1, <1>2, <1>3, UpTo
<1>5. u[n] = [i \in 1..Up(n) |-> p + i]
  <2> HIDE DEF Up
  <2> QED BY <1>4
<1>6. Up(n) = m
  OBVIOUS
<1> HIDE DEF Up
<1> QED BY <1>1, <1>5, <1>6

-----------------------------------------------------------------------------
(***************************************************************************)
(* Graphs that can be drawn: every block has an id of its own, no block is *)
(* inside itself, and what is referred to is there.                        *)
(***************************************************************************)
Block == [id : Slugs \ {Nowhere}, name : [slug : Slugs, plain : BOOLEAN], parent : Slugs, until : Slugs]
Arrow == [from : Slugs, to : Slugs, port : {"only", "second"}]

Blocks(g) == 1..Len(g.blocks)
Id(g, i)  == g.blocks[i].id

IdsAreOwn(g) == \A i, j \in Blocks(g) : Id(g, i) = Id(g, j) => i = j

RefersToIts(g) ==
  /\ \A i \in Blocks(g) : {g.blocks[i].parent, g.blocks[i].until} \subseteq Ids(g) \cup {Nowhere}
  /\ \A k \in 1..Len(g.arrows) : {g.arrows[k].from, g.arrows[k].to} \subseteq Ids(g)

NoneIsInItself(g) ==
  \E depth \in [Ids(g) -> Nat] :
    \A i \in Blocks(g) : g.blocks[i].parent # Nowhere => depth[g.blocks[i].parent] < depth[Id(g, i)]

Drawable(g) ==
  /\ g.blocks \in Seq(Block) /\ g.arrows \in Seq(Arrow)
  /\ IdsAreOwn(g)
  /\ RefersToIts(g)
  /\ NoneIsInItself(g)

LEMMA BlocksAre ==
  ASSUME NEW g, g.blocks \in Seq(Block)
  PROVE  /\ Len(g.blocks) \in Nat /\ DOMAIN g.blocks = Blocks(g)
         /\ \A i \in Blocks(g) : g.blocks[i] \in Block /\ Id(g, i) \in Ids(g) /\ Id(g, i) # Nowhere
         /\ \A id \in Ids(g) : \E i \in Blocks(g) : id = Id(g, i)
         /\ Ids(g) \subseteq Slugs \ {Nowhere}
<1>1. Len(g.blocks) \in Nat /\ DOMAIN g.blocks = Blocks(g) /\ \A i \in Blocks(g) : g.blocks[i] \in Block
  BY DEF Blocks
<1>2. \A i \in Blocks(g) : Id(g, i) \in Slugs \ {Nowhere}
  BY <1>1 DEF Block, Id
<1> QED BY <1>1, <1>2 DEF Ids, Id

-----------------------------------------------------------------------------
(***************************************************************************)
(* The order of the file has every block once.                             *)
(***************************************************************************)
InsideOf(g, id) == {i \in Blocks(g) : g.blocks[i].parent = id}

LEMMA InsideLists ==
  ASSUME NEW g, g.blocks \in Seq(Block), NEW id
  PROVE  Lists(Inside(g, id), InsideOf(g, id)) /\ Inside(g, id) \in Seq(Nat)
<1> DEFINE S == {i \in DOMAIN g.blocks : g.blocks[i].parent = id}
           n == Len(g.blocks)
<1>1. n \in Nat /\ S = InsideOf(g, id) /\ S \cap (1..n) = S /\ S \subseteq Nat
  BY BlocksAre DEF InsideOf, Blocks
<1>2. Inside(g, id) = Ascending(S, n)
  BY DEF Inside
<1> HIDE DEF S, n
<1>3. Lists(Ascending(S, n), S)
  BY <1>1, AscendingLists
<1>4. Ascending(S, n) \in Seq(S)
  BY <1>3 DEF Lists
<1> QED BY <1>1, <1>2, <1>3, <1>4

Emitting == [done : Seq(Nat), todo : Seq(Nat)]

LEMMA EmittedSteps ==
  ASSUME NEW g, g.blocks \in Seq(Block)
  PROVE  /\ Emitted(g) \in [0..Len(g.blocks) -> Emitting]
         /\ Emitted(g)[0] = [done |-> <<>>, todo |-> Inside(g, Nowhere)]
         /\ \A k \in 1..Len(g.blocks) : Emitted(g)[k] = EmitNode(g, Emitted(g)[k - 1])
<1> DEFINE n == Len(g.blocks)
           Q == Emitting
           e == [done |-> <<>>, todo |-> Inside(g, Nowhere)]
           F == [x \in (1..n) \X Q |-> EmitNode(g, x[2])]
           u == Emitted(g)
<1>1. n \in Nat
  BY BlocksAre
<1>2. e \in Q
  BY InsideLists DEF Emitting
<1>3. ASSUME NEW q \in Q PROVE EmitNode(g, q) \in Q
  <2> DEFINE more == Inside(g, g.blocks[Head(q.todo)].id)
  <2>1. more \in Seq(Nat)
    BY InsideLists
  <2>2. q = [done |-> q.done, todo |-> q.todo] /\ q.done \in Seq(Nat) /\ q.todo \in Seq(Nat)
    BY DEF Emitting
  <2>3. CASE q.todo = <<>>
    BY <2>3 DEF EmitNode
  <2>4. CASE q.todo # <<>>
    <3>1. EmitNode(g, q) = [done |-> Append(q.done, Head(q.todo)), todo |-> more \o Tail(q.todo)]
      BY <2>4 DEF EmitNode
    <3> HIDE DEF more
    <3>2. Head(q.todo) \in Nat /\ Tail(q.todo) \in Seq(Nat)
      BY <2>2, <2>4
    <3>3. Append(q.done, Head(q.todo)) \in Seq(Nat) /\ more \o Tail(q.todo) \in Seq(Nat)
      BY <2>1, <2>2, <3>2
    <3> QED BY <3>1, <3>3 DEF Emitting
  <2> QED BY <2>3, <2>4
<1> HIDE DEF Q, e, n
<1>4. F \in [(1..n) \X Q -> Q]
  BY <1>3
<1>5. \A k \in 1..n, q \in Q : F[<<k, q>>] = EmitNode(g, q)
  OBVIOUS
<1> HIDE DEF F
<1>6. PICK w \in [0..n -> Q] : Counted(w, n, e, F)
  BY <1>1, <1>2, <1>4, CountsUp, Zenon
<1>7. \A k \in 0..n : w[k] = IF k = 0 THEN e ELSE EmitNode(g, w[k - 1])
  <2> TAKE k \in 0..n
  <2>1. CASE k = 0
    BY <1>6, <2>1 DEF Counted
  <2>2. CASE k # 0
    <3>1. k \in 1..n /\ w[k - 1] \in Q
      BY <1>1, <2>2
    <3>2. w[k] = F[<<k, w[k - 1]>>]
      BY <1>6, <3>1 DEF Counted
    <3> QED BY <1>5, <2>2, <3>1, <3>2
  <2> QED BY <2>1, <2>2
<1>8. w = [k \in 0..n |-> IF k = 0 THEN e ELSE EmitNode(g, w[k - 1])]
  <2>1. w = [k \in 0..n |-> w[k]]
    OBVIOUS
  <2> QED BY <1>7, <2>1, Zenon
<1>9. u = [k \in 0..n |-> IF k = 0 THEN e ELSE EmitNode(g, u[k - 1])]
  BY <1>8, Zenon DEF Emitted, e, n
<1> HIDE DEF u
<1>10. u[0] = e /\ \A k \in 1..n : u[k] = EmitNode(g, u[k - 1])
  <2>1. \A k \in 0..n : u[k] = IF k = 0 THEN e ELSE EmitNode(g, u[k - 1])
    BY <1>9, Zenon
  <2> QED BY <1>1, <2>1
<1> DEFINE T == {k \in 0..n : u[k] \in Q}
<1>11. T \in SUBSET (0..n) /\ 0 \in T /\ \A k \in 1..n : k - 1 \in T => k \in T
  BY <1>1, <1>2, <1>3, <1>10
<1>12. \A k \in 0..n : k \in T
  <2> HIDE DEF T
  <2> QED BY <1>1, <1>11, UpTo
<1>13. u \in [0..n -> Q]
  <2>1. \A k \in 0..n : u[k] \in Q
    BY <1>12
  <2> QED BY <1>9, <2>1
<1> QED BY <1>10, <1>13 DEF u, Q, e, n

\* What is done and what is to do are blocks of their own, and they are those
\* that are outside of everything or inside a block that is done.
Reaches(g, D, W) ==
  /\ D \subseteq Blocks(g) /\ W \subseteq Blocks(g) /\ D \cap W = {}
  /\ \A i \in Blocks(g) :
       i \in D \cup W <=> g.blocks[i].parent = Nowhere \/ \E j \in D : g.blocks[i].parent = Id(g, j)

Emits(g, q, D, W) == Lists(q.done, D) /\ Lists(q.todo, W) /\ Reaches(g, D, W)

LEMMA EmitNodeReaches ==
  ASSUME NEW g, g.blocks \in Seq(Block), IdsAreOwn(g), NEW q, NEW D, NEW W, Emits(g, q, D, W),
         q.todo # <<>>
  PROVE  /\ Head(q.todo) \in W
         /\ Emits(g, EmitNode(g, q), D \cup {Head(q.todo)},
                  InsideOf(g, Id(g, Head(q.todo))) \cup (W \ {Head(q.todo)}))
<1> DEFINE h == Head(q.todo)
           E == D \cup {h}
           C == InsideOf(g, Id(g, h))
           V == C \cup (W \ {h})
           r == EmitNode(g, q)
<1>1. r.done = Append(q.done, h) /\ r.todo = Inside(g, Id(g, h)) \o Tail(q.todo)
  BY DEF EmitNode, Id
<1>2. Lists(q.done, D) /\ Lists(q.todo, W) /\ Reaches(g, D, W)
  BY DEF Emits
<1>3. h \in W /\ Lists(Tail(q.todo), W \ {h})
  BY <1>2, ListedBut
<1>4. Lists(Inside(g, Id(g, h)), C)
  BY InsideLists
<1> HIDE DEF h, r
<1>5. /\ D \subseteq Blocks(g) /\ W \subseteq Blocks(g) /\ D \cap W = {}
      /\ \A i \in Blocks(g) :
           i \in D \cup W <=> g.blocks[i].parent = Nowhere \/ \E j \in D : g.blocks[i].parent = Id(g, j)
  BY <1>2 DEF Reaches
<1>6. /\ h \notin D /\ h \in Blocks(g) /\ Id(g, h) # Nowhere
      /\ \A j \in Blocks(g) : Id(g, j) = Id(g, h) => j = h
  BY <1>3, <1>5, BlocksAre DEF IdsAreOwn
<1>7. C \cap (D \cup W) = {}
  <2> SUFFICES ASSUME NEW i \in C, i \in D \cup W PROVE FALSE
    OBVIOUS
  <2>1. i \in Blocks(g) /\ g.blocks[i].parent = Id(g, h)
    BY DEF InsideOf
  <2>2. PICK j \in D : g.blocks[i].parent = Id(g, j)
    BY <2>1, <1>5, <1>6
  <2> QED BY <2>1, <2>2, <1>5, <1>6
<1>8. Lists(r.done, E)
  BY <1>1, <1>2, <1>6, ListedNext
<1>9. Lists(r.todo, V)
  <2>1. C \cap (W \ {h}) = {}
    BY <1>7
  <2> HIDE DEF C
  <2> QED BY <2>1, <1>1, <1>3, <1>4, ListedTogether
<1>10. E \subseteq Blocks(g) /\ V \subseteq Blocks(g) /\ E \cap V = {}
  <2>1. C \subseteq Blocks(g)
    BY DEF InsideOf
  <2> HIDE DEF C
  <2> QED BY <2>1, <1>3, <1>5, <1>6, <1>7
<1>11. ASSUME NEW i \in Blocks(g)
       PROVE  i \in E \cup V <=> g.blocks[i].parent = Nowhere \/ \E j \in E : g.blocks[i].parent = Id(g, j)
  <2>1. i \in E \cup V <=> i \in D \cup W \/ i \in C
    BY <1>3
  <2>2. i \in C <=> g.blocks[i].parent = Id(g, h)
    BY DEF InsideOf
  <2>3. (\E j \in E : g.blocks[i].parent = Id(g, j))
          <=> (\E j \in D : g.blocks[i].parent = Id(g, j)) \/ g.blocks[i].parent = Id(g, h)
    OBVIOUS
  <2> HIDE DEF C, E, V
  <2> QED BY <2>1, <2>2, <2>3, <1>5
<1>12. Reaches(g, E, V)
  <2> HIDE DEF E, V
  <2> QED BY <1>10, <1>11 DEF Reaches
<1> HIDE DEF E, V
<1>13. Emits(g, r, E, V)
  BY <1>8, <1>9, <1>12 DEF Emits
<1> QED BY <1>3, <1>13 DEF h, E, V, C, r

\* Each step is one block further, until nothing is left to do.
LEMMA EmittedReaches ==
  ASSUME NEW g, g.blocks \in Seq(Block), IdsAreOwn(g)
  PROVE  \A k \in 0..Len(g.blocks) :
           \E D, W : /\ Emits(g, Emitted(g)[k], D, W)
                     /\ Emitted(g)[k].todo = <<>> \/ Len(Emitted(g)[k].done) = k
<1> DEFINE n == Len(g.blocks)
           u == Emitted(g)
           Far(k) == \E D, W : /\ Emits(g, u[k], D, W)
                               /\ u[k].todo = <<>> \/ Len(u[k].done) = k
           T == {k \in 0..n : Far(k)}
<1>1. /\ n \in Nat /\ u \in [0..n -> Emitting]
      /\ u[0] = [done |-> <<>>, todo |-> Inside(g, Nowhere)]
      /\ \A k \in 1..n : u[k] = EmitNode(g, u[k - 1])
  BY BlocksAre, EmittedSteps, Zenon
<1> HIDE DEF u, n
<1>2. Far(0)
  <2> DEFINE W == InsideOf(g, Nowhere)
  <2>1. u[0].done = <<>> /\ u[0].todo = Inside(g, Nowhere)
    BY <1>1
  <2>2. Lists(u[0].todo, W)
    BY <2>1, InsideLists
  <2>3. Lists(u[0].done, {}) /\ Len(u[0].done) = 0
    BY <2>1, <2>2, NothingListed
  <2>4. Reaches(g, {}, W)
    BY DEF Reaches, InsideOf
  <2> HIDE DEF W
  <2> QED BY <2>2, <2>3, <2>4 DEF Emits
<1>3. ASSUME NEW k \in 1..n, Far(k - 1) PROVE Far(k)
  <2> DEFINE q == u[k - 1]
  <2>1. PICK D, W : Emits(g, q, D, W) /\ (q.todo = <<>> \/ Len(q.done) = k - 1)
    BY <1>3
  <2>2. u[k] = EmitNode(g, q) /\ q \in Emitting
    BY <1>1
  <2> HIDE DEF q
  <2>3. CASE q.todo = <<>>
    <3>1. u[k] = q
      BY <2>2, <2>3 DEF EmitNode
    <3> QED BY <2>1, <2>3, <3>1
  <2>4. CASE q.todo # <<>>
    <3>1. Emits(g, q, D, W)
      BY <2>1
    <3> DEFINE h == Head(q.todo)
    <3>2. Emits(g, EmitNode(g, q), D \cup {h}, InsideOf(g, Id(g, h)) \cup (W \ {h}))
      BY <2>4, <3>1, EmitNodeReaches, Zenon
    <3>3. u[k].done = Append(q.done, Head(q.todo)) /\ q.done \in Seq(Nat) /\ Len(q.done) = k - 1
      BY <2>1, <2>2, <2>4 DEF EmitNode, Emitting
    <3>4. Len(u[k].done) = k
      BY <3>3
    <3> QED BY <2>2, <3>2, <3>4, Zenon
  <2> QED BY <2>3, <2>4
<1>4. \A k \in 0..n : k \in T
  <2>1. T \in SUBSET (0..n) /\ 0 \in T /\ \A k \in 1..n : k - 1 \in T => k \in T
    <3> HIDE DEF Far
    <3> QED BY <1>1, <1>2, <1>3
  <2> HIDE DEF T
  <2> QED BY <1>1, <2>1, UpTo
<1>5. \A k \in 0..n : Far(k)
  <2> HIDE DEF Far
  <2> QED BY <1>4
<1> QED BY <1>5 DEF n, u

\* Nothing is left to do, and every block is done.
LEMMA FileHasEveryBlock ==
  ASSUME NEW g, Drawable(g)
  PROVE  /\ Lists(FileOrder(g), Blocks(g))
         /\ Len(FileOrder(g)) = Len(g.blocks)
         /\ FileOrder(g) \in Seq(Blocks(g))
<1> DEFINE n == Len(g.blocks)
           q == Emitted(g)[n]
<1>1. g.blocks \in Seq(Block) /\ IdsAreOwn(g) /\ RefersToIts(g) /\ NoneIsInItself(g)
  BY DEF Drawable
<1>2. n \in Nat /\ Blocks(g) = 1..n
  BY <1>1, BlocksAre DEF Blocks
<1>3. PICK D, W : Emits(g, q, D, W) /\ (q.todo = <<>> \/ Len(q.done) = n)
  <2>1. n \in 0..n
    BY <1>2
  <2> QED BY <1>1, <2>1, EmittedReaches, Zenon
<1>4. q.done = FileOrder(g)
  BY DEF FileOrder
<1> HIDE DEF q
<1>5. Lists(q.done, D) /\ Lists(q.todo, W) /\ Reaches(g, D, W)
  BY <1>3 DEF Emits
<1>6. D \subseteq Blocks(g)
  BY <1>5 DEF Reaches
<1>7. IsFiniteSet(D) /\ Cardinality(D) = Len(q.done)
  <2> DEFINE m == Len(q.done)
  <2>1. m \in Nat /\ q.done \in [1..m -> D]
    BY <1>5 DEF Lists
  <2>2. q.done \in Bijection(1..m, D)
    <3>1. \A i, j \in 1..m : q.done[i] = q.done[j] => i = j
      BY <1>5 DEF Lists
    <3>2. \A x \in D : \E i \in 1..m : q.done[i] = x
      BY <1>5 DEF Lists
    <3> HIDE DEF m
    <3> QED BY <2>1, <3>1, <3>2 DEF Bijection, Injection, Surjection, IsInjective
  <2>3. IsFiniteSet(1..m) /\ Cardinality(1..m) = m
    <3>1. 1 \in Int /\ m \in Int /\ m = IF 1 > m THEN 0 ELSE m - 1 + 1
      BY <2>1
    <3> HIDE DEF m
    <3> QED BY <3>1, FS_Interval
  <2> HIDE DEF m
  <2>4. ExistsBijection(1..m, D)
    BY <2>2 DEF ExistsBijection
  <2> QED BY <2>3, <2>4, FS_Bijection DEF m
<1>8. D = Blocks(g)
  <2>1. CASE Len(q.done) = n
    <3>1. IsFiniteSet(1..n) /\ Cardinality(1..n) = n
      BY <1>2, FS_Interval
    <3> QED BY <1>2, <1>6, <1>7, <2>1, <3>1, FS_Subset
  <2>2. CASE q.todo = <<>>
    <3>1. W = {}
      BY <1>5, <2>2, NothingListed
    <3>2. \A i \in Blocks(g) :
            i \in D <=> g.blocks[i].parent = Nowhere \/ \E j \in D : g.blocks[i].parent = Id(g, j)
      BY <1>5, <3>1 DEF Reaches
    <3>3. PICK depth \in [Ids(g) -> Nat] :
            \A i \in Blocks(g) : g.blocks[i].parent # Nowhere => depth[g.blocks[i].parent] < depth[Id(g, i)]
      BY <1>1 DEF NoneIsInItself
    <3> SUFFICES ASSUME NEW x \in Blocks(g), x \notin D PROVE FALSE
      BY <1>6
    <3> DEFINE U == {depth[Id(g, i)] : i \in Blocks(g) \ D}
    <3>4. U \in SUBSET Nat /\ U # {}
      BY <1>1, <3>3, BlocksAre
    <3>5. PICK y \in U : \A z \in U : y <= z
      BY <3>4, SmallestNat
    <3>6. PICK i \in Blocks(g) \ D : y = depth[Id(g, i)]
      OBVIOUS
    <3>7. g.blocks[i].parent # Nowhere
      BY <3>2, <3>6
    <3>8. g.blocks[i].parent \in Ids(g)
      BY <1>1, <3>7 DEF RefersToIts
    <3>9. PICK j \in Blocks(g) : g.blocks[i].parent = Id(g, j)
      BY <1>1, <3>8, BlocksAre
    <3>10. j \notin D
      BY <3>2, <3>9
    <3>11. depth[Id(g, j)] \in U /\ depth[Id(g, j)] < depth[Id(g, i)]
      BY <3>3, <3>7, <3>9, <3>10
    <3>12. depth[Id(g, i)] <= depth[Id(g, j)]
      BY <3>5, <3>6, <3>11
    <3>13. depth[Id(g, i)] \in Nat /\ depth[Id(g, j)] \in Nat
      BY <3>3, <1>1, BlocksAre
    <3> QED BY <3>11, <3>12, <3>13
  <2> QED BY <1>3, <2>1, <2>2
<1>9. Cardinality(Blocks(g)) = n
  BY <1>2, FS_Interval
<1> QED BY <1>4, <1>5, <1>7, <1>8, <1>9 DEF Lists

-----------------------------------------------------------------------------
(***************************************************************************)
(* Identifiers.                                                            *)
(***************************************************************************)
LEMMA NowhereIs == Nowhere \in Slugs
<1> DEFINE none == <<>>
<1>1. none \in Seq(Nat)
  OBVIOUS
<1>2. Nowhere = [words |-> "", numbers |-> none]
  BY DEF Nowhere, Slug
<1> HIDE DEF none
<1> QED BY <1>1, <1>2, WordsAssumption DEF Slugs

LEMMA NumberedIs ==
  ASSUME NEW s \in Slugs, NEW n \in Nat
  PROVE  /\ Numbered(s, n) \in Slugs /\ Numbered(s, n) # Nowhere
         /\ \A t \in Slugs, m \in Nat : Numbered(s, n) = Numbered(t, m) => s = t /\ n = m
<1>1. /\ s = Slug(s.words, s.numbers)
      /\ s.words \in Words /\ s.numbers \in Seq(Nat)
  BY DEF Slugs, Slug
<1>2. Append(s.numbers, n) \in Seq(Nat) /\ Append(s.numbers, n) # <<>>
  <2> DEFINE a == s.numbers
  <2>1. a \in Seq(Nat)
    BY <1>1
  <2> HIDE DEF a
  <2>2. Append(a, n) \in Seq(Nat) /\ Append(a, n) # <<>>
    BY <2>1, AppendProperties
  <2> QED BY <2>2 DEF a
<1>3. ASSUME NEW t \in Slugs, NEW m \in Nat, Numbered(s, n) = Numbered(t, m)
      PROVE  s = t /\ n = m
  <2>1. t = Slug(t.words, t.numbers) /\ t.numbers \in Seq(Nat)
    BY DEF Slugs, Slug
  <2>2. s.words = t.words /\ Append(s.numbers, n) = Append(t.numbers, m)
    BY <1>3 DEF Numbered, Slug
  <2>3. s.numbers = t.numbers /\ n = m
    <3> DEFINE a == s.numbers
               b == t.numbers
    <3>1. a \in Seq(Nat) /\ b \in Seq(Nat) /\ Append(a, n) = Append(b, m)
      BY <1>1, <2>1, <2>2
    <3> HIDE DEF a, b
    <3>2. a = b /\ n = m
      BY <3>1, AppendInjective
    <3> QED BY <3>2 DEF a, b
  <2> QED BY <1>1, <2>1, <2>2, <2>3
<1>4. Numbered(s, n) \in Slugs /\ Numbered(s, n) # Nowhere
  BY <1>1, <1>2 DEF Numbered, Slug, Slugs, Nowhere
<1> QED BY <1>3, <1>4

SlugAt(g, i) == SlugOf(g.blocks[i].name)
Node         == Slug("node", <<>>)

\* No slug is another with a number, unless that is one block's alone; and
\* nothing is called like the blocks without a name.
NamesFit(g) ==
  /\ \A i \in Blocks(g) : g.blocks[i].name # Blank => g.blocks[i].name.slug # Nowhere
  /\ \A i, j, k \in Blocks(g) : \A m \in Nat :
       SlugAt(g, i) = Numbered(SlugAt(g, j), m) /\ SlugAt(g, k) = SlugAt(g, j) => k = j
  /\ \A i, j \in Blocks(g) :
       g.blocks[i].name = Blank /\ g.blocks[j].name # Blank => g.blocks[j].name.slug # Node

LEMMA SlugAtIs ==
  ASSUME NEW g, g.blocks \in Seq(Block), NamesFit(g), NEW i \in Blocks(g)
  PROVE  SlugAt(g, i) \in Slugs \ {Nowhere}
<1>1. g.blocks[i].name.slug \in Slugs
  BY BlocksAre DEF Block
<1>2. Node \in Slugs \ {Nowhere}
  <2> DEFINE none == <<>>
  <2>1. none \in Seq(Nat)
    OBVIOUS
  <2>2. Node = [words |-> "node", numbers |-> none]
    BY DEF Node, Slug
  <2>3. Nowhere = [words |-> "", numbers |-> none]
    BY DEF Nowhere, Slug
  <2> HIDE DEF none
  <2>4. Node \in Slugs
    BY <2>1, <2>2, WordsAssumption DEF Slugs
  <2>5. Node # Nowhere
    BY <2>2, <2>3
  <2> QED BY <2>4, <2>5
<1> QED BY <1>1, <1>2 DEF SlugAt, SlugOf, NamesFit, Node

Counts == UNION {[X -> Nat] : X \in SUBSET Slugs}
Given  == [used : Counts, keys : UNION {[X -> Slugs] : X \in SUBSET Slugs}]

LEMMA UsedCountIs ==
  ASSUME NEW used \in Counts, NEW s
  PROVE  UsedCount(used, s) \in Nat
BY DEF UsedCount, Counts

LEMMA IdentifierIs ==
  ASSUME NEW used \in Counts, NEW s \in Slugs
  PROVE  Identifier(used, s) \in Slugs
BY UsedCountIs, NumberedIs DEF Identifier

LEMMA GiveOutGives ==
  ASSUME NEW q \in Given, NEW block \in Block, SlugOf(block.name) \in Slugs
  PROVE  LET slug == SlugOf(block.name)
             key  == Identifier(q.used, slug)
             r    == GiveOut(q, block)
         IN /\ r \in Given
            /\ \A x : UsedCount(r.used, x) =
                        IF x = key THEN 1
                        ELSE IF x = slug THEN UsedCount(q.used, slug) + 1 ELSE UsedCount(q.used, x)
            /\ DOMAIN r.keys = DOMAIN q.keys \cup {block.id}
            /\ r.keys[block.id] = key
            /\ \A id \in DOMAIN q.keys \ {block.id} : r.keys[id] = q.keys[id]
<1> DEFINE slug == SlugOf(block.name)
           key  == Identifier(q.used, slug)
           r    == GiveOut(q, block)
           count == UsedCount(q.used, slug) + 1
<1>1. /\ q.used \in Counts /\ q.keys \in UNION {[X -> Slugs] : X \in SUBSET Slugs}
      /\ block.id \in Slugs
  BY DEF Given, Block
<1>2. key \in Slugs /\ slug \in Slugs /\ count \in Nat
  BY <1>1, IdentifierIs, UsedCountIs
<1> DEFINE used == [x \in DOMAIN q.used \cup {slug, key} |->
                      IF x = key THEN 1 ELSE IF x = slug THEN count ELSE q.used[x]]
           keys == [id \in DOMAIN q.keys \cup {block.id} |->
                      IF id = block.id THEN key ELSE q.keys[id]]
<1>3. r = [used |-> used, keys |-> keys]
  BY DEF GiveOut
<1> HIDE DEF r, slug, key, count
<1>4. used \in Counts
  <2>1. PICK X \in SUBSET Slugs : q.used \in [X -> Nat]
    BY <1>1 DEF Counts
  <2>2. used \in [X \cup {slug, key} -> Nat]
    BY <2>1, <1>2
  <2>3. X \cup {slug, key} \in SUBSET Slugs
    BY <1>2
  <2> HIDE DEF used
  <2> QED BY <2>2, <2>3 DEF Counts
<1>5. keys \in UNION {[X -> Slugs] : X \in SUBSET Slugs}
  <2>1. PICK X \in SUBSET Slugs : q.keys \in [X -> Slugs]
    BY <1>1
  <2>2. keys \in [X \cup {block.id} -> Slugs]
    BY <2>1, <1>2
  <2>3. X \cup {block.id} \in SUBSET Slugs
    BY <1>1
  <2> HIDE DEF keys
  <2> QED BY <2>2, <2>3
<1>6. \A x : UsedCount(used, x) =
               IF x = key THEN 1 ELSE IF x = slug THEN count ELSE UsedCount(q.used, x)
  BY DEF UsedCount
<1>7. /\ DOMAIN keys = DOMAIN q.keys \cup {block.id}
      /\ keys[block.id] = key
      /\ \A id \in DOMAIN q.keys \ {block.id} : keys[id] = q.keys[id]
  OBVIOUS
<1>8. r \in Given /\ r.used = used /\ r.keys = keys
  <2> HIDE DEF used, keys
  <2> QED BY <1>3, <1>4, <1>5 DEF Given
<1> HIDE DEF used, keys
<1> QED BY <1>6, <1>7, <1>8 DEF r, slug, key, count

LEMMA GivenSteps ==
  ASSUME NEW g, g.blocks \in Seq(Block), NamesFit(g)
  PROVE  /\ GivenOut(g) \in [0..Len(g.blocks) -> Given]
         /\ GivenOut(g)[0] = [used |-> <<>>, keys |-> <<>>]
         /\ \A k \in 1..Len(g.blocks) : GivenOut(g)[k] = GiveOut(GivenOut(g)[k - 1], g.blocks[k])
<1> DEFINE n == Len(g.blocks)
           e == [used |-> <<>>, keys |-> <<>>]
           F == [x \in (1..n) \X Given |-> GiveOut(x[2], g.blocks[x[1]])]
           u == GivenOut(g)
<1>1. n \in Nat /\ \A k \in 1..n : g.blocks[k] \in Block /\ SlugOf(g.blocks[k].name) \in Slugs
  BY BlocksAre, SlugAtIs DEF Blocks, SlugAt
<1>2. e \in Given
  <2> DEFINE none == <<>>
  <2>1. none \in [{} -> Nat] /\ none \in [{} -> Slugs] /\ {} \in SUBSET Slugs
    OBVIOUS
  <2> HIDE DEF none
  <2>2. none \in Counts /\ none \in UNION {[X -> Slugs] : X \in SUBSET Slugs}
    BY <2>1 DEF Counts
  <2>3. [used |-> none, keys |-> none] \in Given
    BY <2>2 DEF Given
  <2> QED BY <2>3 DEF none
<1> HIDE DEF e, n
<1>3. \A k \in 1..n, q \in Given : GiveOut(q, g.blocks[k]) \in Given
  BY <1>1, GiveOutGives
<1>4. F \in [(1..n) \X Given -> Given]
  BY <1>3
<1>5. \A k \in 1..n, q \in Given : F[<<k, q>>] = GiveOut(q, g.blocks[k])
  OBVIOUS
<1> HIDE DEF F
<1>6. PICK w \in [0..n -> Given] : Counted(w, n, e, F)
  BY <1>1, <1>2, <1>4, CountsUp, Zenon
<1>7. \A k \in 0..n : w[k] = IF k = 0 THEN e ELSE GiveOut(w[k - 1], g.blocks[k])
  <2> TAKE k \in 0..n
  <2>1. CASE k = 0
    BY <1>6, <2>1 DEF Counted
  <2>2. CASE k # 0
    <3>1. k \in 1..n /\ w[k - 1] \in Given
      BY <1>1, <2>2
    <3>2. w[k] = F[<<k, w[k - 1]>>]
      BY <1>6, <3>1 DEF Counted
    <3> QED BY <1>5, <2>2, <3>1, <3>2
  <2> QED BY <2>1, <2>2
<1>8. w = [k \in 0..n |-> IF k = 0 THEN e ELSE GiveOut(w[k - 1], g.blocks[k])]
  <2>1. w = [k \in 0..n |-> w[k]]
    OBVIOUS
  <2> QED BY <1>7, <2>1, Zenon
<1>9. u = [k \in 0..n |-> IF k = 0 THEN e ELSE GiveOut(u[k - 1], g.blocks[k])]
  BY <1>8, Zenon DEF GivenOut, e, n
<1> HIDE DEF u
<1>10. u[0] = e /\ \A k \in 1..n : u[k] = GiveOut(u[k - 1], g.blocks[k])
  <2>1. \A k \in 0..n : u[k] = IF k = 0 THEN e ELSE GiveOut(u[k - 1], g.blocks[k])
    BY <1>9, Zenon
  <2> QED BY <1>1, <2>1
<1> DEFINE T == {k \in 0..n : u[k] \in Given}
<1>11. T \in SUBSET (0..n) /\ 0 \in T /\ \A k \in 1..n : k - 1 \in T => k \in T
  BY <1>1, <1>2, <1>3, <1>10
<1>12. \A k \in 0..n : k \in T
  <2> HIDE DEF T
  <2> QED BY <1>1, <1>11, UpTo
<1>13. u \in [0..n -> Given]
  <2>1. \A k \in 0..n : u[k] \in Given
    BY <1>12
  <2> QED BY <1>9, <2>1
<1> QED BY <1>10, <1>13 DEF u, e, n

\* What the first k blocks were given: an identifier is the slug of its block or,
\* if the block does not have that alone, the slug with a number not yet used.
GivenTo(g, q, k) ==
  /\ DOMAIN q.keys = {Id(g, i) : i \in 1..k}
  /\ \A i \in 1..k :
       \/ q.keys[Id(g, i)] = SlugAt(g, i)
       \/ \E m \in Nat, j \in Blocks(g) :
            /\ j # i /\ SlugAt(g, j) = SlugAt(g, i)
            /\ m <= UsedCount(q.used, SlugAt(g, i))
            /\ q.keys[Id(g, i)] = Numbered(SlugAt(g, i), m)
  /\ \A i, j \in 1..k : q.keys[Id(g, i)] = q.keys[Id(g, j)] => i = j
  /\ \A i \in 1..k : UsedCount(q.used, SlugAt(g, i)) >= 1
  /\ \A j \in Blocks(g) : UsedCount(q.used, SlugAt(g, j)) >= 1 => \E i \in 1..k : SlugAt(g, i) = SlugAt(g, j)

LEMMA GiveOutKeeps ==
  ASSUME NEW g, g.blocks \in Seq(Block), IdsAreOwn(g), NamesFit(g),
         NEW k \in Blocks(g), NEW q \in Given, GivenTo(g, q, k - 1)
  PROVE  GivenTo(g, GiveOut(q, g.blocks[k]), k)
<1> DEFINE b    == g.blocks[k]
           slug == SlugAt(g, k)
           used == UsedCount(q.used, slug)
           key  == Identifier(q.used, slug)
           r    == GiveOut(q, b)
           S(i) == SlugAt(g, i)
<1>1. /\ k \in Nat \ {0} /\ 1..k \subseteq Blocks(g) /\ 1..k = (1..(k - 1)) \cup {k} /\ k \notin 1..(k - 1)
      /\ \A i \in Blocks(g) : S(i) \in Slugs
      /\ b \in Block /\ b.id = Id(g, k) /\ SlugOf(b.name) = slug
  <2>1. Len(g.blocks) \in Nat /\ \A i \in Blocks(g) : g.blocks[i] \in Block
    BY BlocksAre
  <2> QED BY <2>1, SlugAtIs DEF Blocks, SlugAt, Id
<1>2. /\ r \in Given
      /\ \A x : UsedCount(r.used, x) =
                  IF x = key THEN 1 ELSE IF x = slug THEN used + 1 ELSE UsedCount(q.used, x)
      /\ DOMAIN r.keys = DOMAIN q.keys \cup {b.id}
      /\ r.keys[b.id] = key
      /\ \A id \in DOMAIN q.keys \ {b.id} : r.keys[id] = q.keys[id]
  <2> HIDE DEF b, r
  <2> SUFFICES /\ GiveOut(q, b) \in Given
               /\ \A x : UsedCount(GiveOut(q, b).used, x) =
                           IF x = Identifier(q.used, SlugOf(b.name)) THEN 1
                           ELSE IF x = SlugOf(b.name) THEN UsedCount(q.used, SlugOf(b.name)) + 1
                           ELSE UsedCount(q.used, x)
               /\ DOMAIN GiveOut(q, b).keys = DOMAIN q.keys \cup {b.id}
               /\ GiveOut(q, b).keys[b.id] = Identifier(q.used, SlugOf(b.name))
               /\ \A id \in DOMAIN q.keys \ {b.id} : GiveOut(q, b).keys[id] = q.keys[id]
    BY <1>1 DEF r
  <2>1. b \in Block /\ SlugOf(b.name) \in Slugs
    BY <1>1
  <2> QED BY <2>1, GiveOutGives
<1> HIDE DEF b, r
<1>3. used \in Nat /\ slug \in Slugs /\ key = IF used > 0 THEN Numbered(slug, used + 1) ELSE slug
  <2>1. q.used \in Counts
    BY DEF Given
  <2> QED BY <1>1, <2>1, UsedCountIs DEF Identifier
<1> HIDE DEF slug, used, key
<1>4. /\ DOMAIN q.keys = {Id(g, i) : i \in 1..(k - 1)}
      /\ \A i \in 1..(k - 1) :
           \/ q.keys[Id(g, i)] = S(i)
           \/ \E m \in Nat, j \in Blocks(g) : /\ j # i /\ S(j) = S(i) /\ m <= UsedCount(q.used, S(i))
                                              /\ q.keys[Id(g, i)] = Numbered(S(i), m)
      /\ \A i, j \in 1..(k - 1) : q.keys[Id(g, i)] = q.keys[Id(g, j)] => i = j
      /\ \A i \in 1..(k - 1) : UsedCount(q.used, S(i)) >= 1
      /\ \A j \in Blocks(g) : UsedCount(q.used, S(j)) >= 1 => \E i \in 1..(k - 1) : S(i) = S(j)
  BY DEF GivenTo
<1>5. /\ \A i, j \in Blocks(g) : Id(g, i) = Id(g, j) => i = j
      /\ \A i, j, l \in Blocks(g) : \A m \in Nat : S(i) = Numbered(S(j), m) /\ S(l) = S(j) => l = j
  BY DEF IdsAreOwn, NamesFit
<1>6. slug = S(k)
  BY DEF slug
<1>7. \A i \in 1..(k - 1) : r.keys[Id(g, i)] = q.keys[Id(g, i)]
  <2> TAKE i \in 1..(k - 1)
  <2>1. Id(g, i) \in DOMAIN q.keys /\ Id(g, i) # b.id
    BY <1>1, <1>4, <1>5
  <2> QED BY <2>1, <1>2
<1>8. r.keys[Id(g, k)] = key
  BY <1>1, <1>2
<1> HIDE DEF S
<1>9. used > 0 => \E i \in 1..(k - 1) : S(i) = slug
  <2> SUFFICES ASSUME used > 0 PROVE \E i \in 1..(k - 1) : S(i) = S(k)
    BY <1>6
  <2>1. UsedCount(q.used, S(k)) >= 1
    BY <1>3, <1>6 DEF used
  <2> QED BY <1>4, <2>1
\* The identifier is nobody's slug, unless it is the block's own.
<1>10. ASSUME NEW j \in Blocks(g), S(j) = key PROVE used = 0 /\ key = slug
  <2> SUFFICES ASSUME used > 0 PROVE FALSE
    BY <1>3
  <2>1. S(j) = Numbered(S(k), used + 1) /\ used + 1 \in Nat
    BY <1>3, <1>6, <1>10
  <2>2. PICK i \in 1..(k - 1) : S(i) = S(k)
    BY <1>6, <1>9
  <2> QED BY <2>1, <2>2, <1>1, <1>5
\* And nobody was given it.
<1>11. ASSUME NEW i \in 1..(k - 1), q.keys[Id(g, i)] = key PROVE FALSE
  <2>1. i \in Blocks(g) /\ S(i) \in Slugs
    BY <1>1
  <2>2. CASE q.keys[Id(g, i)] = S(i)
    <3>1. used = 0 /\ S(i) = slug
      BY <2>1, <2>2, <1>10, <1>11
    <3>2. UsedCount(q.used, slug) >= 1
      BY <3>1, <1>4
    <3> QED BY <3>1, <3>2 DEF used
  <2>3. ASSUME NEW m \in Nat, NEW j \in Blocks(g), j # i, S(j) = S(i), m <= UsedCount(q.used, S(i)),
               q.keys[Id(g, i)] = Numbered(S(i), m)
        PROVE  FALSE
    <3>1. key = Numbered(S(i), m)
      BY <1>11, <2>3
    <3>2. CASE used > 0
      <4>1. Numbered(S(i), m) = Numbered(slug, used + 1) /\ used + 1 \in Nat
        BY <1>3, <3>1, <3>2
      <4>2. S(i) = slug /\ m = used + 1
        BY <4>1, <1>3, <2>1, NumberedIs
      <4>3. m <= used
        BY <2>3, <4>2 DEF used
      <4> QED BY <4>2, <4>3, <1>3
    <3>3. CASE used = 0
      <4>1. S(k) = Numbered(S(i), m)
        BY <1>3, <1>6, <3>1, <3>3
      <4> QED BY <4>1, <2>1, <2>3, <1>5
    <3> QED BY <1>3, <3>2, <3>3
  <2> QED BY <1>4, <2>2, <2>3
<1>12. \A i \in 1..(k - 1) : UsedCount(r.used, S(i)) >= UsedCount(q.used, S(i))
  <2> TAKE i \in 1..(k - 1)
  <2>1. i \in Blocks(g) /\ UsedCount(q.used, S(i)) \in Nat
    BY <1>1, UsedCountIs DEF Given
  <2>2. CASE S(i) = key
    <3>1. used = 0 /\ S(i) = slug
      BY <2>1, <2>2, <1>10
    <3>2. UsedCount(q.used, slug) >= 1
      BY <3>1, <1>4
    <3> QED BY <3>1, <3>2 DEF used
  <2>3. CASE S(i) # key /\ S(i) = slug
    <3>1. UsedCount(r.used, S(i)) = used + 1
      BY <1>2, <2>3
    <3> QED BY <3>1, <2>1, <2>3 DEF used
  <2>4. CASE S(i) # key /\ S(i) # slug
    BY <1>2, <2>1, <2>4
  <2> QED BY <2>2, <2>3, <2>4
<1>13. UsedCount(r.used, slug) = used + 1
  <2>1. CASE slug = key
    <3>1. used = 0
      BY <2>1, <1>1, <1>6, <1>10
    <3>2. UsedCount(r.used, slug) = 1
      BY <1>2, <2>1
    <3> QED BY <3>1, <3>2
  <2>2. CASE slug # key
    BY <2>2, <1>2
  <2> QED BY <2>1, <2>2
<1>14. DOMAIN r.keys = {Id(g, i) : i \in 1..k}
  BY <1>1, <1>2, <1>4
<1>15. ASSUME NEW i \in 1..k
       PROVE  \/ r.keys[Id(g, i)] = S(i)
              \/ \E m \in Nat, j \in Blocks(g) : /\ j # i /\ S(j) = S(i) /\ m <= UsedCount(r.used, S(i))
                                                 /\ r.keys[Id(g, i)] = Numbered(S(i), m)
  <2>1. CASE i \in 1..(k - 1)
    <3>1. r.keys[Id(g, i)] = q.keys[Id(g, i)] /\ UsedCount(r.used, S(i)) >= UsedCount(q.used, S(i))
      BY <2>1, <1>7, <1>12
    <3>2. CASE q.keys[Id(g, i)] = S(i)
      BY <3>1, <3>2
    <3>3. ASSUME NEW m \in Nat, NEW j \in Blocks(g), j # i, S(j) = S(i), m <= UsedCount(q.used, S(i)),
                 q.keys[Id(g, i)] = Numbered(S(i), m)
          PROVE  /\ m <= UsedCount(r.used, S(i)) /\ r.keys[Id(g, i)] = Numbered(S(i), m)
      <4>1. UsedCount(r.used, S(i)) \in Nat /\ UsedCount(q.used, S(i)) \in Nat
        BY <1>2, UsedCountIs DEF Given
      <4> QED BY <3>1, <3>3, <4>1
    <3> QED BY <1>4, <2>1, <3>2, <3>3
  <2>2. CASE i = k
    <3>1. CASE used = 0
      BY <2>2, <3>1, <1>3, <1>6, <1>8
    <3>2. CASE used > 0
      <4>1. PICK j \in 1..(k - 1) : S(j) = slug
        BY <1>9, <3>2
      <4>2. j \in Blocks(g) /\ j # k
        BY <1>1, <4>1
      <4>3. used + 1 \in Nat /\ used + 1 <= UsedCount(r.used, S(k)) /\ r.keys[Id(g, k)] = Numbered(S(k), used + 1)
        BY <1>3, <1>6, <1>8, <1>13, <3>2
      <4> QED BY <2>2, <4>1, <4>2, <4>3, <1>6
    <3> QED BY <1>3, <3>1, <3>2
  <2> QED BY <1>1, <2>1, <2>2
<1>16. \A i, j \in 1..k : r.keys[Id(g, i)] = r.keys[Id(g, j)] => i = j
  BY <1>1, <1>4, <1>7, <1>8, <1>11
<1>17. \A i \in 1..k : UsedCount(r.used, S(i)) >= 1
  <2> TAKE i \in 1..k
  <2>1. CASE i \in 1..(k - 1)
    <3>1. UsedCount(r.used, S(i)) \in Nat /\ UsedCount(q.used, S(i)) \in Nat
      BY <1>2, UsedCountIs DEF Given
    <3> QED BY <2>1, <3>1, <1>4, <1>12
  <2>2. CASE i = k
    BY <2>2, <1>3, <1>6, <1>13
  <2> QED BY <1>1, <2>1, <2>2
<1>18. ASSUME NEW j \in Blocks(g), UsedCount(r.used, S(j)) >= 1 PROVE \E i \in 1..k : S(i) = S(j)
  <2>1. CASE S(j) = slug
    BY <2>1, <1>1, <1>6
  <2>2. CASE S(j) # slug
    <3>1. S(j) # key
      BY <2>2, <1>10
    <3>2. UsedCount(q.used, S(j)) >= 1
      BY <2>2, <3>1, <1>2, <1>18
    <3> QED BY <3>2, <1>1, <1>4
  <2> QED BY <2>1, <2>2
<1> QED BY <1>14, <1>15, <1>16, <1>17, <1>18 DEF GivenTo, r, b, S

\* The identifiers are one for each block, and none is nobody's.
KeysFit(g, keys) ==
  /\ keys \in [Ids(g) -> Slugs \ {Nowhere}]
  /\ \A i, j \in Blocks(g) : keys[Id(g, i)] = keys[Id(g, j)] => i = j
  /\ \A i \in Blocks(g) :
       \/ keys[Id(g, i)] = SlugAt(g, i)
       \/ \E m \in Nat, j \in Blocks(g) :
            j # i /\ SlugAt(g, j) = SlugAt(g, i) /\ keys[Id(g, i)] = Numbered(SlugAt(g, i), m)

LEMMA IdentifiersFit ==
  ASSUME NEW g, Drawable(g), NamesFit(g)
  PROVE  KeysFit(g, Identifiers(g))
<1> DEFINE n == Len(g.blocks)
           u == GivenOut(g)
           keys == u[n].keys
           T == {k \in 0..n : GivenTo(g, u[k], k)}
<1>1. g.blocks \in Seq(Block) /\ IdsAreOwn(g)
  BY DEF Drawable
<1>2. n \in Nat /\ Blocks(g) = 1..n
  BY <1>1, BlocksAre DEF Blocks
<1>3. /\ u \in [0..n -> Given] /\ u[0] = [used |-> <<>>, keys |-> <<>>]
      /\ \A k \in 1..n : u[k] = GiveOut(u[k - 1], g.blocks[k])
  BY <1>1, GivenSteps, Zenon
<1>4. keys = Identifiers(g)
  BY DEF Identifiers
<1> HIDE DEF u, n
<1>5. 0 \in T
  <2>1. u[0].keys = <<>> /\ u[0].used = <<>>
    BY <1>3
  <2>2. \A x : UsedCount(u[0].used, x) = 0
    BY <2>1 DEF UsedCount
  <2>3. GivenTo(g, u[0], 0)
    BY <2>1, <2>2 DEF GivenTo
  <2> QED BY <1>2, <2>3
<1>6. ASSUME NEW k \in 1..n, k - 1 \in T PROVE k \in T
  <2>1. u[k - 1] \in Given /\ k \in Blocks(g) /\ GivenTo(g, u[k - 1], k - 1)
    BY <1>2, <1>3, <1>6
  <2>2. GivenTo(g, GiveOut(u[k - 1], g.blocks[k]), k)
    BY <1>1, <2>1, GiveOutKeeps
  <2> QED BY <1>3, <2>2
<1>7. n \in T
  <2>1. T \in SUBSET (0..n) /\ n \in 0..n
    BY <1>2
  <2> HIDE DEF T
  <2> QED BY <2>1, <1>2, <1>5, <1>6, UpTo
<1>8. GivenTo(g, u[n], n) /\ u[n] \in Given
  BY <1>2, <1>3, <1>7
<1>9. DOMAIN keys = Ids(g)
  <2>1. DOMAIN keys = {Id(g, i) : i \in 1..n}
    BY <1>8 DEF GivenTo
  <2>2. Ids(g) = {Id(g, i) : i \in Blocks(g)}
    BY <1>1, BlocksAre DEF Ids, Id
  <2> QED BY <2>1, <2>2, <1>2
<1>10. /\ \A i \in Blocks(g) :
            \/ keys[Id(g, i)] = SlugAt(g, i)
            \/ \E m \in Nat, j \in Blocks(g) :
                 j # i /\ SlugAt(g, j) = SlugAt(g, i) /\ keys[Id(g, i)] = Numbered(SlugAt(g, i), m)
       /\ \A i, j \in Blocks(g) : keys[Id(g, i)] = keys[Id(g, j)] => i = j
  BY <1>2, <1>8 DEF GivenTo
<1>11. keys \in [Ids(g) -> Slugs \ {Nowhere}]
  <2>1. PICK X \in SUBSET Slugs : keys \in [X -> Slugs]
    BY <1>8 DEF Given
  <2> HIDE DEF keys
  <2>2. \A i \in Blocks(g) : keys[Id(g, i)] \in Slugs \ {Nowhere}
    <3> TAKE i \in Blocks(g)
    <3>1. SlugAt(g, i) \in Slugs \ {Nowhere}
      BY <1>1, SlugAtIs
    <3>2. \A m \in Nat : Numbered(SlugAt(g, i), m) \in Slugs \ {Nowhere}
      BY <3>1, NumberedIs
    <3> QED BY <3>1, <3>2, <1>10
  <2>3. \A id \in Ids(g) : keys[id] \in Slugs \ {Nowhere}
    BY <2>2, <1>1, BlocksAre
  <2> QED BY <2>1, <2>3, <1>9
<1> HIDE DEF keys
<1> QED BY <1>4, <1>10, <1>11 DEF KeysFit

-----------------------------------------------------------------------------
(***************************************************************************)
(* What is written of a block.                                             *)
(***************************************************************************)
LEMMA IntoIs ==
  ASSUME NEW g, g.arrows \in Seq(Arrow), NEW id
  PROVE  /\ Into(g, id) \in Seq(Arrow)
         /\ \A i \in 1..Len(Into(g, id)) :
              Into(g, id)[i].to = id /\ \E k \in 1..Len(g.arrows) : Into(g, id)[i] = g.arrows[k]
<1> DEFINE n == Len(g.arrows)
           S == {k \in DOMAIN g.arrows : g.arrows[k].to = id}
           into == Ascending(S, n)
           arrows == [i \in DOMAIN into |-> g.arrows[into[i]]]
<1>1. n \in Nat /\ \A k \in 1..n : g.arrows[k] \in Arrow
  OBVIOUS
<1>2. S \subseteq 1..n /\ S \cap (1..n) = S /\ \A k \in S : g.arrows[k].to = id
  OBVIOUS
<1>3. Into(g, id) = arrows
  BY DEF Into
<1>4. into \in Seq(S)
  <2> HIDE DEF S, n
  <2>1. Lists(into, S)
    BY <1>1, <1>2, AscendingLists
  <2> QED BY <2>1 DEF Lists
<1> HIDE DEF into, S, n
<1>5. Len(into) \in Nat /\ DOMAIN into = 1..Len(into) /\ \A i \in 1..Len(into) : into[i] \in S
  BY <1>4
<1>6. arrows \in Seq(Arrow) /\ Len(arrows) = Len(into)
  <2>1. \A i \in 1..Len(into) : g.arrows[into[i]] \in Arrow
    BY <1>1, <1>2, <1>5
  <2>2. arrows \in [1..Len(into) -> Arrow]
    BY <1>5, <2>1
  <2> HIDE DEF arrows
  <2> QED BY <1>5, <2>2
<1>7. \A i \in 1..Len(into) : arrows[i] = g.arrows[into[i]]
  BY <1>5
<1> HIDE DEF arrows
<1> QED BY <1>2, <1>3, <1>5, <1>6, <1>7 DEF n

EntryFits(g, keys, i) ==
  LET e    == Entry(g, keys, g.blocks[i])
      into == Into(g, Id(g, i))
  IN /\ e.key = keys[Id(g, i)] /\ e.key \in Slugs \ {Nowhere}
     /\ e.name \in [slug : Slugs, plain : BOOLEAN]
     /\ e.name = IF g.blocks[i].name = [slug |-> e.key, plain |-> TRUE] THEN Blank ELSE g.blocks[i].name
     /\ e.parent = Moved(keys, g.blocks[i].parent) /\ e.until = Moved(keys, g.blocks[i].until)
     /\ e.needs = [k \in DOMAIN into |-> [from |-> keys[into[k].from], port |-> into[k].port]]
     /\ \A k \in DOMAIN into : into[k].from \in Ids(g) /\ keys[into[k].from] \in Slugs
     /\ ImportedNeeds(e) = [k \in DOMAIN into |->
                              [from |-> keys[into[k].from], to |-> e.key, port |-> into[k].port]]
     /\ ImportedNeeds(e) \in Seq(Arrow)
     /\ \A k \in 1..Len(ImportedNeeds(e)) : ImportedNeeds(e)[k].to = e.key

LEMMA EntryIs ==
  ASSUME NEW g, Drawable(g), NEW keys, KeysFit(g, keys), NEW i \in Blocks(g)
  PROVE  EntryFits(g, keys, i)
<1> DEFINE b == g.blocks[i]
           into == Into(g, b.id)
           needs == [k \in DOMAIN into |-> [from |-> keys[into[k].from], port |-> into[k].port]]
           e == Entry(g, keys, b)
           arrows == [k \in DOMAIN into |->
                        [from |-> keys[into[k].from], to |-> e.key, port |-> into[k].port]]
<1>1. g.blocks \in Seq(Block) /\ g.arrows \in Seq(Arrow) /\ RefersToIts(g)
  BY DEF Drawable
<1>2. b \in Block /\ b.id \in Ids(g)
  BY <1>1, BlocksAre DEF Id
<1>3. keys \in [Ids(g) -> Slugs \ {Nowhere}]
  BY DEF KeysFit
<1>4. /\ e.key = keys[b.id]
      /\ e.name = (IF b.name = [slug |-> keys[b.id], plain |-> TRUE] THEN Blank ELSE b.name)
      /\ e.parent = Moved(keys, b.parent) /\ e.until = Moved(keys, b.until)
      /\ e.needs = needs
  BY Zenon DEF Entry, Moved
<1>5. into \in Seq(Arrow) /\ \A k \in 1..Len(into) : into[k].from \in Ids(g)
  <2>1. into \in Seq(Arrow) /\ \A k \in 1..Len(into) : \E l \in 1..Len(g.arrows) : into[k] = g.arrows[l]
    BY <1>1, IntoIs
  <2> HIDE DEF into
  <2> QED BY <2>1, <1>1 DEF RefersToIts
<1> HIDE DEF into, e
<1>6. DOMAIN into = 1..Len(into) /\ Len(into) \in Nat /\ \A k \in 1..Len(into) : into[k] \in Arrow
  BY <1>5
<1>7. \A k \in DOMAIN into : into[k].from \in Ids(g) /\ keys[into[k].from] \in Slugs
  BY <1>3, <1>5, <1>6
<1>8. ImportedNeeds(e) = arrows
  <2>1. DOMAIN needs = DOMAIN into
    OBVIOUS
  <2>2. \A k \in DOMAIN into : needs[k].from = keys[into[k].from] /\ needs[k].port = into[k].port
    OBVIOUS
  <2>3. ImportedNeeds(e) = [k \in DOMAIN needs |-> [from |-> needs[k].from, to |-> e.key, port |-> needs[k].port]]
    BY <1>4, Zenon DEF ImportedNeeds
  <2> HIDE DEF needs
  <2> QED BY <2>1, <2>2, <2>3
<1>9. e.key \in Slugs \ {Nowhere} /\ e.name \in [slug : Slugs, plain : BOOLEAN]
  <2>1. e.key \in Slugs \ {Nowhere}
    BY <1>2, <1>3, <1>4
  <2>2. b.name \in [slug : Slugs, plain : BOOLEAN]
    BY <1>2 DEF Block
  <2>3. Blank \in [slug : Slugs, plain : BOOLEAN]
    BY NowhereIs DEF Blank
  <2> QED BY <2>1, <2>2, <2>3, <1>4
<1>10. arrows \in Seq(Arrow) /\ \A k \in 1..Len(arrows) : arrows[k].to = e.key
  <2>1. \A k \in DOMAIN into : [from |-> keys[into[k].from], to |-> e.key, port |-> into[k].port] \in Arrow
    BY <1>6, <1>7, <1>9 DEF Arrow
  <2>2. arrows \in [1..Len(into) -> Arrow]
    BY <1>6, <2>1
  <2>3. \A k \in 1..Len(into) : arrows[k].to = e.key
    BY <1>6
  <2> HIDE DEF arrows
  <2>4. arrows \in Seq(Arrow) /\ Len(arrows) = Len(into)
    BY <1>6, <2>2
  <2> QED BY <2>3, <2>4
<1> HIDE DEF arrows, needs
<1>11. e.name = IF b.name = [slug |-> e.key, plain |-> TRUE] THEN Blank ELSE b.name
  BY <1>4
<1> QED BY <1>4, <1>7, <1>8, <1>9, <1>10, <1>11, Zenon DEF EntryFits, e, into, b, Id, arrows, needs

-----------------------------------------------------------------------------
(***************************************************************************)
(* Reading: the arrows into a block are its needs.                         *)
(***************************************************************************)
Among(E) == {a \in Arrow : a.from \in Keys(E) /\ a.to \in Keys(E)}

Reads(E) ==
  /\ Len(E) \in Nat /\ DOMAIN E = 1..Len(E)
  /\ DeclaredOnce(E)
  /\ \A k \in 1..Len(E) :
       /\ ImportedNeeds(E[k]) \in Seq(Among(E))
       /\ \A i \in 1..Len(ImportedNeeds(E[k])) : ImportedNeeds(E[k])[i].to = E[k].key

LEMMA AllNeedsSteps ==
  ASSUME NEW E, Reads(E)
  PROVE  /\ AllNeeds(E) \in [0..Len(E) -> Seq(Among(E))]
         /\ AllNeeds(E)[0] = <<>>
         /\ \A k \in 1..Len(E) : AllNeeds(E)[k] = AllNeeds(E)[k - 1] \o ImportedNeeds(E[k])
<1> DEFINE n == Len(E)
           Q == Seq(Among(E))
           e == <<>>
           C(q, k) == q \o ImportedNeeds(E[k])
           F == [x \in (1..n) \X Q |-> C(x[2], x[1])]
           u == AllNeeds(E)
<1>1. n \in Nat /\ \A k \in 1..n : ImportedNeeds(E[k]) \in Q
  BY DEF Reads
<1>2. e \in Q /\ \A q, r \in Q : q \o r \in Q
  OBVIOUS
<1> HIDE DEF Q, e, n
<1>3. \A k \in 1..n, q \in Q : C(q, k) \in Q
  BY <1>1, <1>2
<1> HIDE DEF C
<1>4. F \in [(1..n) \X Q -> Q]
  BY <1>3
<1>5. \A k \in 1..n, q \in Q : F[<<k, q>>] = C(q, k)
  OBVIOUS
<1> HIDE DEF F
<1>6. PICK w \in [0..n -> Q] : Counted(w, n, e, F)
  BY <1>1, <1>2, <1>4, CountsUp, Zenon
<1>7. \A k \in 0..n : w[k] = IF k = 0 THEN e ELSE C(w[k - 1], k)
  <2> TAKE k \in 0..n
  <2>1. CASE k = 0
    BY <1>6, <2>1 DEF Counted
  <2>2. CASE k # 0
    <3>1. k \in 1..n /\ w[k - 1] \in Q
      BY <1>1, <2>2
    <3>2. w[k] = F[<<k, w[k - 1]>>]
      BY <1>6, <3>1 DEF Counted
    <3> QED BY <1>5, <2>2, <3>1, <3>2
  <2> QED BY <2>1, <2>2
<1>8. w = [k \in 0..n |-> IF k = 0 THEN e ELSE C(w[k - 1], k)]
  <2>1. w = [k \in 0..n |-> w[k]]
    OBVIOUS
  <2> QED BY <1>7, <2>1, Zenon
<1>9. u = [k \in 0..n |-> IF k = 0 THEN e ELSE C(u[k - 1], k)]
  BY <1>8, Zenon DEF AllNeeds, e, n, C
<1> HIDE DEF u
<1>10. u[0] = e /\ \A k \in 1..n : u[k] = C(u[k - 1], k)
  <2>1. \A k \in 0..n : u[k] = IF k = 0 THEN e ELSE C(u[k - 1], k)
    BY <1>9, Zenon
  <2> QED BY <1>1, <2>1
<1> DEFINE T == {k \in 0..n : u[k] \in Q}
<1>11. T \in SUBSET (0..n) /\ 0 \in T /\ \A k \in 1..n : k - 1 \in T => k \in T
  <2>1. 0 \in T
    BY <1>1, <1>2, <1>10
  <2>2. ASSUME NEW k \in 1..n, k - 1 \in T PROVE k \in T
    <3>1. u[k - 1] \in Q
      BY <2>2
    <3> QED BY <3>1, <1>3, <1>10
  <2> QED BY <2>1, <2>2
<1>12. \A k \in 0..n : k \in T
  <2> HIDE DEF T
  <2> QED BY <1>1, <1>11, UpTo
<1>13. u \in [0..n -> Q]
  <2>1. \A k \in 0..n : u[k] \in Q
    BY <1>12
  <2> QED BY <1>9, <2>1
<1> QED BY <1>10, <1>13 DEF u, e, n, Q, C

LEMMA NeedsAreInto ==
  ASSUME NEW E, Reads(E), NEW k \in 1..Len(E)
  PROVE  Into(ParseWorkflowYAML(E), E[k].key) = ImportedNeeds(E[k])
<1> DEFINE n == Len(E)
           w == AllNeeds(E)
           I(t) == ImportedNeeds(E[t])
           key == E[k].key
           p == Len(w[k - 1])
           m == Len(I(k))
           Found(t) ==
             /\ \A l \in 1..Len(w[t]) : w[t][l].to = key <=> t >= k /\ l \in (p + 1)..(p + m)
             /\ t >= k => p + m <= Len(w[t]) /\ \A i \in 1..m : w[t][p + i] = I(k)[i]
           T == {t \in 0..n : Found(t)}
<1>1. /\ n \in Nat /\ k \in 1..n /\ w \in [0..n -> Seq(Among(E))] /\ w[0] = <<>>
      /\ \A t \in 1..n : w[t] = w[t - 1] \o I(t)
  BY AllNeedsSteps, Zenon DEF Reads
<1>2. n \in Nat /\ k \in 1..n /\ \A t \in 1..n : t \in Nat /\ t - 1 \in 0..n
  BY DEF Reads
<1>3. \A t \in 1..n : I(t) \in Seq(Among(E)) /\ \A i \in 1..Len(I(t)) : I(t)[i].to = E[t].key
  BY DEF Reads
<1>4. \A t \in 1..n : E[t].key = key => t = k
  BY DEF Reads, DeclaredOnce
<1>5. p \in Nat /\ m \in Nat
  <2> HIDE DEF w, I, n
  <2>1. k - 1 \in 0..n
    BY <1>2
  <2>2. w[k - 1] \in Seq(Among(E))
    BY <1>1, <2>1
  <2>3. I(k) \in Seq(Among(E))
    BY <1>1, <1>3
  <2> QED BY <2>2, <2>3
<1> HIDE DEF w, I, n, key
<1>6. 0 \in T
  <2>1. Len(w[0]) = 0
    BY <1>1
  <2>2. Found(0)
    BY <1>2, <2>1
  <2> QED BY <1>2, <2>2
<1>7. ASSUME NEW t \in 1..n, t - 1 \in T PROVE t \in T
  <2> DEFINE s == w[t - 1]
             d == I(t)
             c == w[t]
  <2>1. s \in Seq(Among(E)) /\ d \in Seq(Among(E)) /\ c = s \o d
    <3>1. t - 1 \in 0..n
      BY <1>2
    <3>2. w[t - 1] \in Seq(Among(E)) /\ w[t] = w[t - 1] \o I(t) /\ I(t) \in Seq(Among(E))
      BY <3>1, <1>1, <1>3
    <3> QED BY <3>2
  <2>2. /\ Len(s) \in Nat /\ Len(d) \in Nat /\ Len(c) = Len(s) + Len(d)
        /\ \A l \in 1..Len(s) : c[l] = s[l]
        /\ \A l \in 1..Len(d) : c[Len(s) + l] = d[l]
    BY <2>1
  <2>3. \A l \in 1..Len(d) : d[l].to = E[t].key
    BY <1>3
  <2>4. Found(t - 1)
    BY <1>7
  <2>5. t = k => s = w[k - 1] /\ p = Len(s) /\ d = I(k) /\ m = Len(d) /\ E[t].key = key
    BY DEF key
  <2>6. t # k => E[t].key # key
    BY <1>4
  <2>7. /\ \A l \in 1..Len(s) : s[l].to = key <=> t - 1 >= k /\ l \in (p + 1)..(p + m)
        /\ t - 1 >= k => p + m <= Len(s) /\ \A i \in 1..m : s[p + i] = I(k)[i]
    BY <2>4
  <2> HIDE DEF s, d, c, p, m
  <2>8. ASSUME NEW l \in 1..Len(c)
        PROVE  c[l].to = key <=> t >= k /\ l \in (p + 1)..(p + m)
    <3>1. CASE l \in 1..Len(s)
      <4>1. c[l].to = key <=> t - 1 >= k /\ l \in (p + 1)..(p + m)
        BY <3>1, <2>2, <2>7
      <4>2. CASE t = k
        BY <4>1, <4>2, <3>1, <2>5, <2>2, <1>2
      <4>3. CASE t # k
        <5>1. t >= k <=> t - 1 >= k
          BY <4>3, <1>2
        <5> QED BY <4>1, <5>1
      <4> QED BY <4>2, <4>3
    <3>2. CASE l \notin 1..Len(s)
      <4>1. l - Len(s) \in 1..Len(d) /\ l = Len(s) + (l - Len(s))
        BY <3>2, <2>2
      <4>2. c[l].to = E[t].key
        <5> DEFINE r == l - Len(s)
        <5>1. r \in 1..Len(d) /\ c[Len(s) + r] = c[l]
          BY <4>1
        <5> HIDE DEF r
        <5>2. c[Len(s) + r] = d[r] /\ d[r].to = E[t].key
          BY <5>1, <2>2, <2>3
        <5> QED BY <5>1, <5>2
      <4>3. CASE t = k
        BY <4>1, <4>2, <4>3, <2>2, <2>5, <1>2, <1>5
      <4>4. CASE t # k
        <5>1. t >= k => p + m <= Len(s)
          BY <4>4, <1>2, <2>7
        <5>2. l > Len(s)
          BY <4>1, <2>2
        <5> QED BY <4>2, <5>1, <5>2, <4>4, <2>2, <2>6, <1>5
      <4> QED BY <4>3, <4>4
    <3> QED BY <3>1, <3>2
  <2>9. ASSUME t >= k
        PROVE  p + m <= Len(c) /\ \A i \in 1..m : c[p + i] = I(k)[i]
    <3>1. CASE t = k
      <4>1. p = Len(s) /\ d = I(k) /\ m = Len(d)
        BY <3>1, <2>5
      <4>2. \A i \in 1..m : c[p + i] = d[i]
        BY <4>1, <2>2
      <4> QED BY <4>1, <4>2, <2>2
    <3>2. CASE t # k
      <4>1. p + m <= Len(s) /\ \A i \in 1..m : s[p + i] = I(k)[i]
        BY <2>7, <2>9, <3>2, <1>2
      <4>2. \A i \in 1..m : p + i \in 1..Len(s)
        BY <4>1, <1>5, <2>2
      <4>3. \A i \in 1..m : c[p + i] = s[p + i]
        BY <4>2, <2>2
      <4> QED BY <4>1, <4>3, <2>2, <1>5
    <3> QED BY <3>1, <3>2
  <2>10. Found(t)
    BY <2>8, <2>9 DEF c
  <2> HIDE DEF Found
  <2> QED BY <2>10, <1>2
<1>8. n \in T
  <2>1. T \in SUBSET (0..n) /\ n \in 0..n
    BY <1>1
  <2> HIDE DEF T
  <2> QED BY <2>1, <1>1, <1>6, <1>7, UpTo
<1> DEFINE A == w[n]
           a == Len(A)
           S == {l \in DOMAIN A : A[l].to = key}
<1>9. A \in Seq(Among(E)) /\ a \in Nat /\ DOMAIN A = 1..a
  <2>1. A \in Seq(Among(E))
    BY <1>1
  <2> HIDE DEF A
  <2> QED BY <2>1
<1>10. /\ p + m <= a /\ \A i \in 1..m : A[p + i] = I(k)[i]
      /\ \A l \in 1..a : A[l].to = key <=> l \in (p + 1)..(p + m)
  BY <1>1, <1>8
<1> HIDE DEF A, a, p, m
<1>11. S \cap (1..a) = (p + 1)..(p + m)
  BY <1>5, <1>9, <1>10
<1> DEFINE h == ParseWorkflowYAML(E)
           into == Ascending(S, a)
<1>12. h.arrows = A
  BY DEF ParseWorkflowYAML, A, n, w
<1>13. Into(h, key) = [i \in DOMAIN into |-> A[into[i]]]
  BY <1>12 DEF Into, a
<1> HIDE DEF S, h
<1>14. into = [i \in 1..m |-> p + i]
  BY <1>5, <1>9, <1>10, <1>11, AscendingInterval
<1> HIDE DEF into
<1>15. Into(h, key) = [i \in 1..m |-> A[p + i]]
  BY <1>13, <1>14
<1>16. [i \in 1..m |-> A[p + i]] = I(k)
  <2>1. I(k) \in Seq(Among(E)) /\ m = Len(I(k))
    BY <1>1, <1>3 DEF m
  <2>2. I(k) = [i \in 1..m |-> I(k)[i]]
    BY <2>1
  <2> QED BY <2>2, <1>10
<1> QED BY <1>15, <1>16 DEF h, key, I

-----------------------------------------------------------------------------
(***************************************************************************)
(* What a drawing is saved as: every block once, under its identifier.     *)
(***************************************************************************)
LEMMA FileIs ==
  ASSUME NEW g, Drawable(g), NamesFit(g)
  PROVE  LET E     == BuildWorkflowYAML(g)
             order == FileOrder(g)
         IN /\ Len(E) = Len(g.blocks) /\ DOMAIN E = Blocks(g) /\ Len(E) \in Nat
            /\ \A k \in Blocks(g) :
                 order[k] \in Blocks(g) /\ E[k] = Entry(g, Identifiers(g), g.blocks[order[k]])
            /\ \A i \in Blocks(g) : \E k \in Blocks(g) : order[k] = i
            /\ Keys(E) = {Identifiers(g)[id] : id \in Ids(g)}
            /\ Reads(E)
            /\ CanParse(E)
<1> DEFINE keys  == Identifiers(g)
           order == FileOrder(g)
           E     == BuildWorkflowYAML(g)
           B     == Blocks(g)
<1>1. g.blocks \in Seq(Block) /\ IdsAreOwn(g)
  BY DEF Drawable
<1>2. KeysFit(g, keys)
  BY IdentifiersFit
<1>3. B = 1..Len(g.blocks) /\ Len(g.blocks) \in Nat /\ DOMAIN g.blocks = B
  BY <1>1, BlocksAre DEF Blocks
<1>4. /\ DOMAIN order = B
      /\ \A k \in B : order[k] \in B
      /\ \A i \in B : \E k \in B : order[k] = i
      /\ \A k, l \in B : order[k] = order[l] => k = l
  <2>1. Lists(order, B) /\ Len(order) = Len(g.blocks) /\ order \in Seq(B)
    BY FileHasEveryBlock
  <2> HIDE DEF order, B
  <2>2. DOMAIN order = B /\ 1..Len(order) = B
    BY <2>1, <1>3
  <2>3. \A k \in B : order[k] \in B
    BY <2>1, <2>2
  <2>4. /\ \A i \in B : \E k \in B : order[k] = i
        /\ \A k, l \in B : order[k] = order[l] => k = l
    BY <2>1, <2>2 DEF Lists
  <2> QED BY <2>2, <2>3, <2>4
<1>5. E = [k \in DOMAIN order |-> Entry(g, keys, g.blocks[order[k]])]
  BY DEF BuildWorkflowYAML
<1> HIDE DEF E, keys, order, B
<1>6. DOMAIN E = B /\ \A k \in B : E[k] = Entry(g, keys, g.blocks[order[k]])
  BY <1>4, <1>5
<1>7. Len(E) = Len(g.blocks)
  <2>1. E = [k \in 1..Len(g.blocks) |-> E[k]]
    BY <1>3, <1>4, <1>5
  <2> QED BY <2>1, <1>3
<1>8. ASSUME NEW k \in B
      PROVE  /\ E[k].key = keys[Id(g, order[k])]
             /\ E[k].key \in Slugs
             /\ ImportedNeeds(E[k]) \in Seq(Arrow)
             /\ \A i \in 1..Len(ImportedNeeds(E[k])) : ImportedNeeds(E[k])[i].to = E[k].key
             /\ \A i \in DOMAIN E[k].needs : \E id \in Ids(g) : E[k].needs[i].from = keys[id]
  <2> DEFINE j == order[k]
             e == E[k]
             into == Into(g, Id(g, j))
  <2>1. j \in Blocks(g) /\ e = Entry(g, keys, g.blocks[j])
    BY <1>4, <1>6 DEF B
  <2> HIDE DEF j
  <2>2. /\ e.key = keys[Id(g, j)] /\ e.key \in Slugs
        /\ e.needs = [i \in DOMAIN into |-> [from |-> keys[into[i].from], port |-> into[i].port]]
        /\ \A i \in DOMAIN into : into[i].from \in Ids(g)
        /\ ImportedNeeds(e) \in Seq(Arrow)
        /\ \A i \in 1..Len(ImportedNeeds(e)) : ImportedNeeds(e)[i].to = e.key
    <3> DEFINE f == Entry(g, keys, g.blocks[j])
    <3>1. EntryFits(g, keys, j)
      BY <1>2, <2>1, EntryIs, Zenon
    <3>2. /\ f.key = keys[Id(g, j)] /\ f.key \in Slugs \ {Nowhere}
          /\ f.needs = [i \in DOMAIN into |-> [from |-> keys[into[i].from], port |-> into[i].port]]
          /\ \A i \in DOMAIN into : into[i].from \in Ids(g) /\ keys[into[i].from] \in Slugs
          /\ ImportedNeeds(f) \in Seq(Arrow)
          /\ \A i \in 1..Len(ImportedNeeds(f)) : ImportedNeeds(f)[i].to = f.key
      BY <3>1, Zenon DEF EntryFits
    <3> HIDE DEF f, into, e
    <3>3. e = f
      BY <2>1 DEF f
    <3> QED BY <3>2, <3>3
  <2> HIDE DEF e, into
  <2>3. \A i \in DOMAIN e.needs : \E id \in Ids(g) : e.needs[i].from = keys[id]
    BY <2>2
  <2> QED BY <2>2, <2>3 DEF e, j
<1>9. keys \in [Ids(g) -> Slugs \ {Nowhere}] /\ \A i, j \in B : keys[Id(g, i)] = keys[Id(g, j)] => i = j
  BY <1>2 DEF KeysFit, B
<1>10. Keys(E) = {keys[id] : id \in Ids(g)}
  <2>1. \A x \in Keys(E) : \E id \in Ids(g) : x = keys[id]
    <3> TAKE x \in Keys(E)
    <3>1. PICK k \in B : x = E[k].key
      BY <1>6 DEF Keys
    <3>2. Id(g, order[k]) \in Ids(g)
      BY <1>1, <1>4, BlocksAre DEF B
    <3> QED BY <3>1, <3>2, <1>8
  <2>2. \A id \in Ids(g) : keys[id] \in Keys(E)
    <3> TAKE id \in Ids(g)
    <3>1. PICK i \in B : id = Id(g, i)
      BY <1>1, BlocksAre DEF B
    <3>2. PICK k \in B : order[k] = i
      BY <1>4
    <3>3. E[k].key = keys[id]
      BY <1>8, <3>1, <3>2
    <3> QED BY <3>3, <1>6 DEF Keys
  <2> QED BY <2>1, <2>2
<1>11. DeclaredOnce(E)
  <2>1. \A k, l \in B : E[k].key = E[l].key => k = l
    BY <1>4, <1>8, <1>9
  <2> QED BY <2>1, <1>6 DEF DeclaredOnce
<1>12. NeedsAreKnown(E)
  <2>1. \A k \in B : \A i \in DOMAIN E[k].needs : E[k].needs[i].from \in Keys(E)
    BY <1>8, <1>10
  <2> QED BY <2>1, <1>6 DEF NeedsAreKnown
<1>13. ASSUME NEW k \in B PROVE ImportedNeeds(E[k]) \in Seq(Among(E))
  <2> DEFINE a == ImportedNeeds(E[k])
             m == Len(a)
  <2>1. a \in Seq(Arrow) /\ \A i \in 1..m : a[i].to = E[k].key
    BY <1>8
  <2>2. a = [i \in DOMAIN E[k].needs |->
               [from |-> E[k].needs[i].from, to |-> E[k].key, port |-> E[k].needs[i].port]]
    BY DEF ImportedNeeds
  <2> HIDE DEF a
  <2>3. m \in Nat /\ DOMAIN a = 1..m /\ \A i \in 1..m : a[i] \in Arrow
    BY <2>1
  <2> HIDE DEF m
  <2>4. \A i \in 1..m : a[i].from = E[k].needs[i].from /\ i \in DOMAIN E[k].needs
    BY <2>2, <2>3
  <2>5. E[k].key \in Keys(E) /\ \A i \in DOMAIN E[k].needs : E[k].needs[i].from \in Keys(E)
    BY <1>6, <1>12 DEF Keys, NeedsAreKnown
  <2>6. \A i \in 1..m : a[i] \in Among(E)
    BY <2>1, <2>3, <2>4, <2>5 DEF Among, m
  <2>7. a = [i \in 1..m |-> a[i]]
    BY <2>2, <2>3
  <2>8. a \in Seq(Among(E))
    BY <2>3, <2>6, <2>7
  <2> QED BY <2>8 DEF a
<1>14. Reads(E)
  BY <1>3, <1>6, <1>7, <1>8, <1>11, <1>13 DEF Reads
<1>15. Len(E) \in Nat
  BY <1>3, <1>7
<1> QED BY <1>4, <1>6, <1>7, <1>10, <1>11, <1>12, <1>14, <1>15 DEF CanParse, E, keys, order, B

-----------------------------------------------------------------------------
(***************************************************************************)
(* What is read back: the blocks in the file's order, under their          *)
(* identifiers, and named by them where they had no name.                  *)
(***************************************************************************)
ReadBack(g) == ParseWorkflowYAML(BuildWorkflowYAML(g))

NameRead(g, i) ==
  IF g.blocks[i].name = Blank THEN [slug |-> Identifiers(g)[Id(g, i)], plain |-> TRUE]
  ELSE g.blocks[i].name

BlockRead(g, h, k, i) ==
  /\ i \in Blocks(g)
  /\ Id(h, k) = Identifiers(g)[Id(g, i)]
  /\ h.blocks[k].parent = Moved(Identifiers(g), g.blocks[i].parent)
  /\ h.blocks[k].until = Moved(Identifiers(g), g.blocks[i].until)
  /\ h.blocks[k].name = NameRead(g, i)

Read(g, h) ==
  /\ h.blocks \in Seq(Block) /\ h.arrows \in Seq(Arrow)
  /\ Blocks(h) = Blocks(g)
  /\ \A k \in Blocks(g) : BlockRead(g, h, k, FileOrder(g)[k])
  /\ Ids(h) = {Identifiers(g)[id] : id \in Ids(g)}
  /\ \A k \in 1..Len(h.arrows) : {h.arrows[k].from, h.arrows[k].to} \subseteq Ids(h)

LEMMA MovedIs ==
  ASSUME NEW g, Drawable(g), NEW keys, KeysFit(g, keys), NEW id \in Ids(g) \cup {Nowhere}
  PROVE  /\ Moved(keys, id) \in Slugs
         /\ Moved(keys, id) = Nowhere <=> id = Nowhere
         /\ id # Nowhere => id \in Ids(g) /\ Moved(keys, id) = keys[id]
<1>1. g.blocks \in Seq(Block) /\ keys \in [Ids(g) -> Slugs \ {Nowhere}]
  BY DEF Drawable, KeysFit
<1>2. Nowhere \in Slugs
  BY NowhereIs
<1>3. CASE id = Nowhere
  BY <1>2, <1>3 DEF Moved
<1>4. CASE id # Nowhere
  BY <1>1, <1>4 DEF Moved
<1> QED BY <1>3, <1>4

LEMMA ReadIs ==
  ASSUME NEW g, Drawable(g), NamesFit(g)
  PROVE  Read(g, ReadBack(g))
<1> DEFINE keys  == Identifiers(g)
           order == FileOrder(g)
           E     == BuildWorkflowYAML(g)
           h     == ReadBack(g)
           B     == Blocks(g)
<1>1. g.blocks \in Seq(Block) /\ RefersToIts(g) /\ KeysFit(g, keys)
  BY IdentifiersFit DEF Drawable
<1>2. /\ Len(E) = Len(g.blocks) /\ DOMAIN E = B /\ Len(E) \in Nat
      /\ \A k \in B : order[k] \in B /\ E[k] = Entry(g, keys, g.blocks[order[k]])
      /\ Keys(E) = {keys[id] : id \in Ids(g)}
      /\ Reads(E)
  BY FileIs, Zenon
<1>3. B = 1..Len(E)
  BY <1>2 DEF Blocks
<1>4. h.blocks = [k \in DOMAIN E |-> ImportedNode(E[k])] /\ h.arrows = AllNeeds(E)[Len(E)]
  BY DEF ReadBack, ParseWorkflowYAML
<1> HIDE DEF h
<1>5. ASSUME NEW k \in B
      PROVE  /\ ImportedNode(E[k]) \in Block /\ ImportedNode(E[k]).id = E[k].key
             /\ BlockRead(g, h, k, order[k])
  <2> DEFINE i == order[k]
             e == E[k]
             b == g.blocks[i]
  <2>1. i \in B /\ e = Entry(g, keys, b)
    BY <1>2
  <2>2. EntryFits(g, keys, i)
    BY <2>1, <1>1, EntryIs
  <2>3. b \in Block /\ b.parent \in Ids(g) \cup {Nowhere} /\ b.until \in Ids(g) \cup {Nowhere}
    BY <2>1, <1>1, BlocksAre DEF RefersToIts
  <2>4. h.blocks[k] = ImportedNode(e)
    BY <1>2, <1>4
  <2> HIDE DEF e, b, i, E, keys, B
  <2>5. /\ e.key = keys[Id(g, i)] /\ e.key \in Slugs \ {Nowhere}
        /\ e.name = IF b.name = [slug |-> e.key, plain |-> TRUE] THEN Blank ELSE b.name
        /\ e.parent = Moved(keys, b.parent) /\ e.until = Moved(keys, b.until)
    BY <2>1, <2>2, Zenon DEF EntryFits, b
  <2>6. e.parent \in Slugs /\ e.until \in Slugs
    BY <2>3, <2>5, <1>1, MovedIs
  <2>7. b.name \in [slug : Slugs, plain : BOOLEAN]
    BY <2>3 DEF Block
  <2>8. ImportedNode(e) = [id     |-> e.key,
                           name   |-> IF b.name = Blank THEN [slug |-> e.key, plain |-> TRUE] ELSE b.name,
                           parent |-> e.parent,
                           until  |-> e.until]
    <3>1. [slug |-> e.key, plain |-> TRUE] # Blank
      BY <2>5 DEF Blank
    <3>2. (IF e.name = Blank THEN [slug |-> e.key, plain |-> TRUE] ELSE e.name)
            = IF b.name = Blank THEN [slug |-> e.key, plain |-> TRUE] ELSE b.name
      BY <2>5, <3>1
    <3> QED BY <3>2, Zenon DEF ImportedNode
  <2>9. ImportedNode(e) \in Block /\ ImportedNode(e).id = e.key
    BY <2>5, <2>6, <2>7, <2>8 DEF Block
  <2>10. BlockRead(g, h, k, i)
    <3>1. h.blocks[k].id = keys[Id(g, i)] /\ h.blocks[k].parent = Moved(keys, b.parent)
          /\ h.blocks[k].until = Moved(keys, b.until)
      BY <2>4, <2>5, <2>8
    <3>2. h.blocks[k].name = IF b.name = Blank THEN [slug |-> keys[Id(g, i)], plain |-> TRUE] ELSE b.name
      BY <2>4, <2>5, <2>8
    <3> QED BY <2>1, <3>1, <3>2 DEF BlockRead, Id, NameRead, b, keys, B
  <2> QED BY <2>9, <2>10 DEF e, i
<1> HIDE DEF E, keys, order, B
<1>6. /\ h.blocks \in Seq(Block) /\ Len(h.blocks) = Len(E) /\ Blocks(h) = B
      /\ Ids(h) = Keys(E)
  <2>1. h.blocks \in [1..Len(E) -> Block] /\ \A k \in B : h.blocks[k].id = E[k].key
    BY <1>2, <1>3, <1>4, <1>5
  <2>2. h.blocks \in Seq(Block) /\ Len(h.blocks) = Len(E) /\ DOMAIN h.blocks = B
    BY <2>1, <1>2, <1>3
  <2>3. Ids(h) = {h.blocks[k].id : k \in B}
    BY <2>2 DEF Ids
  <2>4. Keys(E) = {E[k].key : k \in B}
    BY <1>2 DEF Keys
  <2> QED BY <1>3, <2>1, <2>2, <2>3, <2>4 DEF Blocks
<1>7. h.arrows \in Seq(Among(E))
  <2>1. AllNeeds(E) \in [0..Len(E) -> Seq(Among(E))]
    BY <1>2, AllNeedsSteps
  <2>2. Len(E) \in 0..Len(E)
    BY <1>2
  <2> QED BY <2>1, <2>2, <1>4
<1>8. h.arrows \in Seq(Arrow) /\ \A k \in 1..Len(h.arrows) : {h.arrows[k].from, h.arrows[k].to} \subseteq Ids(h)
  <2> DEFINE a == h.arrows
             A == Among(E)
  <2>1. \A x \in A : x \in Arrow /\ {x.from, x.to} \subseteq Ids(h)
    BY <1>6 DEF Among
  <2>2. a \in Seq(A)
    BY <1>7
  <2> HIDE DEF a, A
  <2>3. Len(a) \in Nat /\ a \in [1..Len(a) -> A]
    BY <2>2
  <2>4. \A k \in 1..Len(a) : a[k] \in A
    BY <2>3
  <2>5. a \in [1..Len(a) -> Arrow]
    BY <2>1, <2>3, <2>4
  <2>6. a \in Seq(Arrow)
    BY <2>3, <2>5
  <2> QED BY <2>1, <2>4, <2>6 DEF a
<1> QED BY <1>2, <1>5, <1>6, <1>8 DEF Read, h, keys, order, B

\* The arrows into a block are read as they were, in their order.
LEMMA ReadInto ==
  ASSUME NEW g, Drawable(g), NamesFit(g), NEW id \in Ids(g)
  PROVE  Into(ReadBack(g), Identifiers(g)[id]) =
           [k \in DOMAIN Into(g, id) |->
              [from |-> Identifiers(g)[Into(g, id)[k].from], to |-> Identifiers(g)[id], port |-> Into(g, id)[k].port]]
<1> DEFINE keys  == Identifiers(g)
           order == FileOrder(g)
           E     == BuildWorkflowYAML(g)
           h     == ReadBack(g)
           B     == Blocks(g)
<1>1. g.blocks \in Seq(Block) /\ KeysFit(g, keys)
  BY IdentifiersFit DEF Drawable
<1>2. /\ Len(E) = Len(g.blocks) /\ Len(E) \in Nat
      /\ \A k \in B : order[k] \in B /\ E[k] = Entry(g, keys, g.blocks[order[k]])
      /\ \A i \in B : \E k \in B : order[k] = i
      /\ Reads(E)
  BY FileIs, Zenon
<1>3. \A x \in Ids(g) : \E i \in B : x = Id(g, i)
  BY <1>1, BlocksAre
<1>4. PICK i \in B : id = Id(g, i)
  BY <1>3
<1>5. PICK k \in B : order[k] = i
  BY <1>2, <1>4
<1> DEFINE e == Entry(g, keys, g.blocks[i])
           into == Into(g, Id(g, i))
<1>6. E[k] = e /\ k \in 1..Len(E)
  BY <1>2, <1>5 DEF Blocks
<1>7. Into(h, E[k].key) = ImportedNeeds(E[k])
  BY <1>2, <1>6, NeedsAreInto DEF ReadBack
<1>8. EntryFits(g, keys, i)
  BY <1>1, <1>4, EntryIs
<1>9. /\ e.key = keys[id]
      /\ ImportedNeeds(e) = [l \in DOMAIN into |->
                               [from |-> keys[into[l].from], to |-> e.key, port |-> into[l].port]]
  BY <1>4, <1>8, Zenon DEF EntryFits
<1>10. Into(h, keys[id]) = [l \in DOMAIN Into(g, id) |->
                              [from |-> keys[Into(g, id)[l].from], to |-> keys[id], port |-> Into(g, id)[l].port]]
  <2> HIDE DEF h, keys, E
  <2> QED BY <1>4, <1>6, <1>7, <1>9
<1> QED BY <1>10 DEF h, keys

\* What is read is the same drawing.
LEMMA ReadIsSame ==
  ASSUME NEW g, Drawable(g), NamesFit(g)
  PROVE  SameDrawing(g, ReadBack(g))
<1> DEFINE keys  == Identifiers(g)
           order == FileOrder(g)
           E     == BuildWorkflowYAML(g)
           h     == ReadBack(g)
           B     == Blocks(g)
<1>1. g.blocks \in Seq(Block) /\ KeysFit(g, keys) /\ Read(g, h)
  BY IdentifiersFit, ReadIs DEF Drawable
<1>2. /\ Len(E) = Len(g.blocks) /\ Len(E) \in Nat
      /\ \A k \in B : order[k] \in B /\ E[k] = Entry(g, keys, g.blocks[order[k]])
      /\ \A i \in B : \E k \in B : order[k] = i
      /\ Reads(E)
  BY FileIs, Zenon
<1>3. DOMAIN g.blocks = B /\ \A id \in Ids(g) : \E i \in B : id = Id(g, i)
  BY <1>1, BlocksAre
<1>4. /\ h.blocks \in Seq(Block) /\ Blocks(h) = B
      /\ \A k \in B : BlockRead(g, h, k, order[k])
      /\ Ids(h) = {keys[id] : id \in Ids(g)}
  BY <1>1 DEF Read
<1>5. DOMAIN h.blocks = B
  BY <1>4, BlocksAre
<1>6. keys \in Bijection(Ids(g), Ids(h))
  <2>1. keys \in [Ids(g) -> Slugs \ {Nowhere}] /\ \A i, j \in B : keys[Id(g, i)] = keys[Id(g, j)] => i = j
    BY <1>1 DEF KeysFit
  <2> HIDE DEF keys, h, B
  <2>2. keys \in [Ids(g) -> Ids(h)] /\ \A y \in Ids(h) : \E id \in Ids(g) : keys[id] = y
    BY <2>1, <1>4
  <2>3. \A a, b \in Ids(g) : keys[a] = keys[b] => a = b
    BY <2>1, <1>3
  <2> QED BY <2>2, <2>3 DEF Bijection, Injection, Surjection, IsInjective
<1>7. \A i \in DOMAIN g.blocks : \E j \in DOMAIN h.blocks :
        /\ h.blocks[j].id = keys[g.blocks[i].id]
        /\ g.blocks[i].name # Blank => h.blocks[j].name = g.blocks[i].name
        /\ h.blocks[j].parent = Moved(keys, g.blocks[i].parent)
        /\ h.blocks[j].until = Moved(keys, g.blocks[i].until)
  <2> TAKE i \in DOMAIN g.blocks
  <2>1. PICK k \in B : order[k] = i
    BY <1>2, <1>3
  <2>2. BlockRead(g, h, k, i)
    BY <1>4, <2>1
  <2> HIDE DEF keys, h, B
  <2> QED BY <1>5, <2>2 DEF BlockRead, Id, NameRead, keys
<1>8. \A id \in Ids(g) :
        Into(h, keys[id]) = [k \in DOMAIN Into(g, id) |->
               [from |-> keys[Into(g, id)[k].from], to |-> keys[id], port |-> Into(g, id)[k].port]]
  BY ReadInto, Zenon
<1>9. SameUnder(keys, g, h)
  <2> HIDE DEF keys, h
  <2> QED BY <1>7, <1>8, Zenon DEF SameUnder
<1> HIDE DEF keys, h
<1> QED BY <1>6, <1>9 DEF SameDrawing, h

LEMMA ReadIsDrawable ==
  ASSUME NEW g, Drawable(g), NamesFit(g)
  PROVE  Drawable(ReadBack(g))
<1> DEFINE keys  == Identifiers(g)
           order == FileOrder(g)
           h     == ReadBack(g)
           B     == Blocks(g)
<1>1. g.blocks \in Seq(Block) /\ RefersToIts(g) /\ KeysFit(g, keys) /\ Read(g, h)
  BY IdentifiersFit, ReadIs DEF Drawable
<1>2. \A i \in B : Id(g, i) \in Ids(g)
  BY <1>1, BlocksAre
<1>3. /\ h.blocks \in Seq(Block) /\ h.arrows \in Seq(Arrow) /\ Blocks(h) = B
      /\ Ids(h) = {keys[id] : id \in Ids(g)}
      /\ \A k \in 1..Len(h.arrows) : {h.arrows[k].from, h.arrows[k].to} \subseteq Ids(h)
  BY <1>1 DEF Read
<1>4. ASSUME NEW k \in B
      PROVE  /\ order[k] \in B /\ Id(h, k) = keys[Id(g, order[k])]
             /\ h.blocks[k].parent = Moved(keys, g.blocks[order[k]].parent)
             /\ h.blocks[k].until = Moved(keys, g.blocks[order[k]].until)
  BY <1>1 DEF Read, BlockRead
<1>5. \A k, l \in B : order[k] = order[l] => k = l
  <2>1. Lists(order, B) /\ Len(order) = Len(g.blocks)
    BY FileHasEveryBlock
  <2> QED BY <2>1 DEF Lists, Blocks
<1>6. keys \in [Ids(g) -> Slugs \ {Nowhere}] /\ \A i, j \in B : keys[Id(g, i)] = keys[Id(g, j)] => i = j
  BY <1>1 DEF KeysFit
<1>7. \A i \in B : /\ g.blocks[i].parent \in Ids(g) \cup {Nowhere}
                   /\ g.blocks[i].until \in Ids(g) \cup {Nowhere}
  BY <1>1 DEF RefersToIts
<1>8. \A id \in Ids(g) \cup {Nowhere} : /\ Moved(keys, id) \in Slugs
                                        /\ Moved(keys, id) = Nowhere <=> id = Nowhere
                                        /\ id # Nowhere => id \in Ids(g) /\ Moved(keys, id) = keys[id]
  BY <1>1, MovedIs
<1> HIDE DEF keys, h, B, order
<1>9. IdsAreOwn(h)
  BY <1>3, <1>4, <1>5, <1>6 DEF IdsAreOwn
<1>10. RefersToIts(h)
  <2>1. \A id \in Ids(g) \cup {Nowhere} : Moved(keys, id) \in Ids(h) \cup {Nowhere}
    BY <1>3, <1>8
  <2>2. \A k \in B : {h.blocks[k].parent, h.blocks[k].until} \subseteq Ids(h) \cup {Nowhere}
    BY <2>1, <1>4, <1>7
  <2> QED BY <2>2, <1>3 DEF RefersToIts
<1>11. NoneIsInItself(h)
  <2>1. PICK depth \in [Ids(g) -> Nat] :
          \A i \in B : g.blocks[i].parent # Nowhere => depth[g.blocks[i].parent] < depth[Id(g, i)]
    BY DEF Drawable, NoneIsInItself, B
  <2> DEFINE Was(x) == CHOOSE id \in Ids(g) : keys[id] = x
             deep == [x \in Ids(h) |-> depth[Was(x)]]
  <2>2. \A id \in Ids(g) : Was(keys[id]) = id /\ keys[id] \in Ids(h)
    <3>1. \A a, b \in Ids(g) : keys[a] = keys[b] => a = b
      <4>1. \A id \in Ids(g) : \E i \in B : id = Id(g, i)
        BY <1>1, BlocksAre DEF B
      <4> QED BY <4>1, <1>6
    <3> QED BY <3>1, <1>3
  <2>3. \A x \in Ids(h) : Was(x) \in Ids(g)
    BY <2>2, <1>3
  <2> HIDE DEF Was
  <2>4. deep \in [Ids(h) -> Nat] /\ \A id \in Ids(g) : deep[keys[id]] = depth[id]
    BY <2>1, <2>2, <2>3
  <2> HIDE DEF deep
  <2>5. \A k \in Blocks(h) : h.blocks[k].parent # Nowhere => deep[h.blocks[k].parent] < deep[Id(h, k)]
    <3> SUFFICES ASSUME NEW k \in B, h.blocks[k].parent # Nowhere
                 PROVE  deep[h.blocks[k].parent] < deep[Id(h, k)]
      BY <1>3
    <3> DEFINE i == order[k]
               p == g.blocks[i].parent
    <3>1. i \in B /\ p \in Ids(g) /\ p # Nowhere /\ h.blocks[k].parent = keys[p]
      BY <1>4, <1>7, <1>8
    <3>2. Id(h, k) = keys[Id(g, i)] /\ Id(g, i) \in Ids(g)
      BY <1>2, <1>4
    <3>3. depth[p] < depth[Id(g, i)]
      BY <3>1, <2>1
    <3> HIDE DEF i, p
    <3> QED BY <3>1, <3>2, <3>3, <2>4
  <2> QED BY <2>4, <2>5 DEF NoneIsInItself
<1> QED BY <1>3, <1>9, <1>10, <1>11 DEF Drawable, h

\* A block without a name is named by its identifier, and its name does not
\* come in the way of another's.
LEMMA ReadNamesFit ==
  ASSUME NEW g, Drawable(g), NamesFit(g)
  PROVE  NamesFit(ReadBack(g))
<1> DEFINE keys  == Identifiers(g)
           order == FileOrder(g)
           h     == ReadBack(g)
           B     == Blocks(g)
           key(i)  == keys[Id(g, i)]
           S(i)    == SlugAt(g, i)
           Bare(i) == g.blocks[i].name = Blank
           R(i)    == IF Bare(i) THEN key(i) ELSE S(i)
<1>1. g.blocks \in Seq(Block) /\ KeysFit(g, keys) /\ Read(g, h)
  BY IdentifiersFit, ReadIs DEF Drawable
<1>2. /\ \A i \in B : Id(g, i) \in Ids(g) /\ S(i) \in Slugs \ {Nowhere}
      /\ \A i \in B : Bare(i) => S(i) = Node
      /\ \A i \in B : ~Bare(i) => S(i) = g.blocks[i].name.slug
  BY <1>1, BlocksAre, SlugAtIs DEF SlugAt, SlugOf, Node
<1>3. /\ \A i \in B : key(i) \in Slugs \ {Nowhere}
      /\ \A i, j \in B : key(i) = key(j) => i = j
      /\ \A i \in B : \/ key(i) = S(i)
                      \/ \E m \in Nat, j \in B : j # i /\ S(j) = S(i) /\ key(i) = Numbered(S(i), m)
  BY <1>1, <1>2 DEF KeysFit
<1>4. /\ \A i \in B : ~Bare(i) => g.blocks[i].name.slug # Nowhere
      /\ \A i, j, k \in B : \A m \in Nat : S(i) = Numbered(S(j), m) /\ S(k) = S(j) => k = j
      /\ \A i, j \in B : Bare(i) /\ ~Bare(j) => S(j) # Node
  BY <1>2 DEF NamesFit
<1>5. \A k, l \in B : order[k] = order[l] => k = l
  <2>1. Lists(order, B) /\ Len(order) = Len(g.blocks)
    BY FileHasEveryBlock
  <2> QED BY <2>1 DEF Lists, Blocks
<1>6. Node \in Slugs /\ \A s \in Slugs, m \in Nat : Node # Numbered(s, m)
  <2>1. ASSUME NEW s \in Slugs, NEW m \in Nat PROVE Node # Numbered(s, m)
    <3>1. s.numbers \in Seq(Nat)
      BY DEF Slugs
    <3> DEFINE a == s.numbers
    <3>2. a \in Seq(Nat)
      BY <3>1
    <3> HIDE DEF a
    <3>3. Append(a, m) # <<>>
      BY <3>2
    <3> QED BY <3>3 DEF Node, Numbered, Slug, a
  <2>2. Node \in Slugs
    <3> DEFINE none == <<>>
    <3>1. none \in Seq(Nat)
      OBVIOUS
    <3>2. Node = [words |-> "node", numbers |-> none]
      BY DEF Node, Slug
    <3> HIDE DEF none
    <3> QED BY <3>1, <3>2, WordsAssumption DEF Slugs
  <2> QED BY <2>1, <2>2
<1> HIDE DEF S, Bare, key
\* Nobody who is named has the identifier of one who is not.
<1>7. ASSUME NEW i \in B, Bare(i), NEW j \in B, ~Bare(j), key(i) = S(j) PROVE FALSE
  <2>1. S(i) = Node /\ S(j) # Node
    BY <1>2, <1>4, <1>7
  <2>2. PICK m \in Nat, l \in B : l # i /\ S(l) = S(i) /\ key(i) = Numbered(S(i), m)
    BY <1>3, <1>7, <2>1
  <2> QED BY <2>2, <1>4, <1>7
<1>8. ASSUME NEW i \in B, NEW j \in B, R(i) = R(j), i # j PROVE ~Bare(i) /\ ~Bare(j) /\ S(i) = S(j)
  BY <1>3, <1>7, <1>8
<1>9. ASSUME NEW i \in B, NEW j \in B, NEW k \in B, NEW m \in Nat,
             R(i) = Numbered(R(j), m), R(k) = R(j), k # j
      PROVE  FALSE
  <2>1. ~Bare(k) /\ ~Bare(j) /\ S(k) = S(j) /\ R(j) = S(j)
    BY <1>8, <1>9
  <2>2. CASE ~Bare(i)
    <3>1. S(i) = Numbered(S(j), m)
      BY <2>1, <2>2, <1>9
    <3> QED BY <2>1, <3>1, <1>4, <1>9
  <2>3. CASE Bare(i)
    <3>1. key(i) = Numbered(S(j), m) /\ S(i) = Node
      BY <2>1, <2>3, <1>2, <1>9
    <3>2. PICK n \in Nat, l \in B : l # i /\ S(l) = S(i) /\ key(i) = Numbered(S(i), n)
      <4>1. key(i) # S(i)
        BY <3>1, <1>2, <1>6
      <4> QED BY <4>1, <1>3
    <3>3. S(j) = Node
      <4>1. S(i) \in Slugs /\ S(j) \in Slugs /\ Numbered(S(i), n) = Numbered(S(j), m)
        BY <3>1, <3>2, <1>2
      <4>2. \A s, t \in Slugs : Numbered(s, n) = Numbered(t, m) => s = t
        BY NumberedIs
      <4>3. S(i) = S(j)
        BY <4>1, <4>2
      <4> QED BY <3>1, <4>3
    <3> QED BY <3>3, <2>1, <2>3, <1>4
  <2> QED BY <2>2, <2>3
<1>10. ASSUME NEW k \in B
       PROVE  /\ order[k] \in B /\ h.blocks[k].name # Blank
              /\ h.blocks[k].name.slug = R(order[k]) /\ SlugAt(h, k) = R(order[k])
  <2> DEFINE i == order[k]
  <2>1. i \in B /\ h.blocks[k].name = NameRead(g, i)
    BY <1>1 DEF Read, BlockRead
  <2> HIDE DEF i
  <2>2. CASE Bare(i)
    <3>1. h.blocks[k].name = [slug |-> key(i), plain |-> TRUE]
      BY <2>1, <2>2 DEF NameRead, Bare, key
    <3>2. key(i) # Nowhere
      BY <2>1, <1>3
    <3>3. h.blocks[k].name # Blank /\ h.blocks[k].name.slug = key(i)
      BY <3>1, <3>2 DEF Blank
    <3> QED BY <2>1, <2>2, <3>3 DEF SlugAt, SlugOf, i
  <2>3. CASE ~Bare(i)
    <3>1. h.blocks[k].name = g.blocks[i].name /\ h.blocks[k].name # Blank
      BY <2>1, <2>3 DEF NameRead, Bare
    <3>2. S(i) = g.blocks[i].name.slug
      BY <1>2, <2>1, <2>3
    <3> QED BY <2>1, <2>3, <3>1, <3>2 DEF SlugAt, SlugOf, i
  <2> QED BY <2>2, <2>3
<1>11. Blocks(h) = B
  BY <1>1 DEF Read
<1> HIDE DEF h, order, B, keys
<1>12. \A k \in Blocks(h) : h.blocks[k].name # Blank => h.blocks[k].name.slug # Nowhere
  <2> SUFFICES ASSUME NEW k \in B PROVE h.blocks[k].name.slug # Nowhere
    BY <1>11
  <2>1. order[k] \in B /\ h.blocks[k].name.slug = R(order[k])
    BY <1>10
  <2>2. R(order[k]) # Nowhere
    BY <2>1, <1>2, <1>3
  <2> QED BY <2>1, <2>2
<1> HIDE DEF R
<1>13. ASSUME NEW i \in Blocks(h), NEW j \in Blocks(h), NEW k \in Blocks(h), NEW m \in Nat,
              SlugAt(h, i) = Numbered(SlugAt(h, j), m), SlugAt(h, k) = SlugAt(h, j)
       PROVE  k = j
  <2>1. /\ order[i] \in B /\ order[j] \in B /\ order[k] \in B
        /\ R(order[i]) = Numbered(R(order[j]), m) /\ R(order[k]) = R(order[j])
    BY <1>10, <1>11, <1>13
  <2>2. order[k] = order[j]
    BY <2>1, <1>9
  <2> QED BY <2>2, <1>5, <1>11
<1>14. \A i, j \in Blocks(h) :
         h.blocks[i].name = Blank /\ h.blocks[j].name # Blank => h.blocks[j].name.slug # Node
  BY <1>10, <1>11
<1> QED BY <1>12, <1>13, <1>14 DEF NamesFit, h

-----------------------------------------------------------------------------
(***************************************************************************)
(* What the editor draws, and what is in the file.                         *)
(***************************************************************************)

\* No name is another with a number after it, nor what unnamed blocks are called.
SuffixesAreFree ==
  /\ \A a, b \in Names : \A n \in Nat : SlugOf(a) # Numbered(SlugOf(b), n)
  /\ Blank \in Names => \A a \in Names \ {Blank} : a.slug # Node

LEMMA UuidIs ==
  ASSUME NEW i \in Nat
  PROVE  Uuid(i) \in Slugs \ {Nowhere} /\ \A j \in Nat : Uuid(i) = Uuid(j) => i = j
<1> DEFINE one == <<i>>
<1>1. one \in Seq(Nat)
  OBVIOUS
<1>2. Uuid(i) = [words |-> "uuid", numbers |-> one]
  BY DEF Uuid, Slug
<1>3. ASSUME NEW j \in Nat, Uuid(i) = Uuid(j) PROVE i = j
  <2>1. <<i>> = <<j>>
    BY <1>3 DEF Uuid, Slug
  <2> QED BY <2>1
<1>4. Uuid(i) # Nowhere
  BY DEF Uuid, Nowhere, Slug
<1>5. Uuid(i) \in Slugs
  <2> DEFINE u == Uuid(i)
  <2>1. one \in Seq(Nat) /\ u = [words |-> "uuid", numbers |-> one] /\ "uuid" \in Words
    BY <1>1, <1>2, WordsAssumption
  <2> HIDE DEF u, one
  <2>2. u \in Slugs
    BY <2>1 DEF Slugs
  <2> QED BY <2>2 DEF u
<1> QED BY <1>3, <1>4, <1>5

LEMMA MadeSequence ==
  ASSUME NEW S, NEW n \in Nat, NEW s \in [1..n -> S]
  PROVE  s \in Seq(S) /\ Len(s) = n /\ DOMAIN s = 1..n
OBVIOUS

\* A graph of n blocks that have these names.
DrawnWith(g, n, names) ==
  Drawable(g) /\ Blocks(g) = 1..n /\ \A i \in 1..n : g.blocks[i].name = names[i]

LEMMA DrawnIsDrawable ==
  ASSUME NEW n \in Nat, NEW m \in Nat, NEW parents \in [1..n -> 0..n], Nested(parents),
         NEW arrows \in [1..m -> Joining(n)], NEW untils \in [1..n -> 0..n],
         NEW names \in [1..n -> Names]
  PROVE  DrawnWith(Drawn(names, parents, arrows, untils), n, names)
<1> DEFINE B(i) == [id |-> Uuid(i), name |-> names[i], parent |-> IdAt(parents[i]), until |-> IdAt(untils[i])]
           A(k) == [from |-> Uuid(arrows[k][1]), to |-> Uuid(arrows[k][2]), port |-> arrows[k][3]]
           g    == Drawn(names, parents, arrows, untils)
<1>1. g.blocks = [i \in 1..n |-> B(i)] /\ g.arrows = [k \in 1..m |-> A(k)]
  BY DEF Drawn
<1>2. \A i \in Nat : Uuid(i) \in Slugs \ {Nowhere}
  BY UuidIs
<1>3. \A i, j \in Nat : Uuid(i) = Uuid(j) => i = j
  BY UuidIs
<1>4. \A i \in 0..n : IdAt(i) \in Slugs /\ (i # 0 => IdAt(i) = Uuid(i)) /\ (i = 0 => IdAt(i) = Nowhere)
  BY <1>2, NowhereIs DEF IdAt
<1>5. \A i \in 1..n : B(i) \in Block
  <2> TAKE i \in 1..n
  <2>1. names[i] \in [slug : Slugs, plain : BOOLEAN]
    BY NamesAssumption
  <2>2. parents[i] \in 0..n /\ untils[i] \in 0..n
    OBVIOUS
  <2> QED BY <2>1, <2>2, <1>2, <1>4 DEF Block
<1>6. \A k \in 1..m : /\ arrows[k][1] \in 1..n /\ arrows[k][2] \in 1..n
                      /\ arrows[k][3] \in {"only", "second"}
  BY DEF Joining
<1>7. \A k \in 1..m : A(k) \in Arrow
  BY <1>2, <1>6 DEF Arrow
<1> HIDE DEF g
<1>8. /\ g.blocks \in Seq(Block) /\ g.arrows \in Seq(Arrow)
      /\ Len(g.blocks) = n /\ DOMAIN g.blocks = 1..n /\ Len(g.arrows) = m
  <2> HIDE DEF A, B
  <2>1. g.blocks \in [1..n -> Block] /\ g.arrows \in [1..m -> Arrow]
    BY <1>1, <1>5, <1>7
  <2> QED BY <2>1, MadeSequence
<1>9. /\ Blocks(g) = 1..n
      /\ \A i \in 1..n : /\ Id(g, i) = Uuid(i) /\ g.blocks[i].name = names[i]
                         /\ g.blocks[i].parent = IdAt(parents[i]) /\ g.blocks[i].until = IdAt(untils[i])
      /\ \A k \in 1..m : g.arrows[k].from = Uuid(arrows[k][1]) /\ g.arrows[k].to = Uuid(arrows[k][2])
      /\ Ids(g) = {Uuid(i) : i \in 1..n}
  <2>1. \A i \in 1..n : g.blocks[i] = B(i)
    BY <1>1
  <2>2. \A k \in 1..m : g.arrows[k] = A(k)
    BY <1>1
  <2>3. \A i \in 1..n : /\ B(i).id = Uuid(i) /\ B(i).name = names[i]
                        /\ B(i).parent = IdAt(parents[i]) /\ B(i).until = IdAt(untils[i])
    OBVIOUS
  <2>4. \A k \in 1..m : A(k).from = Uuid(arrows[k][1]) /\ A(k).to = Uuid(arrows[k][2])
    OBVIOUS
  <2> HIDE DEF A, B
  <2>5. \A i \in 1..n : /\ g.blocks[i].id = Uuid(i) /\ g.blocks[i].name = names[i]
                        /\ g.blocks[i].parent = IdAt(parents[i]) /\ g.blocks[i].until = IdAt(untils[i])
    BY <2>1, <2>3, Zenon
  <2>6. \A k \in 1..m : g.arrows[k].from = Uuid(arrows[k][1]) /\ g.arrows[k].to = Uuid(arrows[k][2])
    BY <2>2, <2>4, Zenon
  <2>7. Ids(g) = {g.blocks[i].id : i \in 1..n}
    BY <1>8 DEF Ids
  <2>8. Ids(g) = {Uuid(i) : i \in 1..n}
    BY <2>5, <2>7
  <2> QED BY <2>5, <2>6, <2>8, <1>8 DEF Blocks, Id
<1> HIDE DEF A, B
<1>10. IdsAreOwn(g)
  BY <1>3, <1>9 DEF IdsAreOwn
<1>11. RefersToIts(g)
  <2>1. \A i \in 0..n : IdAt(i) \in Ids(g) \cup {Nowhere}
    <3> TAKE i \in 0..n
    <3>1. CASE i = 0
      BY <1>4, <3>1
    <3>2. CASE i # 0
      <4>1. i \in 1..n /\ IdAt(i) = Uuid(i)
        BY <1>4, <3>2
      <4> QED BY <4>1, <1>9
    <3> QED BY <3>1, <3>2
  <2>2. \A i \in 1..n : {g.blocks[i].parent, g.blocks[i].until} \subseteq Ids(g) \cup {Nowhere}
    <3> TAKE i \in 1..n
    <3>1. parents[i] \in 0..n /\ untils[i] \in 0..n
      OBVIOUS
    <3>2. g.blocks[i].parent = IdAt(parents[i]) /\ g.blocks[i].until = IdAt(untils[i])
      BY <1>9
    <3> QED BY <2>1, <3>1, <3>2
  <2>3. \A k \in 1..m : {g.arrows[k].from, g.arrows[k].to} \subseteq Ids(g)
    <3>1. \A i \in 1..n : Uuid(i) \in Ids(g)
      BY <1>9
    <3> TAKE k \in 1..m
    <3> DEFINE a == arrows[k][1]
               b == arrows[k][2]
    <3>2. a \in 1..n /\ b \in 1..n
      BY <1>6
    <3>3. g.arrows[k].from = Uuid(a) /\ g.arrows[k].to = Uuid(b)
      BY <1>9
    <3> HIDE DEF a, b
    <3> QED BY <3>1, <3>2, <3>3, Zenon
  <2> QED BY <2>2, <2>3, <1>8, <1>9 DEF RefersToIts
<1>12. NoneIsInItself(g)
  <2>1. PICK depth \in [1..n -> 1..MaxBlocks] :
          \A i \in 1..n : parents[i] # 0 => depth[parents[i]] < depth[i]
    BY DEF Nested
  <2> DEFINE At(x) == CHOOSE i \in 1..n : Uuid(i) = x
             deep  == [x \in Ids(g) |-> depth[At(x)]]
  <2>2. \A i \in 1..n : At(Uuid(i)) = i /\ Uuid(i) \in Ids(g)
    BY <1>3, <1>9
  <2>3. \A x \in Ids(g) : At(x) \in 1..n
    <3>1. \A x \in Ids(g) : \E i \in 1..n : Uuid(i) = x
      BY <1>9
    <3> QED BY <3>1, Zenon
  <2> HIDE DEF At
  <2>4. deep \in [Ids(g) -> Nat] /\ \A i \in 1..n : deep[Uuid(i)] = depth[i]
    BY <2>1, <2>2, <2>3, BoundAssumption
  <2> HIDE DEF deep
  <2>5. \A i \in Blocks(g) : g.blocks[i].parent # Nowhere => deep[g.blocks[i].parent] < deep[Id(g, i)]
    <3> SUFFICES ASSUME NEW i \in 1..n, g.blocks[i].parent # Nowhere
                 PROVE  deep[g.blocks[i].parent] < deep[Id(g, i)]
      BY <1>9
    <3>1. parents[i] \in 1..n /\ parents[i] # 0 /\ g.blocks[i].parent = Uuid(parents[i])
      <4>1. parents[i] \in 0..n /\ g.blocks[i].parent = IdAt(parents[i])
        BY <1>9
      <4>2. parents[i] # 0
        BY <1>4, <4>1
      <4> QED BY <1>4, <4>1, <4>2
    <3>2. depth[parents[i]] < depth[i]
      BY <2>1, <3>1
    <3> QED BY <3>1, <3>2, <2>4, <1>9
  <2> QED BY <2>4, <2>5 DEF NoneIsInItself
<1> QED BY <1>8, <1>9, <1>10, <1>11, <1>12 DEF Drawable, DrawnWith, g

Kept ==
  /\ Drawable(graph) /\ NamesFit(graph)
  /\ file # <<>> => Drawable(saved) /\ NamesFit(saved) /\ file = BuildWorkflowYAML(saved)

LEMMA KeptInit ==
  ASSUME SuffixesAreFree, Init
  PROVE  Kept
<1>1. PICK n \in 1..MaxBlocks, m \in 0..MaxLinks :
        \E parents \in {p \in [1..n -> 0..n] : Nested(p)} :
          \E arrows \in {a \in [1..m -> Joining(n)] : Apart(a)},
             untils \in Ending(n, MaxLinks - m),
             names \in [1..n -> Names] :
            graph = Drawn(names, parents, arrows, untils)
  BY DEF Init
<1>2. n \in Nat /\ m \in Nat
  BY BoundAssumption
<1>3. PICK parents \in {p \in [1..n -> 0..n] : Nested(p)} :
        \E arrows \in {a \in [1..m -> Joining(n)] : Apart(a)},
           untils \in Ending(n, MaxLinks - m),
           names \in [1..n -> Names] :
          graph = Drawn(names, parents, arrows, untils)
  BY <1>1, Zenon
<1>4. PICK arrows \in [1..m -> Joining(n)], untils \in [1..n -> 0..n], names \in [1..n -> Names] :
         graph = Drawn(names, parents, arrows, untils)
  BY <1>3 DEF Ending
<1>5. Nested(parents)
  BY <1>3
<1>6. /\ Drawable(graph) /\ Blocks(graph) = 1..n
      /\ \A i \in 1..n : graph.blocks[i].name = names[i]
      /\ \A i \in 1..n : names[i] \in Names
  <2>1. DrawnWith(graph, n, names)
    BY <1>2, <1>4, <1>5, DrawnIsDrawable, Zenon
  <2> QED BY <2>1 DEF DrawnWith
<1>7. NamesFit(graph)
  <2>1. \A i \in 1..n : SlugAt(graph, i) = SlugOf(names[i])
    BY <1>6 DEF SlugAt
  <2>2. \A i, j \in 1..n : \A l \in Nat : SlugAt(graph, i) # Numbered(SlugAt(graph, j), l)
    BY <2>1, <1>6 DEF SuffixesAreFree
  <2>3. \A i \in 1..n : graph.blocks[i].name # Blank => graph.blocks[i].name.slug # Nowhere
    BY <1>6, NamesAssumption
  <2>4. \A i, j \in 1..n :
          graph.blocks[i].name = Blank /\ graph.blocks[j].name # Blank => graph.blocks[j].name.slug # Node
    BY <1>6 DEF SuffixesAreFree
  <2> QED BY <2>2, <2>3, <2>4, <1>6 DEF NamesFit
<1> QED BY <1>6, <1>7 DEF Kept, Init

LEMMA KeptNext ==
  ASSUME Kept, [Next]_vars
  PROVE  Kept'
<1>1. \A g : Drawable(g) /\ NamesFit(g) => Drawable(ReadBack(g)) /\ NamesFit(ReadBack(g))
  BY ReadIsDrawable, ReadNamesFit
<1>2. CASE Save
  BY <1>2 DEF Kept, Save
<1>3. CASE Open
  <2>1. graph' = ReadBack(saved) /\ file' = file /\ saved' = saved
    BY <1>3 DEF Open, Kept, ReadBack
  <2> QED BY <2>1, <1>1, <1>3 DEF Open, Kept
<1>4. CASE SetSchedule
  <2>1. /\ saved' = ReadBack(saved) /\ file' = BuildWorkflowYAML(saved') /\ graph' = graph
        /\ Drawable(saved) /\ NamesFit(saved)
    BY <1>4 DEF SetSchedule, Kept, ReadBack
  <2> QED BY <2>1, <1>1 DEF Kept
<1>5. CASE UNCHANGED vars
  BY <1>5 DEF Kept, vars
<1> QED BY <1>2, <1>3, <1>4, <1>5 DEF Next

(***************************************************************************)
(* A file that was saved can be read, and what is read is the drawing it   *)
(* was saved from (BuildWorkflowYAML, ParseWorkflowYAML): the same blocks  *)
(* inside one another under the same names, with the same arrows in the    *)
(* same order, as long as no name is another's with a number after it.     *)
(***************************************************************************)
THEOREM WhatIsSavedReadsAsDrawn ==
  ASSUME SuffixesAreFree
  PROVE  Spec => []ReadsAsDrawn
<1>1. Init => Kept
  BY KeptInit
<1>2. Kept /\ [Next]_vars => Kept'
  BY KeptNext
<1>3. Kept => ReadsAsDrawn
  <2> SUFFICES ASSUME Kept, file # <<>>
               PROVE  CanParse(file) /\ SameDrawing(saved, ParseWorkflowYAML(file))
    BY DEF ReadsAsDrawn
  <2>1. Drawable(saved) /\ NamesFit(saved) /\ file = BuildWorkflowYAML(saved)
    BY DEF Kept
  <2>2. CanParse(BuildWorkflowYAML(saved))
    BY <2>1, FileIs
  <2>3. SameDrawing(saved, ReadBack(saved))
    BY <2>1, ReadIsSame
  <2> QED BY <2>1, <2>2, <2>3 DEF ReadBack
<1> QED BY <1>1, <1>2, <1>3, PTL DEF Spec

-----------------------------------------------------------------------------
(***************************************************************************)
(* The order of the file: children of one block keep their order.          *)
(***************************************************************************)
Rising(s) == \A p, q \in 1..Len(s) : p < q => s[p] < s[q]

LEMMA OneRisingList ==
  ASSUME NEW s \in Seq(Nat), NEW t \in Seq(Nat), NEW T, Lists(s, T), Lists(t, T), Rising(s), Rising(t)
  PROVE  s = t
<1> DEFINE m == Len(s)
           n == Len(t)
           Differ == {i \in Nat : \/ i \in 1..m /\ (i \notin 1..n \/ s[i] # t[i])
                                  \/ i \in 1..n /\ (i \notin 1..m \/ s[i] # t[i])}
<1>1. m \in Nat /\ n \in Nat /\ s = [i \in 1..m |-> s[i]] /\ t = [i \in 1..n |-> t[i]]
  OBVIOUS
<1>2. (\A i \in 1..m : s[i] \in Nat) /\ (\A i \in 1..n : t[i] \in Nat)
  OBVIOUS
<1>3. /\ \A i \in 1..m : \E j \in 1..n : t[j] = s[i]
      /\ \A i \in 1..n : \E j \in 1..m : s[j] = t[i]
  <2>1. (\A i \in 1..m : s[i] \in T) /\ (\A i \in 1..n : t[i] \in T)
    BY ListedAre
  <2> QED BY <2>1 DEF Lists
<1>4. /\ \A p, q \in 1..m : p < q => s[p] < s[q]
      /\ \A p, q \in 1..n : p < q => t[p] < t[q]
  BY DEF Rising
<1> HIDE DEF m, n
<1>5. Differ = {}
  <2> SUFFICES ASSUME Differ # {} PROVE FALSE
    OBVIOUS
  <2>1. Differ \in SUBSET Nat
    OBVIOUS
  <2>2. PICK i \in Differ : \A j \in Differ : i <= j
    <3> HIDE DEF Differ
    <3> QED BY <2>1, SmallestNat
  <2>3. \A j \in Nat : j < i /\ (j \in 1..m \/ j \in 1..n) => j \in 1..m /\ j \in 1..n /\ s[j] = t[j]
    <3> SUFFICES ASSUME NEW j \in Nat, j < i, j \in 1..m \/ j \in 1..n
                 PROVE  j \in 1..m /\ j \in 1..n /\ s[j] = t[j]
      OBVIOUS
    <3>1. j \notin Differ
      BY <2>1, <2>2
    <3> QED BY <3>1
  <2>4. ASSUME i \in 1..m PROVE i \in 1..n /\ t[i] <= s[i]
    <3>1. PICK j \in 1..n : t[j] = s[i]
      BY <1>3, <2>4
    <3>2. ~(j < i)
      <4> SUFFICES ASSUME j < i PROVE FALSE
        OBVIOUS
      <4>1. j \in 1..m /\ s[j] = t[j]
        BY <2>3
      <4> QED BY <4>1, <3>1, <2>4, <1>2, <1>4
    <3>3. i \in 1..n
      BY <1>1, <2>4, <3>2
    <3> QED BY <3>1, <3>2, <3>3, <1>2, <1>4
  <2>5. ASSUME i \in 1..n PROVE i \in 1..m /\ s[i] <= t[i]
    <3>1. PICK j \in 1..m : s[j] = t[i]
      BY <1>3, <2>5
    <3>2. ~(j < i)
      <4> SUFFICES ASSUME j < i PROVE FALSE
        OBVIOUS
      <4>1. j \in 1..n /\ s[j] = t[j]
        BY <2>3
      <4>2. t[j] < t[i] /\ t[i] \in Nat
        BY <4>1, <2>5, <1>2, <1>4
      <4> QED BY <4>1, <4>2, <3>1
    <3>3. i \in 1..m
      BY <1>1, <2>5, <3>2
    <3> QED BY <3>1, <3>2, <3>3, <1>2, <1>4
  <2>6. i \in 1..m /\ i \in 1..n
    BY <2>2, <2>4, <2>5
  <2>7. s[i] = t[i]
    BY <2>4, <2>5, <2>6, <1>2
  <2>8. ~(i \in Differ)
    BY <2>6, <2>7
  <2> QED BY <2>2, <2>8
<1>6. \A i \in Nat : (i \in 1..m <=> i \in 1..n) /\ (i \in 1..m => s[i] = t[i])
  BY <1>5
<1> HIDE DEF Differ
<1>7. m = n
  <2>1. (m \in 1..m <=> m \in 1..n) /\ (n \in 1..m <=> n \in 1..n)
    BY <1>1, <1>6
  <2> QED BY <1>1, <2>1
<1>8. \A i \in 1..m : s[i] = t[i]
  BY <1>6
<1> QED BY <1>1, <1>7, <1>8

\* In c, children of one block are in the order of the drawing.
InOrder(g, c) ==
  \A p, q \in 1..Len(c) :
    p < q /\ g.blocks[c[p]].parent = g.blocks[c[q]].parent => c[p] < c[q]

LEMMA EmitNodeOrders ==
  ASSUME NEW g, g.blocks \in Seq(Block), IdsAreOwn(g), NEW q \in Emitting, NEW D, NEW W,
         Emits(g, q, D, W), q.todo # <<>>, InOrder(g, q.done \o q.todo)
  PROVE  InOrder(g, EmitNode(g, q).done \o EmitNode(g, q).todo)
<1> DEFINE d  == q.done
           w  == q.todo
           x  == Head(w)
           ch == Inside(g, Id(g, x))
           c  == d \o w
           e  == Append(d, x) \o (ch \o Tail(w))
           a  == Len(d)
           m  == Len(ch)
           b  == Len(w)
           Par(i) == g.blocks[i].parent
<1>1. d \in Seq(Nat) /\ w \in Seq(Nat) /\ w # <<>>
  BY DEF Emitting
<1>2. ch \in Seq(Nat) /\ Lists(ch, InsideOf(g, Id(g, x)))
  BY InsideLists
<1>3. EmitNode(g, q).done \o EmitNode(g, q).todo = e
  BY DEF EmitNode, Id
<1>4. Lists(d, D) /\ Lists(w, W) /\ Reaches(g, D, W)
  BY DEF Emits
<1>5. Rising(ch)
  <2>1. \A S, n \in Nat : Rising(Ascending(S, n))
    BY AscendingLists DEF Rising
  <2> DEFINE n == Len(g.blocks)
  <2>2. n \in Nat
    BY BlocksAre
  <2> HIDE DEF n
  <2>3. \A S : Rising(Ascending(S, n))
    BY <2>2, AscendingLists DEF Rising
  <2> QED BY <2>3 DEF Inside, n
<1>6. x \in W /\ x = w[1] /\ x \in Nat
  <2>1. x \in W
    BY <1>1, <1>4, ListedBut
  <2> HIDE DEF w
  <2>2. x = w[1] /\ x \in Nat
    BY <1>1
  <2> QED BY <2>1, <2>2
<1>7. a \in Nat /\ m \in Nat /\ b \in Nat /\ b >= 1
  BY <1>1, <1>2
<1>8. /\ Len(c) = a + b
      /\ \A p \in 1..a : c[p] = d[p]
      /\ \A p \in 1..b : c[a + p] = w[p]
  <2> HIDE DEF d, w
  <2> QED BY <1>1, Joined
<1> HIDE DEF x
<1>9. /\ Len(e) = a + 1 + m + (b - 1)
      /\ \A p \in 1..a : e[p] = d[p]
      /\ e[a + 1] = x
      /\ \A p \in 1..m : e[(a + 1) + p] = ch[p]
      /\ \A p \in 1..(b - 1) : e[(a + 1 + m) + p] = w[p + 1]
  <2> DEFINE l == Append(d, x)
             r == ch \o Tail(w)
  <2> HIDE DEF ch
  <2>1. /\ l \in Seq(Nat) /\ Len(l) = a + 1 /\ l[a + 1] = x
        /\ \A p \in 1..a : l[p] = d[p]
    BY <1>1, <1>6
  <2>2. /\ r \in Seq(Nat) /\ Len(r) = m + (b - 1)
        /\ \A p \in 1..m : r[p] = ch[p]
        /\ \A p \in 1..(b - 1) : r[m + p] = w[p + 1]
    <3> DEFINE v == Tail(w)
    <3>1. v \in Seq(Nat) /\ Len(v) = b - 1 /\ \A p \in 1..(b - 1) : v[p] = w[p + 1]
      BY <1>1
    <3> HIDE DEF v
    <3>2. /\ ch \o v \in Seq(Nat) /\ Len(ch \o v) = m + (b - 1)
          /\ \A p \in 1..m : (ch \o v)[p] = ch[p]
          /\ \A p \in 1..(b - 1) : (ch \o v)[m + p] = v[p]
      <4> HIDE DEF b
      <4> QED BY <1>2, <3>1, Joined DEF m
    <3> QED BY <3>1, <3>2 DEF v
  <2> HIDE DEF l, r, a, b, m
  <2>3. e = l \o r
    BY DEF l, r
  <2> HIDE DEF e
  <2>4. /\ Len(e) = (a + 1) + (m + (b - 1))
        /\ \A p \in 1..(a + 1) : e[p] = l[p]
        /\ \A p \in 1..(m + (b - 1)) : e[(a + 1) + p] = r[p]
    BY <2>1, <2>2, <2>3
  <2>5. \A p \in 1..m : e[(a + 1) + p] = ch[p]
    <3> TAKE p \in 1..m
    <3>1. p \in 1..(m + (b - 1))
      BY <1>7
    <3> QED BY <3>1, <2>2, <2>4
  <2>6. \A p \in 1..(b - 1) : e[(a + 1 + m) + p] = w[p + 1]
    <3> TAKE p \in 1..(b - 1)
    <3>1. m + p \in 1..(m + (b - 1)) /\ (a + 1) + (m + p) = (a + 1 + m) + p
      BY <1>7
    <3>2. e[(a + 1) + (m + p)] = r[m + p]
      BY <3>1, <2>4
    <3> QED BY <3>1, <3>2, <2>2
  <2>7. \A p \in 1..a : e[p] = d[p]
    <3> TAKE p \in 1..a
    <3>1. p \in 1..(a + 1)
      BY <1>7
    <3> QED BY <3>1, <2>1, <2>4
  <2>8. e[a + 1] = x
    <3>1. a + 1 \in 1..(a + 1)
      BY <1>7
    <3> QED BY <3>1, <2>1, <2>4
  <2> QED BY <2>4, <2>5, <2>6, <2>7, <2>8, <1>7
<1>10. \A p, r \in 1..Len(c) : p < r /\ Par(c[p]) = Par(c[r]) => c[p] < c[r]
  BY DEF InOrder
<1>11. \A p \in 1..Len(c) : c[p] \in D \cup W
  <2>1. (\A p \in 1..a : d[p] \in D) /\ (\A p \in 1..b : w[p] \in W)
    BY <1>4 DEF Lists
  <2> TAKE p \in 1..Len(c)
  <2> HIDE DEF a, b, c, d, w
  <2>2. CASE p \in 1..a
    BY <2>1, <2>2, <1>8
  <2>3. CASE p \notin 1..a
    <3>1. p - a \in 1..b /\ a + (p - a) = p
      BY <2>3, <1>7, <1>8
    <3>2. c[a + (p - a)] = w[p - a]
      BY <3>1, <1>8
    <3> QED BY <3>1, <3>2, <2>1
  <2> QED BY <2>2, <2>3
\* What is inside the block has not been met before.
<1>12. \A p \in 1..Len(c) : Par(c[p]) # Id(g, x)
  <2>1. /\ x \notin D /\ x \in Blocks(g) /\ D \subseteq Blocks(g)
        /\ \A i \in D \cup W : i \in Blocks(g) /\ (Par(i) = Nowhere \/ \E j \in D : Par(i) = Id(g, j))
    BY <1>4, <1>6 DEF Reaches
  <2>2. Id(g, x) # Nowhere /\ \A j \in D : Id(g, j) # Id(g, x)
    BY <2>1, BlocksAre DEF IdsAreOwn
  <2> QED BY <2>1, <2>2, <1>11
<1>13. \A p \in 1..m : Par(ch[p]) = Id(g, x)
  BY <1>2 DEF Lists, InsideOf
<1>14. \A p, r \in 1..m : p < r => ch[p] < ch[r]
  BY <1>5 DEF Rising
<1> DEFINE Old(p) == IF p <= a + 1 THEN p ELSE p - m
           New(p) == p - (a + 1)
<1> HIDE DEF a, b, c, d, e, w, ch, m, Par
<1>15. ASSUME NEW p \in 1..Len(e)
       PROVE  \/ p \notin (a + 2)..(a + 1 + m) /\ Old(p) \in 1..Len(c) /\ e[p] = c[Old(p)]
              \/ p \in (a + 2)..(a + 1 + m) /\ New(p) \in 1..m /\ e[p] = ch[New(p)]
  <2>1. CASE p \in 1..a
    <3>1. p \in 1..Len(c) /\ Old(p) = p /\ p \notin (a + 2)..(a + 1 + m)
      BY <2>1, <1>7, <1>8
    <3> HIDE DEF Old
    <3> QED BY <2>1, <3>1, <1>8, <1>9
  <2>2. CASE p = a + 1
    <3>1. p \in 1..Len(c) /\ Old(p) = p /\ p \notin (a + 2)..(a + 1 + m) /\ 1 \in 1..b
      BY <2>2, <1>7, <1>8
    <3> HIDE DEF Old
    <3>2. e[p] = x /\ c[a + 1] = w[1]
      BY <2>2, <3>1, <1>8, <1>9
    <3> QED BY <2>2, <3>1, <3>2, <1>6
  <2>3. CASE p \in (a + 2)..(a + 1 + m)
    <3>1. New(p) \in 1..m /\ (a + 1) + New(p) = p
      BY <2>3, <1>7
    <3> HIDE DEF New
    <3> QED BY <2>3, <3>1, <1>9
  <2>4. CASE p > a + 1 + m
    <3> DEFINE r == p - (a + 1 + m)
    <3>1. r \in 1..(b - 1) /\ (a + 1 + m) + r = p /\ Old(p) = a + (r + 1) /\ r + 1 \in 1..b
          /\ a + (r + 1) \in 1..Len(c) /\ p \notin (a + 2)..(a + 1 + m)
      BY <2>4, <1>7, <1>8, <1>9
    <3> HIDE DEF r, Old
    <3>2. e[p] = w[r + 1]
      BY <3>1, <1>9
    <3>3. c[a + (r + 1)] = w[r + 1]
      BY <3>1, <1>8
    <3> QED BY <3>1, <3>2, <3>3
  <2> QED BY <2>1, <2>2, <2>3, <2>4, <1>7, <1>9
<1>16. ASSUME NEW p \in 1..Len(e), NEW r \in 1..Len(e), p < r, Par(e[p]) = Par(e[r])
       PROVE  e[p] < e[r]
  <2> DEFINE I == (a + 2)..(a + 1 + m)
  <2>1. CASE p \in I /\ r \in I
    <3>1. New(p) \in 1..m /\ New(r) \in 1..m /\ e[p] = ch[New(p)] /\ e[r] = ch[New(r)]
      BY <2>1, <1>15
    <3>2. New(p) < New(r)
      BY <1>7, <1>9, <1>16
    <3> HIDE DEF New
    <3> QED BY <3>1, <3>2, <1>14
  <2>2. CASE p \notin I /\ r \notin I
    <3>1. Old(p) \in 1..Len(c) /\ Old(r) \in 1..Len(c) /\ e[p] = c[Old(p)] /\ e[r] = c[Old(r)]
      BY <2>2, <1>15
    <3>2. Old(p) < Old(r)
      BY <2>2, <1>7, <1>9, <1>16
    <3> HIDE DEF Old
    <3> QED BY <3>1, <3>2, <1>10, <1>16
  <2>3. CASE p \in I /\ r \notin I
    <3>1. New(p) \in 1..m /\ Old(r) \in 1..Len(c) /\ e[p] = ch[New(p)] /\ e[r] = c[Old(r)]
      BY <2>3, <1>15
    <3> HIDE DEF New, Old
    <3> QED BY <3>1, <1>12, <1>13, <1>16
  <2>4. CASE p \notin I /\ r \in I
    <3>1. Old(p) \in 1..Len(c) /\ New(r) \in 1..m /\ e[p] = c[Old(p)] /\ e[r] = ch[New(r)]
      BY <2>4, <1>15
    <3> HIDE DEF New, Old
    <3> QED BY <3>1, <1>12, <1>13, <1>16
  <2> QED BY <2>1, <2>2, <2>3, <2>4
<1>17. InOrder(g, e)
  BY <1>16 DEF InOrder, Par
<1> QED BY <1>3, <1>17

LEMMA FileInOrder ==
  ASSUME NEW g, Drawable(g)
  PROVE  InOrder(g, FileOrder(g))
<1> DEFINE n == Len(g.blocks)
           u == Emitted(g)
           Far(k) == InOrder(g, u[k].done \o u[k].todo)
           T == {k \in 0..n : Far(k)}
<1>1. g.blocks \in Seq(Block) /\ IdsAreOwn(g)
  BY DEF Drawable
<1>2. /\ n \in Nat /\ u \in [0..n -> Emitting]
      /\ u[0] = [done |-> <<>>, todo |-> Inside(g, Nowhere)]
      /\ \A k \in 1..n : u[k] = EmitNode(g, u[k - 1])
  BY <1>1, BlocksAre, EmittedSteps, Zenon
<1>3. \A k \in 0..n : \E D, W : Emits(g, u[k], D, W)
  BY <1>1, EmittedReaches
<1>4. Far(0)
  <2> DEFINE w == Inside(g, Nowhere)
  <2>1. w \in Seq(Nat) /\ Rising(w)
    <3> DEFINE S == {i \in DOMAIN g.blocks : g.blocks[i].parent = Nowhere}
    <3>1. w = Ascending(S, n)
      BY DEF Inside
    <3> HIDE DEF S, w, n
    <3>2. Rising(Ascending(S, n))
      BY <1>2, AscendingLists DEF Rising
    <3>3. w \in Seq(Nat)
      BY <1>1, InsideLists DEF w
    <3> QED BY <3>1, <3>2, <3>3
  <2>2. u[0].done \o u[0].todo = w
    <3> HIDE DEF w
    <3>1. <<>> \o w = w
      BY <2>1
    <3>2. u[0].done = <<>> /\ u[0].todo = w
      BY <1>2 DEF w
    <3> QED BY <3>1, <3>2
  <2> HIDE DEF w
  <2> QED BY <2>1, <2>2 DEF InOrder, Rising
<1> HIDE DEF u, n
<1>5. ASSUME NEW k \in 1..n, Far(k - 1) PROVE Far(k)
  <2> DEFINE q == u[k - 1]
  <2>1. k - 1 \in 0..n /\ q \in Emitting /\ u[k] = EmitNode(g, q) /\ InOrder(g, q.done \o q.todo)
    BY <1>2, <1>5
  <2>2. PICK D, W : Emits(g, q, D, W)
    BY <2>1, <1>3
  <2> HIDE DEF q
  <2>3. CASE q.todo = <<>>
    BY <2>1, <2>3 DEF EmitNode
  <2>4. CASE q.todo # <<>>
    <3>1. InOrder(g, EmitNode(g, q).done \o EmitNode(g, q).todo)
      BY <1>1, <2>1, <2>2, <2>4, EmitNodeOrders, Zenon
    <3> QED BY <3>1, <2>1
  <2> QED BY <2>3, <2>4
<1>6. n \in T
  <2>1. T \in SUBSET (0..n) /\ n \in 0..n /\ 0 \in T /\ \A k \in 1..n : k - 1 \in T => k \in T
    <3> HIDE DEF Far
    <3> QED BY <1>2, <1>4, <1>5
  <2> HIDE DEF T
  <2> QED BY <1>2, <2>1, UpTo
<1> DEFINE d == u[n].done
           w == u[n].todo
<1>7. d \in Seq(Nat) /\ w \in Seq(Nat) /\ InOrder(g, d \o w)
  <2>1. u[n] \in Emitting
    BY <1>2
  <2> QED BY <2>1, <1>6 DEF Emitting
<1>8. d = FileOrder(g)
  BY DEF FileOrder, u, n
<1> HIDE DEF d, w
<1>9. InOrder(g, d)
  <2>1. /\ Len(d) \in Nat /\ Len(d \o w) = Len(d) + Len(w) /\ Len(w) \in Nat
        /\ \A i \in 1..Len(d) : (d \o w)[i] = d[i]
    BY <1>7, Joined
  <2>2. \A i \in 1..Len(d) : i \in 1..Len(d \o w)
    BY <2>1
  <2> DEFINE c == d \o w
  <2> HIDE DEF c
  <2> QED BY <2>1, <2>2, <1>7 DEF InOrder, c
<1> QED BY <1>8, <1>9

-----------------------------------------------------------------------------
(***************************************************************************)
(* What was read is saved in the order it has.                             *)
(***************************************************************************)
Through(o, s) == [p \in 1..Len(s) |-> o[s[p]]]

LEMMA ThroughIs ==
  ASSUME NEW S, NEW o \in [S -> S], NEW s \in Seq(S)
  PROVE  Through(o, s) \in Seq(S) /\ Len(Through(o, s)) = Len(s)
<1> DEFINE m == Len(s)
           t == Through(o, s)
<1>1. m \in Nat /\ \A p \in 1..m : s[p] \in S
  BY Elements
<1>2. t \in [1..m -> S]
  BY <1>1 DEF Through
<1> HIDE DEF m, t
<1> QED BY <1>1, <1>2, MadeSequence DEF m, t

GoesThrough(o, S) ==
  \A s, t \in Seq(S) :
    /\ Through(o, s \o t) = Through(o, s) \o Through(o, t)
    /\ \A x \in S : Through(o, Append(s, x)) = Append(Through(o, s), o[x])
    /\ Through(o, s) = <<>> <=> s = <<>>
    /\ s # <<>> => /\ Head(Through(o, s)) = o[Head(s)]
                   /\ Through(o, Tail(s)) = Tail(Through(o, s))

LEMMA ThroughSteps ==
  ASSUME NEW S, NEW o \in [S -> S]
  PROVE  GoesThrough(o, S)
<1> SUFFICES ASSUME NEW s \in Seq(S), NEW t \in Seq(S)
             PROVE  /\ Through(o, s \o t) = Through(o, s) \o Through(o, t)
                    /\ \A x \in S : Through(o, Append(s, x)) = Append(Through(o, s), o[x])
                    /\ Through(o, s) = <<>> <=> s = <<>>
                    /\ s # <<>> => /\ Head(Through(o, s)) = o[Head(s)]
                                   /\ Through(o, Tail(s)) = Tail(Through(o, s))
  BY Zenon DEF GoesThrough
<1> DEFINE f == Through(o, s)
           g == Through(o, t)
           a == Len(s)
           b == Len(t)
<1>1. /\ f \in Seq(S) /\ Len(f) = a /\ \A p \in 1..a : f[p] = o[s[p]]
      /\ g \in Seq(S) /\ Len(g) = b /\ \A p \in 1..b : g[p] = o[t[p]]
  BY ThroughIs DEF Through
<1>2. a \in Nat /\ b \in Nat /\ (\A p \in 1..a : s[p] \in S) /\ (\A p \in 1..b : t[p] \in S)
  BY Elements
<1>3. Through(o, s \o t) = f \o g
  <2> DEFINE c == s \o t
             l == Through(o, c)
             r == f \o g
  <2>1. /\ c \in Seq(S) /\ Len(c) = a + b
        /\ (\A p \in 1..a : c[p] = s[p]) /\ (\A p \in 1..b : c[a + p] = t[p])
    BY Joined
  <2> HIDE DEF c
  <2>2. /\ r \in Seq(S) /\ Len(r) = a + b
        /\ (\A p \in 1..a : r[p] = f[p]) /\ (\A p \in 1..b : r[a + p] = g[p])
    <3> HIDE DEF f, g
    <3>1. f \in Seq(S) /\ g \in Seq(S)
      BY <1>1
    <3>2. /\ r \in Seq(S) /\ Len(r) = Len(f) + Len(g)
          /\ (\A p \in 1..Len(f) : r[p] = f[p]) /\ (\A p \in 1..Len(g) : r[Len(f) + p] = g[p])
      BY <3>1, Joined
    <3>3. Len(f) = a /\ Len(g) = b
      BY <1>1
    <3> HIDE DEF r, a, b
    <3> QED BY <3>2, <3>3
  <2>3. l = [p \in 1..(a + b) |-> o[c[p]]]
    BY <2>1 DEF Through
  <2> HIDE DEF r, l, f, g, a, b
  <2>4. ASSUME NEW p \in 1..(a + b) PROVE r[p] = o[c[p]]
    <3>1. CASE p \in 1..a
      BY <3>1, <2>1, <2>2, <1>1
    <3>2. CASE p \notin 1..a
      <4> DEFINE e == p - a
      <4>1. e \in 1..b /\ a + e = p
        BY <3>2, <1>2
      <4> HIDE DEF e
      <4>2. r[a + e] = g[e] /\ c[a + e] = t[e] /\ g[e] = o[t[e]]
        BY <4>1, <2>1, <2>2, <1>1
      <4> QED BY <4>1, <4>2
    <3> QED BY <3>1, <3>2
  <2>5. r = [p \in 1..(a + b) |-> r[p]]
    BY <2>2
  <2>6. l = r
    BY <2>3, <2>4, <2>5
  <2> QED BY <2>6 DEF l, r, c
<1>4. ASSUME NEW x \in S PROVE Through(o, Append(s, x)) = Append(f, o[x])
  <2> DEFINE c == Append(s, x)
             l == Through(o, c)
             r == Append(f, o[x])
  <2>1. c \in Seq(S) /\ Len(c) = a + 1 /\ c[a + 1] = x /\ \A p \in 1..a : c[p] = s[p]
    BY Appended
  <2> HIDE DEF f, a, c
  <2>2. r \in Seq(S) /\ Len(r) = a + 1 /\ r[a + 1] = o[x] /\ \A p \in 1..a : r[p] = f[p]
    <3>1. f \in Seq(S) /\ o[x] \in S /\ Len(f) = a
      BY <1>1
    <3> QED BY <3>1, Appended
  <2>3. l = [p \in 1..(a + 1) |-> o[c[p]]]
    BY <2>1 DEF Through
  <2> HIDE DEF r, l
  <2>4. ASSUME NEW p \in 1..(a + 1) PROVE r[p] = o[c[p]]
    <3>1. CASE p \in 1..a
      BY <3>1, <2>1, <2>2, <1>1
    <3>2. CASE p = a + 1
      BY <3>2, <2>1, <2>2
    <3> QED BY <3>1, <3>2, <1>2
  <2>5. r = [p \in 1..(a + 1) |-> r[p]]
    BY <2>2
  <2>6. l = r
    BY <2>3, <2>4, <2>5
  <2> QED BY <2>6 DEF l, r, c
<1>5. f = <<>> <=> s = <<>>
  <2>1. f = <<>> <=> Len(f) = 0
    <3> HIDE DEF f
    <3> QED BY <1>1, Elements
  <2>2. s = <<>> <=> a = 0
    BY Elements
  <2> QED BY <1>1, <2>1, <2>2
<1>6. ASSUME s # <<>>
      PROVE  Head(f) = o[Head(s)] /\ Through(o, Tail(s)) = Tail(f)
  <2> DEFINE c == Tail(s)
             l == Through(o, c)
             r == Tail(f)
  <2>1. a >= 1 /\ Head(s) = s[1] /\ c \in Seq(S) /\ Len(c) = a - 1 /\ \A p \in 1..(a - 1) : c[p] = s[p + 1]
    BY <1>6, HeadAndTail
  <2> HIDE DEF f, a, c
  <2>2. r \in Seq(S) /\ Len(r) = a - 1 /\ Head(f) = f[1] /\ \A p \in 1..(a - 1) : r[p] = f[p + 1]
    <3>1. f \in Seq(S) /\ f # <<>> /\ Len(f) = a
      BY <1>1, <1>5, <1>6
    <3> QED BY <3>1, HeadAndTail
  <2>3. l = [p \in 1..(a - 1) |-> o[c[p]]]
    BY <2>1 DEF Through
  <2> HIDE DEF r, l
  <2>4. ASSUME NEW p \in 1..(a - 1) PROVE r[p] = o[c[p]]
    <3>1. p + 1 \in 1..a
      BY <1>2
    <3> QED BY <3>1, <2>1, <2>2, <1>1
  <2>5. r = [p \in 1..(a - 1) |-> r[p]]
    BY <2>2
  <2>6. l = r
    BY <2>3, <2>4, <2>5
  <2>7. Head(f) = o[Head(s)]
    <3>1. 1 \in 1..a
      BY <2>1, <1>2
    <3> QED BY <3>1, <2>1, <2>2, <1>1
  <2> QED BY <2>6, <2>7 DEF l, r, c
<1> QED BY <1>3, <1>4, <1>5, <1>6

LEMMA InsideRises ==
  ASSUME NEW g, g.blocks \in Seq(Block), NEW id
  PROVE  Rising(Inside(g, id))
<1> DEFINE S == {i \in DOMAIN g.blocks : g.blocks[i].parent = id}
           n == Len(g.blocks)
<1>1. n \in Nat /\ Inside(g, id) = Ascending(S, n)
  BY BlocksAre DEF Inside
<1> HIDE DEF S, n
<1> QED BY <1>1, AscendingLists DEF Rising

LEMMA MovedApart ==
  ASSUME NEW g, Drawable(g), NEW keys, KeysFit(g, keys),
         NEW x \in Ids(g) \cup {Nowhere}, NEW y \in Ids(g) \cup {Nowhere}, Moved(keys, x) = Moved(keys, y)
  PROVE  x = y
<1>1. g.blocks \in Seq(Block) /\ \A i, j \in Blocks(g) : keys[Id(g, i)] = keys[Id(g, j)] => i = j
  BY DEF Drawable, KeysFit
<1>2. \A id \in Ids(g) : \E i \in Blocks(g) : id = Id(g, i)
  BY <1>1, BlocksAre
<1>3. \A a, b \in Ids(g) : keys[a] = keys[b] => a = b
  BY <1>1, <1>2
<1>4. (Moved(keys, x) = Nowhere <=> x = Nowhere) /\ (x # Nowhere => x \in Ids(g) /\ Moved(keys, x) = keys[x])
  BY MovedIs
<1>5. (Moved(keys, y) = Nowhere <=> y = Nowhere) /\ (y # Nowhere => y \in Ids(g) /\ Moved(keys, y) = keys[y])
  BY MovedIs
<1> QED BY <1>3, <1>4, <1>5

\* How the blocks that are read correspond to those of the drawing.
LEMMA OrderIs ==
  ASSUME NEW g, Drawable(g), NamesFit(g)
  PROVE  /\ FileOrder(g) \in [Blocks(g) -> Blocks(g)]
         /\ \A k, l \in Blocks(g) : FileOrder(g)[k] = FileOrder(g)[l] => k = l
         /\ \A i \in Blocks(g) : \E k \in Blocks(g) : FileOrder(g)[k] = i
         /\ FileOrder(g) \in Seq(Blocks(g)) /\ Len(FileOrder(g)) = Len(g.blocks) /\ Len(g.blocks) \in Nat
         /\ Blocks(ReadBack(g)) = Blocks(g) /\ Len(ReadBack(g).blocks) = Len(g.blocks)
         /\ ReadBack(g).blocks \in Seq(Block)
<1> DEFINE order == FileOrder(g)
           B == Blocks(g)
           h == ReadBack(g)
<1>1. g.blocks \in Seq(Block) /\ h.blocks \in Seq(Block) /\ Blocks(h) = B
  BY ReadIs DEF Read, Drawable
<1>2. Lists(order, B) /\ Len(order) = Len(g.blocks) /\ order \in Seq(B)
  BY FileHasEveryBlock
<1>3. Len(g.blocks) \in Nat /\ B = 1..Len(g.blocks)
  BY <1>1, BlocksAre DEF Blocks
<1>4. Len(h.blocks) = Len(g.blocks)
  <2>1. Len(h.blocks) \in Nat /\ 1..Len(h.blocks) = 1..Len(g.blocks)
    BY <1>1, <1>3, BlocksAre DEF Blocks
  <2> DEFINE m == Len(h.blocks)
             n == Len(g.blocks)
  <2>2. m \in Nat /\ n \in Nat /\ 1..m = 1..n
    BY <2>1, <1>3
  <2> HIDE DEF m, n
  <2>3. m \in 1..m <=> m \in 1..n
    BY <2>2
  <2>4. n \in 1..m <=> n \in 1..n
    BY <2>2
  <2>5. m = n
    BY <2>2, <2>3, <2>4
  <2> QED BY <2>5 DEF m, n
<1> HIDE DEF order, B, h
<1>5. order \in [B -> B]
  <2>1. order \in [1..Len(order) -> B]
    BY <1>2
  <2> QED BY <2>1, <1>2, <1>3
<1>6. /\ \A k, l \in B : order[k] = order[l] => k = l
      /\ \A i \in B : \E k \in B : order[k] = i
  BY <1>2, <1>3 DEF Lists
<1> QED BY <1>1, <1>2, <1>3, <1>4, <1>5, <1>6 DEF order, B, h

LEMMA ThroughInside ==
  ASSUME NEW g, Drawable(g), NamesFit(g), NEW id \in Ids(g) \cup {Nowhere}
  PROVE  /\ Inside(ReadBack(g), Moved(Identifiers(g), id)) \in Seq(Blocks(g))
         /\ Through(FileOrder(g), Inside(ReadBack(g), Moved(Identifiers(g), id))) = Inside(g, id)
<1> DEFINE keys == Identifiers(g)
           o == FileOrder(g)
           h == ReadBack(g)
           B == Blocks(g)
           s == Inside(h, Moved(keys, id))
           t == Through(o, s)
           u == Inside(g, id)
           U == InsideOf(g, id)
           S == InsideOf(h, Moved(keys, id))
<1>1. g.blocks \in Seq(Block) /\ KeysFit(g, keys) /\ RefersToIts(g) /\ Read(g, h)
  BY IdentifiersFit, ReadIs DEF Drawable
<1>2. /\ o \in [B -> B] /\ \A k, l \in B : o[k] = o[l] => k = l
      /\ \A i \in B : \E k \in B : o[k] = i
      /\ o \in Seq(B) /\ Blocks(h) = B /\ h.blocks \in Seq(Block) /\ Len(o) = Len(g.blocks)
  BY OrderIs
<1>3. /\ Lists(s, S) /\ s \in Seq(Nat) /\ Rising(s)
      /\ Lists(u, U) /\ u \in Seq(Nat) /\ Rising(u)
  BY <1>1, <1>2, InsideLists, InsideRises
<1>4. \A k \in B : o[k] \in B /\ h.blocks[k].parent = Moved(keys, g.blocks[o[k]].parent)
  BY <1>1 DEF Read, BlockRead
<1>5. \A i \in B : g.blocks[i].parent \in Ids(g) \cup {Nowhere}
  BY <1>1 DEF RefersToIts
<1>6. \A x \in Ids(g) \cup {Nowhere} : Moved(keys, x) = Moved(keys, id) => x = id
  BY <1>1, MovedApart
<1>7. InOrder(g, o)
  BY FileInOrder
<1> HIDE DEF keys, h, o, s, u
<1>8. \A k \in B : k \in S <=> o[k] \in U
  <2> TAKE k \in B
  <2> DEFINE x == g.blocks[o[k]].parent
             y == h.blocks[k].parent
  <2>1. o[k] \in B /\ x \in Ids(g) \cup {Nowhere} /\ y = Moved(keys, x)
    BY <1>4, <1>5
  <2>2. k \in S <=> y = Moved(keys, id)
    BY <1>2 DEF InsideOf
  <2>3. o[k] \in U <=> x = id
    BY <2>1 DEF InsideOf
  <2> HIDE DEF x, y, S, U
  <2>4. y = Moved(keys, id) <=> x = id
    BY <2>1, <1>6
  <2> QED BY <2>2, <2>3, <2>4
<1>9. S \subseteq B /\ U \subseteq B /\ B \subseteq Nat /\ B = 1..Len(o)
  BY <1>2 DEF InsideOf, Blocks
<1> DEFINE P(i) == g.blocks[i].parent
<1>10. \A i \in U : P(i) = id
  BY DEF InsideOf
<1>11. \A p, q \in B : p < q /\ P(o[p]) = P(o[q]) => o[p] < o[q]
  BY <1>7, <1>9 DEF InOrder
<1> HIDE DEF S, U, B, P
<1>12. s \in Seq(S) /\ Len(s) \in Nat /\ \A p \in 1..Len(s) : s[p] \in S
  BY <1>3, ListedAre
<1>13. s \in Seq(B)
  BY <1>9, <1>12, InLarger
<1>14. t \in Seq(B) /\ Len(t) = Len(s) /\ \A p \in 1..Len(s) : t[p] = o[s[p]]
  <2>1. o \in [B -> B]
    BY <1>2
  <2>2. t \in Seq(B) /\ Len(t) = Len(s)
    BY <2>1, <1>13, ThroughIs, Zenon
  <2>3. \A p \in 1..Len(s) : t[p] = o[s[p]]
    BY DEF Through
  <2> QED BY <2>2, <2>3
<1> HIDE DEF t
<1>15. \A p \in 1..Len(s) : t[p] \in U /\ s[p] \in B
  BY <1>8, <1>9, <1>12, <1>14
<1>16. t \in Seq(U)
  <2>1. t \in [1..Len(s) -> U]
    <3>1. t = [p \in 1..Len(s) |-> t[p]]
      BY <1>14
    <3> QED BY <3>1, <1>15
  <2> QED BY <2>1, <1>12
<1>17. Lists(t, U)
  <2>1. \A x \in U : \E p \in 1..Len(t) : t[p] = x
    <3> TAKE x \in U
    <3>1. PICK k \in B : o[k] = x
      BY <1>2, <1>9
    <3>2. k \in S
      BY <3>1, <1>8
    <3>3. PICK p \in 1..Len(s) : s[p] = k
      BY <3>2, <1>3 DEF Lists
    <3> QED BY <3>1, <3>3, <1>14
  <2>2. \A p, q \in 1..Len(t) : t[p] = t[q] => p = q
    <3> SUFFICES ASSUME NEW p \in 1..Len(s), NEW q \in 1..Len(s), t[p] = t[q] PROVE p = q
      BY <1>14
    <3>1. s[p] = s[q]
      <4>1. s[p] \in B /\ s[q] \in B
        BY <1>15
      <4>2. o[s[p]] = o[s[q]]
        BY <1>14
      <4>3. \A k, l \in B : o[k] = o[l] => k = l
        BY <1>2
      <4> QED BY <4>1, <4>2, <4>3
    <3> QED BY <3>1, <1>3 DEF Lists
  <2> QED BY <2>1, <2>2, <1>16 DEF Lists
<1>18. Rising(t)
  <2> SUFFICES ASSUME NEW p \in 1..Len(s), NEW q \in 1..Len(s), p < q PROVE t[p] < t[q]
    BY <1>14 DEF Rising
  <2>1. s[p] \in B /\ s[q] \in B /\ s[p] < s[q]
    BY <1>3, <1>15 DEF Rising
  <2>2. P(o[s[p]]) = P(o[s[q]])
    BY <1>10, <1>14, <1>15
  <2> QED BY <2>1, <2>2, <1>11, <1>14
<1>19. t \in Seq(Nat)
  BY <1>9, <1>14
<1>20. t = u
  BY <1>3, <1>17, <1>18, <1>19, OneRisingList
<1> QED BY <1>13, <1>20 DEF t, s, u, o, h, keys, B

LEMMA ThroughEmitted ==
  ASSUME NEW g, Drawable(g), NamesFit(g)
  PROVE  Through(FileOrder(g), FileOrder(ReadBack(g))) = FileOrder(g)
<1> DEFINE keys == Identifiers(g)
           o == FileOrder(g)
           h == ReadBack(g)
           B == Blocks(g)
           n == Len(g.blocks)
           u == Emitted(g)
           v == Emitted(h)
           Alike(q, r) == /\ r.done \in Seq(B) /\ r.todo \in Seq(B)
                          /\ Through(o, r.done) = q.done /\ Through(o, r.todo) = q.todo
           T == {k \in 0..n : Alike(u[k], v[k])}
<1>1. g.blocks \in Seq(Block) /\ KeysFit(g, keys) /\ Read(g, h)
  BY IdentifiersFit, ReadIs DEF Drawable
<1>2. o \in [B -> B] /\ h.blocks \in Seq(Block) /\ Len(h.blocks) = n /\ n \in Nat
  BY OrderIs
<1>3. /\ u[0] = [done |-> <<>>, todo |-> Inside(g, Nowhere)]
      /\ \A k \in 1..n : u[k] = EmitNode(g, u[k - 1])
  BY <1>1, EmittedSteps, Zenon
<1>4. /\ v[0] = [done |-> <<>>, todo |-> Inside(h, Nowhere)]
      /\ \A k \in 1..n : v[k] = EmitNode(h, v[k - 1])
  <2>1. /\ v[0] = [done |-> <<>>, todo |-> Inside(h, Nowhere)]
        /\ \A k \in 1..Len(h.blocks) : v[k] = EmitNode(h, v[k - 1])
    BY <1>2, EmittedSteps, Zenon
  <2> HIDE DEF v, h
  <2> QED BY <2>1, <1>2
<1>5. \A id \in Ids(g) \cup {Nowhere} :
        Inside(h, Moved(keys, id)) \in Seq(B) /\ Through(o, Inside(h, Moved(keys, id))) = Inside(g, id)
  BY ThroughInside
<1>6. \A i \in B : Id(g, i) \in Ids(g) /\ Id(g, i) # Nowhere
  BY <1>1, BlocksAre
<1>7. \A k \in B : o[k] \in B /\ Id(h, k) = keys[Id(g, o[k])]
  BY <1>1 DEF Read, BlockRead
<1> HIDE DEF keys, o, h, B, n, u, v
<1>8. GoesThrough(o, B)
  <2>1. o \in [B -> B]
    BY <1>2
  <2> QED BY <2>1, ThroughSteps
<1>9. Alike(u[0], v[0])
  <2> DEFINE w == Inside(h, Nowhere)
             e == <<>>
  <2>1. w \in Seq(B) /\ Through(o, w) = Inside(g, Nowhere)
    <3>1. Moved(keys, Nowhere) = Nowhere
      BY DEF Moved
    <3> QED BY <3>1, <1>5
  <2>2. e \in Seq(B)
    OBVIOUS
  <2>3. Through(o, e) = e
    <3>1. Through(o, e) = <<>> <=> e = <<>>
      BY <1>8, <2>2, Zenon DEF GoesThrough
    <3> QED BY <3>1
  <2>4. v[0].done = e /\ v[0].todo = w /\ u[0].done = e /\ u[0].todo = Inside(g, Nowhere)
    BY <1>3, <1>4
  <2> HIDE DEF w, e
  <2> QED BY <2>1, <2>2, <2>3, <2>4
<1>10. ASSUME NEW q, NEW r, Alike(q, r)
      PROVE  Alike(EmitNode(g, q), EmitNode(h, r))
  <2> DEFINE d == r.done
             w == r.todo
  <2>1. d \in Seq(B) /\ w \in Seq(B) /\ Through(o, d) = q.done /\ Through(o, w) = q.todo
    BY <1>10
  <2> HIDE DEF d, w
  <2>2. q.todo = <<>> <=> w = <<>>
    <3>1. Through(o, w) = <<>> <=> w = <<>>
      BY <1>8, <2>1, Zenon DEF GoesThrough
    <3> QED BY <3>1, <2>1
  <2>3. CASE w = <<>>
    BY <1>10, <2>2, <2>3 DEF EmitNode, w
  <2>4. CASE w # <<>>
    <3> DEFINE x == Head(w)
               tail == Tail(w)
               ch == Inside(h, Id(h, x))
    <3>1. x \in B /\ tail \in Seq(B)
      BY <2>1, <2>4, HeadAndTail
    <3>2. Head(q.todo) = o[x] /\ Through(o, tail) = Tail(q.todo)
      <4>1. Head(Through(o, w)) = o[Head(w)] /\ Through(o, Tail(w)) = Tail(Through(o, w))
        BY <1>8, <2>1, <2>4, Zenon DEF GoesThrough
      <4> QED BY <4>1, <2>1
    <3>3. /\ EmitNode(h, r).done = Append(d, x) /\ EmitNode(h, r).todo = ch \o tail
          /\ EmitNode(g, q).done = Append(q.done, o[x])
          /\ EmitNode(g, q).todo = Inside(g, Id(g, o[x])) \o Tail(q.todo)
      BY <2>2, <2>4, <3>2 DEF EmitNode, Id, d, w
    <3> HIDE DEF x, tail
    <3>4. ch \in Seq(B) /\ Through(o, ch) = Inside(g, Id(g, o[x]))
      <4>1. o[x] \in B /\ Id(h, x) = keys[Id(g, o[x])]
        BY <3>1, <1>7
      <4>2. Id(g, o[x]) \in Ids(g) \cup {Nowhere} /\ Moved(keys, Id(g, o[x])) = Id(h, x)
        BY <4>1, <1>6 DEF Moved
      <4> QED BY <4>2, <1>5
    <3> HIDE DEF ch
    <3>5. Append(d, x) \in Seq(B) /\ ch \o tail \in Seq(B)
      BY <2>1, <3>1, <3>4, Joined, Appended
    <3>6. Through(o, Append(d, x)) = Append(q.done, o[x])
      <4>1. Through(o, Append(d, x)) = Append(Through(o, d), o[x])
        BY <1>8, <2>1, <3>1, Zenon DEF GoesThrough
      <4> QED BY <4>1, <2>1
    <3>7. Through(o, ch \o tail) = Inside(g, Id(g, o[x])) \o Tail(q.todo)
      <4>1. Through(o, ch \o tail) = Through(o, ch) \o Through(o, tail)
        BY <1>8, <3>1, <3>4, Zenon DEF GoesThrough
      <4> QED BY <4>1, <3>2, <3>4
    <3> QED BY <3>3, <3>5, <3>6, <3>7
  <2> QED BY <2>3, <2>4
<1>11. n \in T
  <2>1. T \in SUBSET (0..n) /\ n \in 0..n /\ 0 \in T
    <3> HIDE DEF Alike
    <3> QED BY <1>2, <1>9
  <2>2. ASSUME NEW k \in 1..n, k - 1 \in T PROVE k \in T
    <3> HIDE DEF Alike
    <3>1. Alike(EmitNode(g, u[k - 1]), EmitNode(h, v[k - 1]))
      BY <2>2, <1>10
    <3>2. u[k] = EmitNode(g, u[k - 1]) /\ v[k] = EmitNode(h, v[k - 1])
      BY <1>3, <1>4
    <3> QED BY <3>1, <3>2
  <2> HIDE DEF T
  <2> QED BY <1>2, <2>1, <2>2, UpTo
<1>12. Through(o, v[n].done) = u[n].done
  BY <1>11
<1>13. u[n].done = o /\ v[n].done = FileOrder(h)
  BY <1>2 DEF FileOrder, u, v, o, n
<1> QED BY <1>12, <1>13 DEF o, h

\* So the file's order of it is its own.
LEMMA FileKeepsOrder ==
  ASSUME NEW g, Drawable(g), NamesFit(g)
  PROVE  \A k \in Blocks(g) : FileOrder(ReadBack(g))[k] = k
<1> DEFINE o == FileOrder(g)
           h == ReadBack(g)
           f == FileOrder(h)
           B == Blocks(g)
<1>1. /\ o \in [B -> B] /\ \A k, l \in B : o[k] = o[l] => k = l
      /\ Len(o) = Len(g.blocks) /\ Len(h.blocks) = Len(g.blocks) /\ Blocks(h) = B
  BY OrderIs
<1>2. Drawable(h) /\ NamesFit(h)
  BY ReadIsDrawable, ReadNamesFit
<1>3. f \in [B -> B] /\ Len(f) = Len(h.blocks)
  <2>1. f \in [Blocks(h) -> Blocks(h)] /\ Len(f) = Len(h.blocks)
    BY <1>2, OrderIs
  <2> HIDE DEF f, h
  <2> QED BY <2>1, <1>1
<1>4. Through(o, f) = o
  BY ThroughEmitted
<1>5. 1..Len(f) = B
  BY <1>1, <1>3 DEF Blocks
<1> HIDE DEF o, f, h, B
<1>6. \A k \in B : o[f[k]] = o[k]
  <2> TAKE k \in B
  <2>1. Through(o, f)[k] = o[f[k]]
    BY <1>5 DEF Through
  <2> QED BY <2>1, <1>4
<1>7. \A k \in B : f[k] = k
  BY <1>1, <1>3, <1>6
<1> QED BY <1>7 DEF f, h, B

-----------------------------------------------------------------------------
(***************************************************************************)
(* Reading and saving once more.  Identifiers depend on the names of the   *)
(* blocks and their order only, so a graph that was read is given its own. *)
(***************************************************************************)
GivenAlike(g, h, q, r, k) ==
  /\ \A x : UsedCount(q.used, x) = UsedCount(r.used, x)
  /\ \A i \in 1..k : /\ Id(g, i) \in DOMAIN q.keys /\ Id(h, i) \in DOMAIN r.keys
                     /\ q.keys[Id(g, i)] = r.keys[Id(h, i)]

\* What a block of this slug and id changes.
Gives(q, b, slug, id) ==
  LET key == Identifier(q.used, slug)
      r   == GiveOut(q, b)
  IN /\ \A x : UsedCount(r.used, x) =
                 IF x = key THEN 1 ELSE IF x = slug THEN UsedCount(q.used, slug) + 1 ELSE UsedCount(q.used, x)
     /\ DOMAIN r.keys = DOMAIN q.keys \cup {id}
     /\ r.keys[id] = key
     /\ \A other \in DOMAIN q.keys \ {id} : r.keys[other] = q.keys[other]

LEMMA GiveOutGivesTo ==
  ASSUME NEW q \in Given, NEW b \in Block, NEW slug \in Slugs, slug = SlugOf(b.name), NEW id, id = b.id
  PROVE  Gives(q, b, slug, id)
<1>1. /\ \A x : UsedCount(GiveOut(q, b).used, x) =
                  IF x = Identifier(q.used, SlugOf(b.name)) THEN 1
                  ELSE IF x = SlugOf(b.name) THEN UsedCount(q.used, SlugOf(b.name)) + 1
                  ELSE UsedCount(q.used, x)
      /\ DOMAIN GiveOut(q, b).keys = DOMAIN q.keys \cup {b.id}
      /\ GiveOut(q, b).keys[b.id] = Identifier(q.used, SlugOf(b.name))
      /\ \A other \in DOMAIN q.keys \ {b.id} : GiveOut(q, b).keys[other] = q.keys[other]
  <2>1. SlugOf(b.name) \in Slugs
    OBVIOUS
  <2> QED BY <2>1, GiveOutGives
<1> QED BY <1>1 DEF Gives

LEMMA GiveOutAlike ==
  ASSUME NEW g, g.blocks \in Seq(Block), IdsAreOwn(g), NamesFit(g),
         NEW h, h.blocks \in Seq(Block), IdsAreOwn(h), NamesFit(h),
         Blocks(h) = Blocks(g), NEW k \in Blocks(g), SlugAt(h, k) = SlugAt(g, k),
         NEW q \in Given, NEW r \in Given, GivenAlike(g, h, q, r, k - 1)
  PROVE  GivenAlike(g, h, GiveOut(q, g.blocks[k]), GiveOut(r, h.blocks[k]), k)
<1> DEFINE slug == SlugAt(g, k)
           key  == Identifier(q.used, slug)
           q1   == GiveOut(q, g.blocks[k])
           r1   == GiveOut(r, h.blocks[k])
<1>1. /\ k \in Nat \ {0} /\ 1..k \subseteq Blocks(g) /\ 1..k = (1..(k - 1)) \cup {k} /\ k \notin 1..(k - 1)
      /\ g.blocks[k] \in Block /\ h.blocks[k] \in Block
      /\ SlugOf(g.blocks[k].name) = slug /\ SlugOf(h.blocks[k].name) = slug /\ slug \in Slugs
  <2>1. Len(g.blocks) \in Nat /\ g.blocks[k] \in Block /\ h.blocks[k] \in Block
    BY BlocksAre
  <2> QED BY <2>1, SlugAtIs DEF Blocks, SlugAt
<1>2. /\ \A x : UsedCount(q1.used, x) =
                  IF x = key THEN 1 ELSE IF x = slug THEN UsedCount(q.used, slug) + 1 ELSE UsedCount(q.used, x)
      /\ DOMAIN q1.keys = DOMAIN q.keys \cup {Id(g, k)}
      /\ q1.keys[Id(g, k)] = key
      /\ \A id \in DOMAIN q.keys \ {Id(g, k)} : q1.keys[id] = q.keys[id]
  <2>1. Gives(q, g.blocks[k], slug, Id(g, k))
    BY <1>1, GiveOutGivesTo DEF Id
  <2> QED BY <2>1 DEF Gives
<1>3. key = Identifier(r.used, slug)
  BY DEF Identifier, GivenAlike
<1>4. /\ \A x : UsedCount(r1.used, x) =
                  IF x = key THEN 1 ELSE IF x = slug THEN UsedCount(r.used, slug) + 1 ELSE UsedCount(r.used, x)
      /\ DOMAIN r1.keys = DOMAIN r.keys \cup {Id(h, k)}
      /\ r1.keys[Id(h, k)] = key
      /\ \A id \in DOMAIN r.keys \ {Id(h, k)} : r1.keys[id] = r.keys[id]
  <2>1. Gives(r, h.blocks[k], slug, Id(h, k))
    BY <1>1, GiveOutGivesTo DEF Id
  <2> QED BY <2>1, <1>3 DEF Gives
<1> HIDE DEF slug, key, q1, r1
<1>5. \A x : UsedCount(q1.used, x) = UsedCount(r1.used, x)
  BY <1>2, <1>4 DEF GivenAlike
<1>6. \A i \in 1..(k - 1) : Id(g, i) # Id(g, k) /\ Id(h, i) # Id(h, k)
  BY <1>1 DEF IdsAreOwn
<1>7. ASSUME NEW i \in 1..k
      PROVE  Id(g, i) \in DOMAIN q1.keys /\ Id(h, i) \in DOMAIN r1.keys /\ q1.keys[Id(g, i)] = r1.keys[Id(h, i)]
  <2>1. CASE i = k
    BY <2>1, <1>2, <1>4
  <2>2. CASE i # k
    <3>1. i \in 1..(k - 1)
      BY <1>1, <2>2
    <3> QED BY <3>1, <1>2, <1>4, <1>6 DEF GivenAlike
  <2> QED BY <2>1, <2>2
<1> QED BY <1>5, <1>7 DEF GivenAlike, q1, r1

LEMMA NamesOnly ==
  ASSUME NEW g, Drawable(g), NamesFit(g), NEW h, Drawable(h), NamesFit(h),
         Len(h.blocks) = Len(g.blocks), \A k \in Blocks(g) : SlugAt(h, k) = SlugAt(g, k)
  PROVE  \A k \in Blocks(g) : Identifiers(h)[Id(h, k)] = Identifiers(g)[Id(g, k)]
<1> DEFINE n == Len(g.blocks)
           u == GivenOut(g)
           v == GivenOut(h)
           T == {k \in 0..n : GivenAlike(g, h, u[k], v[k], k)}
<1>1. /\ g.blocks \in Seq(Block) /\ IdsAreOwn(g) /\ h.blocks \in Seq(Block) /\ IdsAreOwn(h)
      /\ n \in Nat /\ Blocks(g) = 1..n /\ Blocks(h) = Blocks(g)
  BY DEF Drawable, Blocks
<1>2. /\ u \in [0..n -> Given] /\ u[0] = [used |-> <<>>, keys |-> <<>>]
      /\ \A k \in 1..n : u[k] = GiveOut(u[k - 1], g.blocks[k])
  BY <1>1, GivenSteps, Zenon
<1>3. /\ v \in [0..n -> Given] /\ v[0] = [used |-> <<>>, keys |-> <<>>]
      /\ \A k \in 1..n : v[k] = GiveOut(v[k - 1], h.blocks[k])
  <2>1. /\ v \in [0..Len(h.blocks) -> Given] /\ v[0] = [used |-> <<>>, keys |-> <<>>]
        /\ \A k \in 1..Len(h.blocks) : v[k] = GiveOut(v[k - 1], h.blocks[k])
    BY <1>1, GivenSteps, Zenon
  <2> HIDE DEF v
  <2> QED BY <2>1
<1>4. Identifiers(g) = u[n].keys /\ Identifiers(h) = v[n].keys
  BY Zenon DEF Identifiers
<1> HIDE DEF u, v, n
<1>5. 0 \in T
  <2>1. GivenAlike(g, h, u[0], v[0], 0)
    BY <1>2, <1>3 DEF GivenAlike
  <2> QED BY <1>1, <2>1
<1>6. ASSUME NEW k \in 1..n, k - 1 \in T PROVE k \in T
  <2>1. u[k - 1] \in Given /\ v[k - 1] \in Given /\ k \in Blocks(g) /\ GivenAlike(g, h, u[k - 1], v[k - 1], k - 1)
    BY <1>1, <1>2, <1>3, <1>6
  <2>2. GivenAlike(g, h, GiveOut(u[k - 1], g.blocks[k]), GiveOut(v[k - 1], h.blocks[k]), k)
    BY <1>1, <2>1, GiveOutAlike
  <2> QED BY <1>2, <1>3, <2>2
<1>7. n \in T
  <2>1. T \in SUBSET (0..n) /\ n \in 0..n
    BY <1>1
  <2> HIDE DEF T
  <2> QED BY <2>1, <1>1, <1>5, <1>6, UpTo
<1>8. GivenAlike(g, h, u[n], v[n], n)
  BY <1>7
<1> QED BY <1>1, <1>4, <1>8 DEF GivenAlike

\* What was read and written in the order of the file is written the same again.
Written(g) ==
  /\ Drawable(g) /\ NamesFit(g)
  /\ \A k \in Blocks(g) : FileOrder(g)[k] = k /\ g.blocks[k].name # Blank

LEMMA ReadIsWritten ==
  ASSUME NEW g, Drawable(g), NamesFit(g)
  PROVE  Written(ReadBack(g))
<1> DEFINE h == ReadBack(g)
           o == FileOrder(g)
           f == FileOrder(h)
<1>1. Drawable(h) /\ NamesFit(h)
  BY ReadIsDrawable, ReadNamesFit
<1>2. \A k \in Blocks(g) : f[k] = k
  BY FileKeepsOrder
<1>3. Blocks(h) = Blocks(g) /\ \A k \in Blocks(g) : BlockRead(g, h, k, o[k])
  BY ReadIs DEF Read
<1>4. g.blocks \in Seq(Block) /\ KeysFit(g, Identifiers(g))
  BY IdentifiersFit DEF Drawable
<1> HIDE DEF h, f, o
<1>5. ASSUME NEW k \in Blocks(g) PROVE h.blocks[k].name # Blank
  <2>1. o[k] \in Blocks(g) /\ h.blocks[k].name = NameRead(g, o[k])
    BY <1>3 DEF BlockRead
  <2>2. Identifiers(g)[Id(g, o[k])] # Nowhere
    BY <1>4, <2>1, BlocksAre DEF KeysFit
  <2> QED BY <2>1, <2>2 DEF NameRead, Blank
<1> QED BY <1>1, <1>2, <1>3, <1>5 DEF Written, h, f

LEMMA KeepsItsIdentifiers ==
  ASSUME NEW g, Written(g)
  PROVE  \A id \in Ids(ReadBack(g)) \cup {Nowhere} : Moved(Identifiers(ReadBack(g)), id) = id
<1> DEFINE h    == ReadBack(g)
           keys == Identifiers(g)
           own  == Identifiers(h)
<1>1. Drawable(g) /\ NamesFit(g) /\ g.blocks \in Seq(Block)
  BY DEF Written, Drawable
<1>2. Drawable(h) /\ NamesFit(h) /\ h.blocks \in Seq(Block)
  BY <1>1, ReadIsDrawable, ReadNamesFit DEF Drawable
<1>3. /\ Blocks(h) = Blocks(g) /\ Len(h.blocks) = Len(g.blocks)
      /\ \A k \in Blocks(g) : BlockRead(g, h, k, k)
  <2>1. Blocks(h) = Blocks(g) /\ \A k \in Blocks(g) : BlockRead(g, h, k, FileOrder(g)[k])
    BY <1>1, ReadIs DEF Read
  <2>2. Len(h.blocks) = Len(g.blocks)
    BY <1>1, OrderIs
  <2> QED BY <2>1, <2>2 DEF Written
<1>4. \A k \in Blocks(g) : own[Id(h, k)] = keys[Id(g, k)]
  <2>1. \A k \in Blocks(g) : SlugAt(h, k) = SlugAt(g, k)
    <3> HIDE DEF h
    <3> QED BY <1>3 DEF SlugAt, BlockRead, NameRead, Written
  <2> HIDE DEF h
  <2> QED BY <1>1, <1>2, <1>3, <2>1, NamesOnly
<1> HIDE DEF h, keys, own
<1>5. \A k \in Blocks(g) : own[Id(h, k)] = Id(h, k)
  BY <1>3, <1>4 DEF BlockRead, keys
<1>6. \A id \in Ids(h) : own[id] = id
  BY <1>2, <1>3, <1>5, BlocksAre
<1>7. \A id \in Ids(h) \cup {Nowhere} : Moved(own, id) = id
  BY <1>6 DEF Moved
<1> QED BY <1>7 DEF h, own

LEMMA EntryAgain ==
  ASSUME NEW g, Written(g), NEW k \in Blocks(g)
  PROVE  Entry(ReadBack(g), Identifiers(ReadBack(g)), ReadBack(g).blocks[k]) = Entry(g, Identifiers(g), g.blocks[k])
<1> DEFINE h    == ReadBack(g)
           keys == Identifiers(g)
           own  == Identifiers(h)
           d    == Entry(h, own, h.blocks[k])
           e    == Entry(g, keys, g.blocks[k])
           into == Into(g, Id(g, k))
           back == Into(h, Id(h, k))
<1>1. Drawable(g) /\ NamesFit(g) /\ g.blocks \in Seq(Block) /\ RefersToIts(g) /\ g.arrows \in Seq(Arrow)
  BY DEF Written, Drawable
<1>2. Drawable(h) /\ NamesFit(h) /\ h.blocks \in Seq(Block) /\ RefersToIts(h)
  BY <1>1, ReadIsDrawable, ReadNamesFit DEF Drawable
<1>3. Blocks(h) = Blocks(g) /\ BlockRead(g, h, k, k)
  <2>1. Blocks(h) = Blocks(g) /\ BlockRead(g, h, k, FileOrder(g)[k])
    BY <1>1, ReadIs DEF Read
  <2> QED BY <2>1 DEF Written
<1>4. EntryFits(g, keys, k) /\ EntryFits(h, own, k)
  <2>1. KeysFit(g, keys) /\ KeysFit(h, own)
    BY <1>1, <1>2, IdentifiersFit
  <2>2. EntryFits(g, keys, k)
    BY <1>1, <2>1, EntryIs
  <2>3. EntryFits(h, own, k)
    <3> HIDE DEF h, own
    <3> QED BY <1>2, <1>3, <2>1, EntryIs
  <2> QED BY <2>2, <2>3
<1>5. \A id \in Ids(h) \cup {Nowhere} : Moved(own, id) = id
  BY KeepsItsIdentifiers
<1>6. Id(g, k) \in Ids(g) /\ Id(h, k) \in Ids(h)
  <2> HIDE DEF h
  <2> QED BY <1>1, <1>2, <1>3, BlocksAre
<1>7. back = [l \in DOMAIN into |-> [from |-> keys[into[l].from], to |-> keys[Id(g, k)], port |-> into[l].port]]
  <2>1. Id(h, k) = keys[Id(g, k)]
    BY <1>3 DEF BlockRead
  <2>2. Into(h, keys[Id(g, k)]) =
          [l \in DOMAIN into |-> [from |-> keys[into[l].from], to |-> keys[Id(g, k)], port |-> into[l].port]]
    BY <1>1, <1>6, ReadInto, Zenon
  <2> QED BY <2>1, <2>2, Zenon
<1>8. /\ d.key = own[Id(h, k)]
      /\ d.name = IF h.blocks[k].name = [slug |-> d.key, plain |-> TRUE] THEN Blank ELSE h.blocks[k].name
      /\ d.parent = Moved(own, h.blocks[k].parent) /\ d.until = Moved(own, h.blocks[k].until)
      /\ d.needs = [l \in DOMAIN back |-> [from |-> own[back[l].from], port |-> back[l].port]]
      /\ \A l \in DOMAIN back : back[l].from \in Ids(h)
  BY <1>4, Zenon DEF EntryFits
<1>9. /\ e.key = keys[Id(g, k)]
      /\ e.name = IF g.blocks[k].name = [slug |-> e.key, plain |-> TRUE] THEN Blank ELSE g.blocks[k].name
      /\ e.parent = Moved(keys, g.blocks[k].parent) /\ e.until = Moved(keys, g.blocks[k].until)
      /\ e.needs = [l \in DOMAIN into |-> [from |-> keys[into[l].from], port |-> into[l].port]]
  BY <1>4, Zenon DEF EntryFits
<1>10. /\ d = [key |-> d.key, name |-> d.name, parent |-> d.parent, until |-> d.until, needs |-> d.needs]
       /\ e = [key |-> e.key, name |-> e.name, parent |-> e.parent, until |-> e.until, needs |-> e.needs]
  BY DEF Entry
<1> HIDE DEF h, keys, own, d, e, into, back
<1>11. \A id \in Ids(h) : own[id] = id
  <2>1. Nowhere \notin Ids(h)
    BY <1>2, BlocksAre
  <2> QED BY <1>5, <2>1 DEF Moved
<1>12. /\ Id(h, k) = keys[Id(g, k)] /\ h.blocks[k].name = g.blocks[k].name
       /\ h.blocks[k].parent = Moved(keys, g.blocks[k].parent)
       /\ h.blocks[k].until = Moved(keys, g.blocks[k].until)
  BY <1>3 DEF BlockRead, NameRead, Written, keys
<1>13. d.key = e.key
  BY <1>6, <1>8, <1>9, <1>11, <1>12
<1>14. d.name = e.name
  BY <1>8, <1>9, <1>12, <1>13
<1>15. d.parent = e.parent /\ d.until = e.until
  <2>1. h.blocks[k].parent \in Ids(h) \cup {Nowhere} /\ h.blocks[k].until \in Ids(h) \cup {Nowhere}
    BY <1>2, <1>3 DEF RefersToIts
  <2> QED BY <2>1, <1>5, <1>8, <1>9, <1>12
<1>16. d.needs = e.needs
  <2>1. DOMAIN back = DOMAIN into
    BY <1>7
  <2>2. \A l \in DOMAIN into : back[l].from = keys[into[l].from] /\ back[l].port = into[l].port
    BY <1>7
  <2>3. \A l \in DOMAIN into : own[back[l].from] = keys[into[l].from]
    BY <2>1, <2>2, <1>8, <1>11
  <2> QED BY <2>1, <2>2, <2>3, <1>8, <1>9
<1>17. d = e
  BY <1>10, <1>13, <1>14, <1>15, <1>16, Zenon
<1> QED BY <1>17 DEF d, e, h, own, keys

LEMMA WrittenAgain ==
  ASSUME NEW g, Written(g)
  PROVE  BuildWorkflowYAML(ReadBack(g)) = BuildWorkflowYAML(g)
<1> DEFINE h == ReadBack(g)
           D == BuildWorkflowYAML(h)
           E == BuildWorkflowYAML(g)
<1>1. Drawable(g) /\ NamesFit(g) /\ Drawable(h) /\ NamesFit(h) /\ Blocks(h) = Blocks(g)
  <2>1. Drawable(g) /\ NamesFit(g)
    BY DEF Written
  <2> QED BY <2>1, ReadIsDrawable, ReadNamesFit, ReadIs DEF Read
<1>2. /\ DOMAIN E = Blocks(g)
      /\ \A k \in Blocks(g) : E[k] = Entry(g, Identifiers(g), g.blocks[FileOrder(g)[k]])
  BY <1>1, FileIs
<1>3. /\ DOMAIN D = Blocks(g)
      /\ \A k \in Blocks(g) : D[k] = Entry(h, Identifiers(h), h.blocks[FileOrder(h)[k]])
  <2>1. /\ DOMAIN D = Blocks(h)
        /\ \A k \in Blocks(h) : D[k] = Entry(h, Identifiers(h), h.blocks[FileOrder(h)[k]])
    <3> HIDE DEF h
    <3> QED BY <1>1, FileIs
  <2> HIDE DEF h, D
  <2> QED BY <1>1, <2>1
<1>4. \A k \in Blocks(g) : FileOrder(g)[k] = k /\ FileOrder(h)[k] = k
  BY <1>1, FileKeepsOrder DEF Written
<1>5. \A k \in Blocks(g) : Entry(h, Identifiers(h), h.blocks[k]) = Entry(g, Identifiers(g), g.blocks[k])
  BY EntryAgain, Zenon
<1>6. D = [k \in Blocks(g) |-> D[k]] /\ E = [k \in Blocks(g) |-> E[k]]
  <2>1. D = [k \in DOMAIN D |-> D[k]] /\ E = [k \in DOMAIN E |-> E[k]]
    BY DEF BuildWorkflowYAML
  <2> HIDE DEF D, E, h
  <2> QED BY <1>2, <1>3, <2>1
<1> HIDE DEF h, D, E
<1>7. \A k \in Blocks(g) : D[k] = E[k]
  BY <1>2, <1>3, <1>4, <1>5
<1>8. D = E
  BY <1>6, <1>7, Zenon
<1> QED BY <1>8 DEF D, E, h

\* The drawing, what is read of it, and what is read of that: everything after
\* the first reading is saved as the same file.
Readings(g) == {g, ReadBack(g), ReadBack(ReadBack(g))}
FileOf(g)   == BuildWorkflowYAML(ReadBack(g))

SettlesOn(g) ==
  /\ Drawable(g) /\ NamesFit(g) /\ Uuid(1) \in Ids(g) /\ 1 \in 1..MaxBlocks
  /\ graph \in Readings(g)
  /\ file # <<>> => saved \in Readings(g) /\ file = BuildWorkflowYAML(saved)
  /\ settled => file = FileOf(g)

LEMMA ReadingsAre ==
  ASSUME NEW g, Drawable(g), NamesFit(g), NEW x \in Readings(g)
  PROVE  /\ ReadBack(x) \in Readings(g)
         /\ x # g => BuildWorkflowYAML(x) = FileOf(g)
         /\ BuildWorkflowYAML(ReadBack(x)) = FileOf(g)
<1> DEFINE h == ReadBack(g)
           i == ReadBack(h)
<1>1. BuildWorkflowYAML(i) = BuildWorkflowYAML(h)
  BY ReadIsWritten, WrittenAgain
<1>2. ReadBack(i) = i
  BY <1>1 DEF ReadBack
<1>3. x = g \/ x = h \/ x = i
  BY DEF Readings
<1> HIDE DEF h, i
<1>4. i = ReadBack(h) /\ h = ReadBack(g) /\ Readings(g) = {g, h, i} /\ FileOf(g) = BuildWorkflowYAML(h)
  BY DEF h, i, Readings, FileOf
<1> QED BY <1>1, <1>2, <1>3, <1>4

LEMMA SettlesInit ==
  ASSUME SuffixesAreFree, Init
  PROVE  \E g : SettlesOn(g)
<1>1. Drawable(graph) /\ NamesFit(graph)
  BY KeptInit DEF Kept
<1>2. PICK n \in 1..MaxBlocks, m \in 0..MaxLinks :
        \E parents \in {p \in [1..n -> 0..n] : Nested(p)} :
          \E arrows \in {a \in [1..m -> Joining(n)] : Apart(a)},
             untils \in Ending(n, MaxLinks - m),
             names \in [1..n -> Names] :
            graph = Drawn(names, parents, arrows, untils)
  BY DEF Init
<1>3. MaxBlocks \in Nat /\ 1 \in 1..n /\ 1 \in 1..MaxBlocks
  BY BoundAssumption
<1>4. PICK parents \in {p \in [1..n -> 0..n] : Nested(p)} :
        \E arrows \in {a \in [1..m -> Joining(n)] : Apart(a)},
           untils \in Ending(n, MaxLinks - m),
           names \in [1..n -> Names] :
          graph = Drawn(names, parents, arrows, untils)
  BY <1>2, Zenon
<1>5. PICK arrows \in [1..m -> Joining(n)], untils \in [1..n -> 0..n], names \in [1..n -> Names] :
        graph = Drawn(names, parents, arrows, untils)
  BY <1>4 DEF Ending
<1>6. 1 \in DOMAIN graph.blocks /\ graph.blocks[1].id = Uuid(1)
  BY <1>3, <1>5 DEF Drawn
<1>7. Uuid(1) \in Ids(graph)
  BY <1>6 DEF Ids
<1>8. SettlesOn(graph)
  BY <1>1, <1>3, <1>7 DEF SettlesOn, Init, Readings
<1> QED BY <1>8

LEMMA SettlesNext ==
  ASSUME NEW g, SettlesOn(g), [Next]_vars
  PROVE  SettlesOn(g)'
<1>1. Drawable(g) /\ NamesFit(g) /\ Uuid(1) \in Ids(g) /\ 1 \in 1..MaxBlocks
  BY DEF SettlesOn
<1>2. \A x \in Readings(g) : /\ ReadBack(x) \in Readings(g)
                             /\ x # g => BuildWorkflowYAML(x) = FileOf(g)
                             /\ BuildWorkflowYAML(ReadBack(x)) = FileOf(g)
  BY <1>1, ReadingsAre
<1>3. CASE Save
  <2>1. graph \in Readings(g) /\ graph' = graph /\ saved' = graph /\ file' = BuildWorkflowYAML(graph)
    BY <1>3 DEF Save, SettlesOn
  <2>2. settled' => graph # g
    BY <1>1, <1>3 DEF Save
  <2> QED BY <1>1, <1>2, <2>1, <2>2 DEF SettlesOn
<1>4. CASE Open
  <2>1. /\ file # <<>> /\ saved \in Readings(g) /\ graph' = ReadBack(saved)
        /\ file' = file /\ saved' = saved /\ settled' = settled
    BY <1>4 DEF Open, SettlesOn, ReadBack
  <2> QED BY <1>1, <1>2, <2>1 DEF SettlesOn
<1>5. CASE SetSchedule
  <2>1. /\ saved \in Readings(g) /\ saved' = ReadBack(saved) /\ file' = BuildWorkflowYAML(ReadBack(saved))
        /\ graph' = graph /\ graph \in Readings(g)
    BY <1>5 DEF SetSchedule, SettlesOn, ReadBack
  <2> QED BY <1>1, <1>2, <2>1 DEF SettlesOn
<1>6. CASE UNCHANGED vars
  BY <1>6 DEF SettlesOn, vars
<1> QED BY <1>3, <1>4, <1>5, <1>6 DEF Next

(***************************************************************************)
(* Once a graph that was read from a file is saved, reading and saving it  *)
(* changes nothing any more: a schedule that is set twice, or a workflow   *)
(* opened and saved as it is (WorkflowStore.Save, SetSchedule), leaves the *)
(* file it found.                                                          *)
(***************************************************************************)
THEOREM SavingSettles ==
  ASSUME SuffixesAreFree
  PROVE  Spec => Settles
<1>1. Init => \E g : SettlesOn(g)
  BY SettlesInit
<1>2. (\E g : SettlesOn(g)) /\ [Next]_vars => (\E g : SettlesOn(g))'
  BY SettlesNext
<1>3. (\E g : SettlesOn(g)) /\ [Next]_vars => [settled /\ settled' => file' = file]_vars
  <2> SUFFICES ASSUME NEW g, SettlesOn(g), [Next]_vars, settled, settled'
               PROVE  file' = file
    OBVIOUS
  <2>1. SettlesOn(g)'
    BY SettlesNext
  <2> QED BY <2>1 DEF SettlesOn
<1> QED BY <1>1, <1>2, <1>3, PTL DEF Spec, Settles
=============================================================================
