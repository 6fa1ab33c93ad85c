------------------------- MODULE StoreReportsProofs -------------------------
(***************************************************************************)
(* Theorems about StoreReports, for all moments of the calendar.           *)
(***************************************************************************)
EXTENDS StoreReports, TLAPS

-----------------------------------------------------------------------------
(* The calendar: later dates have larger ordinals.                         *)

\* The days before a year, and the number of a day in it.
Jan(y) == 365 * (y - 1) + (y - 1) \div 4 - (y - 1) \div 100 + (y - 1) \div 400
InYear(y, m, d) == DaysBefore[m] + (IF Leap(y) /\ m > 2 THEN 1 ELSE 0) + d

LEMMA Months ==
    /\ DaysBefore[1] = 0 /\ DaysBefore[2] = 31 /\ DaysBefore[3] = 59
    /\ DaysBefore[4] = 90 /\ DaysBefore[5] = 120 /\ DaysBefore[6] = 151
    /\ DaysBefore[7] = 181 /\ DaysBefore[8] = 212 /\ DaysBefore[9] = 243
    /\ DaysBefore[10] = 273 /\ DaysBefore[11] = 304 /\ DaysBefore[12] = 334
BY DEF DaysBefore

LEMMA MonthCases == \A m \in 1 .. 12 : m \in {1, 2, 3, 4, 5, 6, 7, 8, 9, 10, 11, 12}
OBVIOUS

\* An ordinal is the days of the years before and those of its own.
LEMMA OrdinalSplit ==
    ASSUME NEW y \in Nat \ {0}, NEW m \in 1 .. 12, NEW d \in 1 .. 31
    PROVE  /\ Ordinal(y, m, d) = Jan(y) + InYear(y, m, d)
           /\ Jan(y) \in Int /\ InYear(y, m, d) \in Int
<1>1. DaysBefore[m] \in Int
  BY Months, MonthCases
<1>2. Jan(y) \in Int
  BY DEF Jan
<1> QED
  BY <1>1, <1>2 DEF Ordinal, Jan, InYear

\* A year has 365 days, or 366.
LEMMA NextYear ==
    ASSUME NEW y \in Nat \ {0}
    PROVE  Jan(y + 1) = Jan(y) + (IF Leap(y) THEN 366 ELSE 365)
<1> DEFINE n == y - 1
<1>1. n \in Nat /\ n + 1 = y
  OBVIOUS
<1>2. y \div 4 = n \div 4 + (IF y % 4 = 0 THEN 1 ELSE 0)
  OBVIOUS
<1>3. y \div 100 = n \div 100 + (IF y % 100 = 0 THEN 1 ELSE 0)
  OBVIOUS
<1>4. y \div 400 = n \div 400 + (IF y % 400 = 0 THEN 1 ELSE 0)
  OBVIOUS
<1>5. (y % 400 = 0 => y % 100 = 0) /\ (y % 100 = 0 => y % 4 = 0)
  OBVIOUS
<1> QED
  BY <1>2, <1>3, <1>4, <1>5 DEF Jan, Leap

\* A date lies in its year.
LEMMA DayInYear ==
    ASSUME NEW y \in Nat \ {0}, NEW m \in 1 .. 12, NEW d \in 1 .. 31, d <= DaysIn(y, m)
    PROVE  1 <= InYear(y, m, d) /\ InYear(y, m, d) <= (IF Leap(y) THEN 366 ELSE 365)
BY Months, MonthCases DEF InYear, DaysIn

\* Earlier years begin earlier.
LEMMA YearsGrow ==
    ASSUME NEW a \in Nat \ {0}, NEW b \in Nat \ {0}, a <= b
    PROVE  Jan(a) <= Jan(b)
BY DEF Jan

\* Earlier dates of a year come earlier in it.
LEMMA DaysGrow ==
    ASSUME NEW y \in Nat \ {0}, NEW m \in 1 .. 12, NEW d \in 1 .. 31, d <= DaysIn(y, m),
           NEW n \in 1 .. 12, NEW e \in 1 .. 31,
           m < n \/ (m = n /\ d < e)
    PROVE  InYear(y, m, d) < InYear(y, n, e)
<1>1. CASE m = n
  BY <1>1, Months, MonthCases DEF InYear
<1>2. CASE m < n
  <2>1. InYear(y, m, d) < InYear(y, m + 1, 1)
    BY <1>2, Months, MonthCases DEF InYear, DaysIn
  <2>2. DaysBefore[m + 1] <= DaysBefore[n] /\ DaysBefore[m + 1] \in Int /\ DaysBefore[n] \in Int
    BY <1>2, Months, MonthCases
  <2>3. InYear(y, m + 1, 1) <= InYear(y, n, e)
    BY <1>2, <2>2 DEF InYear
  <2>4. DaysBefore[m] \in Int
    BY Months, MonthCases
  <2> QED
    BY <2>1, <2>2, <2>3, <2>4 DEF InYear
<1> QED
  BY <1>1, <1>2

\* One date is before another.
Before(t, u) ==
    \/ t[1] < u[1]
    \/ t[1] = u[1] /\ (t[2] < u[2] \/ (t[2] = u[2] /\ t[3] < u[3]))

Date(t) == Ordinal(t[1], t[2], t[3])

LEMMA DatesGrow ==
    ASSUME NEW t, NEW u, IsMoment(t), IsMoment(u), Before(t, u)
    PROVE  Date(t) < Date(u)
<1>1. /\ t[1] \in Nat \ {0} /\ t[2] \in 1 .. 12 /\ t[3] \in 1 .. 31 /\ t[3] <= DaysIn(t[1], t[2])
      /\ u[1] \in Nat \ {0} /\ u[2] \in 1 .. 12 /\ u[3] \in 1 .. 31 /\ u[3] <= DaysIn(u[1], u[2])
  BY DEF IsMoment
<1>2. /\ Date(t) = Jan(t[1]) + InYear(t[1], t[2], t[3])
      /\ Date(u) = Jan(u[1]) + InYear(u[1], u[2], u[3])
      /\ Jan(t[1]) \in Int /\ InYear(t[1], t[2], t[3]) \in Int
      /\ Jan(u[1]) \in Int /\ InYear(u[1], u[2], u[3]) \in Int
  BY <1>1, OrdinalSplit DEF Date
<1>3. CASE t[1] < u[1]
  <2>1. t[1] + 1 \in Nat \ {0} /\ t[1] + 1 <= u[1]
    BY <1>1, <1>3
  <2>2. Jan(t[1] + 1) <= Jan(u[1])
    BY <1>1, <2>1, YearsGrow
  <2>3. Jan(t[1] + 1) = Jan(t[1]) + (IF Leap(t[1]) THEN 366 ELSE 365)
    BY <1>1, NextYear
  <2>4. /\ InYear(t[1], t[2], t[3]) <= (IF Leap(t[1]) THEN 366 ELSE 365)
        /\ 1 <= InYear(u[1], u[2], u[3])
    BY <1>1, DayInYear
  <2> QED
    BY <1>2, <2>2, <2>3, <2>4
<1>4. CASE t[1] = u[1]
  <2>1. t[2] < u[2] \/ (t[2] = u[2] /\ t[3] < u[3])
    BY <1>1, <1>4 DEF Before
  <2>2. InYear(t[1], t[2], t[3]) < InYear(t[1], u[2], u[3])
    BY <1>1, <2>1, DaysGrow
  <2> QED
    BY <1>2, <1>4, <2>2
<1> QED
  BY <1>3, <1>4 DEF Before

\* Dates are the same, or one is before the other.
LEMMA DatesCompare ==
    ASSUME NEW t, NEW u, IsMoment(t), IsMoment(u)
    PROVE  Before(t, u) \/ Before(u, t) \/ (t[1] = u[1] /\ t[2] = u[2] /\ t[3] = u[3])
<1>1. /\ t[1] \in Nat /\ t[2] \in Nat /\ t[3] \in Nat
      /\ u[1] \in Nat /\ u[2] \in Nat /\ u[3] \in Nat
  BY DEF IsMoment
<1> QED
  BY <1>1 DEF Before

\* An instant is a date and an hour of it.
LEMMA Instants ==
    ASSUME NEW t, IsMoment(t)
    PROVE  /\ Instant(t) = 24 * Date(t) + t[4] /\ t[4] \in 0 .. 23
           /\ Date(t) \in Int /\ Instant(t) \in Int /\ DayOf(Instant(t)) = Date(t)
<1>1. t[1] \in Nat \ {0} /\ t[2] \in 1 .. 12 /\ t[3] \in 1 .. 31 /\ t[4] \in 0 .. 23
  BY DEF IsMoment
<1>2. Date(t) \in Int
  <2>1. /\ Date(t) = Jan(t[1]) + InYear(t[1], t[2], t[3])
        /\ Jan(t[1]) \in Int /\ InYear(t[1], t[2], t[3]) \in Int
    BY <1>1, OrdinalSplit DEF Date
  <2> QED
    BY <2>1
<1>3. Instant(t) = 24 * Date(t) + t[4]
  BY DEF Instant, Date
<1> QED
  BY <1>1, <1>2, <1>3 DEF DayOf

LEMMA DaysOfInstants ==
    ASSUME NEW i \in Int, NEW j \in Int, i <= j
    PROVE  DayOf(i) \in Int /\ DayOf(j) \in Int /\ DayOf(i) <= DayOf(j)
BY DEF DayOf
-----------------------------------------------------------------------------
(* The windows: they move forward with the moment they end at.             *)

\* The first moment of the year that ends at t.
YearBefore(t) == <<t[1] - 1, t[2], t[3], t[4]>>

LEMMA YearBeforeTyped ==
    ASSUME NEW t, IsMoment(t), t[1] > 1, HasWindow(LastYear, t)
    PROVE  /\ IsMoment(YearBefore(t))
           /\ WindowStart(LastYear, t) = Instant(YearBefore(t))
<1> DEFINE s == YearBefore(t)
<1>1. t[1] \in Nat \ {0} /\ t[2] \in 1 .. 12 /\ t[3] \in 1 .. 31 /\ t[4] \in 0 .. 23
  BY DEF IsMoment
<1>2. s[1] = t[1] - 1 /\ s[2] = t[2] /\ s[3] = t[3] /\ s[4] = t[4]
  BY DEF YearBefore
<1>3. s \in (Nat \ {0}) \X (1 .. 12) \X (1 .. 31) \X (0 .. 23)
  BY <1>1 DEF YearBefore
<1>4. t[3] <= DaysIn(t[1], t[2])
  BY DEF IsMoment
<1>5. t[3] <= DaysIn(t[1] - 1, t[2])
  BY <1>1, <1>4 DEF DaysIn, HasWindow, LeapDay
<1>6. IsMoment(s)
  BY <1>2, <1>3, <1>5 DEF IsMoment
<1>7. WindowStart(LastYear, t) = Instant(s)
  BY DEF WindowStart, YearBefore, LastWeek, LastMonth, LastYear
<1> QED
  BY <1>6, <1>7

\* The window of a year is the year.
LEMMA YearsAreWhole ==
    ASSUME NEW t, IsMoment(t), t[1] > 1
    PROVE  YearIsWhole(t)
<1>1. CASE ~HasWindow(LastYear, t)
  BY <1>1 DEF HasWindow, YearIsWhole
<1>2. CASE HasWindow(LastYear, t)
  <2> DEFINE s == YearBefore(t)
             y == t[1] - 1
  <2>1. /\ IsMoment(s) /\ WindowStart(LastYear, t) = Instant(s)
        /\ s[1] = y /\ s[2] = t[2] /\ s[3] = t[3]
    BY <1>2, YearBeforeTyped DEF YearBefore
  <2>2. DayOf(Instant(t)) = Date(t) /\ DayOf(WindowStart(LastYear, t)) = Date(s)
    BY <2>1, Instants
  <2>3. /\ t[1] \in Nat \ {0} /\ t[2] \in 1 .. 12 /\ t[3] \in 1 .. 31
        /\ y \in Nat \ {0} /\ y + 1 = t[1]
    BY DEF IsMoment
  <2>4. /\ Date(t) = Jan(t[1]) + InYear(t[1], t[2], t[3])
        /\ Date(s) = Jan(y) + InYear(y, t[2], t[3])
    BY <2>1, <2>3, OrdinalSplit DEF Date
  <2>5. Jan(t[1]) = Jan(y) + (IF Leap(y) THEN 366 ELSE 365) /\ Jan(y) \in Int
    <3>1. Jan(y + 1) = Jan(y) + (IF Leap(y) THEN 366 ELSE 365)
      BY <2>3, NextYear
    <3>2. Jan(y) \in Int
      BY <2>3, OrdinalSplit
    <3> QED
      BY <2>3, <3>1, <3>2
  <2>6. DaysBefore[t[2]] \in Int
    BY <2>3, Months, MonthCases
  <2>7. InYear(t[1], t[2], t[3]) - InYear(y, t[2], t[3])
          = (IF Leap(t[1]) /\ t[2] > 2 THEN 1 ELSE 0) - (IF Leap(y) /\ t[2] > 2 THEN 1 ELSE 0)
    BY <2>3, <2>6 DEF InYear
  <2>8. Date(t) - Date(s) = IF Leap(IF t[2] > 2 THEN t[1] ELSE y) THEN 366 ELSE 365
    <3>1. InYear(t[1], t[2], t[3]) \in Int /\ InYear(y, t[2], t[3]) \in Int
      BY <2>3, OrdinalSplit
    <3> HIDE DEF s, y
    <3>2. CASE t[2] > 2
      BY <2>4, <2>5, <2>7, <3>1, <3>2
    <3>3. CASE ~(t[2] > 2)
      BY <2>4, <2>5, <2>7, <3>1, <3>3
    <3> QED
      BY <3>2, <3>3
  <2> QED
    BY <1>2, <2>2, <2>8 DEF YearIsWhole
<1> QED
  BY <1>1, <1>2

\* A window that ends later begins later, or not, but never earlier.
LEMMA WindowsMove ==
    ASSUME NEW t \in Moments, NEW u \in Moments, Instant(t) <= Instant(u),
           NEW period \in {LastWeek, LastMonth, LastYear},
           HasWindow(period, t), HasWindow(period, u)
    PROVE  /\ WindowStart(period, t) \in Int /\ WindowStart(period, u) \in Int
           /\ WindowStart(period, t) <= WindowStart(period, u)
           /\ DayOf(Instant(t)) = DayOf(Instant(u))
                => DayOf(WindowStart(period, t)) = DayOf(WindowStart(period, u))
<1>1. IsMoment(t) /\ t[1] > 1 /\ IsMoment(u) /\ u[1] > 1
  BY MomentsAssumption
<1>2. /\ Instant(t) = 24 * Date(t) + t[4] /\ t[4] \in 0 .. 23 /\ Date(t) \in Int
      /\ Instant(u) = 24 * Date(u) + u[4] /\ u[4] \in 0 .. 23 /\ Date(u) \in Int
      /\ Instant(t) \in Int /\ Instant(u) \in Int
      /\ DayOf(Instant(t)) = Date(t) /\ DayOf(Instant(u)) = Date(u)
  BY <1>1, Instants
<1>3. CASE period = LastWeek
  <2>1. /\ WindowStart(period, t) = Instant(t) - 24 * 7
        /\ WindowStart(period, u) = Instant(u) - 24 * 7
    BY <1>3 DEF WindowStart, LastWeek, LastMonth, LastYear
  <2>2. /\ DayOf(WindowStart(period, t)) = Date(t) - 7
        /\ DayOf(WindowStart(period, u)) = Date(u) - 7
    <3>1. DayOf(WindowStart(period, t)) = Date(t) - 7
      BY <1>2, <2>1 DEF DayOf
    <3>2. DayOf(WindowStart(period, u)) = Date(u) - 7
      BY <1>2, <2>1 DEF DayOf
    <3> QED
      BY <3>1, <3>2
  <2> QED
    BY <1>2, <2>1, <2>2
<1>4. CASE period = LastMonth
  <2>1. /\ WindowStart(period, t) = Instant(t) - 24 * 30
        /\ WindowStart(period, u) = Instant(u) - 24 * 30
    BY <1>4 DEF WindowStart, LastWeek, LastMonth, LastYear
  <2>2. /\ DayOf(WindowStart(period, t)) = Date(t) - 30
        /\ DayOf(WindowStart(period, u)) = Date(u) - 30
    <3>1. DayOf(WindowStart(period, t)) = Date(t) - 30
      BY <1>2, <2>1 DEF DayOf
    <3>2. DayOf(WindowStart(period, u)) = Date(u) - 30
      BY <1>2, <2>1 DEF DayOf
    <3> QED
      BY <3>1, <3>2
  <2> QED
    BY <1>2, <2>1, <2>2
<1>5. CASE period = LastYear
  <2> DEFINE a == YearBefore(t)
             b == YearBefore(u)
  <2>1. /\ IsMoment(a) /\ WindowStart(period, t) = Instant(a)
        /\ IsMoment(b) /\ WindowStart(period, u) = Instant(b)
    BY <1>1, <1>5, YearBeforeTyped
  <2>2. /\ a[1] = t[1] - 1 /\ a[2] = t[2] /\ a[3] = t[3] /\ a[4] = t[4]
        /\ b[1] = u[1] - 1 /\ b[2] = u[2] /\ b[3] = u[3] /\ b[4] = u[4]
    BY DEF YearBefore
  <2>3. /\ Instant(a) = 24 * Date(a) + a[4] /\ Date(a) \in Int /\ DayOf(Instant(a)) = Date(a)
        /\ Instant(b) = 24 * Date(b) + b[4] /\ Date(b) \in Int /\ DayOf(Instant(b)) = Date(b)
    BY <2>1, Instants
  <2>4. Date(t) <= Date(u)
    BY <1>2
  <2>5. ~Before(u, t)
    BY <1>1, <1>2, <2>4, DatesGrow
  <2>6. CASE Before(t, u)
    <3>1. Before(a, b)
      <4>1. t[1] \in Nat /\ u[1] \in Nat
        BY <1>1 DEF IsMoment
      <4> QED
        BY <2>2, <2>6, <4>1 DEF Before
    <3>2. Date(a) < Date(b) /\ Date(t) < Date(u)
      BY <1>1, <2>1, <2>6, <3>1, DatesGrow
    <3> HIDE DEF a, b
    <3> QED
      BY <1>2, <2>1, <2>2, <2>3, <3>2
  <2>7. CASE t[1] = u[1] /\ t[2] = u[2] /\ t[3] = u[3]
    <3>1. Date(a) = Date(b) /\ Date(t) = Date(u)
      BY <2>2, <2>7 DEF Date
    <3> HIDE DEF a, b
    <3> QED
      BY <1>2, <2>1, <2>2, <2>3, <3>1
  <2> QED
    BY <1>1, <2>5, <2>6, <2>7, DatesCompare
<1> QED
  BY <1>3, <1>4, <1>5
-----------------------------------------------------------------------------
(* The reports.                                                            *)

\* The clock has passed the moments a report has read, all of which have windows.
ReportInv ==
    /\ clock \in Moments
    /\ report # Nothing =>
         /\ report \in [kind : {"orders", "profit"}, period : Periods,
                        listed : Moments \cup {Nothing}, counted : Moments \cup {Nothing}]
         /\ report.kind = "orders" => report.listed \in Moments
         /\ report.kind = "profit" => report.counted \in Moments
         /\ \A t \in {report.listed, report.counted} \ {Nothing} :
               HasWindow(report.period, t) /\ Instant(t) <= Instant(clock)
         /\ Complete(report) =>
               IF report.kind = "orders" THEN Instant(report.listed) <= Instant(report.counted)
               ELSE Instant(report.counted) <= Instant(report.listed)

\* The two halves of a complete report agree.
LEMMA HalvesFollow ==
    ASSUME ReportInv, Complete(report)
    PROVE  HalvesAgree(report)
<1> DEFINE p == report.period
           t == IF report.kind = "orders" THEN report.listed ELSE report.counted
           u == IF report.kind = "orders" THEN report.counted ELSE report.listed
<1>1. /\ report.kind \in {"orders", "profit"} /\ p \in Periods
      /\ report.listed \in Moments /\ report.counted \in Moments
      /\ HasWindow(p, report.listed) /\ HasWindow(p, report.counted)
      /\ Instant(t) <= Instant(u)
  BY DEF ReportInv, Complete
<1>2. SUFFICES ASSUME NEW made \in Moments, Instant(made) <= Instant(report.counted)
               PROVE  LET i == Instant(made) IN
                        /\ Counted(report, i) # Listed(report, i)
                             => DayOf(i) \in EdgeDays(p, t, u)
                        /\ DayOf(Instant(t)) = DayOf(Instant(u))
                             => (Counted(report, i) => Listed(report, i))
  BY DEF HalvesAgree
<1> DEFINE i == Instant(made)
<1>3. t \in Moments /\ u \in Moments /\ HasWindow(p, t) /\ HasWindow(p, u)
  BY <1>1
<1>4. Instant(t) \in Int /\ Instant(u) \in Int /\ i \in Int
  BY <1>3, MomentsAssumption, Instants
<1>5. CASE p = AllTime
  BY <1>1, <1>5 DEF Counted, Listed, InTime, InDates
<1>6. CASE p # AllTime
  <2>1. p \in {LastWeek, LastMonth, LastYear}
    BY <1>1, <1>6 DEF Periods
  <2> DEFINE a == WindowStart(p, t)
             b == WindowStart(p, u)
  <2>2. /\ a \in Int /\ b \in Int /\ a <= b
        /\ DayOf(Instant(t)) = DayOf(Instant(u)) => DayOf(a) = DayOf(b)
    BY <1>1, <1>3, <2>1, WindowsMove
  <2>5. EdgeDays(p, t, u)
          = DayOf(a) .. DayOf(b) \cup DayOf(Instant(t)) + 1 .. DayOf(Instant(u))
    BY DEF EdgeDays
  <2>6. /\ DayOf(a) \in Int /\ DayOf(b) \in Int /\ DayOf(i) \in Int
        /\ DayOf(Instant(t)) \in Int /\ DayOf(Instant(u)) \in Int
        /\ DayOf(a) <= DayOf(b) /\ DayOf(Instant(t)) <= DayOf(Instant(u))
        /\ b <= i => DayOf(b) <= DayOf(i)
        /\ i <= b => DayOf(i) <= DayOf(b)
        /\ i <= Instant(u) => DayOf(i) <= DayOf(Instant(u))
        /\ i <= Instant(t) => DayOf(i) <= DayOf(Instant(t))
    BY <1>1, <1>4, <2>2, DaysOfInstants
  <2>3. CASE report.kind = "orders"
    <3>1. /\ Counted(report, i) = (b <= i /\ i <= Instant(u))
          /\ Listed(report, i) = (DayOf(a) <= DayOf(i) /\ DayOf(i) <= DayOf(Instant(t)))
      BY <1>6, <2>3 DEF Counted, Listed, InTime, InDates
    <3>2. i <= Instant(u)
      BY <1>2, <2>3
    <3>3. /\ Counted(report, i) # Listed(report, i) => DayOf(i) \in EdgeDays(p, t, u)
          /\ DayOf(Instant(t)) = DayOf(Instant(u)) => (Counted(report, i) => Listed(report, i))
      <4>1. Counted(report, i) # Listed(report, i)
              => \/ Counted(report, i) /\ ~Listed(report, i)
                 \/ ~Counted(report, i) /\ Listed(report, i)
        BY <3>1
      <4> HIDE DEF a, b, i, p, t, u
      <4>2. Counted(report, i) /\ ~Listed(report, i)
              => DayOf(i) \in DayOf(a) .. DayOf(b) \cup DayOf(Instant(t)) + 1 .. DayOf(Instant(u))
        BY <1>4, <2>2, <2>6, <3>1, <3>2
      <4>3. ~Counted(report, i) /\ Listed(report, i)
              => DayOf(i) \in DayOf(a) .. DayOf(b) \cup DayOf(Instant(t)) + 1 .. DayOf(Instant(u))
        BY <1>4, <2>2, <2>6, <3>1, <3>2
      <4>4. DayOf(Instant(t)) = DayOf(Instant(u)) => (Counted(report, i) => Listed(report, i))
        BY <1>4, <2>2, <2>6, <3>1, <3>2
      <4> QED
        BY <2>5, <4>1, <4>2, <4>3, <4>4
    <3> QED
      BY <3>3
  <2>4. CASE report.kind = "profit"
    <3>1. /\ Counted(report, i) = (DayOf(a) <= DayOf(i) /\ DayOf(i) <= DayOf(Instant(t)))
          /\ Listed(report, i) = (DayOf(b) <= DayOf(i) /\ DayOf(i) <= DayOf(Instant(u)))
      BY <1>6, <2>4 DEF Counted, Listed, InTime, InDates
    <3>2. i <= Instant(t)
      BY <1>2, <2>4
    <3>3. /\ Counted(report, i) # Listed(report, i) => DayOf(i) \in EdgeDays(p, t, u)
          /\ DayOf(Instant(t)) = DayOf(Instant(u)) => (Counted(report, i) => Listed(report, i))
      <4>1. Counted(report, i) # Listed(report, i)
              => \/ Counted(report, i) /\ ~Listed(report, i)
                 \/ ~Counted(report, i) /\ Listed(report, i)
        BY <3>1
      <4> HIDE DEF a, b, i, p, t, u
      <4>2. Counted(report, i) /\ ~Listed(report, i)
              => DayOf(i) \in DayOf(a) .. DayOf(b) \cup DayOf(Instant(t)) + 1 .. DayOf(Instant(u))
        BY <1>4, <2>2, <2>6, <3>1, <3>2
      <4>3. ~Counted(report, i) /\ Listed(report, i)
              => DayOf(i) \in DayOf(a) .. DayOf(b) \cup DayOf(Instant(t)) + 1 .. DayOf(Instant(u))
        BY <1>4, <2>2, <2>6, <3>1, <3>2
      <4>4. DayOf(Instant(t)) = DayOf(Instant(u)) => (Counted(report, i) => Listed(report, i))
        BY <1>4, <2>2, <2>6, <3>1, <3>2
      <4> QED
        BY <2>5, <4>1, <4>2, <4>3, <4>4
    <3> QED
      BY <3>3
  <2> QED
    BY <1>1, <2>3, <2>4
<1> QED
  BY <1>5, <1>6

\* A report reads moments that the clock shows, one after the other.
LEMMA ReportStep ==
    ASSUME ReportInv, [ReportNext]_reportVars
    PROVE  ReportInv'
<1>0. IsMoment(clock) /\ Instant(clock) \in Int
  BY MomentsAssumption, Instants DEF ReportInv
<1>1. CASE ReadFirstHalf
  <2>1. PICK period \in Periods :
          /\ HasWindow(period, clock)
          /\ report' \in {[kind |-> "orders", period |-> period, listed |-> clock, counted |-> Nothing],
                          [kind |-> "profit", period |-> period, listed |-> Nothing, counted |-> clock]}
    BY <1>1 DEF ReadFirstHalf
  <2>2. clock' = clock /\ clock \in Moments
    BY <1>1 DEF ReadFirstHalf, ReportInv
  <2> QED
    BY <1>0, <2>1, <2>2 DEF ReportInv, Complete
<1>2. CASE ReadSecondHalf
  <2>1. /\ report # Nothing /\ clock' = clock /\ ~Complete(report)
        /\ report \in [kind : {"orders", "profit"}, period : Periods,
                       listed : Moments \cup {Nothing}, counted : Moments \cup {Nothing}]
    BY <1>2 DEF ReadSecondHalf, ReportInv
  <2>2. CASE report' = Nothing
    BY <2>1, <2>2 DEF ReportInv
  <2>3. CASE HasWindow(report.period, clock) /\ report.kind = "orders"
    <3>1. PICK r : r = [report EXCEPT !.counted = clock]
      OBVIOUS
    <3>2. report' = r
      BY <1>2, <2>3, <3>1 DEF ReadSecondHalf
    <3>3. /\ r \in [kind : {"orders", "profit"}, period : Periods,
                    listed : Moments \cup {Nothing}, counted : Moments \cup {Nothing}]
          /\ r.kind = "orders" /\ r.period = report.period
          /\ r.listed = report.listed /\ r.counted = clock
      BY <2>1, <2>3, <3>1 DEF ReportInv
    <3> QED
      BY <1>0, <2>1, <2>3, <3>2, <3>3 DEF ReportInv, Complete
  <2>4. CASE HasWindow(report.period, clock) /\ report.kind # "orders"
    <3>1. PICK r : r = [report EXCEPT !.listed = clock]
      OBVIOUS
    <3>2. report' = r
      BY <1>2, <2>4, <3>1 DEF ReadSecondHalf
    <3>3. /\ r \in [kind : {"orders", "profit"}, period : Periods,
                    listed : Moments \cup {Nothing}, counted : Moments \cup {Nothing}]
          /\ r.kind = "profit" /\ r.period = report.period
          /\ r.listed = clock /\ r.counted = report.counted
      BY <2>1, <2>4, <3>1 DEF ReportInv
    <3> QED
      BY <1>0, <2>1, <2>4, <3>2, <3>3 DEF ReportInv, Complete
  <2> QED
    BY <1>2, <2>2, <2>3, <2>4 DEF ReadSecondHalf
<1>3. CASE Respond
  BY <1>3 DEF Respond, ReportInv
<1>4. CASE Tick
  <2>1. PICK t \in Moments : Instant(t) > Instant(clock) /\ clock' = t
    BY <1>4 DEF Tick
  <2>2. report' = report /\ clock' = t /\ Instant(t) \in Int
    BY <1>4, <2>1, MomentsAssumption, Instants DEF Tick
  <2>3. ASSUME report # Nothing, NEW m \in {report.listed, report.counted} \ {Nothing}
        PROVE  Instant(m) <= Instant(t)
    <3>1. m \in Moments /\ Instant(m) <= Instant(clock)
      BY <2>3 DEF ReportInv
    <3>2. Instant(m) \in Int
      BY <3>1, MomentsAssumption, Instants
    <3> QED
      BY <1>0, <2>1, <2>2, <3>1, <3>2
  <2> QED
    BY <2>1, <2>2, <2>3 DEF ReportInv, Complete
<1>5. CASE UNCHANGED reportVars
  BY <1>5 DEF reportVars, ReportInv, Complete
<1> QED
  BY <1>1, <1>2, <1>3, <1>4, <1>5 DEF ReportNext

(* Whatever the moments, and whenever a report reads the clock: the window  *)
(* of a year is the year, and the halves of a report disagree at most about *)
(* the first day of the window and the days that end meanwhile.             *)
THEOREM ReportsAgree == ReportSpec => []ReportHalvesAgree
<1>1. ReportInit => ReportInv
  <2>1. (CHOOSE t \in Moments : \A u \in Moments : Instant(t) <= Instant(u)) \in Moments
    BY MomentsAssumption
  <2> QED
    BY <2>1 DEF ReportInit, ReportInv
<1>2. ReportInv /\ [ReportNext]_reportVars => ReportInv'
  BY ReportStep
<1>3. ReportInv => ReportHalvesAgree
  <2> SUFFICES ASSUME ReportInv PROVE ReportHalvesAgree
    OBVIOUS
  <2>1. YearIsWhole(clock)
    BY MomentsAssumption, YearsAreWhole DEF ReportInv
  <2> QED
    BY <2>1, HalvesFollow DEF ReportHalvesAgree
<1> QED
  BY <1>1, <1>2, <1>3, PTL DEF ReportSpec
=============================================================================
