---------------------------- MODULE StoreReports ----------------------------
(***************************************************************************)
(* The reports of a store over a period, and the calendar as far as they   *)
(* depend on it.                                                           *)
(*                                                                         *)
(* A report has two halves: a number worked out from the rows of Order and *)
(* a list of the daily metrics.  Each half reads the clock by itself and   *)
(* works its window out of that; one window is a range of instants, the    *)
(* others are cut down to dates.                                           *)
(***************************************************************************)
EXTENDS Integers

CONSTANTS
    Moments,  \* the moments at which orders are made, paid and reports asked for
    Nothing   \* an absent value

VARIABLES
    clock,    \* the moment it is
    report    \* the report being worked out or answered, or Nothing

reportVars == <<clock, report>>

\* The values of the parameter "period".
LastWeek == 0
LastMonth == 1
LastYear == 2
AllTime == 3
Periods == {LastWeek, LastMonth, LastYear, AllTime}

-----------------------------------------------------------------------------
(* A moment is a date and an hour, <<year, month, day, hour>>; an instant  *)
(* is its number of hours, a day a number of days (date.toordinal).        *)

Leap(y) == y % 4 = 0 /\ (y % 100 # 0 \/ y % 400 = 0)

DaysBefore == <<0, 31, 59, 90, 120, 151, 181, 212, 243, 273, 304, 334>>

Ordinal(y, m, d) ==
    365 * (y - 1) + (y - 1) \div 4 - (y - 1) \div 100 + (y - 1) \div 400
        + DaysBefore[m] + (IF Leap(y) /\ m > 2 THEN 1 ELSE 0) + d

Instant(t) == 24 * Ordinal(t[1], t[2], t[3]) + t[4]

DayOf(i) == i \div 24

LeapDay(t) == t[2] = 2 /\ t[3] = 29

DaysIn(y, m) ==
    IF m = 2 THEN IF Leap(y) THEN 29 ELSE 28
    ELSE IF m \in {4, 6, 9, 11} THEN 30 ELSE 31

IsMoment(t) ==
    /\ t \in (Nat \ {0}) \X (1 .. 12) \X (1 .. 31) \X (0 .. 23)
    /\ t[3] <= DaysIn(t[1], t[2])

\* The moments are of the calendar, and not of its first year; one is the first.
ASSUME MomentsAssumption ==
    /\ \A t \in Moments : IsMoment(t) /\ t[1] > 1
    /\ \E t \in Moments : \A u \in Moments : Instant(t) <= Instant(u)

-----------------------------------------------------------------------------
(* The window of a period that ends at the moment t.                       *)

\* end.replace(year=end.year - 1) raises ValueError when the year before has
\* no such date; the endpoint then answers 400.
HasWindow(period, t) ==
    period = LastYear => (LeapDay(t) => Leap(t[1] - 1))

\* Mistake to be caught: the date 365 days before the end.
WindowStart_365(period, t) ==
    CASE period = LastWeek -> Instant(t) - 24 * 7
      [] period = LastMonth -> Instant(t) - 24 * 30
      [] period = LastYear -> Instant(t) - 24 * 365

WindowStart(period, t) ==
    CASE period = LastWeek -> Instant(t) - 24 * 7
      [] period = LastMonth -> Instant(t) - 24 * 30
      [] period = LastYear -> Instant(<<t[1] - 1, t[2], t[3], t[4]>>)

\* created_at__range of _get_num_of_orders_report.
InTime(period, t, i) ==
    period = AllTime \/ (WindowStart(period, t) <= i /\ i <= Instant(t))

\* date__range of the metrics and paid_on__range of _get_profit: the columns are
\* dates, and the ends of the range are cut down to dates.
InDates(period, t, day) ==
    \/ period = AllTime
    \/ DayOf(WindowStart(period, t)) <= day /\ day <= DayOf(Instant(t))

-----------------------------------------------------------------------------
(* The endpoints.  StoreOrdersReportEndpoint lists first and counts second, *)
(* StoreProfitReportEndpoint the other way round.                           *)

\* Whether an order made, or paid, at the instant i is in the number ...
Counted(r, i) ==
    IF r.kind = "orders" THEN InTime(r.period, r.counted, i)
    ELSE InDates(r.period, r.counted, DayOf(i))

\* ... and whether the metric of its day is in the list.
Listed(r, i) == InDates(r.period, r.listed, DayOf(i))

Complete(r) == r # Nothing /\ Nothing \notin {r.listed, r.counted}

ReadFirstHalf ==
    /\ report = Nothing
    /\ \E period \in Periods :
          /\ HasWindow(period, clock)
          /\ report' \in {[kind |-> "orders", period |-> period, listed |-> clock, counted |-> Nothing],
                          [kind |-> "profit", period |-> period, listed |-> Nothing, counted |-> clock]}
    /\ UNCHANGED clock

\* Without a window the request is answered with an error.
ReadSecondHalf ==
    /\ report # Nothing /\ ~Complete(report)
    /\ report' = IF ~HasWindow(report.period, clock) THEN Nothing
                 ELSE IF report.kind = "orders" THEN [report EXCEPT !.counted = clock]
                 ELSE [report EXCEPT !.listed = clock]
    /\ UNCHANGED clock

Respond ==
    /\ Complete(report)
    /\ report' = Nothing
    /\ UNCHANGED clock

Tick ==
    /\ \E t \in Moments : Instant(t) > Instant(clock) /\ clock' = t
    /\ UNCHANGED report

ReportInit ==
    /\ clock = CHOOSE t \in Moments : \A u \in Moments : Instant(t) <= Instant(u)
    /\ report = Nothing

ReportNext == ReadFirstHalf \/ ReadSecondHalf \/ Respond \/ Tick

ReportSpec == ReportInit /\ [][ReportNext]_reportVars

-----------------------------------------------------------------------------
(* The window of a year is as long as the year it covers, leap or not, and  *)
(* is missing on 29 February alone.                                         *)
YearIsWhole(t) ==
    IF HasWindow(LastYear, t)
    THEN DayOf(Instant(t)) - DayOf(WindowStart(LastYear, t))
            = IF Leap(IF t[2] > 2 THEN t[1] ELSE t[1] - 1) THEN 366 ELSE 365
    ELSE LeapDay(t)

\* The days at the edges of the windows that end at the moments t and u.
EdgeDays(period, t, u) ==
    DayOf(WindowStart(period, t)) .. DayOf(WindowStart(period, u))
        \cup DayOf(Instant(t)) + 1 .. DayOf(Instant(u))

(* The two halves of a report, which read the clock by themselves, disagree *)
(* at most about the first day of the window and days that begin or end     *)
(* while the report is made; and when no midnight passes, nothing is in the *)
(* number whose day is not in the list.                                     *)
HalvesAgree(r) ==
    LET t == IF r.kind = "orders" THEN r.listed ELSE r.counted
        u == IF r.kind = "orders" THEN r.counted ELSE r.listed
    IN  \A made \in {m \in Moments : Instant(m) <= Instant(r.counted)} :
           LET i == Instant(made)
           IN  /\ Counted(r, i) # Listed(r, i) => DayOf(i) \in EdgeDays(r.period, t, u)
               /\ DayOf(Instant(t)) = DayOf(Instant(u)) => (Counted(r, i) => Listed(r, i))

(* Both facts, whatever the moment and the period of a report.              *)
ReportHalvesAgree ==
    /\ YearIsWhole(clock)
    /\ Complete(report) => HalvesAgree(report)
=============================================================================
