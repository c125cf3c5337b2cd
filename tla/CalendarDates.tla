--------------------------- MODULE CalendarDates ---------------------------
(***************************************************************************)
(* The calendar that the Times of the scheduler follow: dates, local time, *)
(* and the seven fields of a schedule (year, month, day of the month, day  *)
(* of the week, hour, minute, second).                                     *)
(*                                                                         *)
(* The calendar is a smaller one than ours, with the features that the     *)
(* code looks at: months of different lengths, one of them shorter than    *)
(* the 30 and 31 that the code knows of, a week that does not go with the  *)
(* month, and a local clock that is put forward and back once.             *)
(***************************************************************************)
EXTENDS Integers, FiniteSets, Sequences

CONSTANTS ClMonthDays,  \* the days of every month
          ClFebruary,   \* the month that lacks the days ClThirty and ClThirtyOne
          ClThirty, ClThirtyOne,
          ClWeek, ClHours, ClMinutes, ClSeconds,  \* days a week, hours a day, ...
          ClYears,      \* the years that the model looks at
          ClDstFrom, ClDstTo  \* daylight saving time, in UTC

ClMonths == Len(ClMonthDays)
ClMinute == ClSeconds
ClHour == ClMinutes * ClMinute
ClDay == ClHours * ClHour

\* The days of the year before every month.
DaysBefore[m \in 1..ClMonths + 1] == IF m = 1 THEN 0 ELSE DaysBefore[m - 1] + ClMonthDays[m - 1]

ClYear == DaysBefore[ClMonths + 1] * ClDay
ClHorizon == ClYears * ClYear

\* The clock is changed on the hour, not around midnight and not twice in a day, in a year of the model.
ASSUME CalendarAssumption ==
    /\ ClMonthDays \in Seq(Nat \ {0})
    /\ {ClWeek, ClHours, ClMinutes, ClSeconds, ClYears} \subseteq Nat \ {0}
    /\ {ClThirty, ClThirtyOne, ClDstFrom, ClDstTo} \subseteq Nat
    /\ ClFebruary \in 1..ClMonths /\ ClMonthDays[ClFebruary] < ClThirty /\ ClThirty < ClThirtyOne
    /\ \A u \in {ClDstFrom, ClDstTo + ClHour} :
          u \in ClHour..ClHorizon /\ u % ClHour = 0 /\ u % ClDay \in ClHour..ClDay - 2 * ClHour
    /\ ClDstFrom + ClDay <= ClDstTo

-----------------------------------------------------------------------------
(***************************************************************************)
(* The C library.                                                          *)
(***************************************************************************)
BeginOfMonth(y, m) == y * ClYear + DaysBefore[m] * ClDay

\* A struct tm; wall is the same date as a number of seconds.
BrokenDown(wall, dst) ==
    LET day == (wall % ClYear) \div ClDay
        mon == CHOOSE m \in 1..ClMonths : DaysBefore[m] <= day /\ day < DaysBefore[m + 1]
    IN [year |-> wall \div ClYear, mon |-> mon, mday |-> 1 + day - DaysBefore[mon],
        wday |-> (wall \div ClDay) % ClWeek, hour |-> (wall % ClDay) \div ClHour,
        min |-> (wall % ClHour) \div ClMinute, sec |-> wall % ClMinute, wall |-> wall, dst |-> dst]

InDst(u) == ClDstFrom <= u /\ u < ClDstTo

\* localtime_r
LocalOf == [u \in 0..ClHorizon + 2 * ClDay |-> BrokenDown(u + IF InDst(u) THEN ClHour ELSE 0, InDst(u))]

\* mktime with a tm_isdst of -1: which of two it takes is up to the library.
MkTime(wall) == {u \in {wall, wall - ClHour} : u \in DOMAIN LocalOf /\ LocalOf[u].wall = wall}

-----------------------------------------------------------------------------
(***************************************************************************)
(* The fields of a schedule: "*", "1,4", "2-5" and "3".                    *)
(***************************************************************************)
Star == [kind |-> "star", values |-> {}, from |-> 0, to |-> 0]
ListOf(S) == [kind |-> "list", values |-> S, from |-> 0, to |-> 0]
RangeOf(a, b) == [kind |-> "range", values |-> {}, from |-> a, to |-> b]
One(a) == [kind |-> "one", values |-> {}, from |-> a, to |-> a]

In(field, v) ==
    \/ field.kind = "star"
    \/ field.kind = "list" /\ v \in field.values
    \/ field.kind \in {"range", "one"} /\ field.from <= v /\ v <= field.to

\* The two fields for the day add up when both are given.
DayMatches(s, t) ==
    IF s.mday.kind # "star" /\ s.wday.kind # "star"
    THEN In(s.mday, t.mday) \/ In(s.wday, t.wday)
    ELSE In(s.mday, t.mday) /\ In(s.wday, t.wday)

\* The reference: the instants of a schedule.
IsDate(s, t) ==
    /\ In(s.year, t.year) /\ In(s.mon, t.mon) /\ DayMatches(s, t)
    /\ In(s.hour, t.hour) /\ In(s.min, t.min) /\ In(s.sec, t.sec)

DatesBetween(s, u, v) == {w \in u + 1..v - 1 : IsDate(s, LocalOf[w])}
=============================================================================
