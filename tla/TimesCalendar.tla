--------------------------- MODULE TimesCalendar ---------------------------
(***************************************************************************)
(* The calendar schedule of the first scheduler (Scheduler/src, Times):    *)
(* what init accepts, and updateNextCalendarExpirationDateTime, which      *)
(* looks for the next date.  The search goes round a loop; one step of     *)
(* this module is one turn of it: the first field that the date does not   *)
(* match moves the date on and the next turn begins.                       *)
(***************************************************************************)
EXTENDS CalendarDates, FiniteSetsExt

CONSTANTS ClSchedules,  \* what the clients pass to init
          ClStarts      \* the instants at which they start

VARIABLES ctSched,     \* _pCalendarSchedule
          ctCurrent,   \* _pCurrentExpirationDateTime
          ctAt,        \* tmNextExpirationDateTime, the date the search looks at
          ctState      \* what the object does, and what the last call returned

ctVars == <<ctSched, ctCurrent, ctAt, ctState>>

-----------------------------------------------------------------------------
(***************************************************************************)
(* init: the year is not looked at.                                        *)
(***************************************************************************)
ListIn(f, a, b) == f.kind = "list" => \A v \in f.values : a <= v /\ v <= b
RangeIn(f, a, b) == f.kind = "range" => a <= f.from /\ f.from <= f.to /\ f.to <= b
OneIn(f, a, b) == f.kind = "one" => a <= f.from /\ f.from <= b

CtMonthList(s) == ListIn(s.mon, 1, ClMonths)
CtMonthRange(s) == RangeIn(s.mon, 1, ClMonths)
CtMonthOne(s) == OneIn(s.mon, 1, ClMonths)

\* lMonth, which only a single month sets.
FebruaryEveryYear(s) == s.year.kind = "star" /\ s.mon.kind = "one" /\ s.mon.from = ClFebruary

CtMonthDayList(s) ==
    /\ ListIn(s.mday, 1, ClThirtyOne)
    /\ s.mday.kind = "list" /\ FebruaryEveryYear(s) => \E v \in s.mday.values : v <= ClThirty

CtMonthDayRange(s) ==
    /\ RangeIn(s.mday, 1, ClThirtyOne)
    /\ ~(s.mday.kind = "range" /\ FebruaryEveryYear(s) /\ s.mday.from = ClThirty /\ s.mday.to = ClThirtyOne)

CtMonthDayOne(s) ==
    OneIn(s.mday, 1, ClThirtyOne) /\ ~(s.mday.kind = "one" /\ FebruaryEveryYear(s) /\ s.mday.from = ClThirty)

CtWeekDayList(s) == ListIn(s.wday, 0, ClWeek - 1)
CtWeekDayRange(s) == RangeIn(s.wday, 0, ClWeek - 1)
CtWeekDayOne(s) == OneIn(s.wday, 0, ClWeek - 1)
CtHourList(s) == ListIn(s.hour, 0, ClHours - 1)
CtHourRange(s) == RangeIn(s.hour, 0, ClHours - 1)
CtHourOne(s) == OneIn(s.hour, 0, ClHours - 1)
CtMinuteList(s) == ListIn(s.min, 0, ClMinutes - 1)
CtMinuteRange(s) == RangeIn(s.min, 0, ClMinutes - 1)
CtMinuteOne(s) == OneIn(s.min, 0, ClMinutes - 1)
CtSecondList(s) == ListIn(s.sec, 0, ClSeconds - 1)
CtSecondRange(s) == RangeIn(s.sec, 0, ClSeconds - 1)
CtSecondOne(s) == OneIn(s.sec, 0, ClSeconds - 1)

CtSixSpaces(s) == s.spaces = 6

CtAccepts(s) ==
    /\ CtSixSpaces(s)
    /\ CtMonthList(s) /\ CtMonthRange(s) /\ CtMonthOne(s)
    /\ CtMonthDayList(s) /\ CtMonthDayRange(s) /\ CtMonthDayOne(s)
    /\ CtWeekDayList(s) /\ CtWeekDayRange(s) /\ CtWeekDayOne(s)
    /\ CtHourList(s) /\ CtHourRange(s) /\ CtHourOne(s)
    /\ CtMinuteList(s) /\ CtMinuteRange(s) /\ CtMinuteOne(s)
    /\ CtSecondList(s) /\ CtSecondRange(s) /\ CtSecondOne(s)

CtStar == [year |-> Star, mon |-> Star, mday |-> Star, wday |-> Star, hour |-> Star, min |-> Star, sec |-> Star,
           spaces |-> 6]

CtInitial == ctSched = CtStar /\ ctCurrent = 0 /\ ctAt = 0 /\ ctState = "builded"

CtInit ==
    /\ ctState = "builded" /\ ctState' = "initialized"
    /\ \E s \in ClSchedules : ctSched' = s /\ CtAccepts(s)
    /\ UNCHANGED <<ctCurrent, ctAt>>

CtFinish == ctState \in {"initialized", "found"} /\ ctSched' = CtStar /\ ctState' = "builded" /\ ctCurrent' = 0 /\ ctAt' = 0

-----------------------------------------------------------------------------
(***************************************************************************)
(* The search begins one second after the current date.                    *)
(***************************************************************************)
SearchAfter(u) == ctCurrent' = u /\ ctAt' = u + 1 /\ ctState' = "searching" /\ UNCHANGED ctSched

CtStart(u) == ctState = "initialized" /\ SearchAfter(u)

\* updateNextExpirationDateTime: the next date becomes the current one.
CtUpdate == ctState = "found" /\ SearchAfter(ctAt)

CtHere == LocalOf[ctAt]

MovesTo(S) == ctAt' \in S /\ UNCHANGED <<ctSched, ctCurrent, ctState>>

Ends(state) == ctState' = state /\ UNCHANGED <<ctSched, ctCurrent, ctAt>>

\* The year comes to an end: SCH_REACHED_LASTTIMEOUT, or its first second.
YearPasses(last) ==
    IF last < CtHere.year THEN Ends("initialized") ELSE MovesTo(MkTime(BeginOfMonth(CtHere.year + 1, 1)))

CtYearList == LET f == ctSched.year
              IN f.kind = "list" /\ CtHere.year \notin f.values /\ YearPasses(Max(f.values))

CtYearRange == LET f == ctSched.year
               IN f.kind = "range" /\ ~(f.from <= CtHere.year /\ CtHere.year <= f.to) /\ YearPasses(f.to)

CtYearOne == LET f == ctSched.year IN f.kind = "one" /\ CtHere.year # f.from /\ YearPasses(f.from)

\* No year is left to look at in this model.
CtBeyond == ctSched.year.kind = "star" /\ CtHere.year >= ClYears /\ Ends("beyond")

CtYearFits == In(ctSched.year, CtHere.year) /\ CtHere.year < ClYears

NextMonth ==
    MovesTo(MkTime(IF CtHere.mon = ClMonths THEN BeginOfMonth(CtHere.year + 1, 1)
                   ELSE BeginOfMonth(CtHere.year, CtHere.mon + 1)))

CtSkipMonthList == LET f == ctSched.mon IN CtYearFits /\ f.kind = "list" /\ CtHere.mon \notin f.values /\ NextMonth

CtSkipMonthRange ==
    LET f == ctSched.mon
    IN CtYearFits /\ f.kind = "range" /\ ~(f.from <= CtHere.mon /\ CtHere.mon <= f.to) /\ NextMonth

CtSkipMonthOne == LET f == ctSched.mon IN CtYearFits /\ f.kind = "one" /\ CtHere.mon # f.from /\ NextMonth

CtMonthFits == CtYearFits /\ In(ctSched.mon, CtHere.mon)

\* bIsNecessaryAddDayForMonthDay and ...ForWeekDay.
NotInList(f, v) == f.kind = "list" /\ v \notin f.values
NotInRange(f, v) == f.kind = "range" /\ ~(f.from <= v /\ v <= f.to)
NotOne(f, v) == f.kind = "one" /\ v # f.from

CtAddForMonthDay ==
    LET f == ctSched.mday IN NotInList(f, CtHere.mday) \/ NotInRange(f, CtHere.mday) \/ NotOne(f, CtHere.mday)

CtAddForWeekDay ==
    LET f == ctSched.wday IN NotInList(f, CtHere.wday) \/ NotInRange(f, CtHere.wday) \/ NotOne(f, CtHere.wday)

CtAddDay ==
    LET anyMonthDay == ctSched.mday.kind = "star"
        anyWeekDay == ctSched.wday.kind = "star"
    IN \/ ~anyMonthDay /\ anyWeekDay /\ CtAddForMonthDay
       \/ anyMonthDay /\ ~anyWeekDay /\ CtAddForWeekDay
       \/ ~anyMonthDay /\ ~anyWeekDay /\ CtAddForMonthDay /\ CtAddForWeekDay

\* A day with the change of the clock has not ClHours hours.
DayAfter(u) ==
    LET h == LocalOf[u + ClDay].hour
    IN u + ClDay + (CASE h = 0 -> 0 [] h = ClHours - 1 -> ClHour [] h = 1 -> 0 - ClHour)

CtSkipDay ==
    CtMonthFits /\ CtAddDay /\ MovesTo({DayAfter(u) : u \in MkTime(CtHere.wall - (CtHere.wall % ClDay))})

CtDayFits == CtMonthFits /\ ~CtAddDay

HourAfter(u) == IF LocalOf[u + ClHour].hour = CtHere.hour THEN u + 2 * ClHour ELSE u + ClHour
NextHour == MovesTo({HourAfter(u) : u \in MkTime(CtHere.wall - (CtHere.wall % ClHour))})

CtSkipHourList == CtDayFits /\ NotInList(ctSched.hour, CtHere.hour) /\ NextHour
CtSkipHourRange == CtDayFits /\ NotInRange(ctSched.hour, CtHere.hour) /\ NextHour
CtSkipHourOne == CtDayFits /\ NotOne(ctSched.hour, CtHere.hour) /\ NextHour

CtHourFits == CtDayFits /\ In(ctSched.hour, CtHere.hour)
NextMinute == MovesTo({u + ClMinute : u \in MkTime(CtHere.wall - (CtHere.wall % ClMinute))})

CtSkipMinuteList == CtHourFits /\ NotInList(ctSched.min, CtHere.min) /\ NextMinute
CtSkipMinuteRange == CtHourFits /\ NotInRange(ctSched.min, CtHere.min) /\ NextMinute
CtSkipMinuteOne == CtHourFits /\ NotOne(ctSched.min, CtHere.min) /\ NextMinute

CtMinuteFits == CtHourFits /\ In(ctSched.min, CtHere.min)
NextSecond == MovesTo({u + 1 : u \in MkTime(CtHere.wall)})

CtSkipSecondList == CtMinuteFits /\ NotInList(ctSched.sec, CtHere.sec) /\ NextSecond
CtSkipSecondRange == CtMinuteFits /\ NotInRange(ctSched.sec, CtHere.sec) /\ NextSecond
CtSkipSecondOne == CtMinuteFits /\ NotOne(ctSched.sec, CtHere.sec) /\ NextSecond

CtFound == CtMinuteFits /\ In(ctSched.sec, CtHere.sec) /\ Ends("found")

CtTurn ==
    /\ ctState = "searching"
    /\ \/ CtYearList \/ CtYearRange \/ CtYearOne \/ CtBeyond
       \/ CtSkipMonthList \/ CtSkipMonthRange \/ CtSkipMonthOne \/ CtSkipDay
       \/ CtSkipHourList \/ CtSkipHourRange \/ CtSkipHourOne
       \/ CtSkipMinuteList \/ CtSkipMinuteRange \/ CtSkipMinuteOne
       \/ CtSkipSecondList \/ CtSkipSecondRange \/ CtSkipSecondOne \/ CtFound

CtNext ==
    \/ CtInit \/ (\E u \in ClStarts : CtStart(u))
    \/ CtUpdate \/ CtFinish \/ CtTurn

CtSpec == CtInitial /\ [][CtNext]_ctVars
=============================================================================
