--------------------------- MODULE Times2Calendar ---------------------------
(***************************************************************************)
(* The calendar schedule of the second scheduler (Scheduler/src, Times2):  *)
(* what the constructor accepts, and the search for the next date, one     *)
(* field of the schedule at a time.  A field that the date matches hands   *)
(* over to the next one; a field that it does not match moves the date and *)
(* begins again with the year.                                             *)
(*                                                                         *)
(* Times2 was made from Times.  That both give the same dates is shown by  *)
(* refinement: the search of this module implements that of TimesCalendar. *)
(***************************************************************************)
EXTENDS CalendarDates, FiniteSetsExt

CONSTANTS ClSchedules,  \* what the clients pass to the constructor
          ClStarts      \* the instants at which they start

\* A field is "*", numbers, two numbers with a "-", or a number.
IsField(f) ==
    \/ f = Star
    \/ f.kind = "list" /\ f = ListOf(f.values) /\ f.values \subseteq Int /\ f.values # {}
    \/ f.kind = "range" /\ f = RangeOf(f.from, f.to) /\ f.from \in Int /\ f.to \in Int
    \/ f.kind = "one" /\ f = One(f.from) /\ f.from \in Int

\* The years that a schedule names are of the model.
ASSUME ScheduleAssumption ==
    /\ ClStarts \subseteq 0..ClHorizon
    /\ \A s \in ClSchedules :
        /\ s.spaces \in Nat
        /\ \A f \in {s.year, s.mon, s.mday, s.wday, s.hour, s.min, s.sec} : IsField(f)
        /\ s.year.values \cup {s.year.from, s.year.to} \subseteq 0..ClYears - 1

VARIABLES clSched,      \* _pCalendarSchedule
          clCurrent,    \* _pCurrentExpirationDateTime
          clAt,         \* tmNextExpirationDateTime
          clState,      \* what the object does, and what the last search returned
          clField,      \* the field of the schedule that the search looks at
          clAddDay,     \* bIsNecessaryAddDayForMonthDay, bIsNecessaryAddDayForWeekDay
          clAmbiguous   \* has mktime been asked for a date that comes twice?

clVars == <<clSched, clCurrent, clAt, clState, clField, clAddDay, clAmbiguous>>
clObject == <<clSched, clCurrent>>

First == INSTANCE TimesCalendar WITH ctSched <- clSched, ctCurrent <- clCurrent, ctAt <- clAt,
                                     ctState <- IF clState = "last" THEN "initialized" ELSE clState

-----------------------------------------------------------------------------
(***************************************************************************)
(* The constructor.                                                        *)
(***************************************************************************)
Within(f, a, b) ==
    CASE f.kind = "star" -> TRUE
      [] f.kind = "list" -> f.values \subseteq a..b
      [] f.kind = "range" -> ~(f.from < a \/ f.from > f.to) /\ ~(f.to > b)
      [] f.kind = "one" -> f.from \in a..b

ClSixSpaces(s) == s.spaces = 6
ClMonthAccepted(s) == Within(s.mon, 1, ClMonths)

LoopsInFebruary(s) == s.year = Star /\ s.mon = One(ClFebruary)

\* Mutant: February is not looked at.
ClMonthDayOneUnchecked(s) == s.mday.kind = "one" => s.mday.from \in 1..ClThirtyOne

ClMonthDayListAccepted(s) ==
    s.mday.kind = "list" =>
        Within(s.mday, 1, ClThirtyOne) /\ ~(LoopsInFebruary(s) /\ Min(s.mday.values) > ClThirty)

ClMonthDayRangeAccepted(s) ==
    s.mday.kind = "range" =>
        Within(s.mday, 1, ClThirtyOne) /\ ~(LoopsInFebruary(s) /\ s.mday = RangeOf(ClThirty, ClThirtyOne))

ClMonthDayOneAccepted(s) ==
    s.mday.kind = "one" => s.mday.from \in 1..ClThirtyOne /\ ~(LoopsInFebruary(s) /\ s.mday.from = ClThirty)

ClWeekDayAccepted(s) == Within(s.wday, 0, ClWeek - 1)
ClHourAccepted(s) == Within(s.hour, 0, ClHours - 1)
ClMinuteAccepted(s) == Within(s.min, 0, ClMinutes - 1)
ClSecondAccepted(s) == Within(s.sec, 0, ClSeconds - 1)

ClAccepts(s) ==
    /\ ClSixSpaces(s) /\ ClMonthAccepted(s)
    /\ ClMonthDayListAccepted(s) /\ ClMonthDayRangeAccepted(s) /\ ClMonthDayOneAccepted(s)
    /\ ClWeekDayAccepted(s) /\ ClHourAccepted(s) /\ ClMinuteAccepted(s) /\ ClSecondAccepted(s)

NoSearch == clField = "year" /\ clAddDay = <<FALSE, FALSE>> /\ clAmbiguous = FALSE
NoSearchNext == clField' = "year" /\ clAddDay' = <<FALSE, FALSE>> /\ clAmbiguous' = FALSE

ClInit == clSched = First!CtStar /\ clCurrent = 0 /\ clAt = 0 /\ clState = "builded" /\ NoSearch

\* A constructor that throws leaves no object.
ClConstruct(s) ==
    /\ clState = "builded" /\ ClAccepts(s)
    /\ clSched' = s /\ clState' = "initialized"
    /\ UNCHANGED <<clCurrent, clAt, clField, clAddDay, clAmbiguous>>

ClDestroy ==
    /\ clState \in {"initialized", "last", "found"}
    /\ clSched' = First!CtStar /\ clCurrent' = 0 /\ clAt' = 0 /\ clState' = "builded" /\ NoSearchNext

-----------------------------------------------------------------------------
(***************************************************************************)
(* The search.                                                             *)
(***************************************************************************)
ClSearch(u) == clCurrent' = u /\ clAt' = u + 1 /\ clState' = "searching" /\ NoSearchNext /\ UNCHANGED clSched

ClStart(u) == clState \in {"initialized", "last"} /\ ClSearch(u)
ClUpdate == clState = "found" /\ ClSearch(clAt)

Here == LocalOf[clAt]
AtField(name) == clState = "searching" /\ clField = name

Matched(next) == clField' = next /\ UNCHANGED <<clObject, clAt, clState, clAddDay, clAmbiguous>>

\* The date moves to one that a function gives for what mktime made of the local time.
ClMoves(wall, after(_)) ==
    /\ \E u \in MkTime(wall) : clAt' = after(u)
    /\ clAmbiguous' = (clAmbiguous \/ Cardinality(MkTime(wall)) > 1)
    /\ clField' = "year" /\ clAddDay' = <<FALSE, FALSE>> /\ UNCHANGED <<clObject, clState>>

ClReturns(state) == clState' = state /\ clField' = "year" /\ clAddDay' = <<FALSE, FALSE>> /\ UNCHANGED <<clObject, clAt, clAmbiguous>>

ClNextYear == ClMoves(BeginOfMonth(Here.year + 1, 1), LAMBDA u : u)
ClYearGone(last) == IF last < Here.year THEN ClReturns("last") ELSE ClNextYear

\* Mutant: the smallest year of the list is taken for the last one.
ClYearListEndsEarly ==
    LET f == clSched.year
    IN /\ AtField("year") /\ f.kind = "list"
       /\ IF Here.year \in f.values THEN Matched("month") ELSE ClYearGone(Min(f.values))

ClYearList ==
    LET f == clSched.year
    IN /\ AtField("year") /\ f.kind = "list"
       /\ IF Here.year \in f.values THEN Matched("month") ELSE ClYearGone(Max(f.values))

ClYearRange ==
    LET f == clSched.year
    IN /\ AtField("year") /\ f.kind = "range"
       /\ IF Here.year \in f.from..f.to THEN Matched("month") ELSE ClYearGone(f.to)

ClYearOne ==
    LET f == clSched.year
    IN /\ AtField("year")
       /\ \/ f.kind = "one" /\ IF Here.year = f.from THEN Matched("month") ELSE ClYearGone(f.from)
          \/ f.kind = "star" /\ Here.year < ClYears /\ Matched("month")

\* No year is left to look at in this model.
ClBeyond == AtField("year") /\ clSched.year.kind = "star" /\ Here.year >= ClYears /\ ClReturns("beyond")

ClNextMonth ==
    ClMoves(IF Here.mon = ClMonths THEN BeginOfMonth(Here.year + 1, 1) ELSE BeginOfMonth(Here.year, Here.mon + 1),
            LAMBDA u : u)

ClMonthList ==
    LET f == clSched.mon
    IN AtField("month") /\ f.kind = "list" /\ IF Here.mon \in f.values THEN Matched("mday") ELSE ClNextMonth

ClMonthRange ==
    LET f == clSched.mon
    IN AtField("month") /\ f.kind = "range" /\ IF Here.mon \in f.from..f.to THEN Matched("mday") ELSE ClNextMonth

ClMonthOne ==
    LET f == clSched.mon
    IN /\ AtField("month") /\ f.kind \in {"one", "star"}
       /\ IF f.kind = "one" /\ Here.mon # f.from THEN ClNextMonth ELSE Matched("mday")

\* Whether this field asks for another day; the two fields are put together after the second.
DayField(i, add, next) ==
    clAddDay' = [clAddDay EXCEPT ![i] = add] /\ clField' = next
    /\ UNCHANGED <<clObject, clAt, clState, clAmbiguous>>

ClMonthDayList == LET f == clSched.mday
                  IN AtField("mday") /\ f.kind = "list" /\ DayField(1, Here.mday \notin f.values, "wday")

ClMonthDayRange == LET f == clSched.mday
                   IN AtField("mday") /\ f.kind = "range" /\ DayField(1, Here.mday \notin f.from..f.to, "wday")

ClMonthDayOne ==
    LET f == clSched.mday
    IN /\ AtField("mday") /\ f.kind \in {"one", "star"}
       /\ DayField(1, f.kind = "one" /\ Here.mday # f.from, "wday")

ClWeekDayList == LET f == clSched.wday
                 IN AtField("wday") /\ f.kind = "list" /\ DayField(2, Here.wday \notin f.values, "day")

ClWeekDayRange == LET f == clSched.wday
                  IN AtField("wday") /\ f.kind = "range" /\ DayField(2, Here.wday \notin f.from..f.to, "day")

ClWeekDayOne ==
    LET f == clSched.wday
    IN /\ AtField("wday") /\ f.kind \in {"one", "star"}
       /\ DayField(2, f.kind = "one" /\ Here.wday # f.from, "day")

\* bIsNecessaryAddDay
ClAddDayNeeded ==
    CASE clSched.mday = Star /\ clSched.wday = Star -> FALSE
      [] clSched.mday # Star /\ clSched.wday = Star -> clAddDay[1]
      [] clSched.mday = Star /\ clSched.wday # Star -> clAddDay[2]
      [] clSched.mday # Star /\ clSched.wday # Star -> clAddDay[1] /\ clAddDay[2]

\* After the change of the clock the day that follows has begun an hour ago, or begins in an hour.
ClNextDay ==
    LET next(u) == LET h == LocalOf[u + ClDay].hour
                   IN CASE h = 0 -> u + ClDay
                        [] h = ClHours - 1 -> u + ClDay + ClHour
                        [] h = 1 -> u + ClDay - ClHour
    IN AtField("day") /\ ClAddDayNeeded /\ ClMoves(Here.wall - (Here.wall % ClDay), next)

ClDayMatches == AtField("day") /\ ~ClAddDayNeeded /\ Matched("hour")

\* The hour that comes again when the clock is put back is passed over.
ClNextHour ==
    ClMoves(Here.wall - (Here.wall % ClHour),
            LAMBDA u : IF LocalOf[u + ClHour].hour = Here.hour THEN u + 2 * ClHour ELSE u + ClHour)

ClHourList ==
    LET f == clSched.hour
    IN AtField("hour") /\ f.kind = "list" /\ IF Here.hour \in f.values THEN Matched("min") ELSE ClNextHour

ClHourRange ==
    LET f == clSched.hour
    IN AtField("hour") /\ f.kind = "range" /\ IF Here.hour \in f.from..f.to THEN Matched("min") ELSE ClNextHour

ClHourOne ==
    LET f == clSched.hour
    IN /\ AtField("hour") /\ f.kind \in {"one", "star"}
       /\ IF f.kind = "one" /\ Here.hour # f.from THEN ClNextHour ELSE Matched("min")

ClNextMinute == ClMoves(Here.wall - (Here.wall % ClMinute), LAMBDA u : u + ClMinute)

ClMinuteList ==
    LET f == clSched.min
    IN AtField("min") /\ f.kind = "list" /\ IF Here.min \in f.values THEN Matched("sec") ELSE ClNextMinute

ClMinuteRange ==
    LET f == clSched.min
    IN AtField("min") /\ f.kind = "range" /\ IF Here.min \in f.from..f.to THEN Matched("sec") ELSE ClNextMinute

ClMinuteOne ==
    LET f == clSched.min
    IN /\ AtField("min") /\ f.kind \in {"one", "star"}
       /\ IF f.kind = "one" /\ Here.min # f.from THEN ClNextMinute ELSE Matched("sec")

ClNextSecond == ClMoves(Here.wall, LAMBDA u : u + 1)

ClSecondList ==
    LET f == clSched.sec
    IN AtField("sec") /\ f.kind = "list" /\ IF Here.sec \in f.values THEN ClReturns("found") ELSE ClNextSecond

ClSecondRange ==
    LET f == clSched.sec
    IN AtField("sec") /\ f.kind = "range" /\ IF Here.sec \in f.from..f.to THEN ClReturns("found") ELSE ClNextSecond

ClSecondOne ==
    LET f == clSched.sec
    IN /\ AtField("sec") /\ f.kind \in {"one", "star"}
       /\ IF f.kind = "one" /\ Here.sec # f.from THEN ClNextSecond ELSE ClReturns("found")

ClStep ==
    \/ ClYearList \/ ClYearRange \/ ClYearOne \/ ClBeyond
    \/ ClMonthList \/ ClMonthRange \/ ClMonthOne
    \/ ClMonthDayList \/ ClMonthDayRange \/ ClMonthDayOne
    \/ ClWeekDayList \/ ClWeekDayRange \/ ClWeekDayOne \/ ClDayMatches \/ ClNextDay
    \/ ClHourList \/ ClHourRange \/ ClHourOne
    \/ ClMinuteList \/ ClMinuteRange \/ ClMinuteOne
    \/ ClSecondList \/ ClSecondRange \/ ClSecondOne

\* A search that is beyond the years of the model goes on.
ClGoesOn == clState = "beyond" /\ UNCHANGED clVars

ClNext ==
    \/ \E s \in ClSchedules : ClConstruct(s)
    \/ \E u \in ClStarts : ClStart(u)
    \/ ClUpdate \/ ClDestroy \/ ClStep \/ ClGoesOn

ClSpec == ClInit /\ [][ClNext]_clVars

\* The search runs in the thread that called it, which is scheduled.
ClFairSpec == ClSpec /\ WF_clVars(ClStep)

-----------------------------------------------------------------------------
(***************************************************************************)
(* Properties.                                                             *)
(***************************************************************************)
ClTypeOK ==
    /\ clState # "builded" => clSched \in ClSchedules
    /\ clCurrent \in DOMAIN LocalOf /\ clAt \in DOMAIN LocalOf
    /\ clState \in {"builded", "initialized", "searching", "found", "last", "beyond"}
    /\ clField \in {"year", "month", "mday", "wday", "day", "hour", "min", "sec"}
    /\ clAddDay \in BOOLEAN \X BOOLEAN /\ clAmbiguous \in BOOLEAN

\* updateNextCalendarExpirationDateTime finds the first date of the schedule after the current one: none of the jumps
\* to the next month, day, hour or minute passes over a date, on the days with 23 and 25 hours as well.  The hour that
\* comes twice is left out where mktime had to choose.
FindsNextDate ==
    clState = "found" /\ ~clAmbiguous =>
        /\ clCurrent < clAt /\ IsDate(clSched, LocalOf[clAt])
        /\ DatesBetween(clSched, clCurrent, clAt) = {}

\* lastTimeout is reported when no date is left, not before: the scheduler takes the Times2 off its list then.
LastTimeoutIsLast ==
    clState = "last" /\ ~clAmbiguous => DatesBetween(clSched, clCurrent, ClHorizon) = {}

\* The search over years, months, days, hours, minutes and seconds finds the next date of a schedule and passes none
\* over, and answers "last timeout" only when none is left.
CalendarRight == ClTypeOK /\ FindsNextDate /\ LastTimeoutIsLast

\* The search for a date comes to an end, or passes the last year of the model.
SearchComesToAnEnd == clState = "searching" ~> clState # "searching" \/ clAmbiguous

\* Times2 accepts the schedules that Times accepted, and gives the same dates for them.
SameAsTimes == First!CtSpec

\* What a comment of the constructor says: the schedules of every year with which the search would loop ("if year is *,
\* month is february and day is 30 or 31 we have a loop") are refused.
NoLoopInFebruary ==
    clState = "beyond" /\ clSched.mon = One(ClFebruary) => LocalOf[clCurrent].year > 0
=============================================================================
