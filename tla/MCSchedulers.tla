---------------------------- MODULE MCSchedulers ----------------------------
(***************************************************************************)
(* The first scheduler, and the calendars of both, each on its own: a      *)
(* behaviour is one of the first scheduler or one of a calendar.           *)
(***************************************************************************)
EXTENDS FirstScheduler, Times2Calendar, TLC

CONSTANTS p, c  \* a periodic Times and one that follows a calendar

VARIABLE part

\* The period makes p expire again while a scan is late; the date is after the end of the daylight saving time.
OnePeriod == p :> 1
OneDate == c :> {2}

\* Three months: one with the day 31 (here 4), one with neither 30 nor 31, one without 31.
MCMonthDays == <<4, 2, 3>>

\* Every field in every form; those that are given together are the ones whose jumps meet.
MCSchedules ==
    LET S == First!CtStar IN
    {S} \cup
    {[S EXCEPT !.mon = m, !.mday = d, !.hour = One(2), !.min = One(1), !.sec = One(0)] :
        m \in {Star, One(2), ListOf({1, 3}), RangeOf(2, 3)},
        d \in {Star, One(1), One(4), ListOf({2, 4}), ListOf({4}), RangeOf(2, 3), RangeOf(3, 4)}}
    \cup {[S EXCEPT !.mday = d, !.wday = w, !.hour = One(0), !.min = One(0)] :
        d \in {Star, One(2)}, w \in {One(1), ListOf({0, 2}), RangeOf(1, 2)}}
    \cup {[S EXCEPT !.year = y, !.mon = One(2), !.mday = One(2), !.hour = h] :
        y \in {One(1), ListOf({0, 2}), RangeOf(1, 2)}, h \in {One(1), ListOf({1, 3}), RangeOf(2, 3)}}
    \cup {[S EXCEPT !.hour = h, !.min = m, !.sec = s] :
        h \in {Star, One(1), ListOf({0, 1, 3})},
        m \in {One(0), ListOf({1}), RangeOf(1, 1)}, s \in {One(1), ListOf({0}), RangeOf(1, 1)}}
    \cup {[S EXCEPT !.mon = One(4)], [S EXCEPT !.mday = RangeOf(3, 2)], [S EXCEPT !.hour = ListOf({4})],
          [S EXCEPT !.mon = One(2), !.mday = One(3)], [S EXCEPT !.spaces = 5]}

SchedulersInit == ScInitial /\ ClInit /\ part \in {"scheduler", "calendar"}

SchedulersNext ==
    \/ part = "scheduler" /\ ScNext /\ UNCHANGED <<part, clVars>>
    \/ part = "calendar" /\ ClNext /\ UNCHANGED <<part, scVars>>

SchedulersSpec ==
    /\ SchedulersInit /\ [][SchedulersNext]_<<part, scVars, clVars>>
    /\ ScFairness /\ WF_clVars(ClStep)

-----------------------------------------------------------------------------
\* A timeout is handled in the end, cancel ends the thread, and a search comes to an end.
SchedulersGoOn == ScDueIsHandled /\ CancelEndsTheThread /\ SearchComesToAnEnd
=============================================================================
