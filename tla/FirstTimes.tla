----------------------------- MODULE FirstTimes -----------------------------
(***************************************************************************)
(* The Times of the first scheduler (Scheduler/src, Times).  It is built,  *)
(* initialized, started, stopped and finished; it keeps its current and    *)
(* its next expiration as local dates with the flag of the daylight saving *)
(* time.  A method holds the mutex of its object, and is one step, but for *)
(* start, which writes the status after it has unlocked the mutex.         *)
(*                                                                         *)
(* Which date of a calendar comes next is taken from the schedule here;    *)
(* TimesCalendar models the search for it.                                 *)
(***************************************************************************)
EXTENDS Integers, FiniteSets

CONSTANTS ScPeriod,      \* the periodic Times, and their periods
          ScDates,       \* the others, and the wall times of their schedules
          ScStartDates,  \* the values of pStartDateTime
          ScMaxTime,     \* the clock stops there; it stands for all that comes after
          ScDstEnd,      \* daylight saving time is on until then
          ScHour,        \* and puts the local clock forward by that
          ScNever        \* no date, "" in the code

ScTimes == DOMAIN ScPeriod \cup DOMAIN ScDates
IsPeriodicTimes(x) == x \in DOMAIN ScPeriod

ASSUME FirstTimesAssumption ==
    /\ IsFiniteSet(ScTimes) /\ DOMAIN ScPeriod \cap DOMAIN ScDates = {}
    /\ \A x \in DOMAIN ScPeriod : ScPeriod[x] \in Nat \ {0}
    /\ \A x \in DOMAIN ScDates : ScDates[x] \cap ScDstEnd..ScDstEnd + ScHour - 1 = {}
    /\ ScStartDates \subseteq Nat /\ ScNever \notin Nat
    /\ ScMaxTime \in Nat /\ ScDstEnd \in Nat /\ ScHour \in Nat

VARIABLES scNow,      \* UTC
          scTimes,    \* the fields of every Times
          scStarting  \* start has unlocked the mutex, and not set the status

scObjects == <<scTimes, scStarting>>

LocalDate(u) == [wall |-> u + IF u < ScDstEnd THEN ScHour ELSE 0, dst |-> u < ScDstEnd]
UtcOf(date) == date.wall - IF date.dst THEN ScHour ELSE 0

LaterDates(x, date) == {u \in 0..ScMaxTime : u > UtcOf(date) /\ LocalDate(u).wall \in ScDates[x]}

\* SCH_REACHED_LASTTIMEOUT
NoneLeft(x, date) == ~IsPeriodicTimes(x) /\ LaterDates(x, date) = {}

DateAfter(x, date) ==
    LocalDate(IF IsPeriodicTimes(x) THEN UtcOf(date) + ScPeriod[x]
              ELSE CHOOSE u \in LaterDates(x, date) : \A v \in LaterDates(x, date) : u <= v)

NoDateYet == [wall |-> ScNever, dst |-> FALSE]

TimesInitial ==
    /\ scNow = 0 /\ scStarting = {}
    /\ scTimes = [x \in ScTimes |-> [status |-> "BUILDED", current |-> NoDateYet, next |-> NoDateYet]]

TimesInit(x) == /\ scTimes[x].status = "BUILDED"
                /\ scTimes' = [scTimes EXCEPT ![x] = [status |-> "INITIALIZED", current |-> NoDateYet, next |-> NoDateYet]]
                /\ UNCHANGED scStarting

TimesFinish(x) == /\ scTimes[x].status # "BUILDED" /\ x \notin scStarting
                  /\ scTimes' = [scTimes EXCEPT ![x] = [status |-> "BUILDED", current |-> NoDateYet, next |-> NoDateYet]]
                  /\ UNCHANGED scStarting

\* A start date is passed to addSeconds with a flag of -1, which comes back as it is and is true.
FirstDate(date) == IF date = ScNever THEN LocalDate(scNow) ELSE [wall |-> date, dst |-> TRUE]

\* Without a date left start fails; the current date has been written.
TimesStart(x, date) ==
    /\ scTimes[x].status = "INITIALIZED" /\ x \notin scStarting
    /\ LET first == FirstDate(date)
       IN IF NoneLeft(x, first)
          THEN scTimes' = [scTimes EXCEPT ![x].current = first] /\ UNCHANGED scStarting
          ELSE /\ scTimes' = [scTimes EXCEPT ![x].current = first, ![x].next = DateAfter(x, first)]
               /\ scStarting' = scStarting \cup {x}

TimesStarted(x) ==
    /\ x \in scStarting /\ scStarting' = scStarting \ {x}
    /\ scTimes' = [scTimes EXCEPT ![x].status = "STARTED"]

TimesStop(x) == /\ scTimes[x].status = "STARTED"
                /\ scTimes' = [scTimes EXCEPT ![x].status = "INITIALIZED"] /\ UNCHANGED scStarting

\* isExpiredTime: the dates, unless the end of the daylight saving time is between them.
HasExpired(x) ==
    LET here == LocalDate(scNow)
        t == scTimes[x]
    IN IF t.current.dst /\ here.dst # t.next.dst THEN t.next.dst
       ELSE t.next.wall <= here.wall

\* updateNextExpirationDateTime of a Times that is started.
TimesUpdate(x) ==
    LET date == scTimes[x].next
    IN /\ scTimes' = [scTimes EXCEPT ![x] =
                        IF NoneLeft(x, date) THEN [status |-> "INITIALIZED", current |-> date, next |-> date]
                        ELSE [status |-> "STARTED", current |-> date, next |-> DateAfter(x, date)]]
       /\ UNCHANGED scStarting
=============================================================================
