------------------------------- MODULE Times2 -------------------------------
(***************************************************************************)
(* The clocks with alarms that the scheduler looks after (Scheduler/src,   *)
(* Times2).  A Times2 is periodic or follows a calendar; it keeps its      *)
(* current and its next expiration as local dates, each a wall time and    *)
(* the flag that says whether daylight saving time is on.                  *)
(*                                                                         *)
(* A method holds the mutex of its object from the first to the last line, *)
(* so it is one step.  A call that returns an error changes nothing.       *)
(*                                                                         *)
(* The clock saturates: MaxTime stands for itself and every later instant. *)
(***************************************************************************)
EXTENDS Integers, FiniteSets

CONSTANTS Times,       \* the Times2 objects
          Period,      \* the period of a periodic one, by object
          Schedule,    \* the wall times of one that follows a calendar
          StartDates,  \* the values of pStartDateTime, as wall times
          MaxTime,     \* where the clock saturates
          DstStart,    \* daylight saving time is on from DstStart ...
          DstEnd,      \* ... up to DstEnd, exclusive
          Hour,        \* what it puts the local clock forward by
          NoDate       \* no pStartDateTime, or a date that is still ""

IsPeriodic(x) == x \in DOMAIN Period

\* No calendar has a date in the hour that comes twice: which of the two mktime
\* takes there is up to the C library.
ASSUME TimesAssumption ==
    /\ DOMAIN Period \cup DOMAIN Schedule = Times
    /\ DOMAIN Period \cap DOMAIN Schedule = {}
    /\ \A x \in DOMAIN Period : Period[x] \in Nat
    /\ \A x \in DOMAIN Schedule : Schedule[x] \subseteq Nat
    /\ \A x \in DOMAIN Schedule :
            Schedule[x] \cap DstEnd..DstEnd + Hour - 1 = {}
    /\ StartDates \subseteq Nat
    /\ {MaxTime, DstStart, DstEnd, Hour} \subseteq Nat
    /\ NoDate \notin Nat

VARIABLES now,   \* UTC
          times  \* the fields of every Times2

Time == 0..MaxTime

Wall(u, dst) == u + IF dst THEN Hour ELSE 0

IsDst(u) == DstStart <= u /\ u < DstEnd

\* localtime_r, and mktime with the flag given.
Local(u) == [wall |-> Wall(u, IsDst(u)), dst |-> IsDst(u)]

Utc(date) == date.wall - IF date.dst THEN Hour ELSE 0

\* DateTime::addSeconds: nothing is converted when nothing is added.
AddSeconds(date, n) == IF n = 0 THEN date ELSE Local(Utc(date) + n)

Empty(date) == date.wall = NoDate

\* The instants of the schedule of x after a date.
Later(x, date) ==
    {u \in Time : u > Utc(date) /\ Local(u).wall \in Schedule[x]}

IsLast(x, date) == ~IsPeriodic(x) /\ Later(x, date) = {}

\* updateNext{Periodic,Calendar}ExpirationDateTime: the calendar one leaves the
\* next date as it is when there is no later one.
NextDate(x, current, next) ==
    IF IsPeriodic(x)
    THEN AddSeconds(current, Period[x])
    ELSE IF IsLast(x, current)
         THEN next
         ELSE Local(CHOOSE u \in Later(x, current) :
                        \A v \in Later(x, current) : u <= v)

-----------------------------------------------------------------------------
\* The constructors leave the flags uninitialized; start sets the current one.
InitTimes ==
    /\ now = 0
    /\ times \in [Times -> [status : {"INITIALIZED"},
                            current : {[wall |-> NoDate, dst |-> FALSE]},
                            next : [wall : {NoDate}, dst : BOOLEAN]]]

Tick == now < MaxTime /\ now' = now + 1

\* addSeconds gives the flag of a pStartDateTime back as it was passed, -1,
\* which is true.
StartDate(date) ==
    IF date = NoDate THEN Local(now) ELSE [wall |-> date, dst |-> TRUE]

\* A calendar without a later date is started all the same.
Start(x, date) ==
    /\ times[x].status = "INITIALIZED"
    /\ times' = [times EXCEPT ![x] =
            [status |-> "STARTED", current |-> StartDate(date),
             next |-> NextDate(x, StartDate(date), times[x].next)]]
    /\ UNCHANGED now

Stop(x) ==
    /\ times[x].status = "STARTED"
    /\ times' = [times EXCEPT ![x].status = "INITIALIZED"]
    /\ UNCHANGED now

IsStarted(x) == times[x].status = "STARTED"

\* Mutant: only the dates are compared.
IsExpiredByDate(x) ==
    Empty(times[x].next) \/ times[x].next.wall <= Local(now).wall

\* isExpiredTime compares the dates unless the switch from daylight saving
\* time lies between them.  The empty string is before every date.
IsExpired(x) ==
    LET here == Local(now)
        cur  == times[x].current
        next == times[x].next IN
    IF here.dst /\ cur.dst /\ ~next.dst
    THEN FALSE
    ELSE IF ~here.dst /\ cur.dst /\ next.dst
         THEN TRUE
         ELSE Empty(next) \/ next.wall <= here.wall

\* updateNextExpirationDateTime fails when x is not started, and for a
\* calendar that never had a date.
UpdateFails(x) ==
    \/ times[x].status # "STARTED"
    \/ ~IsPeriodic(x) /\ Empty(times[x].next)

UpdateFailed(x) ==
    times' = [times EXCEPT ![x].current =
                    IF IsStarted(x) THEN times[x].next ELSE @]

Update(x) ==
    LET date == times[x].next IN
    times' = [times EXCEPT ![x] =
            [status |-> IF IsLast(x, date) THEN "INITIALIZED" ELSE "STARTED",
             current |-> date,
             next |-> NextDate(x, date, date)]]
=============================================================================
