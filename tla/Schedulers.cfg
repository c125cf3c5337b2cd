CONSTANTS
    p = p
    c = c
    ScPeriod <- OnePeriod
    ScDates <- OneDate
    ScStartDates = {2}
    ScMaxTime = 2
    ScDstEnd = 1
    ScHour = 1
    ScNever = ScNever
    ScToAlloc = 1
    ScNoTimes = ScNoTimes
    ClMonthDays <- MCMonthDays
    ClFebruary = 2
    ClThirty = 3
    ClThirtyOne = 4
    ClWeek = 3
    ClHours = 4
    ClMinutes = 2
    ClSeconds = 2
    ClYears = 3
    ClDstFrom = 180
    ClDstTo = 228
    ClSchedules <- MCSchedules
    ClStarts = {0, 37, 200}
SPECIFICATION SchedulersSpec
INVARIANTS CalendarRight
PROPERTIES SchedulerSafe SameAsTimes SchedulersGoOn
