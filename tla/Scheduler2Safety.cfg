CONSTANTS
    p = p
    c = c
    Times = {p, c}
    Period <- OnePeriod
    Schedule <- OneDate
    StartDates = {}
    MaxTime = 2
    DstStart = 0
    DstEnd = 1
    Hour = 1
    NoDate = NoDate
    Loops = {l1, l2}
    MaxListed = 2
    NoThread = NoThread
    NoTimes = NoTimes
SPECIFICATION FairSpec
INVARIANTS OneLateScan
PROPERTIES FiresWhenDue DeactivatesOnce DueIsHandled
