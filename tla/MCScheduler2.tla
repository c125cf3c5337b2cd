---------------------------- MODULE MCScheduler2 ----------------------------
EXTENDS Scheduler2, TLC

CONSTANTS p, c  \* a periodic Times2 and one that follows a calendar

\* The period makes p expire again while a scan is late.
OnePeriod == p :> 1

\* One date, after the switch from daylight saving time.
OneDate == c :> {2}

=============================================================================
