----------------------------- MODULE Scheduler2 -----------------------------
(***************************************************************************)
(* The scheduler (Scheduler/src, Scheduler2): a thread that runs           *)
(* operator() scans the list of active Times2 and calls handleTimeOut of   *)
(* those that have expired.                                                *)
(*                                                                         *)
(* A scan holds the recursive mutex of the scheduler from its first to its *)
(* last line, but not the mutexes of the Times2: between two calls of      *)
(* their methods any thread may stop or start them.  A handler runs inside *)
(* the scan and may call every method of the scheduler, as the mutex is    *)
(* recursive.  A method that throws without an effect is not a step.       *)
(***************************************************************************)
EXTENDS Times2, Sequences

Vector == INSTANCE SequencesExt  \* std::vector: RemoveAt is its erase

CONSTANTS Loops,        \* the threads that run operator()
          MaxListed,    \* a bound on the length of the list of active Times2
          NoThread,     \* the mutex is free
          NoTimes       \* the null pointer

ASSUME SchedulerAssumption ==
    /\ MaxListed \in Nat
    /\ NoThread \notin Loops

VARIABLES status,     \* _schedulerStatus
          timesList,  \* _timesList
          mutex,      \* _mtSchedulerMutex: NoThread, or the loop that scans
          pc,         \* where every loop is
          index,      \* lTimesPointerIndex of the loop that scans, from 1
          at,         \* ptTimes
          deactived,  \* bIsTimesDeactived
          lateScans,  \* per loop, the scans begun since the scheduler was
                      \* suspended or cancelled
          rulesKept   \* have the clients kept the rules so far that
                      \* handleTimes relies on?

control == <<status, lateScans>>
scan == <<index, at, deactived>>
vars == <<rulesKept, now, times, control, timesList, mutex, pc, scan>>

\* The local variables of handleTimes begin with these values, and have them
\* again after it.
NoScan == index = 1 /\ at = NoTimes /\ deactived = FALSE

ScanEnds == index' = 1 /\ at' = NoTimes /\ deactived' = FALSE

Init ==
    /\ InitTimes
    /\ status = "INITIALIZED"
    /\ timesList = <<>>
    /\ mutex = NoThread
    /\ pc = [l \in Loops |-> "ended"]
    /\ NoScan
    /\ lateScans = [l \in Loops |-> 0]
    /\ rulesKept = TRUE

Keep(rule) == rulesKept' = (rulesKept /\ rule)

\* A client that is not inside a scan, or the handler that a scan calls.
CanLock == mutex # NoThread => pc[mutex] = "handler"

-----------------------------------------------------------------------------
(***************************************************************************)
(* The methods of the clients.                                             *)
(***************************************************************************)
Pass ==
    /\ Tick
    /\ UNCHANGED <<rulesKept, times, control, timesList, mutex, pc, scan>>

\* Rule: start no Times2 that has no timeout left or whose first timeout has
\* passed already (its handler could do so again and again, and keep the scan
\* from its end).
StartTimes(x, date) ==
    /\ Keep(/\ ~IsLast(x, StartDate(date))
            /\ now < Utc(NextDate(x, StartDate(date), times[x].next)))
    /\ Start(x, date)
    /\ UNCHANGED <<control, timesList, mutex, pc, scan>>

\* Rule: take a Times2 off the list before you stop it, or stop it in a
\* handler.
StopTimes(x) ==
    /\ Keep(\/ \A i \in 1..Len(timesList) : timesList[i] # x
            \/ \E l \in Loops : pc[l] = "handler")
    /\ Stop(x)
    /\ UNCHANGED <<control, timesList, mutex, pc, scan>>

NoLateScans == lateScans' = [l \in Loops |-> 0]

Suspend ==
    /\ CanLock
    /\ status = "STARTED"
    /\ status' = "SUSPENDED"
    /\ NoLateScans
    /\ UNCHANGED <<rulesKept, now, times, timesList, mutex, pc, scan>>

Resume ==
    /\ CanLock
    /\ status = "SUSPENDED"
    /\ status' = "STARTED"
    /\ NoLateScans
    /\ UNCHANGED <<rulesKept, now, times, timesList, mutex, pc, scan>>

Cancel ==
    /\ CanLock
    /\ status # "INITIALIZED"
    /\ status' = "INITIALIZED"
    /\ IF status = "STARTED" THEN NoLateScans ELSE UNCHANGED lateScans
    /\ UNCHANGED <<rulesKept, now, times, timesList, mutex, pc, scan>>

\* A Times2 that is active already is added a second time.
ActiveTimes(x) ==
    /\ CanLock
    /\ Len(timesList) < MaxListed
    /\ timesList' = Append(timesList, x)
    /\ UNCHANGED <<rulesKept, now, times, control, mutex, pc, scan>>

IsFirstAt(x, i) ==
    /\ timesList[i] = x
    /\ \A j \in 1..i - 1 : timesList[j] # x

DeactiveTimes(x) ==
    /\ CanLock
    /\ \E i \in 1..Len(timesList) :
            /\ IsFirstAt(x, i)
            /\ timesList' = Vector!RemoveAt(timesList, i)
    /\ UNCHANGED <<rulesKept, now, times, control, mutex, pc, scan>>

-----------------------------------------------------------------------------
(***************************************************************************)
(* operator().  A loop that read STARTED is at "check", one that sleeps at *)
(* "sleep"; "dead" is a thread that an exception took out of operator().   *)
(***************************************************************************)
Goto(l, p) == pc' = [pc EXCEPT ![l] = p]

Begin(l) ==
    /\ pc[l] = "ended"
    /\ mutex = NoThread
    /\ status' = "STARTED"
    /\ Goto(l, "check")
    /\ NoLateScans
    /\ UNCHANGED <<rulesKept, now, times, timesList, mutex, scan>>

\* Mutant: the status is not read again after the sleep.
ReadStatusOnce(l) ==
    /\ pc[l] = "sleep"
    /\ mutex = NoThread
    /\ Goto(l, "check")
    /\ UNCHANGED <<rulesKept, now, times, control, timesList, mutex, scan>>

ReadStatus(l) ==
    /\ pc[l] = "sleep"
    /\ mutex = NoThread
    /\ Goto(l, CASE status = "STARTED" -> "check"
                 [] status = "SUSPENDED" -> "sleep"
                 [] status = "INITIALIZED" -> "ended")
    /\ UNCHANGED <<rulesKept, now, times, control, timesList, mutex, scan>>

\* The status may have changed since the loop read it.
EnterScan(l) ==
    /\ pc[l] = "check"
    /\ mutex = NoThread
    /\ mutex' = l
    /\ Goto(l, "scan")
    /\ lateScans' = IF status = "STARTED" THEN lateScans
                    ELSE [lateScans EXCEPT ![l] = @ + 1]
    /\ UNCHANGED <<rulesKept, now, times, status, timesList, scan>>

LeaveScan(l) ==
    /\ pc[l] = "scan"
    /\ index > Len(timesList)
    /\ mutex' = NoThread
    /\ ScanEnds
    /\ Goto(l, "sleep")
    /\ UNCHANGED <<rulesKept, now, times, control, timesList>>

\* Mutant: the scan ends at the first Times2 that is not started.
LookBreaks(l) ==
    /\ pc[l] = "scan"
    /\ index <= Len(timesList)
    /\ at' = timesList[index]
    /\ deactived' = FALSE
    /\ IF ~IsStarted(timesList[index])
       THEN index' = Len(timesList) + 1 /\ UNCHANGED pc
       ELSE IF IsExpired(timesList[index])
            THEN Goto(l, "update") /\ UNCHANGED index
            ELSE index' = index + 1 /\ UNCHANGED pc
    /\ UNCHANGED <<rulesKept, now, times, control, timesList, mutex>>

\* isStarted and isExpiredTime are one step: a stop between the two calls has
\* the effect of one after them.
Look(l) ==
    /\ pc[l] = "scan"
    /\ index <= Len(timesList)
    /\ at' = timesList[index]
    /\ deactived' = FALSE
    /\ IF IsStarted(timesList[index]) /\ IsExpired(timesList[index])
       THEN Goto(l, "update") /\ UNCHANGED index
       ELSE index' = index + 1 /\ UNCHANGED pc
    /\ UNCHANGED <<rulesKept, now, times, control, timesList, mutex>>

Die(l) ==
    /\ Goto(l, "dead")
    /\ mutex' = NoThread
    /\ ScanEnds
    /\ UNCHANGED <<now, control, timesList>>

\* After its last timeout a Times2 is taken off the list before its handler
\* is called.
UpdateTimes(l) ==
    /\ pc[l] = "update"
    /\ \/ /\ UpdateFails(at)
          /\ UpdateFailed(at)
          /\ Die(l)
          /\ UNCHANGED rulesKept
       \/ /\ ~UpdateFails(at)
          /\ Update(at)
          /\ deactived' = IsLast(at, times[at].next)
          /\ timesList' = IF IsLast(at, times[at].next)
                          THEN Vector!RemoveAt(timesList, index) ELSE timesList
          /\ Goto(l, "handler")
          /\ UNCHANGED <<rulesKept, now, control, mutex, index, at>>

HandlerReturns(l) ==
    /\ pc[l] = "handler"
    /\ index' = IF deactived THEN index ELSE index + 1
    /\ Goto(l, "scan")
    /\ UNCHANGED <<rulesKept, now, times, control, timesList, mutex>>
    /\ UNCHANGED <<at, deactived>>

\* Mutant: a Times2 is deactivated although it was after its last timeout.
HandlerThrowsTwice(l) ==
    /\ pc[l] = "handler"
    /\ timesList' = Vector!RemoveAt(timesList, index)
    /\ deactived' = TRUE
    /\ Goto(l, "scan")
    /\ UNCHANGED <<rulesKept, now, times, control, mutex, index, at>>

\* Rule: a handler that throws has not moved its Times2 in the list.
HandlerThrows(l) ==
    /\ pc[l] = "handler"
    /\ Keep(\/ deactived
            \/ index <= Len(timesList) /\ timesList[index] = at)
    /\ \/ /\ ~deactived
          /\ index > Len(timesList)
          /\ Die(l)
       \/ /\ deactived
          /\ Goto(l, "scan")
          /\ UNCHANGED <<now, control, timesList, mutex, scan>>
       \/ /\ ~deactived
          /\ index <= Len(timesList)
          /\ timesList' = Vector!RemoveAt(timesList, index)
          /\ deactived' = TRUE
          /\ Goto(l, "scan")
          /\ UNCHANGED <<now, control, mutex, index, at>>
    /\ UNCHANGED times

-----------------------------------------------------------------------------
Client ==
    \/ Pass
    \/ Suspend
    \/ Resume
    \/ Cancel
    \/ \E x \in Times :
        \/ \E date \in StartDates \cup {NoDate} : StartTimes(x, date)
        \/ StopTimes(x)
        \/ ActiveTimes(x)
        \/ DeactiveTimes(x)

Loop(l) ==
    \/ ReadStatus(l)
    \/ EnterScan(l)
    \/ LeaveScan(l)
    \/ Look(l)
    \/ UpdateTimes(l)

Next ==
    \/ Client
    \/ \E l \in Loops : \/ Begin(l)
                        \/ Loop(l)
                        \/ HandlerReturns(l)
                        \/ HandlerThrows(l)

Spec == Init /\ [][Next]_vars

(***************************************************************************)
(* Fairness.  A loop that may go on in the end does, also when other       *)
(* threads take the mutex in between (strong fairness), and every handler  *)
(* comes to its end.                                                       *)
(***************************************************************************)
Fairness == \A l \in Loops : SF_vars(Loop(l)) /\ WF_vars(HandlerReturns(l))

FairSpec == Spec /\ Fairness

-----------------------------------------------------------------------------
(***************************************************************************)
(* Properties.                                                             *)
(***************************************************************************)
Date == [wall : Nat \cup {NoDate}, dst : BOOLEAN]

\* The types; and the mutex is held by the loop that scans, no other.
TypeOK ==
    /\ now \in Time
    /\ times \in [Times -> [status : {"INITIALIZED", "STARTED"},
                            current : Date, next : Date]]
    /\ status \in {"INITIALIZED", "STARTED", "SUSPENDED"}
    /\ timesList \in UNION {[1..n -> Times] : n \in 0..MaxListed}
    /\ pc \in [Loops -> {"ended", "check", "scan", "update", "handler",
                         "sleep", "dead"}]
    /\ mutex \in Loops \cup {NoThread}
    /\ \A l \in Loops : mutex = l <=> pc[l] \in {"scan", "update", "handler"}
    /\ index \in 1..MaxListed + 1
    /\ at \in Times \cup {NoTimes}
    /\ deactived \in BOOLEAN
    /\ lateScans \in [Loops -> Nat]
    /\ rulesKept \in BOOLEAN

\* After suspend or cancel has returned, a thread in operator() begins one
\* more scan at most, with the status that it had read before.
OneLateScan == \A l \in Loops : lateScans[l] <= 1

\* handleTimes never calls a handler before the timeout, whatever the local
\* clock does between the update of the date and the scan that finds it.
FiresWhenDue ==
    [][\A l \in Loops : rulesKept /\ pc[l] = "update" /\ pc'[l] = "handler"
                            => Utc(times[at].next) <= now]_vars

Listed(x) == Cardinality({i \in 1..Len(timesList) : timesList[i] = x})

\* From the timeout to the end of its handler, handleTimes takes off the list
\* nothing but the Times2 that timed out, and that once: the last timeout of
\* a Times2 whose handler throws as well deactivates no other one.
DeactivatesOnce ==
    [][\A l \in Loops :
            rulesKept' /\ pc[l] \in {"update", "handler"} /\ pc'[l] # pc[l] =>
                \A x \in Times :
                    Listed(x)' = Listed(x) -
                        IF x = at /\ deactived' /\ ~deactived THEN 1 ELSE 0]_vars

Due(x) ==
    /\ rulesKept
    /\ IsStarted(x)
    /\ Utc(times[x].next) <= now
    /\ Listed(x) > 0
    /\ status = "STARTED"
    /\ \E l \in Loops : pc[l] # "ended"

\* A timeout of an active Times2 is handled in the end, unless the clients
\* stop or deactivate it, or suspend or cancel the scheduler: no other Times2
\* that comes before it in the list, and no handler, keeps it from that.
DueIsHandled == \A x \in Times : Due(x) ~> ~Due(x)

\* What the documents of stop and handleTimeOut promise: a stopped Times2 is
\* not looked after any more, and a failing handler is taken off the list; the
\* thread that runs operator() goes on.
SchedulerSurvives == \A l \in Loops : pc[l] # "dead"

\* What the document of start promises: the first timeout of a periodic Times2
\* that is started with pStartDateTime comes a period after that date.
FirstTimeoutAfterPeriod ==
    [][\A x \in DOMAIN Period : \A u \in Time :
            Local(u).wall \in StartDates /\ StartTimes(x, Local(u).wall)
                => times'[x].next = Local(u + Period[x])]_vars
=============================================================================
