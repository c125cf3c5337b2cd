--------------------------- MODULE FirstScheduler ---------------------------
(***************************************************************************)
(* The first scheduler (Scheduler/src, Scheduler): a PosixThread that      *)
(* looks at the active Times in turn and calls handleTimeOut of those that *)
(* have expired.  handleTimes holds the recursive mutex of the scheduler   *)
(* from its first to its last line, the handlers included; the mutexes of  *)
(* the Times are taken and given back by each of their methods, so between *)
(* two of them any thread may stop or finish a Times.                      *)
(*                                                                         *)
(* A method that returns an error and changes nothing is not a step.       *)
(***************************************************************************)
EXTENDS FirstTimes, Sequences

Array == INSTANCE SequencesExt  \* RemoveAt

CONSTANTS ScToAlloc,      \* _ulTimesPointerToAllocOnOverflow
          ScNoTimes

\* init refuses to grow the array by less than one.
ASSUME FirstSchedulerAssumption == ScToAlloc \in Nat \ {0}

VARIABLES scStatus,     \* _schedulerStatus
          scList,       \* _pTimesList, up to _ulTimesPointerNumber
          scAllocated,  \* _ulAllocatedTimesPointerNumber
          scThread,     \* where the thread is; "none" before start and after join
          scIndex, scAt, scDeactived,  \* lTimesPointerIndex from 1, ptTimes, bIsTimesDeactived
          scRules       \* have the clients kept the rules so far?

scLoop == <<scThread, scIndex, scAt, scDeactived>>
scTable == <<scList, scAllocated>>
scVars == <<scNow, scObjects, scStatus, scTable, scLoop, scRules>>

ScInitial ==
    /\ TimesInitial
    /\ scStatus = "BUILDED" /\ scList = <<>> /\ scAllocated = 0
    /\ scThread = "none" /\ scIndex = 1 /\ scAt = ScNoTimes /\ scDeactived = FALSE
    /\ scRules = TRUE

Follows(rule) == scRules' = (scRules /\ rule)

\* The mutex is held during handleTimes; a handler may take it again.
MutexFree == scThread \notin {"look", "expired", "update"}

IsListed(x) == \E i \in 1..Len(scList) : scList[i] = x

-----------------------------------------------------------------------------
(***************************************************************************)
(* The methods of Times, called by the clients and by the handlers.        *)
(***************************************************************************)
ScPass == scNow < ScMaxTime /\ scNow' = scNow + 1 /\ UNCHANGED <<scObjects, scStatus, scTable, scLoop, scRules>>

ScOthers == UNCHANGED <<scNow, scStatus, scTable, scLoop>>

ScTimesInit(x) == TimesInit(x) /\ ScOthers /\ UNCHANGED scRules

\* Rule: finish no Times that is active, nor the one whose handler runs.
ScTimesFinish(x) == TimesFinish(x) /\ Follows(~IsListed(x) /\ scAt # x) /\ ScOthers

\* Rule: start none whose first timeout has passed already.
ScTimesStart(x, date) ==
    /\ TimesStart(x, date) /\ ScOthers
    /\ Follows(NoneLeft(x, FirstDate(date)) \/ scNow < UtcOf(DateAfter(x, FirstDate(date))))

ScTimesStarted(x) == TimesStarted(x) /\ ScOthers /\ UNCHANGED scRules

\* Rule: stop a Times that is not active, or in a handler.
ScTimesStop(x) == TimesStop(x) /\ Follows(~IsListed(x) \/ scThread = "handler") /\ ScOthers

-----------------------------------------------------------------------------
(***************************************************************************)
(* The methods of the scheduler.                                           *)
(***************************************************************************)
ScInit ==
    /\ scStatus = "BUILDED"
    /\ scStatus' = "INITIALIZED" /\ scList' = <<>> /\ scAllocated' = ScToAlloc
    /\ UNCHANGED <<scNow, scObjects, scLoop, scRules>>

\* The list is deleted: the clients call finish when the thread has ended, and no start is under way.
ScFinish(destroyTimes) ==
    /\ scStatus = "INITIALIZED" /\ scThread \in {"none", "ended"} /\ scStarting = {}
    /\ scStatus' = "BUILDED" /\ scList' = <<>> /\ scAllocated' = 0
    /\ scTimes' = [x \in ScTimes |-> IF destroyTimes /\ IsListed(x)
                                      THEN [status |-> "BUILDED", current |-> NoDateYet, next |-> NoDateYet]
                                      ELSE scTimes[x]]
    /\ UNCHANGED <<scNow, scStarting, scLoop, scRules>>

\* PosixThread::start refuses a thread that runs or has not been joined; the status is STARTED all the same.
ScStart ==
    /\ scStatus = "INITIALIZED" /\ MutexFree
    /\ scStatus' = "STARTED"
    /\ scThread' = IF scThread = "none" THEN "sleep" ELSE scThread
    /\ UNCHANGED <<scNow, scObjects, scTable, scIndex, scAt, scDeactived, scRules>>

ScSetStatus(from, to) ==
    /\ scStatus \in from /\ MutexFree
    /\ scStatus' = to /\ UNCHANGED <<scNow, scObjects, scTable, scLoop, scRules>>

ScSuspend == ScSetStatus({"STARTED"}, "SUSPENDED")
ScResume == ScSetStatus({"SUSPENDED"}, "STARTED")
ScCancel == ScSetStatus({"STARTED", "SUSPENDED"}, "INITIALIZED")

ScJoin ==
    scThread = "ended" /\ scThread' = "none"
    /\ UNCHANGED <<scNow, scObjects, scStatus, scTable, scIndex, scAt, scDeactived, scRules>>

\* activeTimes: the array grows when it is full.
ScActive(x) ==
    /\ scStatus # "BUILDED" /\ MutexFree /\ ~IsListed(x)
    /\ scList' = Append(scList, x)
    /\ scAllocated' = IF Len(scList) = scAllocated THEN scAllocated + ScToAlloc ELSE scAllocated
    /\ UNCHANGED <<scNow, scObjects, scStatus, scLoop, scRules>>

\* deactiveTimes (index): those behind it move up.
RemovedAt(i) == Array!RemoveAt(scList, i)

ScDeactive(x) ==
    /\ scStatus # "BUILDED" /\ MutexFree
    /\ \E i \in 1..Len(scList) : scList[i] = x /\ scList' = RemovedAt(i)
    /\ UNCHANGED <<scNow, scObjects, scStatus, scAllocated, scLoop, scRules>>

-----------------------------------------------------------------------------
(***************************************************************************)
(* run and handleTimes.                                                    *)
(***************************************************************************)
Runs(pc) == scThread' = pc
ScanOver == scIndex' = 1 /\ scAt' = ScNoTimes /\ scDeactived' = FALSE

ScReads ==
    /\ scThread = "sleep"
    /\ Runs(CASE scStatus = "STARTED" -> "check" [] scStatus = "SUSPENDED" -> "sleep" [] OTHER -> "ended")
    /\ UNCHANGED <<scNow, scObjects, scStatus, scTable, scIndex, scAt, scDeactived, scRules>>

ScEnters ==
    /\ scThread = "check" /\ Runs("look")
    /\ UNCHANGED <<scNow, scObjects, scStatus, scTable, scIndex, scAt, scDeactived, scRules>>

\* handleTimes returns an error, and so does run: the thread ends.
ScFails == Runs("ended") /\ ScanOver /\ UNCHANGED <<scNow, scObjects, scStatus, scTable, scRules>>

ScLeaves ==
    /\ scThread = "look" /\ scIndex > Len(scList)
    /\ Runs("sleep") /\ ScanOver /\ UNCHANGED <<scNow, scObjects, scStatus, scTable, scRules>>

\* Mutant: the scan ends at the first Times that is not started.
ScLooksStops ==
    /\ scThread = "look" /\ scIndex <= Len(scList)
    /\ LET x == scList[scIndex]
       IN \/ scTimes[x].status = "BUILDED" /\ ScFails
          \/ /\ scTimes[x].status = "INITIALIZED" /\ Runs("sleep") /\ ScanOver
             /\ UNCHANGED <<scNow, scObjects, scStatus, scTable, scRules>>
          \/ /\ scTimes[x].status = "STARTED" /\ Runs("expired") /\ scAt' = x /\ scDeactived' = FALSE
             /\ UNCHANGED <<scNow, scObjects, scStatus, scTable, scRules, scIndex>>

\* isStarted
ScLooks ==
    /\ scThread = "look" /\ scIndex <= Len(scList)
    /\ LET x == scList[scIndex]
       IN \/ scTimes[x].status = "BUILDED" /\ ScFails
          \/ /\ scTimes[x].status = "INITIALIZED" /\ scIndex' = scIndex + 1
             /\ UNCHANGED <<scNow, scObjects, scStatus, scTable, scRules, scThread, scAt, scDeactived>>
          \/ /\ scTimes[x].status = "STARTED" /\ Runs("expired") /\ scAt' = x /\ scDeactived' = FALSE
             /\ UNCHANGED <<scNow, scObjects, scStatus, scTable, scRules, scIndex>>

\* isExpiredTime, which fails when the Times has been stopped since.
ScExpired ==
    /\ scThread = "expired"
    /\ IF scTimes[scAt].status # "STARTED" THEN ScFails
       ELSE /\ IF HasExpired(scAt) THEN Runs("update") /\ UNCHANGED <<scIndex, scAt>>
               ELSE Runs("look") /\ scIndex' = scIndex + 1 /\ scAt' = ScNoTimes
            /\ UNCHANGED <<scNow, scObjects, scStatus, scTable, scRules, scDeactived>>

\* updateNextExpirationDateTime.  After its last timeout a Times leaves the list before its handler is called.
ScUpdates ==
    /\ scThread = "update"
    /\ IF scTimes[scAt].status # "STARTED" THEN ScFails
       ELSE LET last == NoneLeft(scAt, scTimes[scAt].next)
            IN /\ TimesUpdate(scAt) /\ Runs("handler")
               /\ scDeactived' = last
               /\ scList' = IF last THEN RemovedAt(scIndex) ELSE scList
               /\ UNCHANGED <<scNow, scStatus, scAllocated, scRules, scIndex, scAt>>

\* The loop adds one to an index from which one has been taken after a deactivation.
ScHandled ==
    /\ scThread = "handler" /\ Runs("look")
    /\ scIndex' = (IF scDeactived THEN scIndex ELSE scIndex + 1) /\ scAt' = ScNoTimes /\ scDeactived' = FALSE
    /\ UNCHANGED <<scNow, scObjects, scStatus, scTable, scRules>>

\* Mutant: the Times is deactivated although it was after its last timeout.
ScHandlerFailsTwice ==
    /\ scThread = "handler" /\ Runs("look") /\ scAt' = ScNoTimes /\ scDeactived' = FALSE
    /\ scList' = IF scIndex > Len(scList) THEN scList ELSE RemovedAt(scIndex)
    /\ UNCHANGED <<scNow, scObjects, scStatus, scAllocated, scRules, scIndex>>

\* handleTimeOut returns an error: the Times is taken off the list, by its place, unless it has been already.
\* Rule: a handler that fails has not moved its Times in the list.
ScHandlerFails ==
    /\ scThread = "handler"
    /\ Follows(scDeactived \/ (scIndex <= Len(scList) /\ scList[scIndex] = scAt))
    /\ \/ /\ ~scDeactived /\ scIndex > Len(scList)
          /\ Runs("ended") /\ ScanOver /\ UNCHANGED scList
       \/ /\ scDeactived \/ scIndex <= Len(scList)
          /\ Runs("look") /\ scAt' = ScNoTimes /\ scDeactived' = FALSE /\ UNCHANGED scIndex
          /\ scList' = IF scDeactived THEN scList ELSE RemovedAt(scIndex)
    /\ UNCHANGED <<scNow, scObjects, scStatus, scAllocated>>

-----------------------------------------------------------------------------
ScClient ==
    \/ ScPass \/ ScInit \/ (\E d \in BOOLEAN : ScFinish(d)) \/ ScStart \/ ScSuspend \/ ScResume \/ ScCancel \/ ScJoin
    \/ \E x \in ScTimes :
        \/ ScTimesInit(x) \/ ScTimesFinish(x) \/ ScTimesStarted(x) \/ ScTimesStop(x)
        \/ \E date \in ScStartDates \cup {ScNever} : ScTimesStart(x, date)
        \/ ScActive(x) \/ ScDeactive(x)

ScRun == ScReads \/ ScEnters \/ ScLeaves \/ ScLooks \/ ScExpired \/ ScUpdates

ScNext == ScClient \/ ScRun \/ ScHandled \/ ScHandlerFails

\* The thread runs, and the handlers that it calls return.
ScFairness == WF_scVars(ScRun) /\ WF_scVars(ScHandled \/ ScHandlerFails)

ScSpec == ScInitial /\ [][ScNext]_scVars /\ ScFairness

-----------------------------------------------------------------------------
(***************************************************************************)
(* Properties.                                                             *)
(***************************************************************************)
ScTypeOK ==
    /\ scNow \in 0..ScMaxTime /\ scStarting \subseteq ScTimes
    /\ \A x \in ScTimes : scTimes[x].status \in {"BUILDED", "INITIALIZED", "STARTED"} /\ scTimes[x].next.dst \in BOOLEAN
    /\ scStatus \in {"BUILDED", "INITIALIZED", "STARTED", "SUSPENDED"}
    /\ \A i \in 1..Len(scList) : scList[i] \in ScTimes
    /\ scAllocated \in Nat /\ scIndex \in 1..Cardinality(ScTimes) + 1 /\ scAt \in ScTimes \cup {ScNoTimes}
    /\ scThread \in {"none", "sleep", "check", "look", "expired", "update", "handler", "ended"}
    /\ scDeactived \in BOOLEAN /\ scRules \in BOOLEAN

\* No Times is in the list twice, whatever a handler does while the scan is at it, and the list is within its array.
ListedOnce ==
    /\ \A i, j \in 1..Len(scList) : scList[i] = scList[j] => i = j
    /\ Len(scList) <= scAllocated

\* No handler is called before the timeout of its Times, when the clock is put back between the update of the date and
\* the scan that finds it as well.
HandledWhenDue ==
    [][scRules /\ scThread = "update" /\ scThread' = "handler" => UtcOf(scTimes[scAt].next) <= scNow]_scVars

\* From a timeout to the end of its handler, handleTimes takes the Times that timed out off the list and no other one:
\* the last timeout of a Times whose handler fails as well deactivates no neighbour.
DeactivatesNoOther ==
    [][scRules' /\ scThread \in {"update", "handler"} /\ scThread' # scThread =>
            \A x \in ScTimes \ {scAt} : IsListed(x)' = IsListed(x)]_scVars

\* Whatever the handlers and the clients do to the list during a scan, no Times is in it twice, no handler runs before
\* its timeout, and handleTimes takes off the list only the Times that timed out.
SchedulerSafe == []ScTypeOK /\ []ListedOnce /\ HandledWhenDue /\ DeactivatesNoOther

ScDue(x) ==
    /\ scRules /\ scTimes[x].status = "STARTED" /\ UtcOf(scTimes[x].next) <= scNow /\ IsListed(x)
    /\ scStatus = "STARTED" /\ scThread \notin {"none", "ended"}

\* A timeout of an active Times is handled in the end, unless the clients stop it or the scheduler.
ScDueIsHandled == \A x \in ScTimes : ScDue(x) ~> ~ScDue(x)

\* The thread comes to its end after cancel, if the scheduler is not started again meanwhile.
CancelEndsTheThread ==
    scStatus = "INITIALIZED" ~> ~scRules \/ scStatus # "INITIALIZED" \/ scThread \in {"none", "ended"}
=============================================================================
