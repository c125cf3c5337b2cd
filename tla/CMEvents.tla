------------------------------ MODULE CMEvents ------------------------------
(***************************************************************************)
(* ConnectionsManager: the events of the server and the threads that       *)
(* handle them.  Three timers of the scheduler put their events into the   *)
(* events set, the check of the sockets pool adds one for each socket that *)
(* is readable; the processors take the first event and give it back to    *)
(* the free ones of its type.  Events of a type differ in their status     *)
(* only: built, or initialized.                                            *)
(***************************************************************************)
EXTENDS Integers, Sequences, FiniteSets

CONSTANTS CeProcs,      \* the processors: strings
          CeBlock,      \* the events allocated at a time
          CeEvery,      \* after so many events the shutdown is looked at
          CeMaxQueue,   \* a bound on the events in the set
          CeMaxTrouble  \* a bound on the calls that fail

ASSUME CeAssumption ==
    IsFiniteSet(CeProcs) /\ CeBlock \in Nat \ {0} /\ CeEvery \in Nat \ {0} /\ CeMaxQueue \in Nat /\ CeMaxTrouble \in Nat

CeTimed == {"accept", "unused", "pool"}
CeTypes == CeTimed \cup {"connection"}

VARIABLES ceAlloc,      \* _ulPreAllocatedEventsNumber
          ceFree,       \* _vFreeEvents: the status of each
          ceQueue,      \* the events set
          ceTimer,      \* the event the scheduler's thread has in hand
          ceAt,         \* the event a processor has taken from the set
          ceLocal,      \* the connection event its handler has got
          ceThread,     \* the state of the thread of a processor
          ceShutdown,   \* _bIsShutdown
          ceCount,      \* ulEventsCounter
          ceCancel,     \* cancel has been called
          ceTrouble,    \* the calls that failed
          ceLost        \* history: the events that nobody will give back

cePool == <<ceAlloc, ceFree>>
ceThreads == <<ceThread, ceShutdown, ceCount, ceCancel>>
eventsVars == <<cePool, ceQueue, ceTimer, ceAt, ceLocal, ceThreads, ceTrouble, ceLost>>

\* _esEventStatus; an event in hand whose init is still to be called is new.
CeStatus == {"built", "initialized"}
CeEvent(types) == [type : types, status : CeStatus, new : BOOLEAN]
CeNone == [type |-> "none", status |-> "built", new |-> FALSE]

CeInit ==
    /\ ceAlloc = [t \in CeTypes |-> 0] /\ ceFree = [t \in CeTypes |-> <<>>]
    /\ ceQueue = <<>> /\ ceTimer = CeNone
    /\ ceAt = [p \in CeProcs |-> CeNone] /\ ceLocal = [p \in CeProcs |-> CeNone]
    /\ ceThread = [p \in CeProcs |-> "initialized"]
    /\ ceShutdown = [p \in CeProcs |-> FALSE] /\ ceCount = [p \in CeProcs |-> 1]
    /\ ceCancel = [p \in CeProcs |-> FALSE]
    /\ ceTrouble = 0 /\ ceLost = [t \in CeTypes |-> 0]

CeFails == ceTrouble < CeMaxTrouble /\ ceTrouble' = ceTrouble + 1

(***************************************************************************)
(* EventsSet::getFreeEvent and CMEventsSet::allocateMoreFreeUserEvents,    *)
(* under the mutex of the set; Event::init and finish.                     *)
(***************************************************************************)

\* The events of the timers are not allocated without end.
AllocatesMore(t) == t \in CeTimed => ceAlloc[t] < IF t = "pool" THEN CeBlock ELSE CeBlock + 1

CanGetEvent(t) == ceFree[t] # <<>> \/ AllocatesMore(t)

\* The first of the free events, with what was allocated before it is taken.
getFreeEvent(t, e) ==
    LET more == IF ceFree[t] = <<>> THEN CeBlock ELSE 0
        free == ceFree[t] \o [i \in 1 .. more |-> "built"]
    IN /\ CanGetEvent(t)
       /\ e = [type |-> t, status |-> Head(free), new |-> TRUE]
       /\ ceAlloc' = [ceAlloc EXCEPT ![t] = @ + more]
       /\ ceFree' = [ceFree EXCEPT ![t] = Tail(free)]

\* EventsSet::releaseEvent takes the event as it is.
releaseEvent(e) ==
    /\ ceFree' = [ceFree EXCEPT ![e.type] = Append(@, e.status)]
    /\ UNCHANGED ceAlloc

Lose(e) == [ceLost EXCEPT ![e.type] = @ + 1]

\* Event::init refuses an event that was not finished.
Initialized(e) == [e EXCEPT !.status = "initialized", !.new = FALSE]
InitFails(e) == IF e.status = "built" THEN CeFails ELSE UNCHANGED ceTrouble

\* Event::finish; one that is not initialized refuses, and stays built.
Finished(e) == [e EXCEPT !.status = "built"]

(***************************************************************************)
(* The three Times: handleTimeOut, on the thread of the scheduler.         *)
(***************************************************************************)
\* The maximum is reached: the timeout is skipped.
TimeOutSkips(t) ==
    /\ ceTimer = CeNone /\ ~CanGetEvent(t)
    /\ UNCHANGED eventsVars

TimeOutGets(t) ==
    /\ ceTimer = CeNone /\ Len(ceQueue) < CeMaxQueue
    /\ getFreeEvent(t, ceTimer')
    /\ UNCHANGED <<ceQueue, ceAt, ceLocal, ceThreads, ceTrouble, ceLost>>

TimeOutInits(t) ==
    /\ ceTimer.type = t /\ ceTimer.new /\ ceTimer.status = "built"
    /\ ceTimer' = Initialized(ceTimer)
    /\ UNCHANGED <<cePool, ceQueue, ceAt, ceLocal, ceThreads, ceTrouble, ceLost>>

\* An event that init refused is given back as it is.
TimeOutInitFails(t) ==
    /\ ceTimer.type = t /\ ceTimer.new /\ InitFails(ceTimer)
    /\ releaseEvent(ceTimer)
    /\ ceTimer' = CeNone
    /\ UNCHANGED <<ceQueue, ceAt, ceLocal, ceThreads, ceLost>>

TimeOutAdds(t) ==
    /\ ceTimer.type = t /\ ~ceTimer.new
    /\ ceQueue' = Append(ceQueue, ceTimer)
    /\ ceTimer' = CeNone
    /\ UNCHANGED <<cePool, ceAt, ceLocal, ceThreads, ceTrouble, ceLost>>

\* Mutant: the event is given back without its finish.
TimeOutAddFailsUnfinished(t) ==
    /\ ceTimer.type = t /\ ~ceTimer.new /\ CeFails
    /\ releaseEvent(ceTimer)
    /\ ceTimer' = CeNone
    /\ UNCHANGED <<ceQueue, ceAt, ceLocal, ceThreads, ceLost>>

\* addEvent fails.
TimeOutAddFails(t) ==
    /\ ceTimer.type = t /\ ~ceTimer.new /\ CeFails
    /\ releaseEvent(Finished(ceTimer))
    /\ ceTimer' = CeNone
    /\ UNCHANGED <<ceQueue, ceAt, ceLocal, ceThreads, ceLost>>

TimeOut(t) ==
    \/ TimeOutSkips(t) \/ TimeOutGets(t) \/ TimeOutInits(t) \/ TimeOutInitFails(t)
    \/ TimeOutAdds(t) \/ TimeOutAddFails(t)

CheckServerSocketTimes == TimeOut("accept")
CheckUnusedSocketsTimes == TimeOut("unused")
CheckSocketsPoolTimes == TimeOut("pool")

(***************************************************************************)
(* CMProcessor::processEvent and BaseProcessor::run                        *)
(***************************************************************************)
Runs(p) == ceThread[p] = "running"

ProcessorStarts(p) ==
    /\ ceThread[p] = "initialized"
    /\ ceThread' = [ceThread EXCEPT ![p] = "started"]
    /\ UNCHANGED <<cePool, ceQueue, ceTimer, ceAt, ceLocal, ceShutdown, ceCount, ceCancel, ceTrouble,
                   ceLost>>

\* run forgets the shutdown that was asked before it began.
ProcessorBegins(p) ==
    /\ ceThread[p] = "started"
    /\ ceThread' = [ceThread EXCEPT ![p] = "running"]
    /\ ceShutdown' = [ceShutdown EXCEPT ![p] = FALSE]
    /\ UNCHANGED <<cePool, ceQueue, ceTimer, ceAt, ceLocal, ceCount, ceCancel, ceTrouble, ceLost>>

ProcessorTakes(p) ==
    /\ Runs(p) /\ ceAt[p] = CeNone /\ ceQueue # <<>>
    /\ ceAt' = [ceAt EXCEPT ![p] = Head(ceQueue)]
    /\ ceQueue' = Tail(ceQueue)
    /\ UNCHANGED <<cePool, ceTimer, ceLocal, ceThreads, ceTrouble, ceLost>>

\* The wait for an event ends without one: the shutdown is looked at.
ProcessorWaits(p) ==
    /\ Runs(p) /\ ceAt[p] = CeNone /\ ceQueue = <<>>
    /\ ceShutdown[p]
    /\ ceThread' = [ceThread EXCEPT ![p] = "ended"]
    /\ UNCHANGED <<cePool, ceQueue, ceTimer, ceAt, ceLocal, ceShutdown, ceCount, ceCancel, ceTrouble,
                   ceLost>>

\* The set fails: the thread ends.
ProcessorFails(p) ==
    /\ Runs(p) /\ ceAt[p] = CeNone /\ CeFails
    /\ ceThread' = [ceThread EXCEPT ![p] = "ended"]
    /\ UNCHANGED <<cePool, ceQueue, ceTimer, ceAt, ceLocal, ceShutdown, ceCount, ceCancel, ceLost>>

\* The turn of the loop after an event.
LoopTurns(p) ==
    IF ceCount[p] % CeEvery = 0
    THEN /\ ceCount' = [ceCount EXCEPT ![p] = 2]
         /\ ceThread' = [ceThread EXCEPT ![p] = IF ceShutdown[p] THEN "ended" ELSE @]
    ELSE ceCount' = [ceCount EXCEPT ![p] = @ + 1] /\ UNCHANGED ceThread

Handling(p, types) == Runs(p) /\ ceAt[p].type \in types /\ ceLocal[p] = CeNone

\* getTypeIdentifier fails on an event that is not initialized: it is not
\* given back.
Released(p) ==
    /\ IF ceAt[p].status = "initialized"
       THEN releaseEvent(Finished(ceAt[p])) /\ UNCHANGED ceLost
       ELSE ceLost' = Lose(ceAt[p]) /\ UNCHANGED cePool
    /\ ceAt' = [ceAt EXCEPT ![p] = CeNone]
    /\ LoopTurns(p)
    /\ UNCHANGED <<ceQueue, ceTimer, ceLocal, ceShutdown, ceCancel>>

processEvent(p) == Handling(p, CeTypes) /\ Released(p) /\ UNCHANGED ceTrouble

\* The handler fails: the event is finished and released all the same, and
\* the error is only traced.
processEventFails(p) == Handling(p, CeTypes) /\ CeFails /\ Released(p)

\* An event for a connection that was accepted, or for a socket that is
\* readable.
ConnectionGets(p) ==
    /\ Handling(p, {"accept", "pool"}) /\ Len(ceQueue) < CeMaxQueue
    /\ \E e \in CeEvent({"connection"}) :
         getFreeEvent("connection", e) /\ ceLocal' = [ceLocal EXCEPT ![p] = e]
    /\ UNCHANGED <<ceQueue, ceTimer, ceAt, ceThreads, ceTrouble, ceLost>>

HasLocal(p) == Runs(p) /\ ceLocal[p] # CeNone

GivesLocalBack(p, e) ==
    /\ releaseEvent(e)
    /\ ceLocal' = [ceLocal EXCEPT ![p] = CeNone]
    /\ UNCHANGED <<ceQueue, ceTimer, ceAt, ceThreads, ceLost>>

ConnectionInits(p) ==
    /\ HasLocal(p) /\ ceLocal[p].new /\ ceLocal[p].status = "built"
    /\ ceLocal' = [ceLocal EXCEPT ![p] = Initialized(@)]
    /\ UNCHANGED <<cePool, ceQueue, ceTimer, ceAt, ceThreads, ceTrouble, ceLost>>

ConnectionInitFails(p) ==
    /\ HasLocal(p) /\ ceLocal[p].new /\ InitFails(ceLocal[p])
    /\ GivesLocalBack(p, ceLocal[p])

\* handleConnectionToAcceptEvent handles the event of the connection itself.
ConnectionAccepted(p) ==
    /\ HasLocal(p) /\ ~ceLocal[p].new /\ ceAt[p].type = "accept"
    /\ GivesLocalBack(p, Finished(ceLocal[p])) /\ UNCHANGED ceTrouble

\* updateSocketStatus: deleteSocket and addEvent.
ConnectionReady(p) ==
    /\ HasLocal(p) /\ ~ceLocal[p].new /\ ceAt[p].type = "pool"
    /\ ceQueue' = Append(ceQueue, ceLocal[p])
    /\ ceLocal' = [ceLocal EXCEPT ![p] = CeNone]
    /\ UNCHANGED <<cePool, ceTimer, ceAt, ceThreads, ceTrouble, ceLost>>

ConnectionReadyFails(p) ==
    /\ HasLocal(p) /\ ~ceLocal[p].new /\ ceAt[p].type = "pool" /\ CeFails
    /\ GivesLocalBack(p, Finished(ceLocal[p]))

HandlerStep(p) ==
    \/ ConnectionInits(p) \/ ConnectionInitFails(p) \/ ConnectionAccepted(p)
    \/ ConnectionReady(p) \/ ConnectionReadyFails(p)

(***************************************************************************)
(* BaseProcessor::cancel                                                   *)
(***************************************************************************)
CancelProcessor(p) ==
    /\ ~ceCancel[p] /\ ceThread[p] # "initialized"
    /\ ceCancel' = [ceCancel EXCEPT ![p] = TRUE]
    /\ ceShutdown' = [ceShutdown EXCEPT ![p] = TRUE]
    /\ UNCHANGED <<cePool, ceQueue, ceTimer, ceAt, ceLocal, ceThread, ceCount, ceTrouble, ceLost>>

\* After five seconds the thread is cancelled where it is.
CancelKills(p) ==
    /\ ceCancel[p] /\ Runs(p)
    /\ ceThread' = [ceThread EXCEPT ![p] = "ended"]
    /\ ceLost' = [t \in CeTypes |->
                     ceLost[t] + (IF ceAt[p].type = t THEN 1 ELSE 0) + (IF ceLocal[p].type = t THEN 1 ELSE 0)]
    /\ ceAt' = [ceAt EXCEPT ![p] = CeNone] /\ ceLocal' = [ceLocal EXCEPT ![p] = CeNone]
    /\ UNCHANGED <<cePool, ceQueue, ceTimer, ceShutdown, ceCount, ceCancel, ceTrouble>>

ProcessorStep(p) ==
    \/ ProcessorBegins(p) \/ ProcessorTakes(p) \/ ProcessorWaits(p)
    \/ HandlerStep(p) \/ processEvent(p) \/ processEventFails(p)

CeNext ==
    \/ CheckServerSocketTimes \/ CheckUnusedSocketsTimes \/ CheckSocketsPoolTimes
    \/ \E p \in CeProcs :
         \/ ProcessorStarts(p) \/ ProcessorStep(p) \/ ProcessorFails(p) \/ ConnectionGets(p)
         \/ CancelProcessor(p) \/ CancelKills(p)

CeSpec == CeInit /\ [][CeNext]_eventsVars

\* A processor that is started handles what it has, and a handler has finitely
\* many connections; cancel waits five seconds.
CeFairness ==
    \A p \in CeProcs :
        /\ WF_eventsVars(ProcessorStep(p)) /\ WF_eventsVars(CancelKills(p))
        /\ SF_eventsVars(processEvent(p) \/ processEventFails(p))

(***************************************************************************)
(* Properties.                                                             *)
(***************************************************************************)
\* The variables have their types.
CeTypeOK ==
    /\ \A t \in CeTimed : ceAlloc[t] <= 2 * CeBlock
    /\ ceFree \in [CeTypes -> Seq(CeStatus)] /\ ceLost \in [CeTypes -> Nat]
    /\ ceQueue \in Seq(CeEvent(CeTypes))
    /\ ceTimer \in CeEvent(CeTimed) \cup {CeNone}
    /\ ceAt \in [CeProcs -> CeEvent(CeTypes) \cup {CeNone}]
    /\ ceLocal \in [CeProcs -> CeEvent({"connection"}) \cup {CeNone}]
    /\ ceThread \in [CeProcs -> {"initialized", "started", "running", "ended"}]

InHand(t) ==
    Cardinality({p \in CeProcs : ceAt[p].type = t}) + Cardinality({p \in CeProcs : ceLocal[p].type = t})
    + (IF ceTimer.type = t THEN 1 ELSE 0)

\* Every allocated event is free, in the set or in the hands of one thread, but
\* for those that were with a thread that was cancelled: no error path loses or
\* doubles one.  (Whoever takes an event that is not initialized loses it,
\* CMProcessor.cpp:430; EventsInitialized says that nobody does.)
EventsKept ==
    \A t \in CeTypes :
        ceAlloc[t] = Len(ceFree[t]) + Cardinality({i \in 1 .. Len(ceQueue) : ceQueue[i].type = t})
                     + InHand(t) + ceLost[t]

\* Every free event can be initialized again: each path, the ones of errors
\* too, has finished the event that it gives back, and none that it could not
\* initialize.
FreeEventsFinished == \A t \in CeTypes : \A i \in 1 .. Len(ceFree[t]) : ceFree[t][i] = "built"

\* What the set holds is initialized, so that a processor can tell its type.
EventsInitialized ==
    /\ \A i \in 1 .. Len(ceQueue) : ceQueue[i].status = "initialized"
    /\ \A p \in CeProcs : ceAt[p] # CeNone => ceAt[p].status = "initialized"

\* Every path of the timers and the handlers, whatever fails on it, gives its
\* event back once and finished, and adds only what it has initialized.
EventsWhole == CeTypeOK /\ EventsKept /\ FreeEventsFinished /\ EventsInitialized

\* The event of a readable connection is handled in the end, however many
\* events of the timers come, if a processor is started and none ends.
ConnectionHandled ==
    (\E i \in 1 .. Len(ceQueue) : ceQueue[i].type = "connection") /\ "running" \in {ceThread[p] : p \in CeProcs}
        ~> "connection" \in {ceAt[p].type : p \in CeProcs} \/ "ended" \in {ceThread[p] : p \in CeProcs}

\* A processor that is cancelled ends, also when run has cleared the shutdown.
ProcessorEnds == \A p \in CeProcs : ceCancel[p] ~> ceThread[p] = "ended"
=============================================================================
