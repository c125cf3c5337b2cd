------------------------------ MODULE EventsSet ------------------------------
(***************************************************************************)
(* The first events set of the library (EventsSet/src), on the pthread      *)
(* wrappers PMutex and PCondition.  Unlike in MultiEventsSet, every        *)
(* timedWait of a consumer gives the mutex back, also the one in which it  *)
(* waits for the front event to expire, so the mutex is free between any   *)
(* two steps; but no timedWait has a predicate, and a consumer that timed  *)
(* out and one that was signalled go on differently.                       *)
(*                                                                         *)
(* Expirations and remaining times are computed on the local clock, which  *)
(* is the clock of the machine shifted by the hours of the time zone that  *)
(* gettimeofday reports.  That is the zone the kernel was given at boot,   *)
(* it does not follow daylight saving time: the shift is a constant of the *)
(* run.  Timed waits are on the UTC clock.                                 *)
(*                                                                         *)
(* The clock saturates: EsMaxTime stands for itself and every later instant,*)
(* and no call is made whose blocking time ends beyond it.  What has the   *)
(* name of its like in MultiEventsSet begins with Es or es.                *)
(***************************************************************************)
EXTENDS EventsMultiMap

CONSTANTS EsThreads,        \* the threads that share the set
          EsDestinations,   \* the buffers used as destinations
          EsEvents,         \* the Event_t objects of the application
          EsWaits,          \* ulSecondsToBlock and the additional milliseconds
          EsMaxTime,        \* where the clock saturates
          Offsets,          \* local minus UTC time, one of them
          DuplicateKeys,    \* may two events have the same destination and key?
          EsInSet           \* the owner of an event that is in the set

ASSUME EventsSetAssumption ==
    /\ EsMaxTime \in Nat
    /\ EsWaits \subseteq Nat
    /\ Offsets \subseteq Int
    /\ DuplicateKeys \in BOOLEAN
    /\ EsInSet \notin EsThreads

VARIABLES esNow,             \* UTC
          offset,            \* local minus UTC time, the same for the whole run
          status,            \* _essEventsSetStatus
          conditionVariablesToBeUsed,
          esDestinations,    \* the keys of _pesmEventsSetHashMap
          emEventsMultiMap,  \* per destination, its events in multimap order
          event,             \* the fields of every Event_t object
          esOwner,           \* EsInSet, or the thread holding the event
          esPc,              \* where every thread is
          esCall,            \* the arguments and locals of the running call
          esRet              \* what the last call of every thread returned

clock == <<esNow, offset>>
object == <<status, conditionVariablesToBeUsed>>
set == <<esDestinations, emEventsMultiMap, event, esOwner>>
thread == <<esPc, esCall, esRet>>
esVars == <<clock, object, set, thread>>

EsTime == 0..EsMaxTime
LocalTime == {n + o : n \in EsTime, o \in Offsets}

\* DateTime::nowLocalInMilliSecs.
NowLocal == esNow + offset

EsCap(x) == IF x > EsMaxTime THEN EsMaxTime ELSE x

\* An event that was never given its fields has no destination.
EventFields == [destination : EsDestinations \cup {""},
                expiration : LocalTime \cup {0}]

EsCalls == [op : {"getFirstEvent", "getAndRemoveFirstEvent"},
          destination : EsDestinations, blocking : BOOLEAN,
          milliSecondsToWait : EsWaits, initialLocal : LocalTime,
          deadline : EsTime, loop : BOOLEAN]

EsNoCall == [op |-> "none"]

Outcome(o) == [outcome |-> o]
EsEvent(e, expired) == [outcome |-> "event", event |-> e, eventExpired |-> expired]

EsReturns == {Outcome(o) : o \in {"void", "error", "NOEVENTSFOUND",
                                 "EVENTNOTEXPIREDYET"}}
             \cup [outcome : {"event"}, event : EsEvents, eventExpired : BOOLEAN]

EsExpirationOf == [e \in EsEvents |-> event[e].expiration]

FrontEvent(d) == emEventsMultiMap[d][1]

EsInit ==
    /\ esNow = 0
    /\ offset \in Offsets
    /\ status = "BUILDED"
    /\ conditionVariablesToBeUsed = FALSE
    /\ esDestinations = {}
    /\ emEventsMultiMap = [d \in EsDestinations |-> <<>>]
    /\ event = [e \in EsEvents |-> [destination |-> "", expiration |-> 0]]
    /\ esOwner \in [EsEvents -> EsThreads]
    /\ esPc = [t \in EsThreads |-> "idle"]
    /\ esCall = [t \in EsThreads |-> EsNoCall]
    /\ esRet = [t \in EsThreads |-> Outcome("void")]

EsTick ==
    /\ esNow < EsMaxTime
    /\ esNow' = esNow + 1
    /\ UNCHANGED <<offset, object, set, thread>>

-----------------------------------------------------------------------------
(***************************************************************************)
(* init and finish.  Neither is protected by the mutex they create and     *)
(* destroy: the caller makes sure that no thread is inside the object.     *)
(***************************************************************************)
EsReturned(t, r) == esRet' = [esRet EXCEPT ![t] = r]

Quiet == \A t \in EsThreads : esPc[t] = "idle"

InitSet(t, b) ==
    /\ Quiet
    /\ IF status = "BUILDED"
       THEN /\ status' = "INITIALIZED"
            /\ conditionVariablesToBeUsed' = b
            /\ EsReturned(t, Outcome("void"))
       ELSE UNCHANGED object /\ EsReturned(t, Outcome("error"))
    /\ UNCHANGED <<clock, set, esPc, esCall>>

\* The pointers in the multimaps are dropped, the caller still has them.
FinishSet(t) ==
    /\ Quiet
    /\ IF status = "INITIALIZED"
       THEN /\ status' = "BUILDED"
            /\ esDestinations' = {}
            /\ emEventsMultiMap' = [d \in EsDestinations |-> <<>>]
            /\ esOwner' = [e \in EsEvents |-> IF esOwner[e] = EsInSet THEN t ELSE esOwner[e]]
            /\ EsReturned(t, Outcome("void"))
       ELSE /\ EsReturned(t, Outcome("error"))
            /\ UNCHANGED <<status, esDestinations, emEventsMultiMap, esOwner>>
    /\ UNCHANGED <<clock, conditionVariablesToBeUsed, event, esPc, esCall>>

-----------------------------------------------------------------------------
(***************************************************************************)
(* The methods that never wait.                                            *)
(***************************************************************************)
Idle(t) == esPc[t] = "idle" /\ status = "INITIALIZED"

\* Every method but init and finish refuses an object that is not initialized.
NotAllowed(t) ==
    /\ esPc[t] = "idle"
    /\ status # "INITIALIZED"
    /\ EsReturned(t, Outcome("error"))
    /\ UNCHANGED <<clock, object, set, esPc, esCall>>

EsAddDestination(t, d) ==
    /\ Idle(t)
    /\ esDestinations' = esDestinations \cup {d}
    /\ EsReturned(t, Outcome(IF d \in esDestinations THEN "error" ELSE "void"))
    /\ UNCHANGED <<clock, object, emEventsMultiMap, event, esOwner, esPc, esCall>>

\* PCondition::signal on _cdAddedEvent of d: one thread in timedWait returns
\* from it without an error, once it has the mutex again.
EsSleepers(d) == {t \in EsThreads : esPc[t] = "timedWait" /\ esCall[t].destination = d}

Signal(d) ==
    IF EsSleepers(d) = {}
    THEN UNCHANGED esPc
    ELSE \E s \in EsSleepers(d) : esPc' = [esPc EXCEPT ![s] = "signalled"]

\* The owner of e fills in its fields and adds it.  An unknown destination is
\* added as well.
EsAddEvent(t, e, d, x) ==
    /\ Idle(t)
    /\ esOwner[e] = t
    /\ DuplicateKeys \/ \A f \in EsEvents \ {e} :
                            event[f] # [destination |-> d, expiration |-> x]
    /\ event' = [event EXCEPT ![e] = [destination |-> d, expiration |-> x]]
    /\ esDestinations' = esDestinations \cup {d}
    /\ emEventsMultiMap' = [emEventsMultiMap EXCEPT ![d] =
            InsertAtPosition(@, UpperBound(@, EsExpirationOf, x), e)]
    /\ esOwner' = [esOwner EXCEPT ![e] = EsInSet]
    /\ IF /\ conditionVariablesToBeUsed
          /\ emEventsMultiMap[d] # <<>> => x < EsExpirationOf[FrontEvent(d)]
       THEN Signal(d)
       ELSE UNCHANGED esPc
    /\ EsReturned(t, Outcome("void"))
    /\ UNCHANGED <<clock, object, esCall>>

KeyInUse(d, x) ==
    \E i \in 1..Len(emEventsMultiMap[d]) :
        EsExpirationOf[emEventsMultiMap[d][i]] = x

\* multimap::find returns the first event with the key.
FindKey(s, x) ==
    CHOOSE i \in 1..Len(s) : /\ EsExpirationOf[s[i]] = x
                             /\ \A j \in 1..i - 1 : EsExpirationOf[s[j]] # x

\* deleteEvent looks for the key of e only.  The caller takes e for removed.
EsDeleteEvent(t, e) ==
    LET d == event[e].destination
        x == event[e].expiration IN
    /\ Idle(t)
    /\ IF d \in esDestinations /\ KeyInUse(d, x)
       THEN /\ emEventsMultiMap' = [emEventsMultiMap EXCEPT ![d] =
                    EraseAtPosition(@, FindKey(@, x))]
            /\ esOwner' = [esOwner EXCEPT ![e] = t]
            /\ EsReturned(t, Outcome("void"))
       ELSE /\ EsReturned(t, Outcome("error"))
            /\ UNCHANGED <<emEventsMultiMap, esOwner>>
    /\ UNCHANGED <<clock, object, esDestinations, event, esPc, esCall>>

-----------------------------------------------------------------------------
(***************************************************************************)
(* getFirstEvent and getAndRemoveFirstEvent.                               *)
(***************************************************************************)
EsFinish(t, r) ==
    /\ esPc' = [esPc EXCEPT ![t] = "idle"]
    /\ esCall' = [esCall EXCEPT ![t] = EsNoCall]
    /\ EsReturned(t, r)

\* The call, up to the lock: the initial local time is read before the mutex.
EsCall(t, op, d, b, w) ==
    /\ Idle(t)
    /\ b => esNow + w <= EsMaxTime
    /\ esPc' = [esPc EXCEPT ![t] = "lock"]
    /\ esCall' = [esCall EXCEPT ![t] =
            [op |-> op, destination |-> d, blocking |-> b,
             milliSecondsToWait |-> w, initialLocal |-> NowLocal,
             deadline |-> esNow, loop |-> FALSE]]
    /\ EsReturned(t, Outcome("void"))
    /\ UNCHANGED <<clock, object, set>>

MayWait(t) == conditionVariablesToBeUsed /\ esCall[t].blocking

\* Mutant: the time already spent is not subtracted.
RemainingNotReduced(t) == esCall[t].milliSecondsToWait

\* lRemainingTimeInMilliSecs: the unsigned difference is cast to long, so it is
\* the signed one also when more than the blocking time has passed.
EsRemaining(t) == esCall[t].milliSecondsToWait - (NowLocal - esCall[t].initialLocal)

\* PCondition::timedWait for w: the deadline is on the UTC clock.
TimedWait(t, w, inLoop) ==
    /\ esPc' = [esPc EXCEPT ![t] = "timedWait"]
    /\ esCall' = [esCall EXCEPT ![t].deadline = EsCap(esNow + w), ![t].loop = inLoop]
    /\ UNCHANGED <<emEventsMultiMap, esOwner, esRet>>

GiveBack(t, r) ==
    /\ EsFinish(t, r)
    /\ UNCHANGED <<emEventsMultiMap, esOwner>>

\* Mutant: after a timed wait the event looked at before it is handed out.
LoopTurnWithoutRecheck(t) ==
    LET d == esCall[t].destination
        x == EsExpirationOf[FrontEvent(d)] IN
    \/ /\ emEventsMultiMap[d] = <<>>
       /\ GiveBack(t, Outcome("NOEVENTSFOUND"))
    \/ /\ emEventsMultiMap[d] # <<>>
       /\ esCall[t].loop \/ NowLocal >= x
       /\ emEventsMultiMap' = [emEventsMultiMap EXCEPT ![d] =
                                    EraseAtPosition(@, 1)]
       /\ esOwner' = [esOwner EXCEPT ![FrontEvent(d)] = t]
       /\ EsFinish(t, EsEvent(FrontEvent(d), TRUE))
    \/ /\ emEventsMultiMap[d] # <<>>
       /\ ~esCall[t].loop
       /\ NowLocal < x
       /\ MayWait(t)
       /\ EsRemaining(t) > 0
       /\ TimedWait(t, IF x - NowLocal <= EsRemaining(t)
                       THEN x - NowLocal ELSE EsRemaining(t), TRUE)

\* A turn of the loop of getAndRemoveFirstEvent that looks for an expired
\* event: it ends the call or waits for the sooner of the expiration of the
\* front event and the end of the blocking time.
LoopTurn(t) ==
    LET d == esCall[t].destination
        x == EsExpirationOf[FrontEvent(d)] IN
    \/ /\ emEventsMultiMap[d] = <<>>
       /\ GiveBack(t, Outcome("NOEVENTSFOUND"))
    \/ /\ emEventsMultiMap[d] # <<>>
       /\ NowLocal >= x
       /\ emEventsMultiMap' = [emEventsMultiMap EXCEPT ![d] =
                                    EraseAtPosition(@, 1)]
       /\ esOwner' = [esOwner EXCEPT ![FrontEvent(d)] = t]
       /\ EsFinish(t, EsEvent(FrontEvent(d), TRUE))
    \/ /\ emEventsMultiMap[d] # <<>>
       /\ NowLocal < x
       /\ ~MayWait(t) \/ EsRemaining(t) <= 0
       /\ GiveBack(t, Outcome("EVENTNOTEXPIREDYET"))
    \/ /\ emEventsMultiMap[d] # <<>>
       /\ NowLocal < x
       /\ MayWait(t)
       /\ EsRemaining(t) > 0
       /\ TimedWait(t, IF x - NowLocal <= EsRemaining(t)
                       THEN x - NowLocal ELSE EsRemaining(t), TRUE)

\* With an event in the multimap.
EsFoundEvent(t) ==
    LET e == FrontEvent(esCall[t].destination) IN
    IF esCall[t].op = "getFirstEvent"
    THEN GiveBack(t, EsEvent(e, NowLocal >= EsExpirationOf[e]))
    ELSE LoopTurn(t)

Lock(t) ==
    LET d == esCall[t].destination IN
    /\ esPc[t] = "lock"
    /\ \/ /\ d \notin esDestinations
          /\ GiveBack(t, Outcome("error"))
       \/ /\ d \in esDestinations
          /\ emEventsMultiMap[d] # <<>>
          /\ EsFoundEvent(t)
       \/ /\ d \in esDestinations
          /\ emEventsMultiMap[d] = <<>>
          /\ ~MayWait(t)
          /\ GiveBack(t, Outcome("NOEVENTSFOUND"))
       \/ /\ d \in esDestinations
          /\ emEventsMultiMap[d] = <<>>
          /\ MayWait(t)
          /\ TimedWait(t, esCall[t].milliSecondsToWait, FALSE)
    /\ UNCHANGED <<clock, object, esDestinations, event>>

\* pthread_cond_timedwait returns ETIMEDOUT, or 0 without a signal.
EsWaitTimeout(t) ==
    /\ esPc[t] = "timedWait"
    /\ esNow >= esCall[t].deadline
    /\ esPc' = [esPc EXCEPT ![t] = "timedOut"]
    /\ UNCHANGED <<clock, object, set, esCall, esRet>>

EsSpuriousWakeUp(t) ==
    /\ esPc[t] = "timedWait"
    /\ esPc' = [esPc EXCEPT ![t] = "signalled"]
    /\ UNCHANGED <<clock, object, set, esCall, esRet>>

\* The first wait of getFirstEvent is over: a timeout is final, and a signal
\* without an event is an error.
WokenFirst(t) ==
    /\ esCall[t].op = "getFirstEvent"
    /\ \/ /\ esPc[t] = "timedOut"
          /\ GiveBack(t, Outcome("NOEVENTSFOUND"))
       \/ /\ esPc[t] = "signalled"
          /\ emEventsMultiMap[esCall[t].destination] = <<>>
          /\ GiveBack(t, Outcome("error"))
       \/ /\ esPc[t] = "signalled"
          /\ emEventsMultiMap[esCall[t].destination] # <<>>
          /\ EsFoundEvent(t)

\* The first wait of getAndRemoveFirstEvent is over: a timeout, or a signal
\* without an event, ends the call or waits for the remaining time; after a
\* timeout the multimap is not looked at.
WokenGetAndRemove(t) ==
    LET found == /\ esPc[t] = "signalled"
                 /\ emEventsMultiMap[esCall[t].destination] # <<>> IN
    /\ esCall[t].op = "getAndRemoveFirstEvent"
    /\ ~esCall[t].loop
    /\ \/ found /\ LoopTurn(t)
       \/ ~found /\ EsRemaining(t) <= 0 /\ GiveBack(t, Outcome("NOEVENTSFOUND"))
       \/ ~found /\ EsRemaining(t) > 0 /\ TimedWait(t, EsRemaining(t), FALSE)

\* Mutant: the whole blocking time is waited for again after each wake-up.
WokenRestartsWait(t) ==
    /\ esPc[t] \in {"timedOut", "signalled"}
    /\ IF emEventsMultiMap[esCall[t].destination] # <<>>
       THEN EsFoundEvent(t)
       ELSE TimedWait(t, esCall[t].milliSecondsToWait, FALSE)
    /\ UNCHANGED <<clock, object, esDestinations, event>>

Woken(t) ==
    /\ esPc[t] \in {"timedOut", "signalled"}
    /\ \/ WokenFirst(t)
       \/ WokenGetAndRemove(t)
       \/ esCall[t].loop /\ LoopTurn(t)
    /\ UNCHANGED <<clock, object, esDestinations, event>>

-----------------------------------------------------------------------------
EsNext ==
    \/ EsTick
    \/ \E t \in EsThreads :
        \/ \E b \in BOOLEAN : InitSet(t, b)
        \/ FinishSet(t)
        \/ NotAllowed(t)
        \/ \E d \in EsDestinations : EsAddDestination(t, d)
        \/ \E e \in EsEvents, d \in EsDestinations, x \in LocalTime :
                EsAddEvent(t, e, d, x)
        \/ \E e \in EsEvents : EsDeleteEvent(t, e)
        \/ \E op \in {"getFirstEvent", "getAndRemoveFirstEvent"},
              d \in EsDestinations, b \in BOOLEAN, w \in EsWaits : EsCall(t, op, d, b, w)
        \/ Lock(t)
        \/ EsWaitTimeout(t)
        \/ EsSpuriousWakeUp(t)
        \/ Woken(t)

EsSpec == EsInit /\ [][EsNext]_esVars

(***************************************************************************)
(* Fairness.  The clock advances; a thread that may run in the end does,    *)
(* the mutex being free between any two steps.                             *)
(***************************************************************************)
EsFairness ==
    /\ WF_esVars(EsTick)
    /\ \A t \in EsThreads : WF_esVars(Lock(t)) /\ WF_esVars(EsWaitTimeout(t))
                                               /\ WF_esVars(Woken(t))

EsFairSpec == EsSpec /\ EsFairness

-----------------------------------------------------------------------------
(***************************************************************************)
(* The types of the variables.                                             *)
(***************************************************************************)
EsTypeOK ==
    /\ esNow \in EsTime
    /\ offset \in Offsets
    /\ status \in {"BUILDED", "INITIALIZED"}
    /\ conditionVariablesToBeUsed \in BOOLEAN
    /\ esDestinations \subseteq EsDestinations
    /\ emEventsMultiMap \in [EsDestinations -> Seq(EsEvents)]
    /\ event \in [EsEvents -> EventFields]
    /\ esOwner \in [EsEvents -> EsThreads \cup {EsInSet}]
    /\ esPc \in [EsThreads -> {"idle", "lock", "timedWait", "timedOut", "signalled"}]
    /\ esCall \in [EsThreads -> EsCalls \cup {EsNoCall}]
    /\ \A t \in EsThreads : esPc[t] # "idle" => esCall[t] \in EsCalls
    /\ esRet \in [EsThreads -> EsReturns]

(***************************************************************************)
(* Every event that was added, and neither deleted nor delivered, is in    *)
(* the set once, under its destination and in the order of the expiration  *)
(* times, and no other event is: addEvent, deleteEvent and the consumers   *)
(* that wake up in the middle of each other lose and duplicate nothing.    *)
(***************************************************************************)
EsHeldOnce ==
    /\ \A e \in EsEvents : esOwner[e] = EsInSet =>
            /\ event[e].destination \in esDestinations
            /\ IsIn(e, emEventsMultiMap[event[e].destination])
    /\ \A d \in EsDestinations : \A i \in 1..Len(emEventsMultiMap[d]) :
            /\ esOwner[emEventsMultiMap[d][i]] = EsInSet
            /\ event[emEventsMultiMap[d][i]].destination = d
            /\ \A j \in 1..Len(emEventsMultiMap[d]) : i < j =>
                    /\ emEventsMultiMap[d][i] # emEventsMultiMap[d][j]
                    /\ EsExpirationOf[emEventsMultiMap[d][i]]
                            <= EsExpirationOf[emEventsMultiMap[d][j]]

(***************************************************************************)
(* getAndRemoveFirstEvent hands out an event only when it has expired on   *)
(* the local clock and no event pending for the destination expires        *)
(* sooner, although the call slept with another event in front.            *)
(***************************************************************************)
DeliveredInTime ==
    [][\A t \in EsThreads, e \in EsEvents :
         /\ esOwner[e] = EsInSet
         /\ esOwner'[e] = t
         /\ esPc[t] # "idle"
         => /\ NowLocal >= EsExpirationOf[e]
            /\ \A f \in EsEvents :
                  /\ esOwner[f] = EsInSet
                  /\ event[f].destination = event[e].destination
                  => EsExpirationOf[e] <= EsExpirationOf[f]]_esVars

(***************************************************************************)
(* The deadline of every timedWait in which getAndRemoveFirstEvent waits    *)
(* for the front event to expire is on the UTC clock, what remains of the  *)
(* blocking time is computed on the local one: the deadline is at most the *)
(* UTC time of the call plus the blocking time, however often the front    *)
(* changed and the thread was woken up in vain, and whatever the shift.    *)
(***************************************************************************)
WaitsWithinBlockingTime ==
    \A t \in EsThreads :
        /\ esPc[t] = "timedWait"
        /\ esCall[t].loop
        => esCall[t].deadline <=
             (esCall[t].initialLocal - offset) + esCall[t].milliSecondsToWait

(***************************************************************************)
(* Every call of getFirstEvent and getAndRemoveFirstEvent returns.         *)
(***************************************************************************)
EsCallReturns == \A t \in EsThreads : esPc[t] # "idle" ~> esPc[t] = "idle"

-----------------------------------------------------------------------------
(***************************************************************************)
(* What the comments and messages of the code say and the code does not do.*)
(***************************************************************************)

Answered(t, o) == esPc[t] # "idle" /\ esPc'[t] = "idle" /\ esRet'[t].outcome = o

(***************************************************************************)
(* "No events found": a consumer gets this error only when its destination *)
(* has no event.                                                           *)
(***************************************************************************)
NoEventsFoundMeansEmpty ==
    [][\A t \in EsThreads :
         Answered(t, "NOEVENTSFOUND") =>
            emEventsMultiMap[esCall[t].destination] = <<>>]_esVars
=============================================================================
