---------------------------- MODULE MultiEventsSet ----------------------------
(***************************************************************************)
(* The set of timed events through which threads talk to each other        *)
(* (MultiEventsSet/src).  Every destination owns a multimap of events       *)
(* ordered by expiration time and a condition variable; one mutex protects *)
(* all of them.                                                            *)
(*                                                                         *)
(* A method that never waits runs from lock to unlock as one step.  A      *)
(* consuming method is split where other threads or the clock can come in  *)
(* between: after its first look at the clock (before the lock), while it  *)
(* sleeps in wait_for, and at every turn of its expiration loop, which it   *)
(* runs with the mutex held.                                               *)
(*                                                                         *)
(* The clock saturates: MaxTime stands for itself and every later instant. *)
(***************************************************************************)
EXTENDS EventsMultiMap

CONSTANTS Threads,       \* the threads that share the set
          Destinations,  \* the strings used as destinations
          Events,        \* the Event2 objects of the application
          Waits,         \* the values of milliSecondsToBlock
          MaxTime,       \* where the clock saturates
          NoThread,      \* the mutex is free
          InSet          \* the owner of an event that is in the set

ASSUME ConstantsAssumption ==
    /\ MaxTime \in Nat
    /\ Waits \subseteq Nat
    /\ NoThread \notin Threads
    /\ InSet \notin Threads

VARIABLES now,             \* chrono::system_clock, and the clock of wait_for
          destinations,    \* the keys of _esmMultiEventsSetHashMap
          eventsMultiMap,  \* per destination, its events in multimap order
          event2,          \* the fields of every Event2 object
          owner,           \* InSet, or the thread holding the event
          mutex,           \* _evSetMutex: NoThread or its holder
          pc,              \* where every thread is
          call,            \* the arguments and locals of the running call
          ret              \* what the last call of every thread returned

vars == <<now, destinations, eventsMultiMap, event2, owner, mutex, pc, call,
          ret>>

Time == 0..MaxTime

Cap(x) == IF x > MaxTime THEN MaxTime ELSE x

\* The default constructor leaves the destination empty.
Event2 == [destination : Destinations \cup {""}, expirationTimePoint : Time]

Calls == [op : {"getFirstEvent", "getAndRemoveFirstEvent"},
          destination : Destinations, blocking : BOOLEAN,
          milliSecondsToBlock : Waits, initialTimePoint : Time,
          deadline : Time]

NoCall == [op |-> "none"]

\* outcome "void" is a plain return, "null" is nullptr, "throw" an exception.
Void  == [outcome |-> "void"]
Null  == [outcome |-> "null"]
Throw == [outcome |-> "throw"]
Event(e, expired) == [outcome |-> "event", event |-> e, eventExpired |-> expired]

Returns == {Void, Null, Throw}
             \cup [outcome : {"event"}, event : Events, eventExpired : BOOLEAN]

Expiration(e) == event2[e].expirationTimePoint

ExpirationOf == [e \in Events |-> Expiration(e)]

Front(d) == eventsMultiMap[d][1]

-----------------------------------------------------------------------------
Init ==
    /\ now = 0
    /\ destinations = {}
    /\ eventsMultiMap = [d \in Destinations |-> <<>>]
    /\ event2 = [e \in Events |->
                    [destination |-> "", expirationTimePoint |-> 0]]
    /\ owner \in [Events -> Threads]
    /\ mutex = NoThread
    /\ pc = [t \in Threads |-> "idle"]
    /\ call = [t \in Threads |-> NoCall]
    /\ ret = [t \in Threads |-> Void]

Tick ==
    /\ now < MaxTime
    /\ now' = now + 1
    /\ UNCHANGED <<destinations, eventsMultiMap, event2, owner, mutex, pc, call,
                   ret>>

(***************************************************************************)
(* The methods that never wait.  lock_guard takes and gives back the mutex *)
(* within the step, so they only need it free.                             *)
(***************************************************************************)
Returned(t, r) == ret' = [ret EXCEPT ![t] = r]

AddDestination(t, d) ==
    /\ pc[t] = "idle"
    /\ mutex = NoThread
    /\ destinations' = destinations \cup {d}
    /\ Returned(t, IF d \in destinations THEN Throw ELSE Void)
    /\ UNCHANGED <<now, eventsMultiMap, event2, owner, mutex, pc, call>>

\* notify_one on _addedEvent of d: some sleeper goes for the mutex again.
Sleepers(d) == {t \in Threads : pc[t] = "wait" /\ call[t].destination = d}

NotifyOne(d) ==
    IF Sleepers(d) = {}
    THEN UNCHANGED pc
    ELSE \E s \in Sleepers(d) : pc' = [pc EXCEPT ![s] = "relock"]

\* The owner of e fills in its fields and adds it.
AddEvent(t, e, d, x) ==
    /\ pc[t] = "idle"
    /\ mutex = NoThread
    /\ owner[e] = t
    /\ event2' = [event2 EXCEPT ![e] = [destination |-> d,
                                       expirationTimePoint |-> x]]
    /\ IF d \notin destinations
       THEN /\ Returned(t, Throw)
            /\ UNCHANGED <<eventsMultiMap, owner, pc>>
       ELSE /\ eventsMultiMap' = [eventsMultiMap EXCEPT ![d] =
                    InsertAtPosition(@, UpperBound(@, ExpirationOf, x), e)]
            /\ owner' = [owner EXCEPT ![e] = InSet]
            /\ IF eventsMultiMap[d] = <<>> \/ x < Expiration(Front(d))
               THEN NotifyOne(d)
               ELSE UNCHANGED pc
            /\ Returned(t, Void)
    /\ UNCHANGED <<now, destinations, mutex, call>>

\* Any thread may try to take an event back, also one that is gone already.
DeleteEvent(t, e) ==
    LET d == event2[e].destination IN
    /\ pc[t] = "idle"
    /\ mutex = NoThread
    /\ IF d \in destinations /\ IsIn(e, eventsMultiMap[d])
       THEN /\ eventsMultiMap' = [eventsMultiMap EXCEPT ![d] =
                    EraseAtPosition(@, PositionOf(e, @))]
            /\ owner' = [owner EXCEPT ![e] = t]
            /\ Returned(t, Void)
       ELSE /\ Returned(t, Throw)
            /\ UNCHANGED <<eventsMultiMap, owner>>
    /\ UNCHANGED <<now, destinations, event2, mutex, pc, call>>

(***************************************************************************)
(* getFirstEvent and getAndRemoveFirstEvent.                               *)
(***************************************************************************)
Finish(t, r) ==
    /\ pc' = [pc EXCEPT ![t] = "idle"]
    /\ call' = [call EXCEPT ![t] = NoCall]
    /\ Returned(t, r)

\* The call, up to unique_lock: initialTimePoint is read before the mutex.
Call(t, op, d, b, w) ==
    /\ pc[t] = "idle"
    /\ pc' = [pc EXCEPT ![t] = "lock"]
    /\ call' = [call EXCEPT ![t] =
            [op |-> op, destination |-> d, blocking |-> b,
             milliSecondsToBlock |-> w, initialTimePoint |-> now,
             deadline |-> now]]
    /\ Returned(t, Void)
    /\ UNCHANGED <<now, destinations, eventsMultiMap, event2, owner, mutex>>

\* With the mutex and an event in the multimap: getFirstEvent returns the
\* front, getAndRemoveFirstEvent enters its loop and keeps the mutex.
FoundEvent(t) ==
    LET d == call[t].destination IN
    IF call[t].op = "getFirstEvent"
    THEN /\ Finish(t, Event(Front(d), now >= Expiration(Front(d))))
         /\ UNCHANGED mutex
    ELSE /\ pc' = [pc EXCEPT ![t] = "loop"]
         /\ mutex' = t
         /\ UNCHANGED <<call, ret>>

\* wait_for gives the mutex back and sleeps until notified or its deadline.
Acquire(t) ==
    LET d == call[t].destination IN
    /\ pc[t] = "lock"
    /\ mutex = NoThread
    /\ \/ /\ d \notin destinations
          /\ Finish(t, Throw)
          /\ UNCHANGED mutex
       \/ /\ d \in destinations
          /\ eventsMultiMap[d] # <<>>
          /\ FoundEvent(t)
       \/ /\ d \in destinations
          /\ eventsMultiMap[d] = <<>>
          /\ ~call[t].blocking
          /\ Finish(t, Null)
          /\ UNCHANGED mutex
       \/ /\ d \in destinations
          /\ eventsMultiMap[d] = <<>>
          /\ call[t].blocking
          /\ pc' = [pc EXCEPT ![t] = "wait"]
          /\ call' = [call EXCEPT ![t].deadline =
                        Cap(now + call[t].milliSecondsToBlock)]
          /\ UNCHANGED <<mutex, ret>>
    /\ UNCHANGED <<now, destinations, eventsMultiMap, event2, owner>>

WakeUp(t) ==
    /\ pc[t] = "wait"
    /\ pc' = [pc EXCEPT ![t] = "relock"]
    /\ UNCHANGED <<now, destinations, eventsMultiMap, event2, owner, mutex, call,
                   ret>>

WaitTimeout(t) == WakeUp(t) /\ now >= call[t].deadline

SpuriousWakeUp(t) == WakeUp(t) /\ now < call[t].deadline

\* Mutant: wait_for without a predicate, getAndRemoveFirstEvent takes any
\* wake-up for an event.
RelockWithoutPredicate(t) ==
    /\ pc[t] = "relock"
    /\ mutex = NoThread
    /\ IF \/ now >= call[t].deadline
          \/ /\ call[t].op = "getFirstEvent"
             /\ eventsMultiMap[call[t].destination] = <<>>
       THEN Finish(t, Null) /\ UNCHANGED mutex
       ELSE FoundEvent(t)
    /\ UNCHANGED <<now, destinations, eventsMultiMap, event2, owner>>

\* Mutant: the whole milliSecondsToBlock is waited for again at every wake-up.
RelockRestartsWait(t) ==
    /\ pc[t] = "relock"
    /\ mutex = NoThread
    /\ IF eventsMultiMap[call[t].destination] # <<>>
       THEN FoundEvent(t)
       ELSE /\ pc' = [pc EXCEPT ![t] = "wait"]
            /\ UNCHANGED <<mutex, call, ret>>
    /\ UNCHANGED <<now, destinations, eventsMultiMap, event2, owner>>

\* Awake and with the mutex again, wait_for evaluates its predicate.
Relock(t) ==
    LET d == call[t].destination IN
    /\ pc[t] = "relock"
    /\ mutex = NoThread
    /\ \/ /\ eventsMultiMap[d] # <<>>
          /\ FoundEvent(t)
       \/ /\ eventsMultiMap[d] = <<>>
          /\ now >= call[t].deadline
          /\ Finish(t, Null)
          /\ UNCHANGED mutex
       \/ /\ eventsMultiMap[d] = <<>>
          /\ now < call[t].deadline
          /\ pc' = [pc EXCEPT ![t] = "wait"]
          /\ UNCHANGED <<mutex, call, ret>>
    /\ UNCHANGED <<now, destinations, eventsMultiMap, event2, owner>>

(***************************************************************************)
(* One turn of the loop of getAndRemoveFirstEvent.  The predicate of its   *)
(* wait_for ("not empty") holds already, so wait_for returns at once with  *)
(* the mutex never given back: a turn that neither takes the front nor     *)
(* gives up changes nothing, and the thread spins until the clock moves.   *)
(* The test for an empty multimap at the top of the loop is not modelled:  *)
(* LoopNeverFindsEmpty shows that it never holds.                          *)
(***************************************************************************)
\* Mutant: the time already spent is counted from zero, not from the call.
RemainingFromZero(t) == call[t].milliSecondsToBlock - now

Remaining(t) ==
    Cap(call[t].initialTimePoint + call[t].milliSecondsToBlock) - now

\* Mutant: the front event is taken without looking at its expiration.
TakeFrontUnexpired(t) ==
    LET d == call[t].destination IN
    /\ pc[t] = "loop"
    /\ eventsMultiMap' = [eventsMultiMap EXCEPT ![d] = EraseAtPosition(@, 1)]
    /\ owner' = [owner EXCEPT ![Front(d)] = t]
    /\ mutex' = NoThread
    /\ Finish(t, Event(Front(d), TRUE))
    /\ UNCHANGED <<now, destinations, event2>>

TakeFront(t) ==
    LET d == call[t].destination IN
    /\ pc[t] = "loop"
    /\ now >= Expiration(Front(d))
    /\ eventsMultiMap' = [eventsMultiMap EXCEPT ![d] = EraseAtPosition(@, 1)]
    /\ owner' = [owner EXCEPT ![Front(d)] = t]
    /\ mutex' = NoThread
    /\ Finish(t, Event(Front(d), TRUE))
    /\ UNCHANGED <<now, destinations, event2>>

GiveUp(t) ==
    /\ pc[t] = "loop"
    /\ now < Expiration(Front(call[t].destination))
    /\ call[t].blocking => Remaining(t) <= 0
    /\ mutex' = NoThread
    /\ Finish(t, Null)
    /\ UNCHANGED <<now, destinations, eventsMultiMap, event2, owner>>

-----------------------------------------------------------------------------
Next ==
    \/ Tick
    \/ \E t \in Threads :
        \/ \E d \in Destinations : AddDestination(t, d)
        \/ \E e \in Events, d \in Destinations, x \in Time : AddEvent(t, e, d, x)
        \/ \E e \in Events : DeleteEvent(t, e)
        \/ \E op \in {"getFirstEvent", "getAndRemoveFirstEvent"},
              d \in Destinations, b \in BOOLEAN, w \in Waits : Call(t, op, d, b, w)
        \/ Acquire(t)
        \/ WaitTimeout(t)
        \/ SpuriousWakeUp(t)
        \/ Relock(t)
        \/ TakeFront(t)
        \/ GiveUp(t)

Spec == Init /\ [][Next]_vars

(***************************************************************************)
(* Fairness.  The clock advances, a sleeper whose deadline has passed is   *)
(* scheduled, and a thread that keeps asking for the mutex gets it in the  *)
(* end (strong fairness: other threads take the mutex in between).         *)
(***************************************************************************)
Fairness ==
    /\ WF_vars(Tick)
    /\ \A t \in Threads : /\ SF_vars(Acquire(t))
                          /\ SF_vars(Relock(t))
                          /\ WF_vars(WaitTimeout(t))
                          /\ WF_vars(TakeFront(t))
                          /\ WF_vars(GiveUp(t))

FairSpec == Spec /\ Fairness

-----------------------------------------------------------------------------
(***************************************************************************)
(* The types of the variables.  A thread inside a consuming call has valid *)
(* arguments.                                                              *)
(***************************************************************************)
TypeOK ==
    /\ now \in Time
    /\ destinations \subseteq Destinations
    /\ eventsMultiMap \in [Destinations -> Seq(Events)]
    /\ event2 \in [Events -> Event2]
    /\ owner \in [Events -> Threads \cup {InSet}]
    /\ mutex \in Threads \cup {NoThread}
    /\ pc \in [Threads -> {"idle", "lock", "wait", "relock", "loop"}]
    /\ call \in [Threads -> Calls \cup {NoCall}]
    /\ \A t \in Threads : pc[t] # "idle" => call[t] \in Calls
    /\ ret \in [Threads -> Returns]

(***************************************************************************)
(* Every multimap is ordered by expiration time, whatever mix of threads   *)
(* added, deleted and consumed the events: begin() is what addEvent and    *)
(* the consuming methods take for the next event to expire.                *)
(***************************************************************************)
Ordered ==
    \A d \in Destinations : \A i, j \in 1..Len(eventsMultiMap[d]) :
        i < j => Expiration(eventsMultiMap[d][i]) <= Expiration(eventsMultiMap[d][j])

\* The variables have their types and the multimaps of addEvent, deleteEvent
\* and the consuming methods their order.
OrderedSet == TypeOK /\ Ordered

(***************************************************************************)
(* An event is either in the hands of one thread or in the set, and then   *)
(* once, under the destination it carries: no event is lost, delivered to  *)
(* two consumers, or both cancelled by deleteEvent and delivered.          *)
(***************************************************************************)
HeldOnce ==
    /\ \A e \in Events : owner[e] = InSet =>
            /\ event2[e].destination \in destinations
            /\ IsIn(e, eventsMultiMap[event2[e].destination])
    /\ \A d \in Destinations : \A i \in 1..Len(eventsMultiMap[d]) :
            /\ owner[eventsMultiMap[d][i]] = InSet
            /\ event2[eventsMultiMap[d][i]].destination = d
            /\ \A j \in 1..Len(eventsMultiMap[d]) :
                    eventsMultiMap[d][i] = eventsMultiMap[d][j] => i = j

(***************************************************************************)
(* A thread in the expiration loop of getAndRemoveFirstEvent always finds  *)
(* an event at begin(): the "No events found" exit at the top of the loop  *)
(* is never taken, although the thread got there over a wait in which      *)
(* other consumers ran.                                                    *)
(***************************************************************************)
LoopNeverFindsEmpty ==
    \A t \in Threads : pc[t] = "loop" =>
        /\ call[t].op = "getAndRemoveFirstEvent"
        /\ call[t].destination \in destinations
        /\ eventsMultiMap[call[t].destination] # <<>>

\* The step in which the blocking call of t ends with nullptr.
AnswersNull(t) ==
    /\ pc[t] # "idle"
    /\ call[t].blocking
    /\ pc'[t] = "idle"
    /\ ret'[t] = Null

\* t has waited as long as it wanted, and nothing has expired for it.
BlockedInVain(t) ==
    /\ now >= Cap(call[t].initialTimePoint + call[t].milliSecondsToBlock)
    /\ \A e \in Events :
            owner[e] = InSet /\ event2[e].destination = call[t].destination
            => now < Expiration(e)

(***************************************************************************)
(* A blocking call comes back with nullptr only when milliSecondsToBlock   *)
(* have passed since it was made and no expired event is in the set for    *)
(* its destination, although it looks at the set and at the clock at       *)
(* different moments.                                                      *)
(***************************************************************************)
NullOnlyAfterBlockingTime ==
    [][\A t \in Threads : AnswersNull(t) => BlockedInVain(t)]_vars

(***************************************************************************)
(* Every consuming call returns: the loop is left and no sleeper is        *)
(* forgotten.                                                              *)
(***************************************************************************)
CallReturns == \A t \in Threads : pc[t] # "idle" ~> pc[t] = "idle"

(***************************************************************************)
(* Refinement.  Hiding the mutex, the waiting and the order inside the     *)
(* multimap, the set is the deadline queue: an event is delivered once,    *)
(* when it is due and before every later one, and a client hears "nothing" *)
(* only when nothing is due.                                               *)
(***************************************************************************)
Pending(d) == {eventsMultiMap[d][i] : i \in 1..Len(eventsMultiMap[d])}

Queue == INSTANCE DeadlineQueue WITH
            Clients <- Threads,
            pending <- [d \in Destinations |-> Pending(d)],
            due     <- ExpirationOf,
            answer  <- ret

(***************************************************************************)
(* MultiEventsSet implements the deadline queue.                           *)
(***************************************************************************)
ImplementsDeadlineQueue == Queue!Spec

-----------------------------------------------------------------------------
(***************************************************************************)
(* What the comments of the code promise and the code does not do.         *)
(***************************************************************************)

(***************************************************************************)
(* "It is sufficient that just one thread waiting the event is waken up":  *)
(* an expired event never lies at a destination where a consumer sleeps    *)
(* while nobody is awake to take it.                                       *)
(***************************************************************************)
NoLostWakeUp ==
    \A d \in Destinations :
        /\ eventsMultiMap[d] # <<>>
        /\ now >= Expiration(Front(d))
        /\ Sleepers(d) # {}
        => \E t \in Threads : /\ pc[t] \in {"lock", "relock", "loop"}
                              /\ call[t].destination = d

(***************************************************************************)
(* addEvent and getAndRemoveFirstEvent are "meant to be very fast": a       *)
(* consumer that waits for the front event to expire leaves the mutex free *)
(* for the threads that add and consume.                                   *)
(***************************************************************************)
WaitsWithoutMutex ==
    \A t \in Threads :
        /\ pc[t] = "loop"
        /\ call[t].blocking
        /\ Remaining(t) > 0
        /\ now < Expiration(Front(call[t].destination))
        => mutex # t
=============================================================================
