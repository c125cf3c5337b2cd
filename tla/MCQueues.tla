------------------------------ MODULE MCQueues ------------------------------
(* The two sets of events of the library, MultiEventsSet and the EventsSet *)
(* it was made from: one of them takes steps in a behaviour, the other one *)
(* stays in its initial state.                                             *)
EXTENDS MultiEventsSet, EventsSet, TLC

VARIABLE part

queuesVars == <<part, vars, esVars>>

AThreadOf(S) == CHOOSE t \in S : TRUE

\* The events of the set that stays as it is are one thread's, and its clock
\* has one offset.
QueuesInit ==
    /\ part \in {"MultiEventsSet", "EventsSet"}
    /\ Init /\ EsInit
    /\ part = "EventsSet" => owner = [e \in Events |-> AThreadOf(Threads)]
    /\ part = "MultiEventsSet" =>
            /\ esOwner = [e \in EsEvents |-> AThreadOf(EsThreads)]
            /\ offset = CHOOSE o \in Offsets : TRUE

QueuesNext ==
    \/ part = "MultiEventsSet" /\ Next /\ UNCHANGED <<part, esVars>>
    \/ part = "EventsSet" /\ EsNext /\ UNCHANGED <<part, vars>>

QueuesSpec == QueuesInit /\ [][QueuesNext]_queuesVars

InSetPart(A) == part = "MultiEventsSet" /\ A /\ UNCHANGED <<part, esVars>>
InEventsPart(A) == part = "EventsSet" /\ A /\ UNCHANGED <<part, vars>>

\* Fairness and EsFairness, each for its own part.
QueuesFairSpec ==
    /\ QueuesSpec
    /\ WF_queuesVars(InSetPart(Tick))
    /\ \A t \in Threads :
        /\ SF_queuesVars(InSetPart(Acquire(t)))
        /\ SF_queuesVars(InSetPart(Relock(t)))
        /\ WF_queuesVars(InSetPart(WaitTimeout(t)))
        /\ WF_queuesVars(InSetPart(TakeFront(t)))
        /\ WF_queuesVars(InSetPart(GiveUp(t)))
    /\ WF_queuesVars(InEventsPart(EsTick))
    /\ \A t \in EsThreads :
        /\ WF_queuesVars(InEventsPart(Lock(t)))
        /\ WF_queuesVars(InEventsPart(EsWaitTimeout(t)))
        /\ WF_queuesVars(InEventsPart(Woken(t)))

-----------------------------------------------------------------------------
\* The two sets have events of the same names.
Symmetry == Permutations(Threads) \cup Permutations(Events)
=============================================================================
