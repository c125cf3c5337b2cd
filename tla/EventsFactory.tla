---------------------------- MODULE EventsFactory ----------------------------
(***************************************************************************)
(* The pool of Event2 objects (MultiEventsSet/src/EventsFactory).  Every   *)
(* event type has a queue of free events and a map of the used ones, both  *)
(* fed by blocks of new events up to a maximum.  All methods hold the      *)
(* recursive mutex from their first to their last line, so each is one     *)
(* step.                                                                   *)
(*                                                                         *)
(* An event is the number that getFreeEvent gave it inside its type.       *)
(***************************************************************************)
EXTENDS Integers, Sequences

CONSTANTS Clients,  \* the threads that get and release events
          Types,    \* the event type identifiers
          Blocks,   \* the values of blockEventsNumber
          Maxes,    \* the values of maxEventsNumberToBeAllocated
          DefaultBlockEventsNumber,           \* 50 in the code
          DefaultMaxEventsNumberToBeAllocated \* 10000 in the code

\* With blocks of no event getFreeEvent reads the front of an empty deque.
ASSUME FactoryAssumption ==
    /\ Blocks \subseteq Nat \ {0}
    /\ Maxes \subseteq Int
    /\ DefaultBlockEventsNumber \in Nat \ {0}
    /\ DefaultMaxEventsNumberToBeAllocated \in Int

VARIABLES ethmEvents,                  \* the types that have an EventTypeInfo
          blockEventsNumber,           \* its fields, per type
          maxEventsNumberToBeAllocated,
          currentEventsNumber,
          freeEvents,
          usedEvents,
          held,                        \* the events every client works with
          last                         \* the outcome of the last call

limits == <<ethmEvents, blockEventsNumber, maxEventsNumberToBeAllocated>>

vars == <<ethmEvents, blockEventsNumber, maxEventsNumberToBeAllocated,
          currentEventsNumber, freeEvents, usedEvents, held, last>>

Outcomes == [outcome : {"done", "throw", "exhausted", "event"}, type : Types]
                \cup {[outcome |-> "none"]}

Done(ty, o) == last' = [outcome |-> o, type |-> ty]

Init ==
    /\ ethmEvents = {}
    /\ blockEventsNumber = [ty \in Types |-> 0]
    /\ maxEventsNumberToBeAllocated = [ty \in Types |-> 0]
    /\ currentEventsNumber = [ty \in Types |-> 0]
    /\ freeEvents = [ty \in Types |-> <<>>]
    /\ usedEvents = [ty \in Types |-> {}]
    /\ held = [c \in Clients |-> [ty \in Types |-> {}]]
    /\ last = [outcome |-> "none"]

AddEventType(ty, b, m) ==
    /\ IF ty \in ethmEvents
       THEN UNCHANGED limits /\ Done(ty, "throw")
       ELSE /\ ethmEvents' = ethmEvents \cup {ty}
            /\ blockEventsNumber' = [blockEventsNumber EXCEPT ![ty] = b]
            /\ maxEventsNumberToBeAllocated' =
                    [maxEventsNumberToBeAllocated EXCEPT ![ty] = m]
            /\ Done(ty, "done")
    /\ UNCHANGED <<currentEventsNumber, freeEvents, usedEvents, held>>

\* The limits in force for a type: getFreeEvent adds an unknown type itself.
BlockOf(ty) == IF ty \in ethmEvents THEN blockEventsNumber[ty]
                                    ELSE DefaultBlockEventsNumber

MaxOf(ty) == IF ty \in ethmEvents THEN maxEventsNumberToBeAllocated[ty]
                                  ELSE DefaultMaxEventsNumberToBeAllocated

\* Mutant: the maximum is compared before the block is added.
ExhaustedBeforeBlock(ty) ==
    /\ freeEvents[ty] = <<>>
    /\ currentEventsNumber[ty] >= MaxOf(ty)

Exhausted(ty) ==
    /\ freeEvents[ty] = <<>>
    /\ currentEventsNumber[ty] + BlockOf(ty) >= MaxOf(ty)

\* The free events after a block was allocated if there were none.
NewBlock(n, b) == [i \in 1..b |-> n + i - 1]

Available(ty) ==
    IF freeEvents[ty] = <<>>
    THEN NewBlock(currentEventsNumber[ty], BlockOf(ty))
    ELSE freeEvents[ty]

CurrentAfter(ty) ==
    currentEventsNumber[ty] + IF freeEvents[ty] = <<>> THEN BlockOf(ty) ELSE 0

\* Mutant: the event handed out is not taken from the front of the deque.
GetFreeEventNotPopped(c, ty) ==
    /\ ethmEvents' = ethmEvents \cup {ty}
    /\ blockEventsNumber' = [blockEventsNumber EXCEPT ![ty] = BlockOf(ty)]
    /\ maxEventsNumberToBeAllocated' =
            [maxEventsNumberToBeAllocated EXCEPT ![ty] = MaxOf(ty)]
    /\ ~Exhausted(ty)
    /\ currentEventsNumber' = [currentEventsNumber EXCEPT ![ty] =
                                        CurrentAfter(ty)]
    /\ freeEvents' = [freeEvents EXCEPT ![ty] = Available(ty)]
    /\ usedEvents' = [usedEvents EXCEPT ![ty] = @ \cup {Head(Available(ty))}]
    /\ held' = [held EXCEPT ![c][ty] = @ \cup {Head(Available(ty))}]
    /\ Done(ty, "event")

GetFreeEvent(c, ty) ==
    /\ ethmEvents' = ethmEvents \cup {ty}
    /\ blockEventsNumber' = [blockEventsNumber EXCEPT ![ty] = BlockOf(ty)]
    /\ maxEventsNumberToBeAllocated' =
            [maxEventsNumberToBeAllocated EXCEPT ![ty] = MaxOf(ty)]
    /\ \/ /\ Exhausted(ty)
          /\ Done(ty, "exhausted")
          /\ UNCHANGED <<currentEventsNumber, freeEvents, usedEvents, held>>
       \/ /\ ~Exhausted(ty)
          /\ currentEventsNumber' = [currentEventsNumber EXCEPT ![ty] =
                                        CurrentAfter(ty)]
          /\ freeEvents' = [freeEvents EXCEPT ![ty] = Tail(Available(ty))]
          /\ usedEvents' = [usedEvents EXCEPT ![ty] = @ \cup {Head(Available(ty))}]
          /\ held' = [held EXCEPT ![c][ty] = @ \cup {Head(Available(ty))}]
          /\ Done(ty, "event")

\* What a client may release: an event it works with or, by mistake, one that
\* is free already or that no getFreeEvent made.
Releasable(c, ty, n) == n \in held[c][ty] \/ n \notin usedEvents[ty]

\* Mutant: releaseEvent does not look the event up among the used ones.
ReleaseEventUnchecked(c, ty, n) ==
    /\ Releasable(c, ty, n)
    /\ freeEvents' = [freeEvents EXCEPT ![ty] = Append(@, n)]
    /\ usedEvents' = [usedEvents EXCEPT ![ty] = @ \ {n}]
    /\ held' = [held EXCEPT ![c][ty] = @ \ {n}]
    /\ Done(ty, "done")
    /\ UNCHANGED <<limits, currentEventsNumber>>

ReleaseEvent(c, ty, n) ==
    /\ Releasable(c, ty, n)
    /\ IF ty \in ethmEvents /\ n \in usedEvents[ty]
       THEN /\ freeEvents' = [freeEvents EXCEPT ![ty] = Append(@, n)]
            /\ usedEvents' = [usedEvents EXCEPT ![ty] = @ \ {n}]
            /\ held' = [held EXCEPT ![c][ty] = @ \ {n}]
            /\ Done(ty, "done")
       ELSE /\ Done(ty, "throw")
            /\ UNCHANGED <<freeEvents, usedEvents, held>>
    /\ UNCHANGED <<limits, currentEventsNumber>>

Next ==
    \E ty \in Types :
        \/ \E b \in Blocks, m \in Maxes : AddEventType(ty, b, m)
        \/ \E c \in Clients : \/ GetFreeEvent(c, ty)
                              \/ \E n \in 0..currentEventsNumber[ty] :
                                    ReleaseEvent(c, ty, n)

Spec == Init /\ [][Next]_vars

-----------------------------------------------------------------------------
(***************************************************************************)
(* The types of the variables.                                             *)
(***************************************************************************)
TypeOK ==
    /\ ethmEvents \subseteq Types
    /\ blockEventsNumber \in [Types -> Nat]
    /\ maxEventsNumberToBeAllocated \in [Types -> Int]
    /\ currentEventsNumber \in [Types -> Nat]
    /\ freeEvents \in [Types -> Seq(Nat)]
    /\ usedEvents \in [Types -> SUBSET Nat]
    /\ held \in [Clients -> [Types -> SUBSET Nat]]
    /\ last \in Outcomes

Free(ty) == {freeEvents[ty][i] : i \in 1..Len(freeEvents[ty])}

(***************************************************************************)
(* However the calls of the clients interleave, every event ever allocated *)
(* is either in the deque of free events, and there once, or among the     *)
(* used ones: getFreeEvent and releaseEvent neither leak nor duplicate an  *)
(* event.                                                                  *)
(***************************************************************************)
NoLeakNoDuplicate ==
    \A ty \in Types :
        /\ Free(ty) \cup usedEvents[ty] = 0..currentEventsNumber[ty] - 1
        /\ Free(ty) \cap usedEvents[ty] = {}
        /\ \A i, j \in 1..Len(freeEvents[ty]) :
                freeEvents[ty][i] = freeEvents[ty][j] => i = j

(***************************************************************************)
(* A used event is in the hands of exactly one client: getFreeEvent never  *)
(* gives the same event to two threads, as long as a thread releases what  *)
(* it holds.                                                               *)
(***************************************************************************)
OneHolder ==
    \A ty \in Types :
        /\ \A n \in usedEvents[ty] : \E c \in Clients : n \in held[c][ty]
        /\ \A c \in Clients : held[c][ty] \subseteq usedEvents[ty]
        /\ \A c, d \in Clients : c # d => held[c][ty] \cap held[d][ty] = {}

\* A type has at most its maximum of events.
BelowMax ==
    \A ty \in Types :
        currentEventsNumber[ty] > 0 =>
            currentEventsNumber[ty] <= maxEventsNumberToBeAllocated[ty]

(***************************************************************************)
(* The variables have their types and the blocks of getFreeEvent never     *)
(* allocate beyond the maximum given for the type.                         *)
(***************************************************************************)
WithinMax == TypeOK /\ BelowMax
=============================================================================
