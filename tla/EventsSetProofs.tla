---------------------------- MODULE EventsSetProofs ----------------------------
(***************************************************************************)
(* Proofs about the first events set, for every number of threads, events  *)
(* and destinations and every shift of the local clock.                    *)
(*                                                                         *)
(* deleteEvent looks for the expiration time of its event and takes the    *)
(* first one that has it, so the set is right only when no two events of a *)
(* destination expire at the same time: the theorems about the events in   *)
(* the set assume that DuplicateKeys is FALSE, as the run does.            *)
(***************************************************************************)
EXTENDS EventsSet, EventsMultiMapProofs

(***************************************************************************)
(* The multimap of d is ordered, and it has the events that are in the set *)
(* with d for their destination, each once.                                *)
(***************************************************************************)
Books(d) ==
    /\ Sorted(emEventsMultiMap[d], EsExpirationOf)
    /\ Distinct(emEventsMultiMap[d])
    /\ \A e \in EsEvents : IsIn(e, emEventsMultiMap[d]) <=>
            esOwner[e] = EsInSet /\ event[e].destination = d

\* No event in the set has the destination and the expiration of another
\* event, wherever that is.
UniqueKeys ==
    \A e, f \in EsEvents : esOwner[e] = EsInSet /\ e # f => event[e] # event[f]

SetOK ==
    /\ \A d \in EsDestinations : Books(d)
    /\ \A e \in EsEvents : esOwner[e] = EsInSet => event[e].destination \in esDestinations
    /\ UniqueKeys

\* The inductive invariant.
IInv ==
    /\ EsTypeOK
    /\ WaitsWithinBlockingTime
    /\ DuplicateKeys \/ SetOK

-----------------------------------------------------------------------------
(***************************************************************************)
(* The clock never leaves its range, and EsCap makes no instant later.     *)
(***************************************************************************)
LEMMA CapFacts ==
    ASSUME NEW x \in Nat
    PROVE  EsCap(x) \in EsTime /\ EsCap(x) <= x
  BY EventsSetAssumption DEF EsCap, EsTime

(***************************************************************************)
(* The local time is an integer, UTC and the shift of the machine.         *)
(***************************************************************************)
LEMMA LocalTimeFacts ==
    ASSUME EsTypeOK
    PROVE  /\ NowLocal \in LocalTime
           /\ LocalTime \subseteq Int
           /\ esNow \in Nat /\ offset \in Int /\ NowLocal = esNow + offset
           /\ EsExpirationOf \in [EsEvents -> Int]
           /\ \A e \in EsEvents : EsExpirationOf[e] = event[e].expiration
  <1>1. esNow \in Nat /\ offset \in Int /\ esNow \in EsTime /\ offset \in Offsets
    BY EventsSetAssumption DEF EsTypeOK, EsTime
  <1>2. LocalTime \subseteq Int
    BY EventsSetAssumption DEF LocalTime, EsTime
  <1>3. ASSUME NEW e \in EsEvents
        PROVE  event[e].expiration \in Int
    <2>1. event[e] \in EventFields
      BY DEF EsTypeOK
    <2>2. event[e].expiration \in LocalTime \cup {0}
      BY <2>1 DEF EventFields
    <2>3. LocalTime \cup {0} \subseteq Int
      BY <1>2
    <2> QED
      BY <2>2, <2>3, Zenon
  <1> QED
    BY <1>1, <1>2, <1>3 DEF NowLocal, LocalTime, EsExpirationOf

(***************************************************************************)
(* The right books are what EsHeldOnce says of the set.                    *)
(***************************************************************************)
LEMMA HeldOnceOfSetOK ==
    ASSUME EsTypeOK, SetOK
    PROVE  EsHeldOnce
  <1>1. esDestinations \subseteq EsDestinations
    BY DEF EsTypeOK
  <1>2. ASSUME NEW e \in EsEvents, esOwner[e] = EsInSet
        PROVE  /\ event[e].destination \in esDestinations
               /\ IsIn(e, emEventsMultiMap[event[e].destination])
    BY <1>1, <1>2 DEF SetOK, Books
  <1>3. ASSUME NEW d \in EsDestinations, NEW i \in 1..Len(emEventsMultiMap[d])
        PROVE  /\ esOwner[emEventsMultiMap[d][i]] = EsInSet
               /\ event[emEventsMultiMap[d][i]].destination = d
               /\ \A j \in 1..Len(emEventsMultiMap[d]) : i < j =>
                    /\ emEventsMultiMap[d][i] # emEventsMultiMap[d][j]
                    /\ EsExpirationOf[emEventsMultiMap[d][i]]
                            <= EsExpirationOf[emEventsMultiMap[d][j]]
    <2>1. Books(d)
      BY DEF SetOK
    <2>2. emEventsMultiMap[d][i] \in EsEvents
      BY DEF EsTypeOK
    <2>3. IsIn(emEventsMultiMap[d][i], emEventsMultiMap[d])
      BY DEF IsIn
    <2>4. /\ esOwner[emEventsMultiMap[d][i]] = EsInSet
          /\ event[emEventsMultiMap[d][i]].destination = d
      BY <2>1, <2>2, <2>3 DEF Books
    <2>5. ASSUME NEW j \in 1..Len(emEventsMultiMap[d]), i < j
          PROVE  /\ emEventsMultiMap[d][i] # emEventsMultiMap[d][j]
                 /\ EsExpirationOf[emEventsMultiMap[d][i]]
                        <= EsExpirationOf[emEventsMultiMap[d][j]]
      BY <2>1, <2>5 DEF Books, Distinct, Sorted
    <2> QED
      BY <2>4, <2>5
  <1> QED
    BY <1>2, <1>3 DEF EsHeldOnce

(***************************************************************************)
(* A destination with an event has one in front; when the books are right  *)
(* it is in the set, and none of its destination expires sooner.           *)
(***************************************************************************)
LEMMA FrontTypes ==
    ASSUME EsTypeOK, NEW d \in EsDestinations, emEventsMultiMap[d] # <<>>
    PROVE  FrontEvent(d) \in EsEvents /\ 1 \in 1..Len(emEventsMultiMap[d])
  <1>1. emEventsMultiMap[d] \in Seq(EsEvents)
    BY DEF EsTypeOK
  <1> QED
    BY <1>1 DEF FrontEvent

LEMMA FrontFacts ==
    ASSUME EsTypeOK, SetOK, NEW d \in EsDestinations, emEventsMultiMap[d] # <<>>
    PROVE  /\ esOwner[FrontEvent(d)] = EsInSet
           /\ event[FrontEvent(d)].destination = d
           /\ \A f \in EsEvents : esOwner[f] = EsInSet /\ event[f].destination = d =>
                    EsExpirationOf[FrontEvent(d)] <= EsExpirationOf[f]
  <1>1. FrontEvent(d) \in EsEvents /\ 1 \in 1..Len(emEventsMultiMap[d])
    BY FrontTypes
  <1>2. Books(d)
    BY DEF SetOK
  <1>3. /\ esOwner[FrontEvent(d)] = EsInSet
        /\ event[FrontEvent(d)].destination = d
    BY <1>1, <1>2 DEF Books, IsIn, FrontEvent
  <1>4. ASSUME NEW f \in EsEvents, esOwner[f] = EsInSet, event[f].destination = d
        PROVE  EsExpirationOf[FrontEvent(d)] <= EsExpirationOf[f]
    <2>1. PICK i \in 1..Len(emEventsMultiMap[d]) : emEventsMultiMap[d][i] = f
      BY <1>2, <1>4 DEF Books, IsIn
    <2>2. CASE i = 1
      <3>1. EsExpirationOf[f] \in Int
        BY LocalTimeFacts
      <3> QED
        BY <2>1, <2>2, <3>1 DEF FrontEvent
    <2>3. CASE i > 1
      BY <1>1, <1>2, <2>1, <2>3 DEF Books, Sorted, FrontEvent
    <2> QED
      BY <2>2, <2>3
  <1> QED
    BY <1>3, <1>4

-----------------------------------------------------------------------------
(***************************************************************************)
(* What the steps do to the set.                                           *)
(***************************************************************************)

(***************************************************************************)
(* The steps that touch no event keep the books; a destination may be new. *)
(***************************************************************************)
LEMMA SameSet ==
    ASSUME IInv, esDestinations \subseteq esDestinations',
           emEventsMultiMap' = emEventsMultiMap, event' = event, esOwner' = esOwner
    PROVE  DuplicateKeys \/ SetOK'
  <1> SUFFICES ASSUME SetOK
               PROVE  SetOK'
    BY DEF IInv
  <1>1. EsExpirationOf' = EsExpirationOf
    BY DEF EsExpirationOf
  <1>2. \A d \in EsDestinations : Books(d)'
    BY <1>1 DEF SetOK, Books
  <1>3. UniqueKeys'
    BY DEF SetOK, UniqueKeys
  <1> QED
    BY <1>2, <1>3 DEF SetOK

(***************************************************************************)
(* The step that puts e into the multimap of d keeps the books.            *)
(***************************************************************************)
LEMMA InsertBooks ==
    ASSUME EsTypeOK, SetOK, NEW d \in EsDestinations, NEW e \in EsEvents, NEW x \in LocalTime,
           esOwner[e] # EsInSet,
           \A f \in EsEvents \ {e} :
                event[f] # [destination |-> d, expiration |-> x],
           esDestinations' = esDestinations \cup {d},
           event' = [event EXCEPT ![e] = [destination |-> d, expiration |-> x]],
           emEventsMultiMap' = [emEventsMultiMap EXCEPT ![d] =
                InsertAtPosition(@, UpperBound(@, EsExpirationOf, x), e)],
           esOwner' = [esOwner EXCEPT ![e] = EsInSet]
    PROVE  SetOK'
  <1>1. /\ emEventsMultiMap \in [EsDestinations -> Seq(EsEvents)]
        /\ event \in [EsEvents -> EventFields]
        /\ esOwner \in [EsEvents -> EsThreads \cup {EsInSet}]
        /\ \A c \in EsDestinations : Books(c)
        /\ \A f \in EsEvents : esOwner[f] = EsInSet => event[f].destination \in esDestinations
        /\ UniqueKeys
    BY DEF EsTypeOK, SetOK
  <1>2. \A f \in EsEvents :
            /\ esOwner'[f] = IF f = e THEN EsInSet ELSE esOwner[f]
            /\ event'[f] = IF f = e THEN [destination |-> d, expiration |-> x]
                           ELSE event[f]
    BY <1>1
  <1> DEFINE s == emEventsMultiMap[d]
             r == emEventsMultiMap'[d]
             old == EsExpirationOf
             new == EsExpirationOf'
  <1>3. /\ \A f \in EsEvents : f # e => new[f] = old[f]
        /\ new = [old EXCEPT ![e] = x]
        /\ x \in Int
        /\ old \in [EsEvents -> Int]
        /\ new \in [EsEvents -> Int]
    <2>1. x \in Int
      BY LocalTimeFacts
    <2>2. old \in [EsEvents -> Int]
      BY LocalTimeFacts
    <2>3. /\ \A f \in EsEvents : f # e => new[f] = old[f]
          /\ new[e] = x
      BY <1>2 DEF EsExpirationOf
    <2>4. \A f \in EsEvents : new[f] \in Int
      BY <2>1, <2>2, <2>3
    <2>5. new \in [EsEvents -> Int]
      BY <2>4 DEF EsExpirationOf
    <2>6. new = [old EXCEPT ![e] = x]
      BY <2>3 DEF EsExpirationOf
    <2> QED
      BY <2>1, <2>2, <2>3, <2>5, <2>6
  <1>4. \A c \in EsDestinations : ~IsIn(e, emEventsMultiMap[c])
    BY <1>1 DEF Books
  <1>5. s \in Seq(EsEvents) /\ r = InsertAtPosition(s, UpperBound(s, old, x), e)
    BY <1>1
  <1>6. Sorted(s, old) /\ Distinct(s) /\ ~IsIn(e, s)
    BY <1>1, <1>4 DEF Books
  <1> HIDE DEF s, r, old, new
  <1>7. /\ r \in Seq(EsEvents)
        /\ Sorted(r, new)
        /\ Distinct(r)
        /\ \A f : IsIn(f, r) <=> f = e \/ IsIn(f, s)
    BY <1>3, <1>5, <1>6, InsertNew
  <1>8. ASSUME NEW c \in EsDestinations
        PROVE  Books(c)'
    <2>1. CASE c = d
      <3>1. \A f \in EsEvents : IsIn(f, r) <=>
                    esOwner'[f] = EsInSet /\ event'[f].destination = d
        BY <1>1, <1>2, <1>7 DEF Books, s
      <3> QED
        BY <1>7, <2>1, <3>1 DEF Books, r, new
    <2>2. CASE c # d
      <3>1. emEventsMultiMap'[c] = emEventsMultiMap[c]
        BY <1>1, <2>2
      <3>2. \A i \in 1..Len(emEventsMultiMap[c]) :
                /\ emEventsMultiMap[c][i] \in EsEvents
                /\ emEventsMultiMap[c][i] # e
        BY <1>1, <1>4 DEF IsIn
      <3>3. Sorted(emEventsMultiMap[c], new)
        BY <1>1, <1>3, <3>2 DEF Books, Sorted, old
      <3>4. \A f \in EsEvents : IsIn(f, emEventsMultiMap[c]) <=>
                    esOwner'[f] = EsInSet /\ event'[f].destination = c
        BY <1>1, <1>2, <1>4, <2>2 DEF Books
      <3> QED
        BY <1>1, <3>1, <3>3, <3>4 DEF Books, new
    <2> QED
      BY <2>1, <2>2
  <1>9. \A f \in EsEvents : esOwner'[f] = EsInSet => event'[f].destination \in esDestinations'
    BY <1>1, <1>2
  <1>10. UniqueKeys'
    BY <1>1, <1>2 DEF UniqueKeys
  <1> QED
    BY <1>8, <1>9, <1>10 DEF SetOK

(***************************************************************************)
(* The step that takes an event out of the multimap of d and gives it to a *)
(* thread keeps the books.                                                 *)
(***************************************************************************)
LEMMA EraseBooks ==
    ASSUME EsTypeOK, SetOK, NEW d \in EsDestinations, NEW t \in EsThreads,
           NEW i \in 1..Len(emEventsMultiMap[d]), NEW e,
           e = emEventsMultiMap[d][i],
           esDestinations' = esDestinations,
           event' = event,
           emEventsMultiMap' =
                [emEventsMultiMap EXCEPT ![d] = EraseAtPosition(@, i)],
           esOwner' = [esOwner EXCEPT ![e] = t]
    PROVE  SetOK'
  <1>1. /\ emEventsMultiMap \in [EsDestinations -> Seq(EsEvents)]
        /\ esOwner \in [EsEvents -> EsThreads \cup {EsInSet}]
        /\ t # EsInSet
        /\ \A c \in EsDestinations : Books(c)
        /\ \A f \in EsEvents : esOwner[f] = EsInSet => event[f].destination \in esDestinations
        /\ UniqueKeys
    BY EventsSetAssumption DEF EsTypeOK, SetOK
  <1> DEFINE s == emEventsMultiMap[d]
             r == emEventsMultiMap'[d]
  <1>2. s \in Seq(EsEvents) /\ i \in 1..Len(s) /\ e = s[i] /\ e \in EsEvents
    BY <1>1
  <1>3. r = EraseAtPosition(s, i)
    BY <1>1
  <1>4. EsExpirationOf' = EsExpirationOf /\ EsExpirationOf \in [EsEvents -> Int]
    BY LocalTimeFacts DEF EsExpirationOf
  <1>5. \A f \in EsEvents : esOwner'[f] = IF f = e THEN t ELSE esOwner[f]
    BY <1>1, <1>2
  <1>6. Distinct(s) /\ Sorted(s, EsExpirationOf)
    BY <1>1 DEF Books
  <1>7. event[e].destination = d
    BY <1>1, <1>2 DEF Books, IsIn
  <1> HIDE DEF s, r
  <1>8. /\ r \in Seq(EsEvents)
        /\ Distinct(r)
        /\ ~IsIn(e, r)
        /\ \A f : IsIn(f, s) /\ f # e => IsIn(f, r)
        /\ \A f : IsIn(f, r) => IsIn(f, s)
        /\ Sorted(r, EsExpirationOf)
    <2>1. /\ r \in Seq(EsEvents)
          /\ Distinct(r)
          /\ ~IsIn(e, r)
          /\ \A f : IsIn(f, s) /\ f # e => IsIn(f, r)
          /\ \A f : IsIn(f, r) => IsIn(f, s)
          /\ \A key \in [EsEvents -> Int] : Sorted(s, key) => Sorted(r, key)
      BY <1>2, <1>3, <1>6, EraseFacts
    <2> QED
      BY <1>4, <1>6, <2>1
  <1>9. ASSUME NEW c \in EsDestinations
        PROVE  Books(c)'
    <2>1. CASE c = d
      <3>1. \A f \in EsEvents : IsIn(f, r) <=>
                    esOwner'[f] = EsInSet /\ event[f].destination = d
        BY <1>1, <1>5, <1>8 DEF Books, s
      <3> QED
        BY <1>4, <1>8, <2>1, <3>1 DEF Books, r
    <2>2. CASE c # d
      <3>1. emEventsMultiMap'[c] = emEventsMultiMap[c]
        BY <1>1, <2>2
      <3>2. \A f \in EsEvents : IsIn(f, emEventsMultiMap[c]) <=>
                    esOwner'[f] = EsInSet /\ event[f].destination = c
        BY <1>1, <1>5, <1>7, <2>2 DEF Books
      <3> QED
        BY <1>1, <1>4, <3>1, <3>2 DEF Books
    <2> QED
      BY <2>1, <2>2
  <1>10. \A f \in EsEvents : esOwner'[f] = EsInSet => event'[f].destination \in esDestinations'
    BY <1>1, <1>5
  <1>11. UniqueKeys'
    BY <1>1, <1>5 DEF UniqueKeys
  <1> QED
    BY <1>9, <1>10, <1>11 DEF SetOK

-----------------------------------------------------------------------------
\* Where a thread can be.
Labels == {"idle", "lock", "timedWait", "timedOut", "signalled"}

(***************************************************************************)
(* The initial states.                                                     *)
(***************************************************************************)
LEMMA InitIInv == EsInit => IInv
  <1> SUFFICES ASSUME EsInit
               PROVE  IInv
    OBVIOUS
  <1>1. 0 \in EsTime
    BY EventsSetAssumption DEF EsTime
  <1>2. EsTypeOK
    <2>1. event \in [EsEvents -> EventFields]
      <3>1. [destination |-> "", expiration |-> 0] \in EventFields
        BY DEF EventFields
      <3> QED
        BY <3>1 DEF EsInit
    <2>2. emEventsMultiMap \in [EsDestinations -> Seq(EsEvents)]
      <3>1. emEventsMultiMap = [d \in EsDestinations |-> <<>>]
        BY Zenon DEF EsInit
      <3> QED
        BY <3>1
    <2>3. esRet \in [EsThreads -> EsReturns]
      BY DEF EsInit, EsReturns, Outcome
    <2>4. /\ esNow \in EsTime /\ offset \in Offsets
          /\ esOwner \in [EsEvents -> EsThreads \cup {EsInSet}]
      BY <1>1, EventsSetAssumption DEF EsInit
    <2>5. /\ esPc \in [EsThreads -> {"idle", "lock", "timedWait", "timedOut", "signalled"}]
          /\ esCall \in [EsThreads -> EsCalls \cup {EsNoCall}]
          /\ \A t \in EsThreads : esPc[t] # "idle" => esCall[t] \in EsCalls
      BY DEF EsInit
    <2> QED
      BY <2>1, <2>2, <2>3, <2>4, <2>5 DEF EsInit, EsTypeOK
  <1>3. \A e \in EsEvents : esOwner[e] # EsInSet
    BY EventsSetAssumption DEF EsInit
  <1>4. SetOK
    <2>1. \A d \in EsDestinations : emEventsMultiMap[d] = <<>>
      BY DEF EsInit
    <2> QED
      BY <1>3, <2>1 DEF SetOK, Books, Sorted, Distinct, IsIn, UniqueKeys
  <1>5. WaitsWithinBlockingTime
    BY DEF EsInit, WaitsWithinBlockingTime
  <1> QED
    BY <1>2, <1>4, <1>5 DEF IInv

(***************************************************************************)
(* What a call may return has the right type.                              *)
(***************************************************************************)
LEMMA ReturnTypes ==
    /\ \A o \in {"void", "error", "NOEVENTSFOUND", "EVENTNOTEXPIREDYET"} :
            Outcome(o) \in EsReturns
    /\ \A e \in EsEvents, b \in BOOLEAN : EsEvent(e, b) \in EsReturns
  BY DEF EsReturns, Outcome, EsEvent

(***************************************************************************)
(* The clock moves and nothing else does.                                  *)
(***************************************************************************)
LEMMA ClocksIInv ==
    ASSUME IInv, EsTick
    PROVE  IInv'
  <1>1. esNow' \in EsTime /\ UNCHANGED <<offset, object, set, thread>>
    BY EventsSetAssumption DEF EsTick, IInv, EsTypeOK, EsTime
  <1>2. DuplicateKeys \/ SetOK'
    BY <1>1, SameSet DEF set
  <1>3. EsTypeOK'
    BY <1>1 DEF IInv, EsTypeOK, object, set, thread
  <1>4. WaitsWithinBlockingTime'
    BY <1>1 DEF IInv, WaitsWithinBlockingTime, clock, thread
  <1> QED
    BY <1>2, <1>3, <1>4 DEF IInv

(***************************************************************************)
(* init, finish and the methods that refuse an object that is not          *)
(* initialized.  finish empties the multimaps and gives the events back.   *)
(***************************************************************************)
LEMMA InitSetIInv ==
    ASSUME IInv, NEW t \in EsThreads,
           NotAllowed(t) \/ \E b \in BOOLEAN : InitSet(t, b)
    PROVE  IInv'
  <1>1. /\ UNCHANGED <<clock, set, esPc, esCall>>
        /\ status' \in {"BUILDED", "INITIALIZED"}
        /\ conditionVariablesToBeUsed' \in BOOLEAN
        /\ \E o \in {"void", "error"} : esRet' = [esRet EXCEPT ![t] = Outcome(o)]
    BY DEF NotAllowed, InitSet, EsReturned, IInv, EsTypeOK, object
  <1>2. esRet' \in [EsThreads -> EsReturns]
    BY <1>1, ReturnTypes DEF IInv, EsTypeOK
  <1>3. DuplicateKeys \/ SetOK'
    BY <1>1, SameSet DEF set
  <1>4. EsTypeOK'
    BY <1>1, <1>2 DEF IInv, EsTypeOK, clock, set
  <1>5. WaitsWithinBlockingTime'
    BY <1>1 DEF IInv, WaitsWithinBlockingTime, clock
  <1> QED
    BY <1>3, <1>4, <1>5 DEF IInv

LEMMA FinishSetIInv ==
    ASSUME IInv, NEW t \in EsThreads, FinishSet(t)
    PROVE  IInv'
  <1>1. UNCHANGED <<clock, conditionVariablesToBeUsed, event, esPc, esCall>>
    BY DEF FinishSet
  <1>2. WaitsWithinBlockingTime'
    BY <1>1 DEF IInv, WaitsWithinBlockingTime, clock
  <1>3. esRet' \in [EsThreads -> EsReturns]
    BY ReturnTypes DEF FinishSet, EsReturned, IInv, EsTypeOK
  <1>4. CASE status = "INITIALIZED"
    <2>1. /\ status' = "BUILDED"
          /\ esDestinations' = {}
          /\ emEventsMultiMap' = [d \in EsDestinations |-> <<>>]
          /\ esOwner' = [e \in EsEvents |-> IF esOwner[e] = EsInSet THEN t ELSE esOwner[e]]
      BY <1>4 DEF FinishSet
    <2>2. /\ esOwner' \in [EsEvents -> EsThreads \cup {EsInSet}]
          /\ \A e \in EsEvents : esOwner'[e] # EsInSet
      BY <2>1, EventsSetAssumption DEF IInv, EsTypeOK
    <2>3. EsTypeOK'
      BY <1>1, <1>3, <2>1, <2>2 DEF IInv, EsTypeOK, clock
    <2>4. SetOK'
      BY <2>1, <2>2 DEF SetOK, Books, Sorted, Distinct, IsIn, UniqueKeys
    <2> QED
      BY <1>2, <2>3, <2>4 DEF IInv
  <1>5. CASE status # "INITIALIZED"
    <2>1. UNCHANGED <<status, esDestinations, emEventsMultiMap, esOwner>>
      BY <1>5 DEF FinishSet
    <2>2. EsTypeOK'
      BY <1>1, <1>3, <2>1 DEF IInv, EsTypeOK, clock
    <2>3. DuplicateKeys \/ SetOK'
      BY <1>1, <2>1, SameSet
    <2> QED
      BY <1>2, <2>2, <2>3 DEF IInv
  <1> QED
    BY <1>4, <1>5

LEMMA AddDestinationIInv ==
    ASSUME IInv, NEW t \in EsThreads, NEW d \in EsDestinations, EsAddDestination(t, d)
    PROVE  IInv'
  <1>1. /\ esDestinations' = esDestinations \cup {d}
        /\ UNCHANGED <<clock, object, emEventsMultiMap, event, esOwner, esPc, esCall>>
    BY DEF EsAddDestination
  <1>2. esRet' \in [EsThreads -> EsReturns]
    BY ReturnTypes DEF EsAddDestination, EsReturned, IInv, EsTypeOK
  <1>3. EsTypeOK'
    BY <1>1, <1>2 DEF IInv, EsTypeOK, clock, object
  <1>4. DuplicateKeys \/ SetOK'
    BY <1>1, SameSet
  <1>5. WaitsWithinBlockingTime'
    BY <1>1 DEF IInv, WaitsWithinBlockingTime, clock
  <1> QED
    BY <1>3, <1>4, <1>5 DEF IInv

(***************************************************************************)
(* addEvent: the keys are unique, so the new event has no twin in the set. *)
(***************************************************************************)
LEMMA AddEventIInv ==
    ASSUME IInv, NEW t \in EsThreads, NEW e \in EsEvents,
           NEW d \in EsDestinations, NEW x \in LocalTime, EsAddEvent(t, e, d, x)
    PROVE  IInv'
  <1>1. esOwner[e] # EsInSet
    BY EventsSetAssumption DEF EsAddEvent
  <1>2. DuplicateKeys \/ SetOK'
    BY <1>1, InsertBooks DEF EsAddEvent, IInv
  <1>3. event' \in [EsEvents -> EventFields]
    <2>1. [destination |-> d, expiration |-> x] \in EventFields
      BY DEF EventFields
    <2> QED
      BY <2>1 DEF EsAddEvent, IInv, EsTypeOK
  <1>4. esOwner' \in [EsEvents -> EsThreads \cup {EsInSet}]
    BY DEF EsAddEvent, IInv, EsTypeOK
  <1>5. esRet' \in [EsThreads -> EsReturns]
    BY ReturnTypes DEF EsAddEvent, EsReturned, IInv, EsTypeOK
  <1>6. esPc' = esPc \/ \E s \in EsSleepers(d) : esPc' = [esPc EXCEPT ![s] = "signalled"]
    BY DEF EsAddEvent, Signal
  <1>7. \A s \in EsSleepers(d) : s \in EsThreads /\ esPc[s] = "timedWait"
    BY DEF EsSleepers
  <1>8. /\ esPc' \in [EsThreads -> Labels]
        /\ \A u \in EsThreads : \/ esPc'[u] = esPc[u]
                                \/ esPc[u] = "timedWait" /\ esPc'[u] = "signalled"
    <2>1. esPc \in [EsThreads -> Labels]
      BY DEF IInv, EsTypeOK, Labels
    <2>2. CASE esPc' = esPc
      BY <2>1, <2>2
    <2>3. ASSUME NEW s \in EsSleepers(d), esPc' = [esPc EXCEPT ![s] = "signalled"]
          PROVE  /\ esPc' \in [EsThreads -> Labels]
                 /\ \A u \in EsThreads :
                        \/ esPc'[u] = esPc[u]
                        \/ esPc[u] = "timedWait" /\ esPc'[u] = "signalled"
      BY <1>7, <2>1, <2>3 DEF Labels
    <2> QED
      BY <1>6, <2>2, <2>3
  <1>9. /\ esDestinations' \subseteq EsDestinations
        /\ UNCHANGED <<clock, object, esCall>>
    BY DEF EsAddEvent, IInv, EsTypeOK
  <1>10. emEventsMultiMap' \in [EsDestinations -> Seq(EsEvents)]
    <2>1. /\ emEventsMultiMap[d] \in Seq(EsEvents)
          /\ EsExpirationOf \in [EsEvents -> Int]
          /\ x \in Int
      BY LocalTimeFacts DEF IInv, EsTypeOK
    <2>2. InsertAtPosition(emEventsMultiMap[d],
                UpperBound(emEventsMultiMap[d], EsExpirationOf, x), e) \in Seq(EsEvents)
      BY <2>1, MultiMapTypes
    <2> QED
      BY <2>2 DEF EsAddEvent, IInv, EsTypeOK
  <1>11. EsTypeOK'
    <2>1. \A u \in EsThreads : esPc'[u] # "idle" => esCall'[u] \in EsCalls
      BY <1>8, <1>9 DEF IInv, EsTypeOK
    <2> QED
      BY <1>3, <1>4, <1>5, <1>8, <1>9, <1>10, <2>1
      DEF IInv, EsTypeOK, clock, object, Labels
  <1>12. WaitsWithinBlockingTime'
    BY <1>8, <1>9 DEF IInv, WaitsWithinBlockingTime, clock
  <1> QED
    BY <1>2, <1>11, <1>12 DEF IInv

(***************************************************************************)
(* multimap::find gives the first position with the key, if there is one.  *)
(***************************************************************************)
LEMMA FindKeyFacts ==
    ASSUME NEW d \in EsDestinations, NEW x \in LocalTime \cup {0},
           EsTypeOK, KeyInUse(d, x)
    PROVE  /\ FindKey(emEventsMultiMap[d], x) \in 1..Len(emEventsMultiMap[d])
           /\ EsExpirationOf[emEventsMultiMap[d][FindKey(emEventsMultiMap[d], x)]] = x
  <1> DEFINE s == emEventsMultiMap[d]
             Found == {i \in 1..Len(s) : EsExpirationOf[s[i]] = x}
             First(i) == /\ EsExpirationOf[s[i]] = x
                         /\ \A j \in 1..i - 1 : EsExpirationOf[s[j]] # x
  <1>1. Len(s) \in Nat
    BY DEF EsTypeOK
  <1>2. Found \subseteq Nat /\ Found # {}
    BY DEF KeyInUse
  <1> HIDE DEF Found
  <1>3. PICK i \in Found : \A j \in Found : i <= j
    BY <1>2, LeastNat
  <1> USE DEF Found
  <1> HIDE DEF s
  <1>4. i \in 1..Len(s) /\ First(i)
    <2>1. ASSUME NEW j \in 1..i - 1, EsExpirationOf[s[j]] = x
          PROVE  FALSE
      BY <1>1, <1>3, <2>1
    <2> QED
      BY <1>1, <1>3, <2>1
  <1>5. FindKey(s, x) = CHOOSE k \in 1..Len(s) : First(k)
    BY DEF FindKey
  <1> HIDE DEF First
  <1>6. FindKey(s, x) \in 1..Len(s) /\ First(FindKey(s, x))
    BY <1>4, <1>5
  <1> QED
    BY <1>6 DEF First, s

(***************************************************************************)
(* deleteEvent: the only event of the set with the key of e is e.          *)
(***************************************************************************)
LEMMA DeleteEventIInv ==
    ASSUME IInv, NEW t \in EsThreads, NEW e \in EsEvents, EsDeleteEvent(t, e)
    PROVE  IInv'
  <1> DEFINE d == event[e].destination
             x == event[e].expiration
             i == FindKey(emEventsMultiMap[d], x)
  <1>1. UNCHANGED <<clock, object, esDestinations, event, esPc, esCall>>
    BY DEF EsDeleteEvent
  <1>2. WaitsWithinBlockingTime'
    BY <1>1 DEF IInv, WaitsWithinBlockingTime, clock
  <1>3. esRet' \in [EsThreads -> EsReturns]
    BY ReturnTypes DEF EsDeleteEvent, EsReturned, IInv, EsTypeOK
  <1>4. CASE d \in esDestinations /\ KeyInUse(d, x)
    <2>1. /\ emEventsMultiMap' =
                    [emEventsMultiMap EXCEPT ![d] = EraseAtPosition(@, i)]
          /\ esOwner' = [esOwner EXCEPT ![e] = t]
      BY <1>4 DEF EsDeleteEvent
    <2>2. d \in EsDestinations /\ x \in LocalTime \cup {0}
      <3>1. event[e] \in EventFields
        BY DEF IInv, EsTypeOK
      <3>2. x \in LocalTime \cup {0}
        BY <3>1 DEF EventFields
      <3> QED
        BY <1>4, <3>2 DEF IInv, EsTypeOK
    <2> HIDE DEF d, x
    <2>3. i \in 1..Len(emEventsMultiMap[d]) /\ EsExpirationOf[emEventsMultiMap[d][i]] = x
      BY <1>4, <2>2, FindKeyFacts DEF IInv
    <2> HIDE DEF i
    <2>4. ASSUME SetOK
          PROVE  e = emEventsMultiMap[d][i]
      <3> DEFINE f == emEventsMultiMap[d][i]
      <3>1. f \in EsEvents
        BY <2>2, <2>3 DEF IInv, EsTypeOK
      <3>2. esOwner[f] = EsInSet /\ event[f].destination = d
        BY <2>2, <2>3, <2>4, <3>1 DEF SetOK, Books, IsIn
      <3>3. event[f].expiration = x
        BY <2>3, <3>1, LocalTimeFacts DEF IInv
      <3>4. event[f] \in EventFields /\ event[e] \in EventFields
        BY <3>1 DEF IInv, EsTypeOK
      <3>5. \A a \in EventFields :
                a = [destination |-> a.destination, expiration |-> a.expiration]
        <4> DEFINE D == EsDestinations \cup {""}
                   X == LocalTime \cup {0}
        <4> SUFFICES ASSUME NEW a \in [destination : D, expiration : X]
                     PROVE  a = [destination |-> a.destination,
                                 expiration |-> a.expiration]
          BY DEF EventFields
        <4> HIDE DEF D, X
        <4> QED
          OBVIOUS
      <3>6. event[f] = event[e]
        <4>1. event[f] = [destination |-> d, expiration |-> x]
          BY <3>2, <3>3, <3>4, <3>5
        <4>2. event[e] = [destination |-> d, expiration |-> x]
          BY <3>4, <3>5 DEF d, x
        <4> QED
          BY <4>1, <4>2
      <3> QED
        BY <2>4, <3>1, <3>2, <3>6 DEF SetOK, UniqueKeys
    <2>5. DuplicateKeys \/ SetOK'
      BY <1>1, <2>1, <2>2, <2>3, <2>4, EraseBooks DEF IInv
    <2>6. esOwner' \in [EsEvents -> EsThreads \cup {EsInSet}]
      BY <2>1 DEF IInv, EsTypeOK
    <2>7. EsTypeOK'
      <3>1. EraseAtPosition(emEventsMultiMap[d], i) \in Seq(EsEvents)
        BY <2>2, <2>3, MultiMapTypes DEF IInv, EsTypeOK
      <3>2. emEventsMultiMap' \in [EsDestinations -> Seq(EsEvents)]
        BY <2>1, <3>1 DEF IInv, EsTypeOK
      <3> QED
        BY <1>1, <1>3, <2>6, <3>2 DEF IInv, EsTypeOK, clock, object
    <2> QED
      BY <1>2, <2>5, <2>7 DEF IInv
  <1>5. CASE ~(d \in esDestinations /\ KeyInUse(d, x))
    <2>1. UNCHANGED <<emEventsMultiMap, esOwner>>
      BY <1>5 DEF EsDeleteEvent
    <2>2. DuplicateKeys \/ SetOK'
      BY <1>1, <2>1, SameSet
    <2>3. EsTypeOK'
      BY <1>1, <1>3, <2>1 DEF IInv, EsTypeOK, clock, object
    <2> QED
      BY <1>2, <2>2, <2>3 DEF IInv
  <1> QED
    BY <1>4, <1>5

-----------------------------------------------------------------------------
(***************************************************************************)
(* The steps of a call.                                                    *)
(***************************************************************************)
LEMMA CallIInv ==
    ASSUME IInv, NEW t \in EsThreads, NEW op \in {"getFirstEvent", "getAndRemoveFirstEvent"},
           NEW d \in EsDestinations, NEW b \in BOOLEAN, NEW w \in EsWaits,
           EsCall(t, op, d, b, w)
    PROVE  IInv'
  <1> DEFINE c == [op |-> op, destination |-> d, blocking |-> b,
                   milliSecondsToWait |-> w, initialLocal |-> NowLocal,
                   deadline |-> esNow, loop |-> FALSE]
  <1>1. /\ esPc' = [esPc EXCEPT ![t] = "lock"]
        /\ esCall' = [esCall EXCEPT ![t] = c]
        /\ UNCHANGED <<clock, object, set>>
    BY DEF EsCall
  <1>2. c \in EsCalls
    BY LocalTimeFacts DEF EsCalls, IInv, EsTypeOK
  <1> HIDE DEF c
  <1>3. esRet' \in [EsThreads -> EsReturns]
    BY ReturnTypes DEF EsCall, EsReturned, IInv, EsTypeOK
  <1>4. DuplicateKeys \/ SetOK'
    BY <1>1, SameSet DEF set
  <1>5. EsTypeOK'
    BY <1>1, <1>2, <1>3 DEF IInv, EsTypeOK, clock, object, set
  <1>6. WaitsWithinBlockingTime'
    BY <1>1 DEF IInv, EsTypeOK, WaitsWithinBlockingTime, clock
  <1> QED
    BY <1>4, <1>5, <1>6 DEF IInv

(***************************************************************************)
(* A call that returns without an event it takes out.                      *)
(***************************************************************************)
LEMMA FinishTypes ==
    ASSUME IInv, NEW t \in EsThreads, NEW r \in EsReturns, EsFinish(t, r), UNCHANGED clock
    PROVE  /\ esPc' \in [EsThreads -> Labels]
           /\ esCall' \in [EsThreads -> EsCalls \cup {EsNoCall}]
           /\ \A u \in EsThreads : esPc'[u] # "idle" => esCall'[u] \in EsCalls
           /\ esRet' \in [EsThreads -> EsReturns]
           /\ WaitsWithinBlockingTime'
  <1>1. /\ esPc' = [esPc EXCEPT ![t] = "idle"]
        /\ esCall' = [esCall EXCEPT ![t] = EsNoCall]
        /\ esRet' = [esRet EXCEPT ![t] = r]
    BY DEF EsFinish, EsReturned
  <1> QED
    BY <1>1 DEF IInv, EsTypeOK, Labels, WaitsWithinBlockingTime, clock

LEMMA GiveBackIInv ==
    ASSUME IInv, NEW t \in EsThreads, NEW r \in EsReturns, GiveBack(t, r),
           UNCHANGED <<clock, object, esDestinations, event>>
    PROVE  IInv'
  <1>1. EsFinish(t, r) /\ UNCHANGED <<emEventsMultiMap, esOwner>>
    BY DEF GiveBack
  <1>2. DuplicateKeys \/ SetOK'
    BY <1>1, SameSet
  <1>3. EsTypeOK'
    BY <1>1, FinishTypes DEF IInv, EsTypeOK, Labels, clock, object
  <1> QED
    BY <1>1, <1>2, <1>3, FinishTypes DEF IInv

(***************************************************************************)
(* A thread goes to sleep: in the loop never for longer than what remains  *)
(* of the blocking time, whose beginning was read on the local clock and   *)
(* whose end is a deadline on the UTC one.                                 *)
(***************************************************************************)
LEMMA TimedWaitIInv ==
    ASSUME IInv, NEW t \in EsThreads, esPc[t] # "idle",
           NEW w \in Nat, NEW inLoop \in BOOLEAN, TimedWait(t, w, inLoop),
           inLoop => w <= EsRemaining(t),
           UNCHANGED <<clock, object, esDestinations, event>>
    PROVE  IInv'
  <1>1. /\ esPc' = [esPc EXCEPT ![t] = "timedWait"]
        /\ esCall' = [esCall EXCEPT ![t].deadline = EsCap(esNow + w), ![t].loop = inLoop]
        /\ UNCHANGED <<emEventsMultiMap, esOwner, esRet>>
    BY DEF TimedWait
  <1>2. esCall[t] \in EsCalls /\ esCall \in [EsThreads -> EsCalls \cup {EsNoCall}]
    BY DEF IInv, EsTypeOK
  <1>3. /\ esNow \in Nat /\ offset \in Int /\ NowLocal = esNow + offset
        /\ LocalTime \subseteq Int
    BY LocalTimeFacts DEF IInv
  <1>4. EsCap(esNow + w) \in EsTime /\ EsCap(esNow + w) <= esNow + w
    BY <1>3, CapFacts
  <1>5. /\ esCall'[t] \in EsCalls
        /\ esCall'[t].deadline = EsCap(esNow + w)
        /\ esCall'[t].loop = inLoop
        /\ esCall'[t].initialLocal = esCall[t].initialLocal
        /\ esCall'[t].milliSecondsToWait = esCall[t].milliSecondsToWait
        /\ \A u \in EsThreads \ {t} : esCall'[u] = esCall[u]
    BY <1>1, <1>2, <1>4 DEF EsCalls
  <1>6. DuplicateKeys \/ SetOK'
    BY <1>1, SameSet
  <1>7. EsTypeOK'
    <2>1. esCall' \in [EsThreads -> EsCalls \cup {EsNoCall}]
      BY <1>1, <1>2, <1>5
    <2>2. \A u \in EsThreads : esPc'[u] # "idle" => esCall'[u] \in EsCalls
      BY <1>1, <1>5 DEF IInv, EsTypeOK
    <2>3. esPc' \in [EsThreads -> Labels]
      BY <1>1 DEF IInv, EsTypeOK, Labels
    <2> QED
      BY <1>1, <2>1, <2>2, <2>3 DEF IInv, EsTypeOK, Labels, clock, object
  <1>8. WaitsWithinBlockingTime'
    <2> SUFFICES ASSUME NEW u \in EsThreads, esPc'[u] = "timedWait", esCall'[u].loop
                 PROVE  esCall'[u].deadline <=
                            (esCall'[u].initialLocal - offset')
                                + esCall'[u].milliSecondsToWait
      BY DEF WaitsWithinBlockingTime
    <2>1. CASE u = t
      <3>1. /\ esCall[t].initialLocal \in Int
            /\ esCall[t].milliSecondsToWait \in Nat
        BY <1>2, <1>3, EventsSetAssumption DEF EsCalls
      <3>2. w <= esCall[t].milliSecondsToWait - (NowLocal - esCall[t].initialLocal)
        BY <1>5, <2>1 DEF EsRemaining
      <3>3. esNow + w <= (esCall[t].initialLocal - offset) + esCall[t].milliSecondsToWait
        BY <1>3, <3>1, <3>2
      <3>4. EsCap(esNow + w) \in Nat
        BY <1>4 DEF EsTime
      <3> QED
        BY <1>3, <1>4, <1>5, <2>1, <3>1, <3>3, <3>4 DEF clock
    <2>2. CASE u # t
      BY <1>1, <1>5, <2>2 DEF IInv, EsTypeOK, WaitsWithinBlockingTime, clock
    <2> QED
      BY <2>1, <2>2
  <1> QED
    BY <1>6, <1>7, <1>8 DEF IInv

(***************************************************************************)
(* getAndRemoveFirstEvent takes the front event out.                       *)
(***************************************************************************)
LEMMA TakeFrontIInv ==
    ASSUME IInv, NEW t \in EsThreads, NEW d \in EsDestinations,
           emEventsMultiMap[d] # <<>>,
           emEventsMultiMap' = [emEventsMultiMap EXCEPT ![d] = EraseAtPosition(@, 1)],
           esOwner' = [esOwner EXCEPT ![FrontEvent(d)] = t],
           EsFinish(t, EsEvent(FrontEvent(d), TRUE)),
           UNCHANGED <<clock, object, esDestinations, event>>
    PROVE  IInv'
  <1>1. FrontEvent(d) \in EsEvents /\ 1 \in 1..Len(emEventsMultiMap[d])
    BY FrontTypes DEF IInv
  <1>2. EsEvent(FrontEvent(d), TRUE) \in EsReturns
    BY <1>1, ReturnTypes
  <1>3. DuplicateKeys \/ SetOK'
    BY <1>1, EraseBooks DEF FrontEvent, IInv
  <1>4. esOwner' \in [EsEvents -> EsThreads \cup {EsInSet}]
    BY DEF IInv, EsTypeOK
  <1>5. EsTypeOK'
    <2>1. EraseAtPosition(emEventsMultiMap[d], 1) \in Seq(EsEvents)
      BY <1>1, MultiMapTypes DEF IInv, EsTypeOK
    <2>2. emEventsMultiMap' \in [EsDestinations -> Seq(EsEvents)]
      BY <2>1 DEF IInv, EsTypeOK
    <2> QED
      BY <1>2, <1>4, <2>2, FinishTypes DEF IInv, EsTypeOK, Labels, clock, object
  <1> QED
    BY <1>2, <1>3, <1>5, FinishTypes DEF IInv

(***************************************************************************)
(* What a thread in a call knows of its arguments.                         *)
(***************************************************************************)
LEMMA CallFacts ==
    ASSUME IInv, NEW t \in EsThreads, esPc[t] # "idle"
    PROVE  /\ esCall[t].destination \in EsDestinations
           /\ esCall[t].milliSecondsToWait \in Nat
           /\ EsRemaining(t) \in Int
  <1>1. esCall[t] \in EsCalls
    BY DEF IInv, EsTypeOK
  <1>2. /\ esCall[t].destination \in EsDestinations
        /\ esCall[t].milliSecondsToWait \in Nat
        /\ esCall[t].initialLocal \in LocalTime
    BY <1>1, EventsSetAssumption DEF EsCalls
  <1>3. /\ NowLocal \in Int
        /\ esCall[t].initialLocal \in Int
    BY <1>2, LocalTimeFacts DEF IInv
  <1> QED
    BY <1>2, <1>3 DEF EsRemaining

LEMMA LoopTurnIInv ==
    ASSUME IInv, NEW t \in EsThreads, esPc[t] # "idle", LoopTurn(t),
           UNCHANGED <<clock, object, esDestinations, event>>
    PROVE  IInv'
  <1> DEFINE d == esCall[t].destination
             x == EsExpirationOf[FrontEvent(d)]
             w == IF x - NowLocal <= EsRemaining(t)
                  THEN x - NowLocal ELSE EsRemaining(t)
  <1>1. d \in EsDestinations /\ EsRemaining(t) \in Int
    BY CallFacts
  <1>2. CASE \/ emEventsMultiMap[d] = <<>> /\ GiveBack(t, Outcome("NOEVENTSFOUND"))
             \/ GiveBack(t, Outcome("EVENTNOTEXPIREDYET"))
    BY <1>2, ReturnTypes, GiveBackIInv
  <1>3. CASE /\ emEventsMultiMap[d] # <<>>
             /\ emEventsMultiMap' =
                    [emEventsMultiMap EXCEPT ![d] = EraseAtPosition(@, 1)]
             /\ esOwner' = [esOwner EXCEPT ![FrontEvent(d)] = t]
             /\ EsFinish(t, EsEvent(FrontEvent(d), TRUE))
    BY <1>1, <1>3, TakeFrontIInv
  <1>4. CASE /\ emEventsMultiMap[d] # <<>>
             /\ NowLocal < x
             /\ EsRemaining(t) > 0
             /\ TimedWait(t, w, TRUE)
    <2>1. x \in Int /\ NowLocal \in Int
      BY <1>1, <1>4, FrontTypes, LocalTimeFacts DEF IInv
    <2>2. w \in Nat /\ w <= EsRemaining(t)
      BY <1>1, <1>4, <2>1
    <2> HIDE DEF w
    <2> QED
      BY <1>4, <2>2, TimedWaitIInv
  <1> QED
    BY <1>2, <1>3, <1>4 DEF LoopTurn

LEMMA FoundEventIInv ==
    ASSUME IInv, NEW t \in EsThreads, esPc[t] # "idle", EsFoundEvent(t),
           emEventsMultiMap[esCall[t].destination] # <<>>,
           UNCHANGED <<clock, object, esDestinations, event>>
    PROVE  IInv'
  <1> DEFINE e == FrontEvent(esCall[t].destination)
  <1>1. CASE GiveBack(t, EsEvent(e, NowLocal >= EsExpirationOf[e]))
    <2>1. e \in EsEvents
      BY CallFacts, FrontTypes DEF IInv
    <2>2. (NowLocal >= EsExpirationOf[e]) \in BOOLEAN
      OBVIOUS
    <2>3. EsEvent(e, NowLocal >= EsExpirationOf[e]) \in EsReturns
      BY <2>1, <2>2, ReturnTypes
    <2> QED
      BY <1>1, <2>3, GiveBackIInv
  <1>2. CASE LoopTurn(t)
    BY <1>2, LoopTurnIInv
  <1> QED
    BY <1>1, <1>2 DEF EsFoundEvent

LEMMA LockIInv ==
    ASSUME IInv, NEW t \in EsThreads, Lock(t)
    PROVE  IInv'
  <1> DEFINE d == esCall[t].destination
  <1>1. /\ esPc[t] # "idle"
        /\ UNCHANGED <<clock, object, esDestinations, event>>
    BY DEF Lock
  <1>2. CASE \/ GiveBack(t, Outcome("error"))
             \/ GiveBack(t, Outcome("NOEVENTSFOUND"))
    BY <1>1, <1>2, ReturnTypes, GiveBackIInv
  <1>3. CASE emEventsMultiMap[d] # <<>> /\ EsFoundEvent(t)
    BY <1>1, <1>3, FoundEventIInv
  <1>4. CASE TimedWait(t, esCall[t].milliSecondsToWait, FALSE)
    BY <1>1, <1>4, CallFacts, TimedWaitIInv
  <1> QED
    BY <1>2, <1>3, <1>4 DEF Lock

LEMMA WakeUpIInv ==
    ASSUME IInv, NEW t \in EsThreads, EsWaitTimeout(t) \/ EsSpuriousWakeUp(t)
    PROVE  IInv'
  <1>1. /\ esPc[t] = "timedWait"
        /\ esPc' = [esPc EXCEPT ![t] = "timedOut"] \/ esPc' = [esPc EXCEPT ![t] = "signalled"]
        /\ UNCHANGED <<clock, object, set, esCall, esRet>>
    BY DEF EsWaitTimeout, EsSpuriousWakeUp
  <1>2. DuplicateKeys \/ SetOK'
    BY <1>1, SameSet DEF set
  <1>3. EsTypeOK'
    BY <1>1 DEF IInv, EsTypeOK, clock, object, set
  <1>4. WaitsWithinBlockingTime'
    BY <1>1 DEF IInv, EsTypeOK, WaitsWithinBlockingTime, clock
  <1> QED
    BY <1>2, <1>3, <1>4 DEF IInv

LEMMA WokenIInv ==
    ASSUME IInv, NEW t \in EsThreads, Woken(t)
    PROVE  IInv'
  <1> DEFINE d == esCall[t].destination
  <1>1. /\ esPc[t] # "idle"
        /\ UNCHANGED <<clock, object, esDestinations, event>>
    BY DEF Woken
  <1>2. CASE \/ GiveBack(t, Outcome("error"))
             \/ GiveBack(t, Outcome("NOEVENTSFOUND"))
    BY <1>1, <1>2, ReturnTypes, GiveBackIInv
  <1>3. CASE emEventsMultiMap[d] # <<>> /\ EsFoundEvent(t)
    BY <1>1, <1>3, FoundEventIInv
  <1>4. CASE LoopTurn(t)
    BY <1>1, <1>4, LoopTurnIInv
  <1>5. CASE EsRemaining(t) > 0 /\ TimedWait(t, EsRemaining(t), FALSE)
    <2>1. EsRemaining(t) \in Nat
      BY <1>1, <1>5, CallFacts
    <2> QED
      BY <1>1, <1>5, <2>1, TimedWaitIInv
  <1>6. WokenFirst(t) \/ WokenGetAndRemove(t) \/ LoopTurn(t)
    BY DEF Woken
  <1> QED
    BY <1>2, <1>3, <1>4, <1>5, <1>6 DEF WokenFirst, WokenGetAndRemove

-----------------------------------------------------------------------------
(***************************************************************************)
(* The invariant, and what follows from it.                                *)
(***************************************************************************)
THEOREM EventsSetInvariant == EsSpec => []IInv
  <1>1. EsInit => IInv
    BY InitIInv
  <1>2. IInv /\ [EsNext]_esVars => IInv'
    <2> SUFFICES ASSUME IInv, [EsNext]_esVars
                 PROVE  IInv'
      OBVIOUS
    <2>1. CASE EsTick
      BY <2>1, ClocksIInv
    <2>2. ASSUME NEW t \in EsThreads, \/ NotAllowed(t)
                                   \/ \E b \in BOOLEAN : InitSet(t, b)
          PROVE  IInv'
      BY <2>2, InitSetIInv
    <2>3. ASSUME NEW t \in EsThreads, FinishSet(t)
          PROVE  IInv'
      BY <2>3, FinishSetIInv
    <2>4. ASSUME NEW t \in EsThreads, NEW d \in EsDestinations, EsAddDestination(t, d)
          PROVE  IInv'
      BY <2>4, AddDestinationIInv
    <2>5. ASSUME NEW t \in EsThreads, NEW e \in EsEvents, NEW d \in EsDestinations,
                 NEW x \in LocalTime, EsAddEvent(t, e, d, x)
          PROVE  IInv'
      BY <2>5, AddEventIInv
    <2>6. ASSUME NEW t \in EsThreads, NEW e \in EsEvents, EsDeleteEvent(t, e)
          PROVE  IInv'
      BY <2>6, DeleteEventIInv
    <2>7. ASSUME NEW t \in EsThreads,
                 NEW op \in {"getFirstEvent", "getAndRemoveFirstEvent"},
                 NEW d \in EsDestinations, NEW b \in BOOLEAN, NEW w \in EsWaits,
                 EsCall(t, op, d, b, w)
          PROVE  IInv'
      BY <2>7, CallIInv
    <2>8. ASSUME NEW t \in EsThreads, Lock(t)
          PROVE  IInv'
      BY <2>8, LockIInv
    <2>9. ASSUME NEW t \in EsThreads, EsWaitTimeout(t) \/ EsSpuriousWakeUp(t)
          PROVE  IInv'
      BY <2>9, WakeUpIInv
    <2>10. ASSUME NEW t \in EsThreads, Woken(t)
           PROVE  IInv'
      BY <2>10, WokenIInv
    <2>11. CASE UNCHANGED esVars
      <3>1. UNCHANGED <<clock, object, set, thread>>
        BY <2>11 DEF esVars
      <3>2. DuplicateKeys \/ SetOK'
        BY <3>1, SameSet DEF set
      <3>3. EsTypeOK' /\ WaitsWithinBlockingTime'
        BY <3>1 DEF IInv, EsTypeOK, WaitsWithinBlockingTime, clock, object, set, thread
      <3> QED
        BY <3>2, <3>3 DEF IInv
    <2> QED
      BY <2>1, <2>2, <2>3, <2>4, <2>5, <2>6, <2>7, <2>8, <2>9, <2>10, <2>11 DEF EsNext
  <1> QED
    BY <1>1, <1>2, PTL DEF EsSpec

(***************************************************************************)
(* The types of the variables.                                             *)
(***************************************************************************)
THEOREM EventsSetTypeOK == EsSpec => []EsTypeOK
  <1>1. IInv => EsTypeOK
    BY DEF IInv
  <1> QED
    BY <1>1, EventsSetInvariant, PTL

(***************************************************************************)
(* addEvent, deleteEvent, finish and the consumers lose and duplicate no   *)
(* event.                                                                  *)
(***************************************************************************)
THEOREM EventsSetHeldOnce ==
    ASSUME ~DuplicateKeys
    PROVE  EsSpec => []EsHeldOnce
  <1>1. IInv /\ ~DuplicateKeys => EsHeldOnce
    BY HeldOnceOfSetOK DEF IInv
  <1> QED
    BY <1>1, EventsSetInvariant, PTL

(***************************************************************************)
(* No wait for the expiration of the front event reaches, on the UTC clock *)
(* it is made on, beyond the blocking time of its call, which the code     *)
(* keeps on the local clock: for every shift between the two.              *)
(***************************************************************************)
THEOREM EventsSetWaitsWithin == EsSpec => []WaitsWithinBlockingTime
  <1>1. IInv => WaitsWithinBlockingTime
    BY DEF IInv
  <1> QED
    BY <1>1, EventsSetInvariant, PTL

-----------------------------------------------------------------------------
(***************************************************************************)
(* A thread that takes an event out in a call: it is the one in front, and *)
(* the local clock has reached its expiration.                             *)
(***************************************************************************)
Takes(t) ==
    LET d == esCall[t].destination IN
    /\ emEventsMultiMap[d] # <<>>
    /\ NowLocal >= EsExpirationOf[FrontEvent(d)]
    /\ esOwner' = [esOwner EXCEPT ![FrontEvent(d)] = t]

(***************************************************************************)
(* The steps of a call take out nothing else.                              *)
(***************************************************************************)
LEMMA CallStepOwner ==
    ASSUME NEW t \in EsThreads, Lock(t) \/ Woken(t)
    PROVE  esPc[t] # "idle" /\ (esOwner' = esOwner \/ Takes(t))
  <1>1. LoopTurn(t) => esOwner' = esOwner \/ Takes(t)
    BY DEF LoopTurn, GiveBack, TimedWait, Takes
  <1>2. EsFoundEvent(t) => esOwner' = esOwner \/ Takes(t)
    BY <1>1 DEF EsFoundEvent, GiveBack
  <1>3. Lock(t) => esPc[t] # "idle" /\ (esOwner' = esOwner \/ Takes(t))
    BY <1>2 DEF Lock, GiveBack, TimedWait
  <1>4. WokenFirst(t) => esOwner' = esOwner \/ Takes(t)
    BY <1>2 DEF WokenFirst, GiveBack
  <1>5. WokenGetAndRemove(t) => esOwner' = esOwner \/ Takes(t)
    BY <1>1 DEF WokenGetAndRemove, GiveBack, TimedWait
  <1>6. Woken(t) => esPc[t] # "idle" /\ (esOwner' = esOwner \/ Takes(t))
    BY <1>1, <1>4, <1>5 DEF Woken
  <1> QED
    BY <1>3, <1>6

(***************************************************************************)
(* An event that leaves the set in the middle of a call of t to become its *)
(* own was taken by t: finish finds no call, and deleteEvent is not one.   *)
(***************************************************************************)
LEMMA OnlyTakes ==
    ASSUME EsTypeOK, EsNext, NEW t \in EsThreads, NEW e \in EsEvents,
           esOwner[e] = EsInSet, esOwner'[e] = t, esPc[t] # "idle"
    PROVE  Takes(t) /\ e = FrontEvent(esCall[t].destination)
  <1>1. t # EsInSet /\ esOwner' # esOwner
    BY EventsSetAssumption
  <1>2. esOwner \in [EsEvents -> EsThreads \cup {EsInSet}]
    BY DEF EsTypeOK
  <1>3. CASE EsTick
    BY <1>1, <1>3 DEF EsTick, set
  <1>4. ASSUME NEW u \in EsThreads, NotAllowed(u) \/ \E b \in BOOLEAN : InitSet(u, b)
        PROVE  FALSE
    BY <1>1, <1>4 DEF NotAllowed, InitSet, set
  <1>5. ASSUME NEW u \in EsThreads, FinishSet(u)
        PROVE  FALSE
    BY <1>5 DEF FinishSet, Quiet
  <1>6. ASSUME NEW u \in EsThreads, \E d \in EsDestinations : EsAddDestination(u, d)
        PROVE  FALSE
    BY <1>1, <1>6 DEF EsAddDestination
  <1>7. ASSUME NEW u \in EsThreads, NEW f \in EsEvents, NEW d \in EsDestinations,
               NEW x \in LocalTime, EsAddEvent(u, f, d, x)
        PROVE  FALSE
    <2>1. esOwner' = [esOwner EXCEPT ![f] = EsInSet]
      BY <1>7 DEF EsAddEvent
    <2> QED
      BY <1>1, <1>2, <2>1
  <1>8. ASSUME NEW u \in EsThreads, NEW f \in EsEvents, EsDeleteEvent(u, f)
        PROVE  FALSE
    <2>1. esPc[u] = "idle" /\ (esOwner' = esOwner \/ esOwner' = [esOwner EXCEPT ![f] = u])
      BY <1>8 DEF EsDeleteEvent, Idle
    <2> QED
      BY <1>1, <1>2, <2>1
  <1>9. ASSUME NEW u \in EsThreads, \/ EsWaitTimeout(u) \/ EsSpuriousWakeUp(u)
                                 \/ \E op \in {"getFirstEvent",
                                              "getAndRemoveFirstEvent"},
                                       d \in EsDestinations, b \in BOOLEAN,
                                       w \in EsWaits : EsCall(u, op, d, b, w)
        PROVE  FALSE
    BY <1>1, <1>9 DEF EsWaitTimeout, EsSpuriousWakeUp, EsCall, set
  <1>10. ASSUME NEW u \in EsThreads, Lock(u) \/ Woken(u)
         PROVE  Takes(t) /\ e = FrontEvent(esCall[t].destination)
    <2>1. Takes(u)
      BY <1>1, <1>10, CallStepOwner
    <2>2. esOwner' = [esOwner EXCEPT ![FrontEvent(esCall[u].destination)] = u]
      BY <2>1 DEF Takes
    <2>3. e = FrontEvent(esCall[u].destination) /\ u = t
      BY <1>1, <1>2, <2>2
    <2> QED
      BY <2>1, <2>3
  <1> QED
    BY <1>3, <1>4, <1>5, <1>6, <1>7, <1>8, <1>9, <1>10 DEF EsNext

(***************************************************************************)
(* getAndRemoveFirstEvent hands out an event only when it has expired and  *)
(* no other of its destination expires sooner.                             *)
(***************************************************************************)
THEOREM EventsSetDeliveredInTime ==
    ASSUME ~DuplicateKeys
    PROVE  EsSpec => DeliveredInTime
  <1> DEFINE InTime ==
        \A t \in EsThreads, e \in EsEvents :
            /\ esOwner[e] = EsInSet
            /\ esOwner'[e] = t
            /\ esPc[t] # "idle"
            => /\ NowLocal >= EsExpirationOf[e]
               /\ \A f \in EsEvents :
                     /\ esOwner[f] = EsInSet
                     /\ event[f].destination = event[e].destination
                     => EsExpirationOf[e] <= EsExpirationOf[f]
  <1>1. IInv /\ [EsNext]_esVars => [InTime]_esVars
    <2> SUFFICES ASSUME IInv, EsNext, NEW t \in EsThreads, NEW e \in EsEvents,
                        esOwner[e] = EsInSet, esOwner'[e] = t, esPc[t] # "idle"
                 PROVE  /\ NowLocal >= EsExpirationOf[e]
                        /\ \A f \in EsEvents :
                              /\ esOwner[f] = EsInSet
                              /\ event[f].destination = event[e].destination
                              => EsExpirationOf[e] <= EsExpirationOf[f]
      OBVIOUS
    <2> DEFINE d == esCall[t].destination
    <2>1. Takes(t) /\ e = FrontEvent(d)
      BY OnlyTakes DEF IInv
    <2>2. d \in EsDestinations /\ emEventsMultiMap[d] # <<>> /\ NowLocal >= EsExpirationOf[e]
      BY <2>1, CallFacts DEF Takes
    <2> HIDE DEF d
    <2>3. /\ event[e].destination = d
          /\ \A f \in EsEvents : esOwner[f] = EsInSet /\ event[f].destination = d =>
                    EsExpirationOf[e] <= EsExpirationOf[f]
      BY <2>1, <2>2, FrontFacts DEF IInv
    <2> QED
      BY <2>2, <2>3
  <1>2. EsSpec => [][InTime]_esVars
    BY <1>1, EventsSetInvariant, PTL DEF EsSpec
  <1> QED
    BY <1>2 DEF DeliveredInTime
=============================================================================
