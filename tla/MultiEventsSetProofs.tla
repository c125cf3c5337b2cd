------------------------ MODULE MultiEventsSetProofs ------------------------
(***************************************************************************)
(* MultiEventsSet keeps its events in order and loses none, and implements *)
(* the deadline queue, for every number of threads, destinations, events   *)
(* and waits.                                                              *)
(***************************************************************************)
EXTENDS MultiEventsSet, EventsMultiMapProofs

\* What a thread that runs a consuming call relies on.  While it is in the
\* loop the mutex is its own, and nobody can take away the event it waits for;
\* while it sleeps its deadline is not before the end of its blocking time.
ThreadOK(t) ==
    /\ pc[t] # "idle" => call[t].initialTimePoint <= now
    /\ pc[t] = "loop" <=> mutex = t
    /\ pc[t] \in {"wait", "relock"} =>
        /\ call[t].destination \in destinations
        /\ call[t].blocking
        /\ call[t].deadline >= Cap(call[t].initialTimePoint
                                        + call[t].milliSecondsToBlock)
    /\ pc[t] = "loop" =>
        /\ call[t].op = "getAndRemoveFirstEvent"
        /\ call[t].destination \in destinations
        /\ eventsMultiMap[call[t].destination] # <<>>

ThreadsOK == \A t \in Threads : ThreadOK(t)

\* The inductive invariant.
IInv == TypeOK /\ Ordered /\ HeldOnce /\ ThreadsOK

-----------------------------------------------------------------------------
(***************************************************************************)
(* Time arithmetic saturates: Cap stays within Time and keeps the order.   *)
(***************************************************************************)
LEMMA CapFacts ==
    ASSUME NEW x \in Nat, NEW y \in Nat
    PROVE  Cap(x) \in Time /\ (x <= y => Cap(x) <= Cap(y))
  BY ConstantsAssumption DEF Cap, Time

(***************************************************************************)
(* The key function of the multimaps is the expiration of every event.     *)
(***************************************************************************)
LEMMA ExpirationFacts ==
    ASSUME TypeOK
    PROVE  /\ ExpirationOf \in [Events -> Int]
           /\ ExpirationOf \in [Events -> Time]
           /\ \A e \in Events : ExpirationOf[e] = Expiration(e)
           /\ \A e \in Events : ExpirationOf[e] = event2[e].expirationTimePoint
  <1>1. \A e \in Events : event2[e].expirationTimePoint \in Time
    BY DEF TypeOK, Event2
  <1>2. Time \subseteq Int
    BY DEF Time
  <1> QED
    BY <1>1, <1>2 DEF ExpirationOf, Expiration

(***************************************************************************)
(* The books of the set, one multimap at a time: every multimap is sorted, *)
(* has no event twice and holds exactly the events that are in the set for *)
(* its destination.                                                        *)
(***************************************************************************)
Books(d) ==
    /\ Sorted(eventsMultiMap[d], ExpirationOf)
    /\ Distinct(eventsMultiMap[d])
    /\ \A e \in Events : IsIn(e, eventsMultiMap[d]) <=>
            owner[e] = InSet /\ event2[e].destination = d

(***************************************************************************)
(* Ordered and HeldOnce say that the books of every destination are right  *)
(* and that every event in the set has a known destination.                *)
(***************************************************************************)
LEMMA BooksOfInv ==
    ASSUME TypeOK, Ordered, HeldOnce
    PROVE  /\ \A d \in Destinations : Books(d)
           /\ \A e \in Events : owner[e] = InSet =>
                    event2[e].destination \in destinations
  <1>1. \A e \in Events : ExpirationOf[e] = Expiration(e)
    BY ExpirationFacts
  <1>2. \A d \in Destinations : \A i \in 1..Len(eventsMultiMap[d]) :
            eventsMultiMap[d][i] \in Events
    BY DEF TypeOK
  <1>3. ASSUME NEW d \in Destinations
        PROVE  Sorted(eventsMultiMap[d], ExpirationOf)
    BY <1>1, <1>2 DEF Ordered, Sorted
  <1>4. ASSUME NEW d \in Destinations
        PROVE  Distinct(eventsMultiMap[d])
    BY Zenon DEF HeldOnce, Distinct
  <1>5. ASSUME NEW d \in Destinations, NEW e \in Events
        PROVE  IsIn(e, eventsMultiMap[d]) <=>
                    owner[e] = InSet /\ event2[e].destination = d
    <2>1. ASSUME IsIn(e, eventsMultiMap[d])
          PROVE  owner[e] = InSet /\ event2[e].destination = d
      <3>1. PICK i \in 1..Len(eventsMultiMap[d]) : eventsMultiMap[d][i] = e
        BY <2>1 DEF IsIn
      <3> QED
        BY <3>1, Zenon DEF HeldOnce
    <2>2. ASSUME owner[e] = InSet, event2[e].destination = d
          PROVE  IsIn(e, eventsMultiMap[d])
      BY <2>2, Zenon DEF HeldOnce
    <2> QED
      BY <2>1, <2>2
  <1>6. \A e \in Events : owner[e] = InSet =>
                    event2[e].destination \in destinations
    BY Zenon DEF HeldOnce
  <1> QED
    BY <1>3, <1>4, <1>5, <1>6 DEF Books

(***************************************************************************)
(* The other direction, for the state after a step.                        *)
(***************************************************************************)
LEMMA InvOfBooks ==
    ASSUME TypeOK', \A d \in Destinations : Books(d)',
           \A e \in Events : owner'[e] = InSet =>
                    event2'[e].destination \in destinations'
    PROVE  Ordered' /\ HeldOnce'
  <1>1. \A e \in Events : ExpirationOf'[e] = Expiration(e)'
    BY DEF ExpirationOf, Expiration
  <1>2. \A d \in Destinations : \A i \in 1..Len(eventsMultiMap'[d]) :
            eventsMultiMap'[d][i] \in Events
    BY DEF TypeOK
  <1>3. destinations' \subseteq Destinations
    BY DEF TypeOK
  <1>4. Ordered'
    BY <1>1, <1>2 DEF Ordered, Books, Sorted
  <1>5. \A e \in Events : owner'[e] = InSet =>
            /\ event2'[e].destination \in destinations'
            /\ IsIn(e, eventsMultiMap'[event2'[e].destination])
    BY <1>3, Zenon DEF Books
  <1>6. ASSUME NEW d \in Destinations, NEW i \in 1..Len(eventsMultiMap'[d])
        PROVE  /\ owner'[eventsMultiMap'[d][i]] = InSet
               /\ event2'[eventsMultiMap'[d][i]].destination = d
               /\ \A j \in 1..Len(eventsMultiMap'[d]) :
                        eventsMultiMap'[d][i] = eventsMultiMap'[d][j] => i = j
    <2>1. IsIn(eventsMultiMap'[d][i], eventsMultiMap'[d])
      BY DEF IsIn
    <2> QED
      BY <1>2, <2>1 DEF Books, Distinct
  <1> QED
    BY <1>4, <1>5, <1>6 DEF HeldOnce

(***************************************************************************)
(* The step that puts event e into the multimap of d keeps the books.      *)
(***************************************************************************)
LEMMA InsertBooks ==
    ASSUME IInv, TypeOK', NEW d \in destinations, NEW e \in Events, NEW x \in Time,
           owner[e] # InSet,
           destinations' = destinations,
           event2' = [event2 EXCEPT ![e] = [destination |-> d,
                                            expirationTimePoint |-> x]],
           eventsMultiMap' = [eventsMultiMap EXCEPT ![d] =
                    InsertAtPosition(@, UpperBound(@, ExpirationOf, x), e)],
           owner' = [owner EXCEPT ![e] = InSet]
    PROVE  Ordered' /\ HeldOnce'
  <1>1. /\ \A c \in Destinations : Books(c)
        /\ \A f \in Events : owner[f] = InSet =>
                    event2[f].destination \in destinations
    BY BooksOfInv DEF IInv
  <1>2. /\ d \in Destinations
        /\ eventsMultiMap \in [Destinations -> Seq(Events)]
        /\ event2 \in [Events -> Event2]
        /\ owner \in [Events -> Threads \cup {InSet}]
    BY DEF IInv, TypeOK
  <1> DEFINE s == eventsMultiMap[d]
             r == eventsMultiMap'[d]
             old == ExpirationOf
             new == ExpirationOf'
  <1>3. /\ \A f \in Events : f # e => old[f] = new[f]
        /\ new[e] = x
    BY <1>2 DEF ExpirationOf, Expiration
  <1>4. /\ old \in [Events -> Int]
        /\ new \in [Events -> Int]
        /\ x \in Int
    <2>1. old \in [Events -> Int]
      BY ExpirationFacts DEF IInv
    <2>2. \A f \in Events : new[f] \in Int
      BY <1>3, <2>1 DEF Time
    <2> QED
      BY <2>1, <2>2 DEF ExpirationOf, Time
  <1>5. \A c \in Destinations : ~IsIn(e, eventsMultiMap[c])
    BY <1>1 DEF Books
  <1>6. \A c \in Destinations : \A i \in 1..Len(eventsMultiMap[c]) :
            /\ eventsMultiMap[c][i] \in Events
            /\ eventsMultiMap[c][i] # e
    BY <1>2, <1>5 DEF IsIn
  <1>7. ASSUME NEW c \in Destinations
        PROVE  Sorted(eventsMultiMap[c], new)
    BY <1>1, <1>3, <1>6 DEF Books, Sorted
  <1> DEFINE i == UpperBound(s, old, x)
  <1>8. s \in Seq(Events) /\ r = InsertAtPosition(s, i, e)
    BY <1>2
  <1>9. /\ i \in 1..Len(s) + 1
        /\ \A j \in 1..i - 1 : old[s[j]] <= x
        /\ i <= Len(s) => old[s[i]] > x
    BY <1>4, <1>8, UpperBoundFacts
  <1>10. Len(s) \in Nat /\ \A j \in 1..Len(s) : old[s[j]] = new[s[j]]
    BY <1>2, <1>3, <1>6
  <1>11. Sorted(s, new)
    BY <1>2, <1>7
  <1> HIDE DEF s, r, old, new, i
  <1>12. Sorted(r, new)
    <2>1. /\ \A j \in 1..i - 1 : new[s[j]] <= new[e]
          /\ i <= Len(s) => new[s[i]] > new[e]
      BY <1>3, <1>9, <1>10
    <2> QED
      BY <1>4, <1>8, <1>9, <1>11, <2>1, InsertSorted
  <1>13. /\ IsIn(e, r)
         /\ \A f : IsIn(f, s) => IsIn(f, r)
         /\ \A f : IsIn(f, r) => f = e \/ IsIn(f, s)
         /\ Distinct(s) /\ ~IsIn(e, s) => Distinct(r)
    BY <1>8, <1>9, InsertFacts
  <1>14. \A f \in Events : /\ owner'[f] = IF f = e THEN InSet ELSE owner[f]
                           /\ event2'[f].destination =
                                IF f = e THEN d ELSE event2[f].destination
    BY <1>2
  <1>15. ASSUME NEW c \in Destinations
         PROVE  Books(c)'
    <2>1. CASE c = d
      <3>1. Distinct(r)
        BY <1>1, <1>2, <1>5, <1>13 DEF Books, s
      <3>2. \A f \in Events : IsIn(f, r) <=>
                    owner'[f] = InSet /\ event2'[f].destination = d
        BY <1>1, <1>2, <1>13, <1>14 DEF Books, s
      <3> QED
        BY <1>12, <2>1, <3>1, <3>2 DEF Books, r, new
    <2>2. CASE c # d
      <3>1. eventsMultiMap'[c] = eventsMultiMap[c]
        BY <1>2, <2>2
      <3>2. \A f \in Events : IsIn(f, eventsMultiMap[c]) <=>
                    owner'[f] = InSet /\ event2'[f].destination = c
        BY <1>1, <1>5, <1>14, <2>2 DEF Books
      <3> QED
        BY <1>1, <1>7, <3>1, <3>2 DEF Books, new
    <2> QED
      BY <2>1, <2>2
  <1>16. \A f \in Events : owner'[f] = InSet =>
                    event2'[f].destination \in destinations'
    BY <1>1, <1>14
  <1> QED
    BY <1>15, <1>16, InvOfBooks

(***************************************************************************)
(* The step that takes an event out of the multimap of d and gives it to a *)
(* thread keeps the books.                                                 *)
(***************************************************************************)
LEMMA EraseBooks ==
    ASSUME IInv, TypeOK', NEW d \in destinations, NEW t \in Threads,
           NEW i \in 1..Len(eventsMultiMap[d]),
           destinations' = destinations,
           event2' = event2,
           eventsMultiMap' = [eventsMultiMap EXCEPT ![d] = EraseAtPosition(@, i)],
           owner' = [owner EXCEPT ![eventsMultiMap[d][i]] = t]
    PROVE  Ordered' /\ HeldOnce'
  <1>1. /\ \A c \in Destinations : Books(c)
        /\ \A f \in Events : owner[f] = InSet =>
                    event2[f].destination \in destinations
    BY BooksOfInv DEF IInv
  <1>2. /\ d \in Destinations
        /\ eventsMultiMap \in [Destinations -> Seq(Events)]
        /\ owner \in [Events -> Threads \cup {InSet}]
        /\ t # InSet
    BY ConstantsAssumption DEF IInv, TypeOK
  <1> DEFINE s == eventsMultiMap[d]
             r == eventsMultiMap'[d]
             e == s[i]
  <1>3. ExpirationOf' = ExpirationOf
    BY DEF ExpirationOf, Expiration
  <1>4. s \in Seq(Events) /\ i \in 1..Len(s) /\ e \in Events
    BY <1>2
  <1>5. r = EraseAtPosition(s, i)
    BY <1>2
  <1>6. Books(d)
    BY <1>1, <1>2
  <1>7. \A f \in Events : owner'[f] = IF f = e THEN t ELSE owner[f]
    BY <1>2, <1>4
  <1>8. event2[e].destination = d
    BY <1>4, <1>6 DEF Books, IsIn
  <1> HIDE DEF r, e, s
  <1>9. Distinct(s) /\ Sorted(s, ExpirationOf)
    BY <1>6 DEF Books, s
  <1>10. /\ Distinct(r)
         /\ ~IsIn(e, r)
         /\ \A f : IsIn(f, s) /\ f # e => IsIn(f, r)
         /\ \A f : IsIn(f, r) => IsIn(f, s)
         /\ \A key \in [Events -> Int] : Sorted(s, key) => Sorted(r, key)
    BY <1>4, <1>5, <1>9, EraseFacts DEF e
  <1>11. Sorted(r, ExpirationOf)
    BY <1>9, <1>10, ExpirationFacts DEF IInv
  <1>12. ASSUME NEW c \in Destinations
         PROVE  Books(c)'
    <2>1. CASE c = d
      <3>1. \A f \in Events : IsIn(f, r) <=>
                    owner'[f] = InSet /\ event2[f].destination = d
        BY <1>2, <1>6, <1>7, <1>10 DEF Books, s
      <3> QED
        BY <1>3, <1>10, <1>11, <2>1, <3>1 DEF Books, r
    <2>2. CASE c # d
      <3>1. eventsMultiMap'[c] = eventsMultiMap[c]
        BY <1>2, <2>2
      <3>2. \A f \in Events : IsIn(f, eventsMultiMap[c]) <=>
                    owner'[f] = InSet /\ event2[f].destination = c
        BY <1>1, <1>2, <1>7, <1>8, <2>2 DEF Books
      <3> QED
        BY <1>1, <1>3, <3>1, <3>2 DEF Books
    <2> QED
      BY <2>1, <2>2
  <1>13. \A f \in Events : owner'[f] = InSet =>
                    event2'[f].destination \in destinations'
    BY <1>1, <1>2, <1>7
  <1> QED
    BY <1>12, <1>13, InvOfBooks

(***************************************************************************)
(* The steps that change no multimap keep the books: the others, and the   *)
(* refused addEvent that has filled in the fields of its event.            *)
(***************************************************************************)
LEMMA SameBooks ==
    ASSUME IInv, TypeOK', destinations \subseteq destinations',
           eventsMultiMap' = eventsMultiMap, owner' = owner,
           \A e \in Events : owner[e] = InSet => event2'[e] = event2[e]
    PROVE  Ordered' /\ HeldOnce'
  <1>1. /\ \A c \in Destinations : Books(c)
        /\ \A f \in Events : owner[f] = InSet =>
                    event2[f].destination \in destinations
    BY BooksOfInv DEF IInv
  <1>2. ASSUME NEW c \in Destinations
        PROVE  Books(c)'
    <2>1. \A i \in 1..Len(eventsMultiMap[c]) : eventsMultiMap[c][i] \in Events
      BY DEF IInv, TypeOK
    <2>2. \A i \in 1..Len(eventsMultiMap[c]) : owner[eventsMultiMap[c][i]] = InSet
      BY <1>1, <2>1 DEF Books, IsIn
    <2>3. \A e \in Events : owner[e] = InSet => ExpirationOf'[e] = ExpirationOf[e]
      BY DEF ExpirationOf, Expiration
    <2>4. Sorted(eventsMultiMap[c], ExpirationOf')
      BY <1>1, <2>1, <2>2, <2>3 DEF Books, Sorted
    <2>5. \A f \in Events : IsIn(f, eventsMultiMap[c]) <=>
                    owner'[f] = InSet /\ event2'[f].destination = c
      BY <1>1 DEF Books
    <2> QED
      BY <1>1, <2>4, <2>5 DEF Books
  <1>3. \A f \in Events : owner'[f] = InSet =>
                    event2'[f].destination \in destinations'
    BY <1>1
  <1> QED
    BY <1>2, <1>3, InvOfBooks

-----------------------------------------------------------------------------
\* The program counters.
Labels == {"idle", "lock", "wait", "relock", "loop"}

(***************************************************************************)
(* The part of the type invariant that a step of the threads can disturb:  *)
(* it is enough to look at the thread that moves.                          *)
(***************************************************************************)
LEMMA ThreadTypes ==
    ASSUME TypeOK, NEW t \in Threads,
           NEW l \in Labels, NEW c \in Calls \cup {NoCall}, NEW r \in Returns,
           l # "idle" => c \in Calls,
           pc' = [pc EXCEPT ![t] = l],
           call' = [call EXCEPT ![t] = c] \/ (call' = call /\ c = call[t]),
           ret' = [ret EXCEPT ![t] = r] \/ ret' = ret
    PROVE  /\ pc' \in [Threads -> Labels]
           /\ call' \in [Threads -> Calls \cup {NoCall}]
           /\ \A u \in Threads : pc'[u] # "idle" => call'[u] \in Calls
           /\ ret' \in [Threads -> Returns]
  BY DEF TypeOK, Labels

(***************************************************************************)
(* What a step of t leaves alone for another thread u: its labels, its     *)
(* locals and, if it is in the loop, its mutex and its events.             *)
(***************************************************************************)
LEMMA OtherThread ==
    ASSUME IInv, NEW t \in Threads \cup {NoThread}, NEW u \in Threads, u # t,
           pc'[u] = pc[u], call'[u] = call[u],
           now' \in Time, now <= now',
           destinations \subseteq destinations',
           \/ mutex' = mutex /\ eventsMultiMap' = eventsMultiMap
           \/ mutex \in {NoThread, t} /\ mutex' \in {NoThread, t}
    PROVE  ThreadOK(u)'
  <1>1. /\ ThreadOK(u)
        /\ u # NoThread
        /\ now \in Time
        /\ pc[u] # "idle" => call[u] \in Calls
    BY ConstantsAssumption DEF IInv, ThreadsOK, TypeOK
  <1>2. pc'[u] # "idle" => call'[u].initialTimePoint <= now'
    BY <1>1 DEF ThreadOK, Calls, Time
  <1>3. pc'[u] = "loop" <=> mutex' = u
    BY <1>1 DEF ThreadOK
  <1>4. pc'[u] \in {"wait", "relock"} =>
            /\ call'[u].destination \in destinations'
            /\ call'[u].blocking
            /\ call'[u].deadline >= Cap(call'[u].initialTimePoint
                                        + call'[u].milliSecondsToBlock)
    BY <1>1 DEF ThreadOK, Cap
  <1>5. pc'[u] = "loop" =>
            /\ call'[u].op = "getAndRemoveFirstEvent"
            /\ call'[u].destination \in destinations'
            /\ eventsMultiMap'[call'[u].destination] # <<>>
    BY <1>1 DEF ThreadOK
  <1> QED
    BY <1>2, <1>3, <1>4, <1>5, Zenon DEF ThreadOK, Cap

(***************************************************************************)
(* A thread that is idle or about to take the mutex has nothing to rely on *)
(* but the mutex not being its own.                                        *)
(***************************************************************************)
LEMMA ThreadReturned ==
    ASSUME NEW t \in Threads, pc'[t] = "idle", mutex' # t
    PROVE  ThreadOK(t)'
  BY DEF ThreadOK

(***************************************************************************)
(* The values the methods return.                                          *)
(***************************************************************************)
LEMMA ReturnTypes ==
    /\ Void \in Returns
    /\ Null \in Returns
    /\ Throw \in Returns
    /\ \A e \in Events, b \in BOOLEAN : Event(e, b) \in Returns
  BY DEF Void, Null, Throw, Returns, Event

-----------------------------------------------------------------------------
(***************************************************************************)
(* The initial states satisfy the invariant.                               *)
(***************************************************************************)
LEMMA InitIInv == Init => IInv
  <1> SUFFICES ASSUME Init PROVE IInv
    OBVIOUS
  <1>1. TypeOK
    <2> now = 0 /\ eventsMultiMap = [d \in Destinations |-> <<>>]
      BY Zenon DEF Init
    <2>1. now \in Time
      BY ConstantsAssumption DEF Time
    <2>2. event2 \in [Events -> Event2]
      BY <2>1 DEF Init, Event2
    <2>3. eventsMultiMap \in [Destinations -> Seq(Events)]
      OBVIOUS
    <2>4. ret \in [Threads -> Returns]
      BY ReturnTypes DEF Init
    <2> QED
      BY <2>1, <2>2, <2>3, <2>4 DEF Init, TypeOK
  <1>2. \A d \in Destinations : eventsMultiMap[d] = <<>>
    BY DEF Init
  <1>3. Ordered
    BY <1>2 DEF Ordered
  <1>4. HeldOnce
    <2>1. \A e \in Events : owner[e] # InSet
      BY ConstantsAssumption DEF Init
    <2> QED
      BY <1>2, <2>1 DEF HeldOnce
  <1>5. ThreadsOK
    BY ConstantsAssumption DEF Init, ThreadsOK, ThreadOK
  <1> QED
    BY <1>1, <1>3, <1>4, <1>5 DEF IInv

(***************************************************************************)
(* The clock advances.                                                     *)
(***************************************************************************)
LEMMA TickIInv ==
    ASSUME IInv, Tick
    PROVE  IInv'
  <1>1. now' \in Time /\ now <= now'
    BY ConstantsAssumption DEF IInv, TypeOK, Tick, Time
  <1>2. TypeOK'
    BY <1>1 DEF IInv, TypeOK, Tick
  <1>3. Ordered' /\ HeldOnce'
    BY <1>2, SameBooks DEF Tick
  <1>4. ASSUME NEW u \in Threads
        PROVE  ThreadOK(u)'
    <2>1. NoThread \in Threads \cup {NoThread} /\ u # NoThread
      BY ConstantsAssumption
    <2> QED
      BY <1>1, <2>1, OtherThread DEF Tick
  <1> QED
    BY <1>2, <1>3, <1>4 DEF IInv, ThreadsOK

(***************************************************************************)
(* addDestination.                                                         *)
(***************************************************************************)
LEMMA AddDestinationIInv ==
    ASSUME IInv, NEW t \in Threads, NEW d \in Destinations, AddDestination(t, d)
    PROVE  IInv'
  <1>1. TypeOK'
    <2>1. ret' \in [Threads -> Returns]
      BY ReturnTypes DEF IInv, TypeOK, AddDestination, Returned
    <2> QED
      BY <2>1 DEF IInv, TypeOK, AddDestination
  <1>2. Ordered' /\ HeldOnce'
    BY <1>1, SameBooks DEF AddDestination
  <1>3. ASSUME NEW u \in Threads
        PROVE  ThreadOK(u)'
    <2>1. NoThread \in Threads \cup {NoThread} /\ u # NoThread
      BY ConstantsAssumption
    <2>2. now' \in Time /\ now <= now'
      BY DEF IInv, TypeOK, AddDestination, Time
    <2> QED
      BY <2>1, <2>2, OtherThread DEF AddDestination
  <1> QED
    BY <1>1, <1>2, <1>3 DEF IInv, ThreadsOK

(***************************************************************************)
(* notify_one moves at most one sleeper on, and changes nothing for the    *)
(* others.                                                                 *)
(***************************************************************************)
LEMMA NotifyFacts ==
    ASSUME TypeOK, NEW d \in Destinations, NotifyOne(d) \/ UNCHANGED pc
    PROVE  /\ pc' \in [Threads -> Labels]
           /\ \A u \in Threads : \/ pc'[u] = pc[u]
                                 \/ pc[u] = "wait" /\ pc'[u] = "relock"
  BY DEF TypeOK, NotifyOne, Sleepers, Labels

(***************************************************************************)
(* addEvent: the mutex is free, so no thread is in the loop.               *)
(***************************************************************************)
LEMMA AddEventIInv ==
    ASSUME IInv, NEW t \in Threads, NEW e \in Events, NEW d \in Destinations,
           NEW x \in Time, AddEvent(t, e, d, x)
    PROVE  IInv'
  <1>1. /\ owner[e] = t
        /\ t # InSet
        /\ mutex = NoThread
        /\ UNCHANGED <<now, destinations, mutex, call>>
        /\ event2' = [event2 EXCEPT ![e] = [destination |-> d,
                                            expirationTimePoint |-> x]]
    BY ConstantsAssumption DEF AddEvent
  <1>2. /\ event2' \in [Events -> Event2]
        /\ ret' \in [Threads -> Returns]
    <2>1. [destination |-> d, expirationTimePoint |-> x] \in Event2
      BY DEF Event2
    <2>2. Returned(t, Throw) \/ Returned(t, Void)
      BY DEF AddEvent
    <2> QED
      BY <1>1, <2>1, <2>2, ReturnTypes DEF IInv, TypeOK, Returned
  <1>3. /\ pc' \in [Threads -> Labels]
        /\ \A u \in Threads : \/ pc'[u] = pc[u]
                              \/ pc[u] = "wait" /\ pc'[u] = "relock"
    <2>1. NotifyOne(d) \/ UNCHANGED pc
      BY DEF AddEvent
    <2> QED
      BY <2>1, NotifyFacts DEF IInv
  <1>4. \A u \in Threads : pc'[u] # "idle" => call'[u] \in Calls
    BY <1>1, <1>3 DEF IInv, TypeOK
  <1>5. ThreadsOK'
    <2> SUFFICES ASSUME NEW u \in Threads
                 PROVE  ThreadOK(u)'
      BY DEF ThreadsOK
    <2>1. ThreadOK(u) /\ u # NoThread
      BY ConstantsAssumption DEF IInv, ThreadsOK
    <2> QED
      BY <1>1, <1>3, <2>1 DEF ThreadOK, Cap
  <1>6. CASE d \notin destinations
    <2>1. UNCHANGED <<eventsMultiMap, owner>>
      BY <1>6 DEF AddEvent
    <2>2. TypeOK'
      BY <1>1, <1>2, <1>3, <1>4, <2>1 DEF IInv, TypeOK, Labels
    <2>3. \A f \in Events : owner[f] = InSet => event2'[f] = event2[f]
      BY <1>1 DEF IInv, TypeOK
    <2>4. Ordered' /\ HeldOnce'
      BY <1>1, <2>1, <2>2, <2>3, SameBooks
    <2> QED
      BY <1>5, <2>2, <2>4 DEF IInv
  <1>7. CASE d \in destinations
    <2>1. /\ eventsMultiMap' = [eventsMultiMap EXCEPT ![d] =
                    InsertAtPosition(@, UpperBound(@, ExpirationOf, x), e)]
          /\ owner' = [owner EXCEPT ![e] = InSet]
      BY <1>7 DEF AddEvent
    <2>2. InsertAtPosition(eventsMultiMap[d],
                UpperBound(eventsMultiMap[d], ExpirationOf, x), e) \in Seq(Events)
      <3>1. /\ eventsMultiMap[d] \in Seq(Events)
            /\ ExpirationOf \in [Events -> Int]
            /\ x \in Int
        BY ExpirationFacts DEF IInv, TypeOK, Time
      <3>2. UpperBound(eventsMultiMap[d], ExpirationOf, x)
                \in 1..Len(eventsMultiMap[d]) + 1
        BY <3>1, UpperBoundFacts
      <3> QED
        BY <3>1, <3>2, InsertFacts
    <2>3. eventsMultiMap' \in [Destinations -> Seq(Events)]
      BY <2>1, <2>2 DEF IInv, TypeOK
    <2>4. TypeOK'
      BY <1>1, <1>2, <1>3, <1>4, <2>1, <2>3 DEF IInv, TypeOK, Labels
    <2>5. Ordered' /\ HeldOnce'
      BY <1>1, <1>7, <2>1, <2>4, InsertBooks
    <2> QED
      BY <1>5, <2>4, <2>5 DEF IInv
  <1> QED
    BY <1>6, <1>7

(***************************************************************************)
(* A known event is in the multimap of its destination at one position,    *)
(* where deleteEvent finds it.                                             *)
(***************************************************************************)
LEMMA PositionFacts ==
    ASSUME NEW s, NEW e, IsIn(e, s)
    PROVE  PositionOf(e, s) \in 1..Len(s) /\ s[PositionOf(e, s)] = e
  BY DEF IsIn, PositionOf

(***************************************************************************)
(* deleteEvent: the mutex is free, so no thread is in the loop.            *)
(***************************************************************************)
LEMMA DeleteEventIInv ==
    ASSUME IInv, NEW t \in Threads, NEW e \in Events, DeleteEvent(t, e)
    PROVE  IInv'
  <1> DEFINE d == event2[e].destination
  <1>1. /\ mutex = NoThread
        /\ UNCHANGED <<now, destinations, event2, mutex, pc, call>>
    BY DEF DeleteEvent
  <1>2. ret' \in [Threads -> Returns]
    <2>1. Returned(t, Throw) \/ Returned(t, Void)
      BY DEF DeleteEvent
    <2> QED
      BY <2>1, ReturnTypes DEF IInv, TypeOK, Returned
  <1>3. ThreadsOK'
    <2> SUFFICES ASSUME NEW u \in Threads
                 PROVE  ThreadOK(u)'
      BY DEF ThreadsOK
    <2>1. ThreadOK(u) /\ u # NoThread
      BY ConstantsAssumption DEF IInv, ThreadsOK
    <2> QED
      BY <1>1, <2>1 DEF ThreadOK, Cap
  <1>4. CASE d \in destinations /\ IsIn(e, eventsMultiMap[d])
    <2> DEFINE i == PositionOf(e, eventsMultiMap[d])
    <2>1. i \in 1..Len(eventsMultiMap[d]) /\ eventsMultiMap[d][i] = e
      BY <1>4, PositionFacts
    <2>2. /\ eventsMultiMap' = [eventsMultiMap EXCEPT ![d] = EraseAtPosition(@, i)]
          /\ owner' = [owner EXCEPT ![eventsMultiMap[d][i]] = t]
      BY <1>4, <2>1 DEF DeleteEvent
    <2> HIDE DEF i
    <2>3. d \in Destinations /\ eventsMultiMap[d] \in Seq(Events)
      BY <1>4 DEF IInv, TypeOK
    <2>4. EraseAtPosition(eventsMultiMap[d], i) \in Seq(Events)
      <3>1. Distinct(eventsMultiMap[d])
        BY <2>3, BooksOfInv DEF IInv, Books
      <3> QED
        BY <2>1, <2>3, <3>1, EraseFacts
    <2>5. eventsMultiMap' \in [Destinations -> Seq(Events)]
      BY <2>2, <2>4 DEF IInv, TypeOK
    <2>6. TypeOK'
      BY <1>1, <1>2, <2>1, <2>2, <2>5 DEF IInv, TypeOK
    <2>7. Ordered' /\ HeldOnce'
      BY <1>1, <1>4, <2>1, <2>2, <2>6, EraseBooks
    <2> QED
      BY <1>3, <2>6, <2>7 DEF IInv
  <1>5. CASE ~(d \in destinations /\ IsIn(e, eventsMultiMap[d]))
    <2>1. UNCHANGED <<eventsMultiMap, owner>>
      BY <1>5 DEF DeleteEvent
    <2>2. TypeOK'
      BY <1>1, <1>2, <2>1 DEF IInv, TypeOK
    <2>3. Ordered' /\ HeldOnce'
      BY <1>1, <2>1, <2>2, SameBooks
    <2> QED
      BY <1>3, <2>2, <2>3 DEF IInv
  <1> QED
    BY <1>4, <1>5

(***************************************************************************)
(* A step of a consuming call that leaves the set alone: only what its own *)
(* thread relies on has to be looked at.                                   *)
(***************************************************************************)
LEMMA ThreadStep ==
    ASSUME IInv, NEW t \in Threads,
           NEW l \in Labels, NEW c \in Calls \cup {NoCall}, NEW r \in Returns,
           l # "idle" => c \in Calls,
           pc' = [pc EXCEPT ![t] = l],
           call' = [call EXCEPT ![t] = c] \/ (call' = call /\ c = call[t]),
           ret' = [ret EXCEPT ![t] = r] \/ ret' = ret,
           UNCHANGED <<now, destinations, eventsMultiMap, event2, owner>>,
           \/ mutex' = mutex
           \/ mutex \in {NoThread, t} /\ mutex' \in {NoThread, t},
           ThreadOK(t)'
    PROVE  IInv'
  <1>1. TypeOK
    BY DEF IInv
  <1>2. /\ pc' \in [Threads -> Labels]
        /\ call' \in [Threads -> Calls \cup {NoCall}]
        /\ \A u \in Threads : pc'[u] # "idle" => call'[u] \in Calls
        /\ ret' \in [Threads -> Returns]
    BY <1>1, ThreadTypes
  <1>3. TypeOK'
    BY <1>1, <1>2 DEF TypeOK, Labels
  <1>4. Ordered' /\ HeldOnce'
    BY <1>3, SameBooks
  <1>5. ASSUME NEW u \in Threads
        PROVE  ThreadOK(u)'
    <2>1. CASE u = t
      BY <2>1
    <2>2. CASE u # t
      <3>1. pc'[u] = pc[u] /\ call'[u] = call[u]
        BY <1>1, <2>2 DEF TypeOK
      <3>2. now' \in Time /\ now <= now'
        BY <1>1 DEF TypeOK, Time
      <3> QED
        BY <2>2, <3>1, <3>2, OtherThread
    <2> QED
      BY <2>1, <2>2
  <1> QED
    BY <1>3, <1>4, <1>5 DEF IInv, ThreadsOK

(***************************************************************************)
(* A consuming call that returns without having had the mutex over a step, *)
(* or that gives it back.                                                  *)
(***************************************************************************)
LEMMA FinishIInv ==
    ASSUME IInv, NEW t \in Threads, NEW r \in Returns, Finish(t, r),
           UNCHANGED <<now, destinations, eventsMultiMap, event2, owner>>,
           mutex \in {NoThread, t}, mutex' = NoThread
    PROVE  IInv'
  <1>1. /\ pc' = [pc EXCEPT ![t] = "idle"]
        /\ call' = [call EXCEPT ![t] = NoCall]
        /\ ret' = [ret EXCEPT ![t] = r]
    BY DEF Finish, Returned
  <1>2. ThreadOK(t)'
    <2>1. pc'[t] = "idle" /\ mutex' # t
      BY <1>1, ConstantsAssumption DEF IInv, TypeOK
    <2> QED
      BY <2>1, ThreadReturned
  <1>3. "idle" \in Labels /\ NoCall \in Calls \cup {NoCall}
    BY DEF Labels
  <1> QED
    BY <1>1, <1>2, <1>3, ThreadStep

(***************************************************************************)
(* The start of a consuming call.                                          *)
(***************************************************************************)
LEMMA CallIInv ==
    ASSUME IInv, NEW t \in Threads,
           NEW op \in {"getFirstEvent", "getAndRemoveFirstEvent"},
           NEW d \in Destinations, NEW b \in BOOLEAN, NEW w \in Waits,
           Call(t, op, d, b, w)
    PROVE  IInv'
  <1> DEFINE c == [op |-> op, destination |-> d, blocking |-> b,
                   milliSecondsToBlock |-> w, initialTimePoint |-> now,
                   deadline |-> now]
  <1>1. now \in Time
    BY DEF IInv, TypeOK
  <1>2. c \in Calls /\ c.initialTimePoint = now
    BY <1>1 DEF Calls
  <1>3. /\ pc' = [pc EXCEPT ![t] = "lock"]
        /\ call' = [call EXCEPT ![t] = c]
        /\ ret' = [ret EXCEPT ![t] = Void]
        /\ UNCHANGED <<now, destinations, eventsMultiMap, event2, owner, mutex>>
        /\ pc[t] = "idle"
    BY DEF Call, Returned
  <1> HIDE DEF c
  <1>4. ThreadOK(t)'
    <2>1. pc'[t] = "lock" /\ call'[t] = c
      BY <1>3 DEF IInv, TypeOK
    <2>2. mutex # t
      BY <1>3 DEF IInv, ThreadsOK, ThreadOK
    <2> QED
      BY <1>1, <1>2, <1>3, <2>1, <2>2 DEF ThreadOK, Time
  <1>5. "lock" \in Labels
    BY DEF Labels
  <1> QED
    BY <1>2, <1>3, <1>4, <1>5, ReturnTypes, ThreadStep

(***************************************************************************)
(* With the mutex just taken and an event in the multimap.                 *)
(***************************************************************************)
LEMMA FoundEventIInv ==
    ASSUME IInv, NEW t \in Threads, FoundEvent(t),
           pc[t] \in {"lock", "relock"}, mutex = NoThread,
           call[t].destination \in destinations,
           eventsMultiMap[call[t].destination] # <<>>,
           UNCHANGED <<now, destinations, eventsMultiMap, event2, owner>>
    PROVE  IInv'
  <1> DEFINE d == call[t].destination
  <1>1. /\ call[t] \in Calls
        /\ d \in Destinations
        /\ eventsMultiMap[d] \in Seq(Events)
    BY DEF IInv, TypeOK
  <1>2. CASE call[t].op = "getFirstEvent"
    <2>1. Front(d) \in Events
      BY <1>1 DEF Front
    <2> DEFINE b == now >= Expiration(Front(d))
    <2>2. Finish(t, Event(Front(d), b))
      BY <1>2 DEF FoundEvent
    <2> HIDE DEF b
    <2>3. Event(Front(d), b) \in Returns
      <3>1. b \in BOOLEAN
        BY DEF b
      <3> QED
        BY <2>1, <3>1, ReturnTypes
    <2>4. mutex' = NoThread
      BY <1>2 DEF FoundEvent
    <2> QED
      BY <2>2, <2>3, <2>4, FinishIInv
  <1>3. CASE call[t].op # "getFirstEvent"
    <2>1. /\ pc' = [pc EXCEPT ![t] = "loop"]
          /\ mutex' = t
          /\ UNCHANGED <<call, ret>>
      BY <1>3 DEF FoundEvent
    <2>2. call[t].op = "getAndRemoveFirstEvent"
      BY <1>1, <1>3 DEF Calls
    <2>3. pc'[t] = "loop" /\ call[t].initialTimePoint <= now
      BY <2>1 DEF IInv, TypeOK, ThreadsOK, ThreadOK
    <2>4. ThreadOK(t)'
      BY <2>1, <2>2, <2>3 DEF ThreadOK
    <2>5. "loop" \in Labels
      BY DEF Labels
    <2>6. ret[t] \in Returns
      BY DEF IInv, TypeOK
    <2> QED
      BY <1>1, <2>1, <2>4, <2>5, <2>6, ThreadStep
  <1> QED
    BY <1>2, <1>3

(***************************************************************************)
(* The mutex is taken for the first time.                                  *)
(***************************************************************************)
LEMMA AcquireIInv ==
    ASSUME IInv, NEW t \in Threads, Acquire(t)
    PROVE  IInv'
  <1> DEFINE d == call[t].destination
  <1>1. /\ pc[t] = "lock"
        /\ mutex = NoThread
        /\ UNCHANGED <<now, destinations, eventsMultiMap, event2, owner>>
    BY DEF Acquire
  <1>2. /\ call[t] \in Calls
        /\ call[t].initialTimePoint <= now
        /\ now \in Time
    BY <1>1 DEF IInv, TypeOK, ThreadsOK, ThreadOK
  <1>3. CASE Finish(t, Throw) /\ UNCHANGED mutex
    BY <1>1, <1>3, ReturnTypes, FinishIInv
  <1>4. CASE Finish(t, Null) /\ UNCHANGED mutex
    BY <1>1, <1>4, ReturnTypes, FinishIInv
  <1>5. CASE d \in destinations /\ eventsMultiMap[d] # <<>> /\ FoundEvent(t)
    BY <1>1, <1>5, FoundEventIInv
  <1>6. CASE /\ d \in destinations
             /\ call[t].blocking
             /\ pc' = [pc EXCEPT ![t] = "wait"]
             /\ call' = [call EXCEPT ![t].deadline =
                            Cap(now + call[t].milliSecondsToBlock)]
             /\ UNCHANGED <<mutex, ret>>
    <2> DEFINE end == Cap(now + call[t].milliSecondsToBlock)
               c == [call[t] EXCEPT !.deadline = end]
    <2>1. /\ call[t].initialTimePoint \in Nat
          /\ call[t].milliSecondsToBlock \in Nat
          /\ now \in Nat
      <3>1. Time \subseteq Nat /\ Waits \subseteq Nat
        BY ConstantsAssumption DEF Time
      <3>2. call[t].initialTimePoint \in Time /\ call[t].milliSecondsToBlock \in Waits
        BY <1>2 DEF Calls
      <3> QED
        BY <1>2, <3>1, <3>2
    <2>2. /\ end \in Time
          /\ Cap(call[t].initialTimePoint + call[t].milliSecondsToBlock) <= end
      BY <1>2, <2>1, CapFacts
    <2> HIDE DEF end
    <2>3. /\ c \in Calls
          /\ c.deadline = end
          /\ c.blocking = call[t].blocking
          /\ c.destination = d
          /\ c.initialTimePoint = call[t].initialTimePoint
          /\ c.milliSecondsToBlock = call[t].milliSecondsToBlock
      BY <1>2, <2>2 DEF Calls
    <2>4. call' = [call EXCEPT ![t] = c]
      BY <1>6 DEF end
    <2> HIDE DEF c
    <2>5. pc'[t] = "wait" /\ call'[t] = c
      BY <1>6, <2>4 DEF IInv, TypeOK
    <2>6. mutex # t
      BY <1>1, ConstantsAssumption
    <2>7. ThreadOK(t)'
      <3>1. end >= Cap(call[t].initialTimePoint + call[t].milliSecondsToBlock)
        BY <2>1, <2>2, CapFacts DEF Time
      <3>2. call'[t].deadline >= Cap(call'[t].initialTimePoint
                                        + call'[t].milliSecondsToBlock)
        BY <2>3, <2>5, <3>1
      <3>3. call'[t].destination \in destinations' /\ call'[t].blocking
        BY <1>1, <1>6, <2>3, <2>5
      <3>4. call'[t].initialTimePoint <= now' /\ mutex' # t
        BY <1>1, <1>2, <1>6, <2>3, <2>5, <2>6
      <3> QED
        BY <2>5, <3>2, <3>3, <3>4 DEF ThreadOK, Cap
    <2>8. "wait" \in Labels /\ ret[t] \in Returns
      BY DEF IInv, TypeOK, Labels
    <2> QED
      BY <1>1, <1>6, <2>3, <2>4, <2>7, <2>8, ThreadStep
  <1> QED
    BY <1>3, <1>4, <1>5, <1>6 DEF Acquire

(***************************************************************************)
(* wait_for is left, by timeout or without a reason.                       *)
(***************************************************************************)
LEMMA WakeUpIInv ==
    ASSUME IInv, NEW t \in Threads, WakeUp(t)
    PROVE  IInv'
  <1>1. /\ pc[t] = "wait"
        /\ pc' = [pc EXCEPT ![t] = "relock"]
        /\ UNCHANGED <<now, destinations, eventsMultiMap, event2, owner, mutex,
                       call, ret>>
    BY DEF WakeUp
  <1>2. call[t] \in Calls /\ ret[t] \in Returns /\ pc'[t] = "relock"
    BY <1>1 DEF IInv, TypeOK
  <1>3. ThreadOK(t)'
    BY <1>1, <1>2 DEF IInv, ThreadsOK, ThreadOK, Cap
  <1>4. "relock" \in Labels
    BY DEF Labels
  <1> QED
    BY <1>1, <1>2, <1>3, <1>4, ThreadStep

(***************************************************************************)
(* wait_for has the mutex again and evaluates its predicate.               *)
(***************************************************************************)
LEMMA RelockIInv ==
    ASSUME IInv, NEW t \in Threads, Relock(t)
    PROVE  IInv'
  <1> DEFINE d == call[t].destination
  <1>1. /\ pc[t] = "relock"
        /\ mutex = NoThread
        /\ UNCHANGED <<now, destinations, eventsMultiMap, event2, owner>>
    BY DEF Relock
  <1>2. call[t] \in Calls /\ ret[t] \in Returns /\ d \in destinations
    BY <1>1 DEF IInv, TypeOK, ThreadsOK, ThreadOK
  <1>3. CASE eventsMultiMap[d] # <<>> /\ FoundEvent(t)
    BY <1>1, <1>2, <1>3, FoundEventIInv
  <1>4. CASE Finish(t, Null) /\ UNCHANGED mutex
    BY <1>1, <1>4, ReturnTypes, FinishIInv
  <1>5. CASE pc' = [pc EXCEPT ![t] = "wait"] /\ UNCHANGED <<mutex, call, ret>>
    <2>1. pc'[t] = "wait" /\ "wait" \in Labels
      BY <1>5 DEF IInv, TypeOK, Labels
    <2>2. ThreadOK(t)'
      BY <1>1, <1>5, <2>1 DEF IInv, ThreadsOK, ThreadOK, Cap
    <2> QED
      BY <1>1, <1>2, <1>5, <2>1, <2>2, ThreadStep
  <1> QED
    BY <1>3, <1>4, <1>5 DEF Relock

(***************************************************************************)
(* The front event has expired and is taken.                               *)
(***************************************************************************)
LEMMA TakeFrontIInv ==
    ASSUME IInv, NEW t \in Threads, TakeFront(t)
    PROVE  IInv'
  <1> DEFINE d == call[t].destination
             r == Event(Front(d), TRUE)
  <1>1. /\ pc[t] = "loop"
        /\ eventsMultiMap' = [eventsMultiMap EXCEPT ![d] = EraseAtPosition(@, 1)]
        /\ owner' = [owner EXCEPT ![eventsMultiMap[d][1]] = t]
        /\ mutex' = NoThread
        /\ UNCHANGED <<now, destinations, event2>>
        /\ pc' = [pc EXCEPT ![t] = "idle"]
        /\ call' = [call EXCEPT ![t] = NoCall]
        /\ ret' = [ret EXCEPT ![t] = r]
    BY DEF TakeFront, Finish, Returned, Front
  <1>2. /\ mutex = t
        /\ d \in destinations
        /\ eventsMultiMap[d] # <<>>
    BY <1>1 DEF IInv, ThreadsOK, ThreadOK
  <1>3. d \in Destinations /\ eventsMultiMap[d] \in Seq(Events)
    BY <1>2 DEF IInv, TypeOK
  <1>4. 1 \in 1..Len(eventsMultiMap[d]) /\ eventsMultiMap[d][1] \in Events
    BY <1>2, <1>3
  <1>5. r \in Returns
    BY <1>4, ReturnTypes DEF Front
  <1> HIDE DEF r
  <1>6. EraseAtPosition(eventsMultiMap[d], 1) \in Seq(Events)
    <2>1. Distinct(eventsMultiMap[d])
      BY <1>3, BooksOfInv DEF IInv, Books
    <2> QED
      BY <1>3, <1>4, <2>1, EraseFacts
  <1>7. TypeOK'
    <2>1. TypeOK /\ "idle" \in Labels /\ NoCall \in Calls \cup {NoCall}
      BY DEF IInv, Labels
    <2>2. /\ pc' \in [Threads -> Labels]
          /\ call' \in [Threads -> Calls \cup {NoCall}]
          /\ \A u \in Threads : pc'[u] # "idle" => call'[u] \in Calls
          /\ ret' \in [Threads -> Returns]
      BY <1>1, <1>5, <2>1, ThreadTypes
    <2>3. /\ eventsMultiMap' \in [Destinations -> Seq(Events)]
          /\ owner' \in [Events -> Threads \cup {InSet}]
      BY <1>1, <1>6, <2>1 DEF TypeOK
    <2> QED
      BY <1>1, <2>1, <2>2, <2>3 DEF TypeOK, Labels
  <1>8. Ordered' /\ HeldOnce'
    BY <1>1, <1>2, <1>4, <1>7, EraseBooks
  <1>9. ASSUME NEW u \in Threads
        PROVE  ThreadOK(u)'
    <2>1. CASE u = t
      <3>1. pc'[u] = "idle" /\ mutex' # u
        BY <1>1, <2>1, ConstantsAssumption DEF IInv, TypeOK
      <3> QED
        BY <3>1, ThreadReturned
    <2>2. CASE u # t
      <3>1. pc'[u] = pc[u] /\ call'[u] = call[u]
        BY <1>1, <2>2 DEF IInv, TypeOK
      <3>2. now' \in Time /\ now <= now'
        BY <1>1 DEF IInv, TypeOK, Time
      <3> QED
        BY <1>1, <1>2, <2>2, <3>1, <3>2, OtherThread
    <2> QED
      BY <2>1, <2>2
  <1> QED
    BY <1>7, <1>8, <1>9 DEF IInv, ThreadsOK

(***************************************************************************)
(* The blocking time is over and the front event has not expired.          *)
(***************************************************************************)
LEMMA GiveUpIInv ==
    ASSUME IInv, NEW t \in Threads, GiveUp(t)
    PROVE  IInv'
  <1>1. /\ pc[t] = "loop"
        /\ mutex' = NoThread
        /\ Finish(t, Null)
        /\ UNCHANGED <<now, destinations, eventsMultiMap, event2, owner>>
    BY DEF GiveUp
  <1>2. mutex = t
    BY <1>1 DEF IInv, ThreadsOK, ThreadOK
  <1> QED
    BY <1>1, <1>2, ReturnTypes, FinishIInv

(***************************************************************************)
(* A step in which nothing happens.                                        *)
(***************************************************************************)
LEMMA StutterIInv ==
    ASSUME IInv, UNCHANGED vars
    PROVE  IInv'
  <1>1. TypeOK'
    BY DEF IInv, TypeOK, vars
  <1>2. Ordered' /\ HeldOnce'
    BY <1>1, SameBooks DEF vars
  <1>3. ThreadsOK'
    BY DEF IInv, ThreadsOK, ThreadOK, Cap, vars
  <1> QED
    BY <1>1, <1>2, <1>3 DEF IInv

-----------------------------------------------------------------------------
(***************************************************************************)
(* The invariant is inductive, so every state of the set satisfies it.     *)
(***************************************************************************)
THEOREM SetInvariant == Spec => []IInv
  <1>1. Init => IInv
    BY InitIInv
  <1>2. IInv /\ [Next]_vars => IInv'
    <2> SUFFICES ASSUME IInv, [Next]_vars
                 PROVE  IInv'
      OBVIOUS
    <2>1. CASE Tick
      BY <2>1, TickIInv
    <2>2. ASSUME NEW t \in Threads, NEW d \in Destinations, AddDestination(t, d)
          PROVE  IInv'
      BY <2>2, AddDestinationIInv
    <2>3. ASSUME NEW t \in Threads, NEW e \in Events, NEW d \in Destinations,
                 NEW x \in Time, AddEvent(t, e, d, x)
          PROVE  IInv'
      BY <2>3, AddEventIInv
    <2>4. ASSUME NEW t \in Threads, NEW e \in Events, DeleteEvent(t, e)
          PROVE  IInv'
      BY <2>4, DeleteEventIInv
    <2>5. ASSUME NEW t \in Threads,
                 NEW op \in {"getFirstEvent", "getAndRemoveFirstEvent"},
                 NEW d \in Destinations, NEW b \in BOOLEAN, NEW w \in Waits,
                 Call(t, op, d, b, w)
          PROVE  IInv'
      BY <2>5, CallIInv
    <2>6. ASSUME NEW t \in Threads, Acquire(t)
          PROVE  IInv'
      BY <2>6, AcquireIInv
    <2>7. ASSUME NEW t \in Threads, WaitTimeout(t) \/ SpuriousWakeUp(t)
          PROVE  IInv'
      BY <2>7, WakeUpIInv DEF WaitTimeout, SpuriousWakeUp
    <2>8. ASSUME NEW t \in Threads, Relock(t)
          PROVE  IInv'
      BY <2>8, RelockIInv
    <2>9. ASSUME NEW t \in Threads, TakeFront(t)
          PROVE  IInv'
      BY <2>9, TakeFrontIInv
    <2>10. ASSUME NEW t \in Threads, GiveUp(t)
           PROVE  IInv'
      BY <2>10, GiveUpIInv
    <2>11. CASE UNCHANGED vars
      BY <2>11, StutterIInv
    <2> QED
      BY <2>1, <2>2, <2>3, <2>4, <2>5, <2>6, <2>7, <2>8, <2>9, <2>10, <2>11,
         Zenon DEF Next
  <1> QED
    BY <1>1, <1>2, PTL DEF Spec

(***************************************************************************)
(* The types of the variables, and that a thread in a call has the         *)
(* arguments of one.                                                       *)
(***************************************************************************)
THEOREM SetTypeOK == Spec => []TypeOK
  <1>1. IInv => TypeOK
    BY DEF IInv
  <1> QED
    BY <1>1, SetInvariant, PTL

(***************************************************************************)
(* Every multimap stays ordered by expiration time, so begin() is the next *)
(* event to expire; with the types of what it is made of.                  *)
(***************************************************************************)
THEOREM SetOrdered == Spec => []OrderedSet
  <1>1. IInv => OrderedSet
    BY DEF IInv, OrderedSet
  <1> QED
    BY <1>1, SetInvariant, PTL

(***************************************************************************)
(* No event is lost, held by two threads or in the set twice.              *)
(***************************************************************************)
THEOREM SetHeldOnce == Spec => []HeldOnce
  <1>1. IInv => HeldOnce
    BY DEF IInv
  <1> QED
    BY <1>1, SetInvariant, PTL

(***************************************************************************)
(* The exit "No events found" of the expiration loop is never taken.       *)
(***************************************************************************)
THEOREM SetLoopNeverFindsEmpty == Spec => []LoopNeverFindsEmpty
  <1>1. IInv => LoopNeverFindsEmpty
    BY DEF IInv, ThreadsOK, ThreadOK, LoopNeverFindsEmpty
  <1> QED
    BY <1>1, SetInvariant, PTL

-----------------------------------------------------------------------------
(***************************************************************************)
(* The return values can be told apart.                                    *)
(***************************************************************************)
LEMMA ReturnsDiffer ==
    /\ Throw # Null
    /\ Void # Null
    /\ \A e, b : Event(e, b) # Null
  <1>1. /\ Throw.outcome = "throw"
        /\ Void.outcome = "void"
        /\ Null.outcome = "null"
        /\ \A e, b : Event(e, b).outcome = "event"
    BY DEF Throw, Void, Null, Event
  <1> QED
    BY <1>1

(***************************************************************************)
(* The front of a multimap is the first of its events to expire.           *)
(***************************************************************************)
LEMMA FrontFacts ==
    ASSUME IInv, NEW d \in Destinations, eventsMultiMap[d] # <<>>
    PROVE  /\ Front(d) \in Events
           /\ IsIn(Front(d), eventsMultiMap[d])
           /\ \A e \in Events : IsIn(e, eventsMultiMap[d]) =>
                    Expiration(Front(d)) <= Expiration(e)
  <1>1. /\ eventsMultiMap[d] \in Seq(Events)
        /\ Len(eventsMultiMap[d]) \in Nat \ {0}
    BY DEF IInv, TypeOK
  <1>2. Front(d) \in Events /\ IsIn(Front(d), eventsMultiMap[d])
    BY <1>1 DEF Front, IsIn
  <1>3. ASSUME NEW e \in Events, IsIn(e, eventsMultiMap[d])
        PROVE  Expiration(Front(d)) <= Expiration(e)
    <2>1. PICK i \in 1..Len(eventsMultiMap[d]) : eventsMultiMap[d][i] = e
      BY <1>3 DEF IsIn
    <2>2. CASE i = 1
      <3>1. e = Front(d) /\ Expiration(e) \in Int
        BY <2>1, <2>2, ExpirationFacts DEF Front, IInv
      <3> QED
        BY <3>1
    <2>3. CASE i > 1
      <3>1. 1 \in 1..Len(eventsMultiMap[d]) /\ 1 < i
        BY <1>1, <2>3
      <3> QED
        BY <2>1, <3>1 DEF Front, IInv, Ordered
    <2> QED
      BY <2>2, <2>3
  <1> QED
    BY <1>2, <1>3

(***************************************************************************)
(* An event is in the set for d exactly when it is in the multimap of d.   *)
(***************************************************************************)
LEMMA InSetFacts ==
    ASSUME IInv, NEW d \in Destinations, NEW e \in Events
    PROVE  IsIn(e, eventsMultiMap[d]) <=>
                owner[e] = InSet /\ event2[e].destination = d
  BY BooksOfInv DEF IInv, Books

(***************************************************************************)
(* Only the thread itself ends its call.                                   *)
(***************************************************************************)
LEMMA OwnStep ==
    ASSUME IInv, Next, NEW t \in Threads, pc[t] # "idle", pc'[t] = "idle"
    PROVE  Acquire(t) \/ Relock(t) \/ TakeFront(t) \/ GiveUp(t)
  <1>1. pc \in [Threads -> Labels]
    BY DEF IInv, TypeOK, Labels
  <1>2. CASE Tick
    BY <1>2 DEF Tick
  <1>3. ASSUME NEW u \in Threads, NEW d \in Destinations, AddDestination(u, d)
        PROVE  FALSE
    BY <1>3 DEF AddDestination
  <1>4. ASSUME NEW u \in Threads, NEW e \in Events, NEW d \in Destinations,
               NEW x \in Time, AddEvent(u, e, d, x)
        PROVE  FALSE
    <2>1. NotifyOne(d) \/ UNCHANGED pc
      BY <1>4 DEF AddEvent
    <2>2. \/ pc'[t] = pc[t]
          \/ pc[t] = "wait" /\ pc'[t] = "relock"
      BY <2>1, NotifyFacts DEF IInv
    <2> QED
      BY <2>2
  <1>5. ASSUME NEW u \in Threads, NEW e \in Events, DeleteEvent(u, e)
        PROVE  FALSE
    BY <1>5 DEF DeleteEvent
  <1>6. ASSUME NEW u \in Threads,
               NEW op \in {"getFirstEvent", "getAndRemoveFirstEvent"},
               NEW d \in Destinations, NEW b \in BOOLEAN, NEW w \in Waits,
               Call(u, op, d, b, w)
        PROVE  FALSE
    BY <1>1, <1>6 DEF Call
  <1>7. ASSUME NEW u \in Threads, WaitTimeout(u) \/ SpuriousWakeUp(u)
        PROVE  FALSE
    BY <1>1, <1>7 DEF WaitTimeout, SpuriousWakeUp, WakeUp
  <1>8. ASSUME NEW u \in Threads, Acquire(u) \/ Relock(u)
        PROVE  u = t
    <2>1. PICK l \in Labels : pc' = [pc EXCEPT ![u] = l]
      BY <1>8 DEF Acquire, Relock, FoundEvent, Finish, Labels
    <2> QED
      BY <1>1, <2>1
  <1>9. ASSUME NEW u \in Threads, TakeFront(u) \/ GiveUp(u)
        PROVE  u = t
    <2>1. pc' = [pc EXCEPT ![u] = "idle"]
      BY <1>9 DEF TakeFront, GiveUp, Finish
    <2> QED
      BY <1>1, <2>1
  <1> QED
    BY <1>2, <1>3, <1>4, <1>5, <1>6, <1>7, <1>8, <1>9, Zenon DEF Next

(***************************************************************************)
(* A blocking consuming call ends with nullptr only after its blocking     *)
(* time and when nothing has expired for its destination.                  *)
(***************************************************************************)
THEOREM SetNullOnlyAfterBlockingTime == Spec => NullOnlyAfterBlockingTime
  <1>1. IInv /\ [Next]_vars =>
            [\A t \in Threads : AnswersNull(t) => BlockedInVain(t)]_vars
    <2> SUFFICES ASSUME IInv, Next, NEW t \in Threads, AnswersNull(t)
                 PROVE  BlockedInVain(t)
      OBVIOUS
    <2> DEFINE d == call[t].destination
               end == Cap(call[t].initialTimePoint + call[t].milliSecondsToBlock)
    <2>2. /\ pc[t] # "idle" /\ pc'[t] = "idle"
          /\ call[t].blocking /\ ret'[t] = Null
      BY DEF AnswersNull
    <2>3. /\ call[t] \in Calls /\ d \in Destinations
          /\ now \in Nat /\ end \in Nat
          /\ ret \in [Threads -> Returns] /\ pc \in [Threads -> Labels]
      <3>1. call[t] \in Calls
        BY <2>2 DEF IInv, TypeOK
      <3>2. Time \subseteq Nat /\ Waits \subseteq Nat
        BY ConstantsAssumption DEF Time
      <3>3. call[t].initialTimePoint \in Nat /\ call[t].milliSecondsToBlock \in Nat
        BY <3>1, <3>2 DEF Calls
      <3>4. end \in Time /\ now \in Time
        BY <3>3, CapFacts DEF IInv, TypeOK
      <3> QED
        BY <3>1, <3>2, <3>4 DEF Calls, IInv, TypeOK, Labels
    <2>4. \A r : Finish(t, r) => r = Null
      BY <2>2, <2>3 DEF Finish, Returned
    <2>5. Acquire(t) \/ Relock(t) \/ TakeFront(t) \/ GiveUp(t)
      BY <2>2, OwnStep
    <2>6. CASE Acquire(t)
      <3>1. ~FoundEvent(t)
        BY <2>2, <2>3, <2>4, ReturnsDiffer DEF FoundEvent
      <3>2. pc' # [pc EXCEPT ![t] = "wait"]
        BY <2>2, <2>3
      <3> QED
        BY <2>2, <2>4, <2>6, <3>1, <3>2, ReturnsDiffer DEF Acquire
    <2>7. CASE Relock(t)
      <3>1. ~FoundEvent(t)
        BY <2>2, <2>3, <2>4, ReturnsDiffer DEF FoundEvent
      <3>2. pc' # [pc EXCEPT ![t] = "wait"]
        BY <2>2, <2>3
      <3>3. now >= call[t].deadline /\ eventsMultiMap[d] = <<>> /\ pc[t] = "relock"
        BY <2>7, <3>1, <3>2 DEF Relock
      <3>4. call[t].deadline >= end /\ call[t].deadline \in Int
        BY <2>3, <3>3 DEF IInv, ThreadsOK, ThreadOK, Calls, Time
      <3>5. now >= end
        BY <2>3, <3>3, <3>4
      <3>6. \A e \in Events : ~IsIn(e, eventsMultiMap[d])
        BY <3>3 DEF IsIn
      <3>7. \A e \in Events : ~(owner[e] = InSet /\ event2[e].destination = d)
        BY <2>3, <3>6, InSetFacts
      <3> QED
        BY <3>5, <3>7 DEF BlockedInVain
    <2>8. CASE TakeFront(t)
      BY <2>4, <2>8, ReturnsDiffer DEF TakeFront
    <2>9. CASE GiveUp(t)
      <3>1. now >= end
        BY <2>2, <2>3, <2>9 DEF GiveUp, Remaining
      <3>2. pc[t] = "loop" /\ now < Expiration(Front(d))
        BY <2>9 DEF GiveUp
      <3>3. eventsMultiMap[d] # <<>>
        BY <3>2 DEF IInv, ThreadsOK, ThreadOK
      <3>4. ASSUME NEW e \in Events, owner[e] = InSet, event2[e].destination = d
            PROVE  now < Expiration(e)
        <4>1. IsIn(e, eventsMultiMap[d])
          BY <2>3, <3>4, InSetFacts
        <4>2. Front(d) \in Events /\ Expiration(Front(d)) <= Expiration(e)
          BY <2>3, <3>3, <4>1, FrontFacts
        <4>3. Expiration(Front(d)) \in Int /\ Expiration(e) \in Int
          BY <4>2, ExpirationFacts DEF IInv
        <4> QED
          BY <2>3, <3>2, <4>2, <4>3
      <3> QED
        BY <3>1, <3>4 DEF BlockedInVain
    <2> QED
      BY <2>5, <2>6, <2>7, <2>8, <2>9
  <1> QED
    BY <1>1, SetInvariant, PTL DEF Spec, NullOnlyAfterBlockingTime

-----------------------------------------------------------------------------
(***************************************************************************)
(* Refinement.  The variables of the deadline queue as the set implements  *)
(* them.                                                                   *)
(***************************************************************************)
PendingOf == [d \in Destinations |-> Pending(d)]

(***************************************************************************)
(* Pending is the set of the events that are in the multimap.              *)
(***************************************************************************)
LEMMA PendingFacts ==
    ASSUME NEW d \in Destinations
    PROVE  /\ \A e : e \in Pending(d) <=> IsIn(e, eventsMultiMap[d])
           /\ \A e : e \in Pending(d)' <=> IsIn(e, eventsMultiMap'[d])
           /\ PendingOf[d] = Pending(d)
           /\ PendingOf'[d] = Pending(d)'
  BY DEF Pending, IsIn, PendingOf

(***************************************************************************)
(* A step that leaves the multimaps and the fields of the events alone     *)
(* changes nothing in the queue but the answers.                           *)
(***************************************************************************)
LEMMA SameQueue ==
    ASSUME UNCHANGED <<eventsMultiMap, event2>>
    PROVE  PendingOf' = PendingOf /\ ExpirationOf' = ExpirationOf
  BY DEF PendingOf, Pending, ExpirationOf, Expiration

(***************************************************************************)
(* The front of a multimap is a first event of the queue.                  *)
(***************************************************************************)
LEMMA FrontIsFirst ==
    ASSUME IInv, NEW d \in Destinations, eventsMultiMap[d] # <<>>
    PROVE  Queue!IsFirst(Front(d), d) /\ Front(d) \in Events
  <1>1. /\ Front(d) \in Events
        /\ IsIn(Front(d), eventsMultiMap[d])
        /\ \A e \in Events : IsIn(e, eventsMultiMap[d]) =>
                    Expiration(Front(d)) <= Expiration(e)
    BY FrontFacts
  <1>2. \A e : e \in PendingOf[d] <=> IsIn(e, eventsMultiMap[d])
    BY PendingFacts
  <1>3. \A e : IsIn(e, eventsMultiMap[d]) => e \in Events
    BY DEF IInv, TypeOK, IsIn
  <1>4. \A e \in Events : ExpirationOf[e] = Expiration(e)
    BY DEF ExpirationOf
  <1>5. /\ Front(d) \in PendingOf[d]
        /\ \A f \in PendingOf[d] : ExpirationOf[Front(d)] <= ExpirationOf[f]
    BY <1>1, <1>2, <1>3, <1>4
  <1> QED
    BY <1>1, <1>5 DEF Queue!IsFirst, PendingOf

(***************************************************************************)
(* The set starts as an empty queue.                                       *)
(***************************************************************************)
LEMMA InitQueue == Init => Queue!Init
  <1> SUFFICES ASSUME Init PROVE Queue!Init
    OBVIOUS
  <1>1. PendingOf = [d \in Destinations |-> {}]
    <2>1. \A d \in Destinations : Pending(d) = {}
      <3>1. eventsMultiMap = [d \in Destinations |-> <<>>]
        BY Zenon DEF Init
      <3> QED
        BY <3>1 DEF Pending
    <2> QED
      BY <2>1 DEF PendingOf
  <1>2. ExpirationOf = [e \in Events |-> 0]
    BY DEF Init, ExpirationOf, Expiration
  <1> QED
    BY <1>1, <1>2, Zenon DEF Init, Queue!Init, Queue!Void, Void, PendingOf

(***************************************************************************)
(* A consuming call that has the mutex and finds an event either peeks at  *)
(* it or goes on unseen.                                                   *)
(***************************************************************************)
LEMMA FoundEventQueue ==
    ASSUME IInv, NEW t \in Threads, NEW d \in Destinations,
           d = call[t].destination, eventsMultiMap[d] # <<>>, FoundEvent(t),
           UNCHANGED <<now, destinations, eventsMultiMap, event2, owner>>
    PROVE  Queue!Peek(t, d, Front(d)) \/ UNCHANGED Queue!vars
  <1>1. PendingOf' = PendingOf /\ ExpirationOf' = ExpirationOf
    BY SameQueue
  <1>2. CASE call[t].op = "getFirstEvent"
    <2>1. Queue!IsFirst(Front(d), d) /\ Front(d) \in Events
      BY FrontIsFirst
    <2>2. ret' = [ret EXCEPT ![t] = Event(Front(d), now >= Expiration(Front(d)))]
      BY <1>2 DEF FoundEvent, Finish, Returned
    <2>3. (now >= Expiration(Front(d))) = (ExpirationOf[Front(d)] <= now)
      <3>1. Expiration(Front(d)) \in Int /\ now \in Int
        BY <2>1, ExpirationFacts DEF IInv, TypeOK, Time
      <3>2. ExpirationOf[Front(d)] = Expiration(Front(d))
        BY <2>1 DEF ExpirationOf
      <3> QED
        BY <3>1, <3>2
    <2>4. Queue!Answer(t, Queue!Event(Front(d), ExpirationOf[Front(d)] <= now))
      BY <2>2, <2>3 DEF Queue!Answer, Queue!Event, Event
    <2> QED
      BY <1>1, <2>1, <2>4 DEF Queue!Peek, PendingOf
  <1>3. CASE call[t].op # "getFirstEvent"
    <2>1. ret' = ret
      BY <1>3 DEF FoundEvent
    <2> QED
      BY <1>1, <2>1 DEF Queue!vars, PendingOf
  <1> QED
    BY <1>2, <1>3

(***************************************************************************)
(* A consuming call that ends with nullptr is told the truth.              *)
(***************************************************************************)
LEMMA NothingQueue ==
    ASSUME IInv, NEW t \in Threads, NEW d \in Destinations, Finish(t, Null),
           eventsMultiMap[d] # <<>> => now < Expiration(Front(d)),
           UNCHANGED <<now, destinations, eventsMultiMap, event2, owner>>
    PROVE  Queue!Nothing(t, d)
  <1>1. PendingOf' = PendingOf /\ ExpirationOf' = ExpirationOf
    BY SameQueue
  <1>2. ASSUME NEW e \in PendingOf[d]
        PROVE  ExpirationOf[e] > now
    <2>1. IsIn(e, eventsMultiMap[d])
      BY PendingFacts
    <2>2. e \in Events /\ eventsMultiMap[d] # <<>>
      BY <2>1 DEF IInv, TypeOK, IsIn
    <2>3. Front(d) \in Events /\ Expiration(Front(d)) <= Expiration(e)
      BY <2>1, <2>2, FrontFacts
    <2>4. /\ Expiration(Front(d)) \in Int /\ Expiration(e) \in Int /\ now \in Int
          /\ ExpirationOf[e] = Expiration(e)
      BY <2>2, <2>3, ExpirationFacts DEF IInv, TypeOK, Time
    <2> QED
      BY <2>2, <2>3, <2>4
  <1>3. Queue!Answer(t, Queue!Null)
    BY DEF Finish, Returned, Queue!Answer, Queue!Null, Null
  <1> QED
    BY <1>1, <1>2, <1>3 DEF Queue!Nothing, PendingOf

(***************************************************************************)
(* addEvent puts an event or is refused.                                   *)
(***************************************************************************)
LEMMA AddEventQueue ==
    ASSUME IInv, NEW t \in Threads, NEW e \in Events, NEW d \in Destinations,
           NEW x \in Time, AddEvent(t, e, d, x)
    PROVE  Queue!Put(t, d, e, x) \/ Queue!PutRefused(t, e, x)
  <1>1. /\ owner[e] # InSet
        /\ now' = now
        /\ event2' = [event2 EXCEPT ![e] = [destination |-> d,
                                            expirationTimePoint |-> x]]
    BY ConstantsAssumption DEF AddEvent
  <1>2. ~Queue!IsPending(e)
    <2>1. \A c \in Destinations : ~IsIn(e, eventsMultiMap[c])
      BY <1>1, InSetFacts
    <2>2. \A c \in Destinations : e \notin PendingOf[c]
      BY <2>1, PendingFacts
    <2> QED
      BY <2>2 DEF Queue!IsPending, PendingOf
  <1>3. ExpirationOf' = [ExpirationOf EXCEPT ![e] = x]
    BY <1>1 DEF IInv, TypeOK, ExpirationOf, Expiration
  <1>4. CASE d \notin destinations
    <2>1. eventsMultiMap' = eventsMultiMap /\ ret' = [ret EXCEPT ![t] = Throw]
      BY <1>4 DEF AddEvent, Returned
    <2>2. PendingOf' = PendingOf
      BY <2>1 DEF PendingOf, Pending
    <2>3. Queue!Answer(t, Queue!Throw)
      BY <2>1 DEF Queue!Answer, Queue!Throw, Throw
    <2> QED
      BY <1>1, <1>2, <1>3, <2>2, <2>3 DEF Queue!PutRefused, PendingOf
  <1>5. CASE d \in destinations
    <2> DEFINE s == eventsMultiMap[d]
               r == eventsMultiMap'[d]
               i == UpperBound(s, ExpirationOf, x)
    <2>1. /\ eventsMultiMap' = [eventsMultiMap EXCEPT ![d] =
                                    InsertAtPosition(s, i, e)]
          /\ ret' = [ret EXCEPT ![t] = Void]
      BY <1>5 DEF AddEvent, Returned
    <2>2. /\ s \in Seq(Events)
          /\ r = InsertAtPosition(s, i, e)
          /\ \A c \in Destinations : c # d => eventsMultiMap'[c] = eventsMultiMap[c]
      BY <2>1 DEF IInv, TypeOK
    <2>3. i \in 1..Len(s) + 1
      <3>1. x \in Int /\ ExpirationOf \in [Events -> Int]
        BY ExpirationFacts DEF IInv, Time
      <3> QED
        BY <2>2, <3>1, UpperBoundFacts
    <2> HIDE DEF i, s, r
    <2>4. /\ IsIn(e, r)
          /\ \A f : IsIn(f, s) => IsIn(f, r)
          /\ \A f : IsIn(f, r) => f = e \/ IsIn(f, s)
      BY <2>2, <2>3, InsertFacts
    <2>5. Pending(d)' = Pending(d) \cup {e}
      BY <2>4, PendingFacts DEF s, r
    <2>6. \A c \in Destinations : c # d => Pending(c)' = Pending(c)
      BY <2>2 DEF Pending
    <2>7. PendingOf' = [PendingOf EXCEPT ![d] = @ \cup {e}]
      BY <2>5, <2>6 DEF PendingOf
    <2>8. Queue!Answer(t, Queue!Void)
      BY <2>1 DEF Queue!Answer, Queue!Void, Void
    <2> QED
      BY <1>1, <1>2, <1>3, <2>7, <2>8 DEF Queue!Put, PendingOf
  <1> QED
    BY <1>4, <1>5

(***************************************************************************)
(* Taking an event out of the multimap of d takes it out of the pool.      *)
(***************************************************************************)
LEMMA ErasePending ==
    ASSUME IInv, NEW d \in Destinations, NEW i \in 1..Len(eventsMultiMap[d]),
           eventsMultiMap' = [eventsMultiMap EXCEPT ![d] = EraseAtPosition(@, i)]
    PROVE  /\ eventsMultiMap[d][i] \in PendingOf[d]
           /\ PendingOf' = [PendingOf EXCEPT ![d] = @ \ {eventsMultiMap[d][i]}]
  <1> DEFINE s == eventsMultiMap[d]
             r == eventsMultiMap'[d]
  <1>1. /\ s \in Seq(Events)
        /\ r = EraseAtPosition(s, i)
        /\ \A c \in Destinations : c # d => eventsMultiMap'[c] = eventsMultiMap[c]
    BY DEF IInv, TypeOK
  <1>2. Distinct(s)
    BY BooksOfInv DEF IInv, Books
  <1>3. IsIn(s[i], s)
    BY DEF IsIn
  <1>4. /\ ~IsIn(s[i], r)
        /\ \A f : IsIn(f, s) /\ f # s[i] => IsIn(f, r)
        /\ \A f : IsIn(f, r) => IsIn(f, s)
    <2> HIDE DEF r
    <2> QED
      BY <1>1, <1>2, EraseFacts
  <1>5. Pending(d)' = Pending(d) \ {s[i]}
    BY <1>4, PendingFacts
  <1>6. \A c \in Destinations : c # d => Pending(c)' = Pending(c)
    BY <1>1 DEF Pending
  <1>7. PendingOf' = [PendingOf EXCEPT ![d] = @ \ {s[i]}]
    BY <1>5, <1>6 DEF PendingOf
  <1> QED
    BY <1>3, <1>7, PendingFacts

(***************************************************************************)
(* deleteEvent cancels a pending event or fails.                           *)
(***************************************************************************)
LEMMA DeleteEventQueue ==
    ASSUME IInv, NEW t \in Threads, NEW e \in Events, DeleteEvent(t, e)
    PROVE  \/ \E d \in Destinations : Queue!Cancel(t, d, e)
           \/ Queue!Fail(t)
  <1> DEFINE d == event2[e].destination
  <1>1. now' = now /\ ExpirationOf' = ExpirationOf
    BY DEF DeleteEvent, ExpirationOf, Expiration
  <1>2. CASE d \in destinations /\ IsIn(e, eventsMultiMap[d])
    <2> DEFINE i == PositionOf(e, eventsMultiMap[d])
    <2>1. i \in 1..Len(eventsMultiMap[d]) /\ eventsMultiMap[d][i] = e
      BY <1>2, PositionFacts
    <2>2. /\ eventsMultiMap' = [eventsMultiMap EXCEPT ![d] = EraseAtPosition(@, i)]
          /\ ret' = [ret EXCEPT ![t] = Void]
      BY <1>2 DEF DeleteEvent, Returned
    <2>3. d \in Destinations
      BY <1>2 DEF IInv, TypeOK
    <2> HIDE DEF i
    <2>4. e \in PendingOf[d] /\ PendingOf' = [PendingOf EXCEPT ![d] = @ \ {e}]
      BY <2>1, <2>2, <2>3, ErasePending
    <2>5. Queue!Answer(t, Queue!Void)
      BY <2>2 DEF Queue!Answer, Queue!Void, Void
    <2> QED
      BY <1>1, <2>3, <2>4, <2>5 DEF Queue!Cancel, PendingOf
  <1>3. CASE ~(d \in destinations /\ IsIn(e, eventsMultiMap[d]))
    <2>1. eventsMultiMap' = eventsMultiMap /\ ret' = [ret EXCEPT ![t] = Throw]
      BY <1>3 DEF DeleteEvent, Returned
    <2>2. PendingOf' = PendingOf
      BY <2>1 DEF PendingOf, Pending
    <2>3. Queue!Answer(t, Queue!Throw)
      BY <2>1 DEF Queue!Answer, Queue!Throw, Throw
    <2> QED
      BY <1>1, <2>2, <2>3 DEF Queue!Fail, PendingOf
  <1> QED
    BY <1>2, <1>3

(***************************************************************************)
(* The expiration loop delivers the first event when it is due.            *)
(***************************************************************************)
LEMMA TakeFrontQueue ==
    ASSUME IInv, NEW t \in Threads, TakeFront(t)
    PROVE  \E d \in Destinations, e \in Events : Queue!Deliver(t, d, e)
  <1> DEFINE d == call[t].destination
             e == eventsMultiMap[d][1]
  <1>1. /\ pc[t] = "loop"
        /\ now >= Expiration(e)
        /\ eventsMultiMap' = [eventsMultiMap EXCEPT ![d] = EraseAtPosition(@, 1)]
        /\ ret' = [ret EXCEPT ![t] = Event(e, TRUE)]
        /\ now' = now
        /\ event2' = event2
    BY DEF TakeFront, Finish, Returned, Front
  <1>2. /\ d \in Destinations
        /\ eventsMultiMap[d] # <<>>
        /\ 1 \in 1..Len(eventsMultiMap[d])
    BY <1>1 DEF IInv, TypeOK, ThreadsOK, ThreadOK
  <1>3. Queue!IsFirst(e, d) /\ e \in Events
    BY <1>2, FrontIsFirst DEF Front
  <1>4. PendingOf' = [PendingOf EXCEPT ![d] = @ \ {e}]
    BY <1>1, <1>2, ErasePending
  <1>5. ExpirationOf[e] <= now
    <2>1. Expiration(e) \in Int /\ now \in Int /\ ExpirationOf[e] = Expiration(e)
      BY <1>3, ExpirationFacts DEF IInv, TypeOK, Time
    <2> QED
      BY <1>1, <2>1
  <1>6. Queue!Answer(t, Queue!Event(e, TRUE))
    BY <1>1 DEF Queue!Answer, Queue!Event, Event
  <1>7. ExpirationOf' = ExpirationOf
    BY <1>1 DEF ExpirationOf, Expiration
  <1> HIDE DEF d, e
  <1>8. Queue!Deliver(t, d, e)
    BY <1>1, <1>3, <1>4, <1>5, <1>6, <1>7 DEF Queue!Deliver, PendingOf
  <1> QED
    BY <1>2, <1>3, <1>8

(***************************************************************************)
(* MultiEventsSet implements the deadline queue.                           *)
(***************************************************************************)
THEOREM SetImplementsDeadlineQueue == Spec => ImplementsDeadlineQueue
  <1>1. Init => Queue!Init
    BY InitQueue
  <1>2. IInv /\ [Next]_vars => [Queue!Next]_(Queue!vars)
    <2> SUFFICES ASSUME IInv, [Next]_vars
                 PROVE  [Queue!Next]_(Queue!vars)
      OBVIOUS
    <2>1. CASE Tick
      <3>1. PendingOf' = PendingOf /\ ExpirationOf' = ExpirationOf
        BY <2>1, SameQueue DEF Tick
      <3>2. Queue!Pass
        BY <2>1, <3>1 DEF Tick, Queue!Pass, PendingOf
      <3> QED
        BY <3>2 DEF Queue!Next
    <2>2. ASSUME NEW t \in Threads, NEW d \in Destinations, AddDestination(t, d)
          PROVE  Queue!Next
      <3>1. PendingOf' = PendingOf /\ ExpirationOf' = ExpirationOf /\ now' = now
        BY <2>2, SameQueue DEF AddDestination
      <3>2. Queue!Answer(t, Queue!Throw) \/ Queue!Answer(t, Queue!Void)
        BY <2>2 DEF AddDestination, Returned, Queue!Answer, Queue!Throw,
                    Queue!Void, Throw, Void
      <3>3. Queue!Ask(t) \/ Queue!Fail(t)
        BY <3>1, <3>2 DEF Queue!Ask, Queue!Fail, PendingOf
      <3> QED
        BY <3>3 DEF Queue!Next
    <2>3. ASSUME NEW t \in Threads, NEW e \in Events, NEW d \in Destinations,
                 NEW x \in Time, AddEvent(t, e, d, x)
          PROVE  Queue!Next
      <3>1. Queue!Put(t, d, e, x) \/ Queue!PutRefused(t, e, x)
        BY <2>3, AddEventQueue
      <3>2. x \in Queue!Time
        BY DEF Time, Queue!Time
      <3> QED
        BY <3>1, <3>2, Zenon DEF Queue!Next
    <2>4. ASSUME NEW t \in Threads, NEW e \in Events, DeleteEvent(t, e)
          PROVE  Queue!Next
      BY <2>4, DeleteEventQueue, Zenon DEF Queue!Next
    <2>5. ASSUME NEW t \in Threads,
                 NEW op \in {"getFirstEvent", "getAndRemoveFirstEvent"},
                 NEW d \in Destinations, NEW b \in BOOLEAN, NEW w \in Waits,
                 Call(t, op, d, b, w)
          PROVE  Queue!Next
      <3>1. PendingOf' = PendingOf /\ ExpirationOf' = ExpirationOf /\ now' = now
        BY <2>5, SameQueue DEF Call
      <3>2. Queue!Answer(t, Queue!Void)
        BY <2>5 DEF Call, Returned, Queue!Answer, Queue!Void, Void
      <3>3. Queue!Ask(t)
        BY <3>1, <3>2 DEF Queue!Ask, PendingOf
      <3> QED
        BY <3>3 DEF Queue!Next
    <2>6. ASSUME NEW t \in Threads, Acquire(t) \/ Relock(t)
          PROVE  Queue!Next \/ UNCHANGED Queue!vars
      <3> DEFINE d == call[t].destination
      <3>1. /\ UNCHANGED <<now, destinations, eventsMultiMap, event2, owner>>
            /\ pc[t] \in {"lock", "relock"}
        BY <2>6 DEF Acquire, Relock
      <3>2. d \in Destinations
        BY <3>1 DEF IInv, TypeOK, Calls
      <3>3. PendingOf' = PendingOf /\ ExpirationOf' = ExpirationOf
        BY <3>1, SameQueue
      <3>4. CASE eventsMultiMap[d] # <<>> /\ FoundEvent(t)
        <4>1. Queue!Peek(t, d, Front(d)) \/ UNCHANGED Queue!vars
          BY <3>1, <3>2, <3>4, FoundEventQueue
        <4>2. Front(d) \in Events
          BY <3>2, <3>4, FrontFacts
        <4> QED
          BY <3>2, <4>1, <4>2, Zenon DEF Queue!Next
      <3>5. CASE eventsMultiMap[d] = <<>> /\ Finish(t, Null)
        <4>1. Queue!Nothing(t, d)
          BY <3>1, <3>2, <3>5, NothingQueue
        <4> QED
          BY <3>2, <4>1, Zenon DEF Queue!Next
      <3>6. CASE Finish(t, Throw)
        <4>1. Queue!Answer(t, Queue!Throw)
          BY <3>6 DEF Finish, Returned, Queue!Answer, Queue!Throw, Throw
        <4>2. Queue!Fail(t)
          BY <3>1, <3>3, <4>1 DEF Queue!Fail, PendingOf
        <4> QED
          BY <4>2 DEF Queue!Next
      <3>7. CASE UNCHANGED ret
        BY <3>1, <3>3, <3>7 DEF Queue!vars, PendingOf
      <3> QED
        BY <2>6, <3>4, <3>5, <3>6, <3>7 DEF Acquire, Relock
    <2>7. ASSUME NEW t \in Threads, WaitTimeout(t) \/ SpuriousWakeUp(t)
          PROVE  UNCHANGED Queue!vars
      <3>1. UNCHANGED <<now, eventsMultiMap, event2, ret>>
        BY <2>7 DEF WaitTimeout, SpuriousWakeUp, WakeUp
      <3>2. PendingOf' = PendingOf /\ ExpirationOf' = ExpirationOf
        BY <3>1, SameQueue
      <3> QED
        BY <3>1, <3>2 DEF Queue!vars, PendingOf
    <2>8. ASSUME NEW t \in Threads, TakeFront(t)
          PROVE  Queue!Next
      BY <2>8, TakeFrontQueue, Zenon DEF Queue!Next
    <2>9. ASSUME NEW t \in Threads, GiveUp(t)
          PROVE  Queue!Next
      <3> DEFINE d == call[t].destination
      <3>1. /\ pc[t] = "loop"
            /\ now < Expiration(Front(d))
            /\ Finish(t, Null)
            /\ UNCHANGED <<now, destinations, eventsMultiMap, event2, owner>>
        BY <2>9 DEF GiveUp
      <3>2. d \in Destinations
        BY <3>1 DEF IInv, TypeOK, Calls
      <3>3. Queue!Nothing(t, d)
        BY <3>1, <3>2, NothingQueue
      <3> QED
        BY <3>2, <3>3, Zenon DEF Queue!Next
    <2>10. CASE UNCHANGED vars
      <3>1. UNCHANGED <<now, eventsMultiMap, event2, ret>>
        BY <2>10 DEF vars
      <3>2. PendingOf' = PendingOf /\ ExpirationOf' = ExpirationOf
        BY <3>1, SameQueue
      <3> QED
        BY <3>1, <3>2 DEF Queue!vars, PendingOf
    <2> QED
      BY <2>1, <2>2, <2>3, <2>4, <2>5, <2>6, <2>7, <2>8, <2>9, <2>10,
         Zenon DEF Next
  <1> QED
    BY <1>1, <1>2, SetInvariant, PTL DEF Spec, ImplementsDeadlineQueue, Queue!Spec
=============================================================================
