----------------------------- MODULE PoolsProofs -----------------------------
(***************************************************************************)
(* Proofs about the pools and what they hold: the events factory, for      *)
(* every number of clients, types, block sizes and limits; the thread      *)
(* object, the sockets and their pools, for every number of sockets,       *)
(* addresses, ports and descriptors; the streams, for every text.          *)
(***************************************************************************)
EXTENDS EventsFactory, SocketsPool, ClientSocketsPool, SocketStream, FiniteSetTheorems,
        SequenceTheorems, WellFoundedInduction, TLAPS

-----------------------------------------------------------------------------
(***************************************************************************)
(* The events factory: its books are right whoever takes and returns.      *)
(***************************************************************************)
\* What getFreeEvent relies on: a known type has a block size, and a type
\* nobody asked for has no events.
Registered ==
    \A ty \in Types :
        /\ ty \in ethmEvents => blockEventsNumber[ty] > 0
        /\ ty \notin ethmEvents => currentEventsNumber[ty] = 0

FactoryInv == TypeOK /\ Registered /\ NoLeakNoDuplicate /\ OneHolder /\ BelowMax

-----------------------------------------------------------------------------
(***************************************************************************)
(* The limits getFreeEvent works with are numbers, and its block is not    *)
(* empty.                                                                  *)
(***************************************************************************)
LEMMA LimitsType ==
    ASSUME TypeOK, Registered, NEW ty \in Types
    PROVE  /\ BlockOf(ty) \in Nat
           /\ BlockOf(ty) > 0
           /\ MaxOf(ty) \in Int
  BY FactoryAssumption DEF TypeOK, Registered, BlockOf, MaxOf

(***************************************************************************)
(* A block that getFreeEvent allocates holds the next numbers, once each.  *)
(***************************************************************************)
LEMMA NewBlockFacts ==
    ASSUME NEW n \in Nat, NEW b \in Nat
    PROVE  /\ NewBlock(n, b) \in Seq(Nat)
           /\ Len(NewBlock(n, b)) = b
           /\ \A i \in 1..b : NewBlock(n, b)[i] = n + i - 1
  <1>1. NewBlock(n, b) \in [1..b -> Nat]
    BY DEF NewBlock
  <1> QED
    BY <1>1 DEF NewBlock

(***************************************************************************)
(* What getFreeEvent takes the front of: a non-empty queue of different    *)
(* events, none of them used, that holds with the used ones every event    *)
(* allocated when the call is over.                                        *)
(***************************************************************************)
LEMMA AvailableFacts ==
    ASSUME FactoryInv, NEW ty \in Types
    PROVE  /\ Available(ty) \in Seq(Nat)
           /\ Available(ty) # <<>>
           /\ CurrentAfter(ty) \in Nat
           /\ \A i, j \in 1..Len(Available(ty)) :
                Available(ty)[i] = Available(ty)[j] => i = j
           /\ \A n : (\E i \in 1..Len(Available(ty)) : Available(ty)[i] = n)
                        <=> n \in 0..CurrentAfter(ty) - 1 /\ n \notin usedEvents[ty]
           /\ usedEvents[ty] \subseteq 0..CurrentAfter(ty) - 1
  <1>1. BlockOf(ty) \in Nat /\ BlockOf(ty) > 0
    BY LimitsType DEF FactoryInv
  <1>2. /\ currentEventsNumber[ty] \in Nat
        /\ freeEvents[ty] \in Seq(Nat)
        /\ usedEvents[ty] \subseteq Nat
    BY DEF FactoryInv, TypeOK
  <1>3. /\ Free(ty) \cup usedEvents[ty] = 0..currentEventsNumber[ty] - 1
        /\ Free(ty) \cap usedEvents[ty] = {}
        /\ \A i, j \in 1..Len(freeEvents[ty]) :
                freeEvents[ty][i] = freeEvents[ty][j] => i = j
    BY DEF FactoryInv, NoLeakNoDuplicate
  <1>4. CASE freeEvents[ty] # <<>>
    <2>1. Available(ty) = freeEvents[ty]
      BY <1>4 DEF Available
    <2>2. CurrentAfter(ty) = currentEventsNumber[ty]
      BY <1>2, <1>4 DEF CurrentAfter
    <2>3. \A n : n \in Free(ty) <=>
                \E i \in 1..Len(freeEvents[ty]) : freeEvents[ty][i] = n
      BY DEF Free
    <2>4. \A n : (\E i \in 1..Len(freeEvents[ty]) : freeEvents[ty][i] = n)
                    <=> /\ n \in 0..currentEventsNumber[ty] - 1
                        /\ n \notin usedEvents[ty]
      BY <1>3, <2>3
    <2> QED
      BY <1>2, <1>3, <1>4, <2>1, <2>2, <2>4
  <1>5. CASE freeEvents[ty] = <<>>
    <2> DEFINE c == currentEventsNumber[ty]
               b == BlockOf(ty)
               A == Available(ty)
               U == usedEvents[ty]
               m == CurrentAfter(ty)
    <2>1. A = NewBlock(c, b)
      BY <1>5 DEF Available
    <2>2. m = c + b
      BY <1>5 DEF CurrentAfter
    <2>3. c \in Nat /\ b \in Nat /\ b > 0
      BY <1>1, <1>2
    <2>4. U = 0..c - 1
      <3>1. Free(ty) = {}
        BY <1>5 DEF Free
      <3> QED
        BY <1>3, <3>1
    <2> HIDE DEF c, b, A, U, m
    <2>5. /\ A \in Seq(Nat)
          /\ Len(A) = b
          /\ \A i \in 1..b : A[i] = c + i - 1
      BY <2>1, <2>3, NewBlockFacts
    <2>6. \A n : (\E i \in 1..Len(A) : A[i] = n) <=> n \in 0..m - 1 /\ n \notin U
      <3>1. ASSUME NEW i \in 1..Len(A)
            PROVE  A[i] \in 0..m - 1 /\ A[i] \notin U
        BY <2>2, <2>3, <2>4, <2>5
      <3>2. ASSUME NEW n \in 0..m - 1, n \notin U
            PROVE  n - c + 1 \in 1..Len(A) /\ A[n - c + 1] = n
        BY <2>2, <2>3, <2>4, <2>5, <3>2
      <3> QED
        BY <3>1, <3>2
    <2>7. A # <<>> /\ m \in Nat /\ U \subseteq 0..m - 1
      BY <2>2, <2>3, <2>4, <2>5
    <2>8. \A i, j \in 1..Len(A) : A[i] = A[j] => i = j
      BY <2>3, <2>5
    <2> QED
      BY <2>5, <2>6, <2>7, <2>8, Zenon DEF A, U, m
  <1> QED
    BY <1>4, <1>5

(***************************************************************************)
(* Taking the head of a queue without repetitions: the tail has all the    *)
(* others, once each.                                                      *)
(***************************************************************************)
LEMMA TailFacts ==
    ASSUME NEW s \in Seq(Nat), s # <<>>,
           \A i, j \in 1..Len(s) : s[i] = s[j] => i = j
    PROVE  /\ Head(s) \in Nat
           /\ Tail(s) \in Seq(Nat)
           /\ Head(s) = s[1]
           /\ Len(Tail(s)) = Len(s) - 1
           /\ \A i \in 1..Len(s) - 1 : Tail(s)[i] = s[i + 1]
           /\ \A i, j \in 1..Len(Tail(s)) : Tail(s)[i] = Tail(s)[j] => i = j
           /\ \A i \in 1..Len(Tail(s)) : Tail(s)[i] # Head(s)
           /\ \A n : (\E i \in 1..Len(Tail(s)) : Tail(s)[i] = n)
                        <=> n # Head(s) /\ \E i \in 1..Len(s) : s[i] = n
  <1>1. /\ Tail(s) \in Seq(Nat) /\ Len(Tail(s)) = Len(s) - 1 /\ Len(s) \in Nat \ {0}
        /\ Head(s) = s[1] /\ s[1] \in Nat
        /\ \A i \in 1..Len(s) - 1 : Tail(s)[i] = s[i + 1]
    OBVIOUS
  <1>2. \A i, j \in 1..Len(Tail(s)) : Tail(s)[i] = Tail(s)[j] => i = j
    BY <1>1
  <1>3. \A i \in 1..Len(Tail(s)) : Tail(s)[i] # Head(s)
    BY <1>1
  <1>4. ASSUME NEW n
        PROVE  (\E i \in 1..Len(Tail(s)) : Tail(s)[i] = n)
                    <=> n # Head(s) /\ \E i \in 1..Len(s) : s[i] = n
    <2>1. ASSUME NEW i \in 1..Len(Tail(s)), Tail(s)[i] = n
          PROVE  n # Head(s) /\ \E j \in 1..Len(s) : s[j] = n
      BY <1>1, <1>3, <2>1
    <2>2. ASSUME NEW i \in 1..Len(s), s[i] = n, n # Head(s)
          PROVE  \E j \in 1..Len(Tail(s)) : Tail(s)[j] = n
      <3>1. i - 1 \in 1..Len(Tail(s)) /\ Tail(s)[i - 1] = n
        BY <1>1, <2>2
      <3> QED
        BY <3>1
    <2> QED
      BY <2>1, <2>2
  <1> QED
    BY <1>1, <1>2, <1>3, <1>4

-----------------------------------------------------------------------------
(***************************************************************************)
(* A new factory has nothing in its books.                                 *)
(***************************************************************************)
LEMMA InitFactoryInv == Init => FactoryInv
  <1> SUFFICES ASSUME Init PROVE FactoryInv
    OBVIOUS
  <1> USE DEF Init
  <1>1. TypeOK
    BY DEF TypeOK, Outcomes
  <1>2. Registered /\ BelowMax
    BY DEF Registered, BelowMax
  <1>3. NoLeakNoDuplicate
    BY DEF NoLeakNoDuplicate, Free
  <1>4. OneHolder
    BY DEF OneHolder
  <1> QED
    BY <1>1, <1>2, <1>3, <1>4 DEF FactoryInv

(***************************************************************************)
(* addEventType adds a type without events, or throws: the books stay right. *)
(***************************************************************************)
LEMMA AddEventTypeKeeps ==
    ASSUME FactoryInv, NEW ty \in Types, NEW b \in Blocks, NEW m \in Maxes,
           AddEventType(ty, b, m)
    PROVE  FactoryInv'
  <1>1. b \in Nat /\ b > 0 /\ m \in Int
    BY FactoryAssumption
  <1>2. UNCHANGED <<currentEventsNumber, freeEvents, usedEvents, held>>
    BY DEF AddEventType
  <1>3. NoLeakNoDuplicate' /\ OneHolder'
    BY <1>2 DEF FactoryInv, NoLeakNoDuplicate, OneHolder, Free
  <1>4. CASE ty \in ethmEvents
    <2>1. UNCHANGED <<ethmEvents, blockEventsNumber, maxEventsNumberToBeAllocated>>
      BY <1>4 DEF AddEventType, limits
    <2>2. last' \in Outcomes
      BY <1>4 DEF AddEventType, Done, Outcomes
    <2>3. TypeOK'
      BY <1>2, <2>1, <2>2 DEF FactoryInv, TypeOK
    <2> QED
      BY <1>2, <1>3, <2>1, <2>3 DEF FactoryInv, Registered, BelowMax
  <1>5. CASE ty \notin ethmEvents
    <2>1. /\ ethmEvents' = ethmEvents \cup {ty}
          /\ blockEventsNumber' = [blockEventsNumber EXCEPT ![ty] = b]
          /\ maxEventsNumberToBeAllocated' =
                [maxEventsNumberToBeAllocated EXCEPT ![ty] = m]
      BY <1>5 DEF AddEventType
    <2>2. last' \in Outcomes
      BY <1>5 DEF AddEventType, Done, Outcomes
    <2>3. TypeOK'
      BY <1>1, <1>2, <2>1, <2>2 DEF FactoryInv, TypeOK
    <2>4. Registered'
      BY <1>1, <1>2, <2>1 DEF FactoryInv, TypeOK, Registered
    <2>5. BelowMax'
      BY <1>2, <1>5, <2>1 DEF FactoryInv, TypeOK, Registered, BelowMax
    <2> QED
      BY <1>3, <2>3, <2>4, <2>5 DEF FactoryInv
  <1> QED
    BY <1>4, <1>5

(***************************************************************************)
(* getFreeEvent moves one event from the free queue, which it fills with a *)
(* block if it was empty, to the used events and into the hands of its     *)
(* client.                                                                 *)
(***************************************************************************)
LEMMA GetFreeEventKeeps ==
    ASSUME FactoryInv, NEW c \in Clients, NEW ty \in Types, GetFreeEvent(c, ty)
    PROVE  FactoryInv'
  <1> DEFINE A == Available(ty)
             h == Head(A)
  <1>1. /\ BlockOf(ty) \in Nat
        /\ BlockOf(ty) > 0
        /\ MaxOf(ty) \in Int
    BY LimitsType DEF FactoryInv
  <1>2. /\ ethmEvents' = ethmEvents \cup {ty}
        /\ blockEventsNumber' = [blockEventsNumber EXCEPT ![ty] = BlockOf(ty)]
        /\ maxEventsNumberToBeAllocated' =
                [maxEventsNumberToBeAllocated EXCEPT ![ty] = MaxOf(ty)]
    BY DEF GetFreeEvent
  <1>3. CASE Exhausted(ty)
    <2>1. /\ UNCHANGED <<currentEventsNumber, freeEvents, usedEvents, held>>
          /\ Done(ty, "exhausted")
      BY <1>3 DEF GetFreeEvent
    <2>2. TypeOK'
      BY <1>1, <1>2, <2>1 DEF FactoryInv, TypeOK, Done, Outcomes
    <2>3. Registered'
      BY <1>1, <1>2, <2>1 DEF FactoryInv, TypeOK, Registered
    <2>4. BelowMax'
      BY <1>1, <1>2, <2>1 DEF FactoryInv, TypeOK, Registered, BelowMax, MaxOf
    <2>5. NoLeakNoDuplicate' /\ OneHolder'
      BY <2>1 DEF FactoryInv, NoLeakNoDuplicate, OneHolder, Free
    <2> QED
      BY <2>2, <2>3, <2>4, <2>5 DEF FactoryInv
  <1>4. CASE ~Exhausted(ty)
    <2>1. /\ currentEventsNumber' =
                [currentEventsNumber EXCEPT ![ty] = CurrentAfter(ty)]
          /\ freeEvents' = [freeEvents EXCEPT ![ty] = Tail(A)]
          /\ usedEvents' = [usedEvents EXCEPT ![ty] = @ \cup {h}]
          /\ held' = [held EXCEPT ![c][ty] = @ \cup {h}]
          /\ Done(ty, "event")
      BY <1>4 DEF GetFreeEvent
    <2>2. /\ A \in Seq(Nat)
          /\ A # <<>>
          /\ CurrentAfter(ty) \in Nat
          /\ \A i, j \in 1..Len(A) : A[i] = A[j] => i = j
          /\ \A n : (\E i \in 1..Len(A) : A[i] = n)
                        <=> n \in 0..CurrentAfter(ty) - 1 /\ n \notin usedEvents[ty]
          /\ usedEvents[ty] \subseteq 0..CurrentAfter(ty) - 1
      BY AvailableFacts
    <2> HIDE DEF A
    <2>3. /\ h \in Nat
          /\ Tail(A) \in Seq(Nat)
          /\ \A i, j \in 1..Len(Tail(A)) : Tail(A)[i] = Tail(A)[j] => i = j
          /\ \A n : (\E i \in 1..Len(Tail(A)) : Tail(A)[i] = n)
                        <=> n # h /\ \E i \in 1..Len(A) : A[i] = n
      BY <2>2, TailFacts
    <2>4. h \in 0..CurrentAfter(ty) - 1 /\ h \notin usedEvents[ty]
      <3>1. h = A[1] /\ 1 \in 1..Len(A)
        BY <2>2
      <3> QED
        BY <2>2, <3>1
    <2> HIDE DEF h
    <2>5. TypeOK'
      <3>1. /\ ethmEvents' \subseteq Types
            /\ blockEventsNumber' \in [Types -> Nat]
            /\ maxEventsNumberToBeAllocated' \in [Types -> Int]
            /\ currentEventsNumber' \in [Types -> Nat]
            /\ usedEvents' \in [Types -> SUBSET Nat]
        BY <1>1, <1>2, <2>1, <2>2, <2>3 DEF FactoryInv, TypeOK
      <3>2. freeEvents' \in [Types -> Seq(Nat)]
        BY <2>1, <2>3 DEF FactoryInv, TypeOK
      <3>3. held' \in [Clients -> [Types -> SUBSET Nat]]
        BY <2>1, <2>3 DEF FactoryInv, TypeOK
      <3>4. last' \in Outcomes
        BY <2>1 DEF Done, Outcomes
      <3> QED
        BY <3>1, <3>2, <3>3, <3>4 DEF TypeOK
    <2>6. Registered'
      BY <1>1, <1>2, <2>1 DEF FactoryInv, TypeOK, Registered
    <2>7. BelowMax'
      <3>1. ASSUME NEW u \in Types, u # ty
            PROVE  currentEventsNumber'[u] > 0 =>
                        currentEventsNumber'[u] <= maxEventsNumberToBeAllocated'[u]
        BY <1>2, <2>1, <3>1 DEF FactoryInv, TypeOK, BelowMax
      <3>2. currentEventsNumber'[ty] > 0 =>
                currentEventsNumber'[ty] <= maxEventsNumberToBeAllocated'[ty]
        <4>1. /\ currentEventsNumber'[ty] = CurrentAfter(ty)
              /\ maxEventsNumberToBeAllocated'[ty] = MaxOf(ty)
              /\ currentEventsNumber[ty] \in Nat
          BY <1>2, <2>1 DEF FactoryInv, TypeOK
        <4>2. CASE freeEvents[ty] = <<>>
          BY <1>1, <1>4, <4>1, <4>2 DEF Exhausted, CurrentAfter
        <4>3. CASE freeEvents[ty] # <<>>
          BY <1>1, <4>1, <4>3
            DEF CurrentAfter, FactoryInv, BelowMax, Registered, MaxOf
        <4> QED
          BY <4>2, <4>3
      <3> QED
        BY <3>1, <3>2 DEF BelowMax
    <2>8. NoLeakNoDuplicate'
      <3>1. ASSUME NEW u \in Types, u # ty
            PROVE  /\ Free(u)' \cup usedEvents'[u] = 0..currentEventsNumber'[u] - 1
                   /\ Free(u)' \cap usedEvents'[u] = {}
                   /\ \A i, j \in 1..Len(freeEvents'[u]) :
                            freeEvents'[u][i] = freeEvents'[u][j] => i = j
        <4>1. /\ freeEvents'[u] = freeEvents[u]
              /\ usedEvents'[u] = usedEvents[u]
              /\ currentEventsNumber'[u] = currentEventsNumber[u]
          BY <2>1, <3>1 DEF FactoryInv, TypeOK
        <4>2. Free(u)' = Free(u)
          BY <4>1 DEF Free
        <4> QED
          BY <4>1, <4>2 DEF FactoryInv, NoLeakNoDuplicate
      <3>2. /\ freeEvents'[ty] = Tail(A)
            /\ usedEvents'[ty] = usedEvents[ty] \cup {h}
            /\ currentEventsNumber'[ty] = CurrentAfter(ty)
        BY <2>1 DEF FactoryInv, TypeOK
      <3>3. \A n : n \in Free(ty)' <=> \E i \in 1..Len(Tail(A)) : Tail(A)[i] = n
        BY <3>2 DEF Free
      <3>4. \A n : n \in Free(ty)' <=> /\ n # h
                                       /\ n \in 0..CurrentAfter(ty) - 1
                                       /\ n \notin usedEvents[ty]
        BY <2>2, <2>3, <3>3
      <3>5. /\ Free(ty)' \cup usedEvents'[ty] = 0..currentEventsNumber'[ty] - 1
            /\ Free(ty)' \cap usedEvents'[ty] = {}
        BY <2>2, <2>4, <3>2, <3>4
      <3>6. \A i, j \in 1..Len(freeEvents'[ty]) :
                freeEvents'[ty][i] = freeEvents'[ty][j] => i = j
        BY <2>3, <3>2
      <3> SUFFICES ASSUME NEW u \in Types
                   PROVE  NoLeakNoDuplicate!(u)'
        BY DEF NoLeakNoDuplicate
      <3> QED
        BY <3>1, <3>5, <3>6
    <2>9. OneHolder'
      <3>1. \A cc \in Clients, u \in Types :
                held'[cc][u] = IF cc = c /\ u = ty THEN held[cc][u] \cup {h}
                                                 ELSE held[cc][u]
        BY <2>1 DEF FactoryInv, TypeOK
      <3>2. \A u \in Types : usedEvents'[u] = IF u = ty THEN usedEvents[u] \cup {h}
                                                      ELSE usedEvents[u]
        BY <2>1 DEF FactoryInv, TypeOK
      <3>3. ASSUME NEW u \in Types, NEW n \in usedEvents'[u]
            PROVE  \E cc \in Clients : n \in held'[cc][u]
        <4>1. CASE n \in usedEvents[u]
          <5>1. PICK cc \in Clients : n \in held[cc][u]
            BY <4>1 DEF FactoryInv, OneHolder
          <5> QED
            BY <3>1, <5>1
        <4>2. CASE u = ty /\ n = h
          BY <3>1, <4>2
        <4> QED
          BY <3>2, <4>1, <4>2
      <3>4. ASSUME NEW u \in Types, NEW cc \in Clients
            PROVE  held'[cc][u] \subseteq usedEvents'[u]
        <4>1. held[cc][u] \subseteq usedEvents[u]
          BY DEF FactoryInv, OneHolder
        <4> QED
          BY <3>1, <3>2, <4>1
      <3>5. ASSUME NEW u \in Types, NEW cc \in Clients, NEW d \in Clients, cc # d
            PROVE  held'[cc][u] \cap held'[d][u] = {}
        <4>1. /\ held[cc][u] \subseteq usedEvents[u]
              /\ held[d][u] \subseteq usedEvents[u]
              /\ held[cc][u] \cap held[d][u] = {}
          BY <3>5 DEF FactoryInv, OneHolder
        <4>2. u = ty => h \notin held[cc][u] /\ h \notin held[d][u]
          BY <2>4, <4>1
        <4>3. CASE cc = c
          BY <3>1, <3>5, <4>1, <4>2, <4>3
        <4>4. CASE d = c
          BY <3>1, <3>5, <4>1, <4>2, <4>4
        <4>5. CASE cc # c /\ d # c
          BY <3>1, <4>1, <4>5
        <4> QED
          BY <4>3, <4>4, <4>5
      <3> QED
        BY <3>3, <3>4, <3>5 DEF OneHolder
    <2> QED
      BY <2>5, <2>6, <2>7, <2>8, <2>9 DEF FactoryInv
  <1> QED
    BY <1>3, <1>4

(***************************************************************************)
(* releaseEvent moves a used event back to the free queue, and throws for any *)
(* other.                                                                  *)
(***************************************************************************)
LEMMA ReleaseEventKeeps ==
    ASSUME FactoryInv, NEW c \in Clients, NEW ty \in Types,
           NEW n \in 0..currentEventsNumber[ty], ReleaseEvent(c, ty, n)
    PROVE  FactoryInv'
  <1>1. /\ UNCHANGED <<ethmEvents, blockEventsNumber,
                       maxEventsNumberToBeAllocated, currentEventsNumber>>
        /\ n \in Nat
    BY DEF ReleaseEvent, limits, FactoryInv, TypeOK
  <1>2. Registered' /\ BelowMax'
    BY <1>1 DEF FactoryInv, Registered, BelowMax
  <1>3. last' \in Outcomes
    BY DEF ReleaseEvent, Done, Outcomes
  <1>4. CASE ~(ty \in ethmEvents /\ n \in usedEvents[ty])
    <2>1. UNCHANGED <<freeEvents, usedEvents, held>>
      BY <1>4 DEF ReleaseEvent
    <2>2. TypeOK'
      BY <1>1, <1>3, <2>1 DEF FactoryInv, TypeOK
    <2>3. NoLeakNoDuplicate' /\ OneHolder'
      BY <1>1, <2>1 DEF FactoryInv, NoLeakNoDuplicate, OneHolder, Free
    <2> QED
      BY <1>2, <2>2, <2>3 DEF FactoryInv
  <1>5. CASE ty \in ethmEvents /\ n \in usedEvents[ty]
    <2>1. /\ freeEvents' = [freeEvents EXCEPT ![ty] = Append(@, n)]
          /\ usedEvents' = [usedEvents EXCEPT ![ty] = @ \ {n}]
          /\ held' = [held EXCEPT ![c][ty] = @ \ {n}]
      BY <1>5 DEF ReleaseEvent
    <2>2. n \in held[c][ty]
      BY <1>5 DEF ReleaseEvent, Releasable
    <2>3. TypeOK'
      <3>1. /\ freeEvents' \in [Types -> Seq(Nat)]
            /\ usedEvents' \in [Types -> SUBSET Nat]
        BY <1>1, <2>1 DEF FactoryInv, TypeOK
      <3>2. held' \in [Clients -> [Types -> SUBSET Nat]]
        BY <2>1 DEF FactoryInv, TypeOK
      <3> QED
        BY <1>1, <1>3, <3>1, <3>2 DEF FactoryInv, TypeOK
    <2>4. NoLeakNoDuplicate'
      <3>1. ASSUME NEW u \in Types, u # ty
            PROVE  NoLeakNoDuplicate!(u)'
        <4>1. /\ freeEvents'[u] = freeEvents[u]
              /\ usedEvents'[u] = usedEvents[u]
              /\ currentEventsNumber'[u] = currentEventsNumber[u]
          BY <1>1, <2>1, <3>1 DEF FactoryInv, TypeOK
        <4>2. Free(u)' = Free(u)
          BY <4>1 DEF Free
        <4> QED
          BY <4>1, <4>2 DEF FactoryInv, NoLeakNoDuplicate
      <3>2. NoLeakNoDuplicate!(ty)'
        <4> DEFINE F == freeEvents[ty]
        <4>1. F \in Seq(Nat) /\ n \in Nat
          BY <1>1 DEF FactoryInv, TypeOK
        <4>2. /\ Free(ty) \cup usedEvents[ty] = 0..currentEventsNumber[ty] - 1
              /\ Free(ty) \cap usedEvents[ty] = {}
              /\ \A i, j \in 1..Len(F) : F[i] = F[j] => i = j
          BY DEF FactoryInv, NoLeakNoDuplicate
        <4>3. /\ freeEvents'[ty] = Append(F, n)
              /\ usedEvents'[ty] = usedEvents[ty] \ {n}
              /\ currentEventsNumber'[ty] = currentEventsNumber[ty]
          BY <1>1, <2>1 DEF FactoryInv, TypeOK
        <4>4. Free(ty) = {F[i] : i \in 1..Len(F)}
          BY DEF Free
        <4>5. \A i \in 1..Len(F) : F[i] # n
          BY <1>5, <4>2, <4>4
        <4> HIDE DEF F
        <4>6. /\ Len(Append(F, n)) = Len(F) + 1
              /\ Len(F) \in Nat
              /\ Append(F, n)[Len(F) + 1] = n
              /\ \A i \in 1..Len(F) : Append(F, n)[i] = F[i]
          BY <4>1
        <4>7. Free(ty)' = Free(ty) \cup {n}
          <5>1. Free(ty)' = {Append(F, n)[i] : i \in 1..Len(Append(F, n))}
            BY <4>3 DEF Free
          <5>2. 1..Len(Append(F, n)) = 1..Len(F) \cup {Len(F) + 1}
            BY <4>6
          <5> QED
            BY <4>4, <4>6, <5>1, <5>2
        <4>8. \A i, j \in 1..Len(Append(F, n)) :
                    Append(F, n)[i] = Append(F, n)[j] => i = j
          BY <4>2, <4>5, <4>6 DEF F
        <4>9. /\ Free(ty)' \cup usedEvents'[ty] = 0..currentEventsNumber'[ty] - 1
              /\ Free(ty)' \cap usedEvents'[ty] = {}
          BY <1>5, <4>2, <4>3, <4>7
        <4> QED
          BY <4>3, <4>8, <4>9
      <3> QED
        BY <3>1, <3>2 DEF NoLeakNoDuplicate
    <2>5. OneHolder'
      <3>1. \A cc \in Clients, u \in Types :
                held'[cc][u] = IF cc = c /\ u = ty THEN held[cc][u] \ {n}
                                                 ELSE held[cc][u]
        BY <2>1 DEF FactoryInv, TypeOK
      <3>2. \A u \in Types : usedEvents'[u] = IF u = ty THEN usedEvents[u] \ {n}
                                                      ELSE usedEvents[u]
        BY <2>1 DEF FactoryInv, TypeOK
      <3>3. ASSUME NEW u \in Types, NEW k \in usedEvents'[u]
            PROVE  \E cc \in Clients : k \in held'[cc][u]
        <4>1. k \in usedEvents[u] /\ (u = ty => k # n)
          BY <3>2, <3>3
        <4>2. PICK cc \in Clients : k \in held[cc][u]
          BY <4>1 DEF FactoryInv, OneHolder
        <4> QED
          BY <3>1, <4>1, <4>2
      <3>4. ASSUME NEW u \in Types, NEW cc \in Clients
            PROVE  held'[cc][u] \subseteq usedEvents'[u]
        <4>1. /\ held[cc][u] \subseteq usedEvents[u]
              /\ cc # c => held[cc][u] \cap held[c][u] = {}
          BY DEF FactoryInv, OneHolder
        <4> QED
          BY <2>2, <3>1, <3>2, <4>1
      <3>5. ASSUME NEW u \in Types, NEW cc \in Clients, NEW d \in Clients, cc # d
            PROVE  held'[cc][u] \cap held'[d][u] = {}
        <4>1. held[cc][u] \cap held[d][u] = {}
          BY <3>5 DEF FactoryInv, OneHolder
        <4> QED
          BY <3>1, <4>1
      <3> QED
        BY <3>3, <3>4, <3>5 DEF OneHolder
    <2> QED
      BY <1>2, <2>3, <2>4, <2>5 DEF FactoryInv
  <1> QED
    BY <1>4, <1>5

(***************************************************************************)
(* The books of the factory are right in every reachable state, for every  *)
(* set of clients and types and all block sizes and limits.                *)
(***************************************************************************)
THEOREM FactoryInvariant == Spec => []FactoryInv
  <1>1. FactoryInv /\ [Next]_vars => FactoryInv'
    <2> SUFFICES ASSUME FactoryInv, [Next]_vars PROVE FactoryInv'
      OBVIOUS
    <2>1. ASSUME NEW ty \in Types, NEW b \in Blocks, NEW m \in Maxes,
                 AddEventType(ty, b, m)
          PROVE  FactoryInv'
      BY <2>1, AddEventTypeKeeps
    <2>2. ASSUME NEW ty \in Types, NEW c \in Clients, GetFreeEvent(c, ty)
          PROVE  FactoryInv'
      BY <2>2, GetFreeEventKeeps
    <2>3. ASSUME NEW ty \in Types, NEW c \in Clients,
                 NEW n \in 0..currentEventsNumber[ty], ReleaseEvent(c, ty, n)
          PROVE  FactoryInv'
      BY <2>3, ReleaseEventKeeps
    <2>4. CASE UNCHANGED vars
      BY <2>4 DEF vars, FactoryInv, TypeOK, Registered, NoLeakNoDuplicate, OneHolder,
                  BelowMax, Free
    <2> QED
      BY <2>1, <2>2, <2>3, <2>4 DEF Next
  <1> QED
    BY <1>1, InitFactoryInv, PTL DEF Spec

(***************************************************************************)
(* getFreeEvent and releaseEvent neither leak nor duplicate an event.      *)
(***************************************************************************)
THEOREM FactoryNoLeakNoDuplicate == Spec => []NoLeakNoDuplicate
  <1>1. FactoryInv => NoLeakNoDuplicate
    BY DEF FactoryInv
  <1> QED
    BY <1>1, FactoryInvariant, PTL

(***************************************************************************)
(* getFreeEvent never gives the same event to two threads.                 *)
(***************************************************************************)
THEOREM FactoryOneHolder == Spec => []OneHolder
  <1>1. FactoryInv => OneHolder
    BY DEF FactoryInv
  <1> QED
    BY <1>1, FactoryInvariant, PTL

(***************************************************************************)
(* getFreeEvent never allocates beyond the maximum of a type.              *)
(***************************************************************************)
THEOREM FactoryWithinMax == Spec => []WithinMax
  <1>1. FactoryInv => WithinMax
    BY DEF FactoryInv, WithinMax
  <1> QED
    BY <1>1, FactoryInvariant, PTL

-----------------------------------------------------------------------------
(***************************************************************************)
(* The thread object and the sockets.                                      *)
(***************************************************************************)
\* No entry of a sequence is there twice.
OnceIn(s) == \A i, j \in 1 .. Len(s) : s[i] = s[j] => i = j

\* A thread object that may be started or finished has no thread.
ThreadOK ==
    /\ ThreadTypeOK
    /\ thStatus \in Idle \cup {"BUILDED"} => thPc \in {"none", "ended"}

-----------------------------------------------------------------------------
(***************************************************************************)
(* The thread object, whatever its owner does while it runs.               *)
(***************************************************************************)
Live == thPc \in {"running", "returned", "notDetached", "leaving"}

\* Who still owes the operating system the join or the detach of the thread.
ThreadOwed ==
    /\ Live => thStatus \in {"STARTED", "DETACHED", "STARTED_AND_JOINED"}
    /\ thStatus = "STARTED_AND_JOINED" /\ thPc # "ended" => thOwner = "pthread_join"
    /\ thStatus = "DETACHED" \/ thOwner = "detach" => thKernel = "released"
    /\ thPc = "leaving" => thKernel = "released" \/ thOwner = "pthread_join"
    /\ thPc = "ended" => thKernel = "released" \/ thOwner = "pthread_join" \/ thStatus = "STARTED"

ThreadInv == ThreadOK /\ ThreadOwed

\* The thread object has no second thread and leaves none behind: each step
\* of the owner, between any two steps of the thread, keeps the status, the
\* place of the thread and what the kernel holds in agreement.
THEOREM ThreadInvariant == ThreadSpec => []ThreadInv
  <1> USE DEF ThreadInv, ThreadOK, ThreadTypeOK, ThreadOwed, Live, Idle, ThreadStatuses
  <1>1. ThreadInit => ThreadInv
    BY ThreadAssumption DEF ThreadInit
  <1>2. ThreadInv /\ [ThreadNext]_threadVars => ThreadInv'
    <2> SUFFICES ASSUME ThreadInv, [ThreadNext]_threadVars PROVE ThreadInv'
      OBVIOUS
    <2>1. CASE InitThread
      BY <2>1 DEF InitThread, OwnerFree
    <2>2. CASE FinishThread
      BY <2>2 DEF FinishThread, OwnerFree
    <2>3. ASSUME NEW at \in Attributes, SetAttribute(at) PROVE ThreadInv'
      BY <2>3 DEF SetAttribute, OwnerFree
    <2>4. ASSUME NEW d \in BOOLEAN, StartThread(d) PROVE ThreadInv'
      BY <2>4, ThreadAssumption DEF StartThread, OwnerFree
    <2>5. CASE JoinChecks
      BY <2>5 DEF JoinChecks, OwnerFree
    <2>6. CASE JoinMarks
      BY <2>6 DEF JoinMarks
    <2>7. CASE JoinWaits
      BY <2>7 DEF JoinWaits
    <2>8. CASE DetachChecks
      BY <2>8 DEF DetachChecks, OwnerFree
    <2>9. CASE DetachMarks
      BY <2>9 DEF DetachMarks
    <2>10. CASE CancelThread
      BY <2>10 DEF CancelThread
    <2>11. CASE RunReturns
      BY <2>11 DEF RunReturns
    <2>12. CASE EndDetached
      BY <2>12 DEF EndDetached
    <2>13. CASE EndReadsStatus
      BY <2>13 DEF EndReadsStatus
    <2>14. CASE DetachItself
      BY <2>14 DEF DetachItself
    <2>15. CASE EndRun
      BY <2>15 DEF EndRun
    <2>16. CASE UNCHANGED threadVars
      BY <2>16 DEF threadVars
    <2> QED
      BY <2>1, <2>2, <2>3, <2>4, <2>5, <2>6, <2>7, <2>8, <2>9, <2>10, <2>11, <2>12, <2>13, <2>14, <2>15, <2>16,
         ThreadAssumption
      DEF ThreadNext, OwnerNext, joinThread, detachThread, runFunction, SetPriority, SetInheritScheduling,
          SetSchedulingPolicy, SetStackSize
  <1> QED
    BY <1>1, <1>2, PTL DEF ThreadSpec

\* Once join and detach are over the kernel keeps nothing of a thread that
\* has ended: each is joined, detached by its owner or detached by itself.
THEOREM ThreadsAreReleased == ThreadSpec => []ThreadsReleased
  <1>1. ThreadInv => ThreadsReleased
    BY DEF ThreadInv, ThreadOK, ThreadTypeOK, ThreadOwed, ThreadsReleased
  <1> QED
    BY <1>1, ThreadInvariant, PTL

\* start never gives the object a second thread.
THEOREM OneThread == ThreadSpec => OneThreadPerObject
  <1>1. ThreadInv /\ [ThreadNext]_threadVars => [thRuns' > thRuns => thPc \in {"none", "ended"}]_threadVars
    <2> SUFFICES ASSUME ThreadInv, ThreadNext, thRuns' > thRuns PROVE thPc \in {"none", "ended"}
      OBVIOUS
    <2>1. thRuns \in Nat
      BY ThreadAssumption DEF ThreadInv, ThreadOK, ThreadTypeOK
    <2>2. thRuns' # thRuns
      BY <2>1
    <2>3. PICK d \in BOOLEAN : StartThread(d)
      BY <2>2 DEF ThreadNext, OwnerNext, InitThread, FinishThread, SetPriority, SetInheritScheduling,
                  SetSchedulingPolicy, SetStackSize, SetAttribute, joinThread, JoinChecks, JoinMarks, JoinWaits,
                  detachThread, DetachChecks, DetachMarks, CancelThread, RunReturns, runFunction, EndDetached,
                  EndReadsStatus, DetachItself, EndRun
    <2> QED
      BY <2>3 DEF StartThread, ThreadInv, ThreadOK
  <1> QED
    BY <1>1, ThreadInvariant, PTL DEF ThreadSpec, OneThreadPerObject

-----------------------------------------------------------------------------
(***************************************************************************)
(* The polled pool.  Every info of an initialized pool is free or          *)
(* describes one member, and the updates of a scan go to members, whatever *)
(* the other threads do to the pool between two checks and the updates do  *)
(* to it within one.                                                       *)
(***************************************************************************)
\* The poll ends within the period, counted from its first call.
PollOK ==
    /\ spPoll \in [elapsed : Nat, called : Nat, left : Nat]
    /\ spPoll.elapsed <= spPoll.called + spPoll.left
    /\ spPoll.called + spPoll.left <= PollTime

TableTypes ==
    /\ spStatus \in {"BUILDED", "INITIALIZED"}
    /\ spInfo \in [Infos -> [fd : PoolSockets \cup {NoFd}, slot : Slots]]
    /\ spFree \in Seq(Infos)
    /\ Members \subseteq PoolSockets
    /\ IsFiniteSet(Members)
    /\ \A s \in Members : spByFd[s] \in Infos
    /\ \A q \in DOMAIN spByPort : spByPort[q] \in Infos
    /\ spSlots \in [Slots -> [fd : PoolSockets \cup {NoFd}, revents : BOOLEAN]]

Held(i) == \E s \in Members : spByFd[s] = i
IsFree(i) == \E k \in 1 .. Len(spFree) : spFree[k] = i

\* The infos in use are those of the members, the others are free.
InfosOK ==
    /\ \A s \in Members : spInfo[spByFd[s]].fd = s
    /\ OnceIn(spFree)
    /\ \A i \in Infos : ~(Held(i) /\ IsFree(i))
    /\ spStatus = "INITIALIZED" =>
         /\ \A i \in Infos : Held(i) \/ IsFree(i)
         /\ PoolSize + Len(spFree) = ulMaxSocketsNumber
    /\ spStatus = "BUILDED" => Members = {} /\ spFree = <<>> /\ DOMAIN spByPort = {}

\* The two hash maps lead to the same infos.
PortsOK ==
    /\ \A s \in Members : LocalPort[s] # NoPort =>
         LocalPort[s] \in DOMAIN spByPort /\ spByPort[LocalPort[s]] = spByFd[s]
    /\ \A q \in DOMAIN spByPort :
         q # NoPort /\ \E s \in Members : LocalPort[s] = q /\ spByPort[q] = spByFd[s]

TablesOK == TableTypes /\ InfosOK /\ PortsOK

RunTypes ==
    /\ spShutdown \in BOOLEAN /\ spMutex \in BOOLEAN /\ spCancels \in BOOLEAN
    /\ spPc \in {"out", "begins", "check", "poll", "scan", "unlock", "sleep"}
    /\ spScan \subseteq Members
    /\ spUpdates \in Seq(Infos)
    /\ spReady \subseteq Members

\* The thread of the pool exists while run does, and holds the mutex from the
\* poll to the end of the check; the updates live in the scan only.
ControlOK ==
    /\ (spPc # "out") <=> (thPc = "running")
    /\ spPc # "out" => spStatus = "INITIALIZED"
    /\ spPc \in {"poll", "scan", "unlock"} => spMutex
    /\ spPc # "scan" => spScan = {} /\ spUpdates = <<>>

\* An update is the info of a member that the scan has seen.
UpdatesOK ==
    /\ OnceIn(spUpdates)
    /\ \A k \in 1 .. Len(spUpdates) : \E s \in Members \ spScan : spUpdates[k] = spByFd[s]

\* The inductive invariant.
PoolInv == ThreadOK /\ PollOK /\ TablesOK /\ RunTypes /\ ControlOK /\ UpdatesOK

-----------------------------------------------------------------------------
(***************************************************************************)
(* The effect of addSocket and of deleteSocket on the tables.              *)
(***************************************************************************)
LEMMA MemberCount ==
    ASSUME TableTypes
    PROVE  PoolSize \in Nat /\ (PoolSize = 0 <=> Members = {})
  BY FS_CardinalityType, FS_EmptySet DEF TableTypes, PoolSize

\* Two members have two infos.
LEMMA OwnInfo ==
    ASSUME InfosOK, NEW s \in Members, NEW t \in Members, spByFd[s] = spByFd[t]
    PROVE  s = t
  BY DEF InfosOK

\* What is left of the tables when only slots are written.
LEMMA TablesKept ==
    ASSUME TablesOK, UNCHANGED <<spStatus, spInfo, spFree, spByFd, spByPort>>,
           spSlots' \in [Slots -> [fd : PoolSockets \cup {NoFd}, revents : BOOLEAN]]
    PROVE  TablesOK' /\ Members' = Members
  BY DEF TablesOK, TableTypes, InfosOK, PortsOK, Members, Held, IsFree, OnceIn, PoolSize

\* The members that were there keep their infos.
LEMMA AddKeeps ==
    ASSUME TablesOK, spStatus = "INITIALIZED", NEW s \in PoolSockets, addSocket(s)
    PROVE  /\ TablesOK' /\ Members \subseteq Members'
           /\ \A t \in Members : spByFd'[t] = spByFd[t]
           /\ spStatus' = spStatus
  <1>0. TableTypes /\ InfosOK /\ PortsOK
    BY DEF TablesOK
  <1>1. PICK i : i = Head(spFree)
    OBVIOUS
  <1>2. PICK n : n = PoolSize
    OBVIOUS
  <1>3. PICK port : port = LocalPort[s]
    OBVIOUS
  <1>4. /\ s \notin Members /\ n < ulMaxSocketsNumber /\ spFree # <<>>
        /\ spSlots' = [spSlots EXCEPT ![n] = [fd |-> s, revents |-> FALSE]]
        /\ spInfo' = [spInfo EXCEPT ![i] = [fd |-> s, slot |-> n]]
        /\ spStatus' = spStatus
    BY <1>1, <1>2 DEF addSocket
  <1>5. i \in Infos /\ 1 \in 1 .. Len(spFree) /\ spFree[1] = i /\ IsFree(i)
    BY <1>0, <1>1, <1>4 DEF TableTypes, IsFree
  <1>6. n \in Slots
    BY <1>0, <1>2, <1>4, MemberCount, PoolAssumption DEF Slots
  <1>7. /\ spInfo' \in [Infos -> [fd : PoolSockets \cup {NoFd}, slot : Slots]]
        /\ spInfo'[i].fd = s
        /\ \A j \in Infos : j # i => spInfo'[j] = spInfo[j]
    BY <1>0, <1>4, <1>5, <1>6 DEF TableTypes
  <1>8. spSlots' \in [Slots -> [fd : PoolSockets \cup {NoFd}, revents : BOOLEAN]]
    BY <1>0, <1>4, <1>6 DEF TableTypes
  <1>9. \A t \in Members : spByFd[t] \in Infos /\ spByFd[t] # i
    BY <1>0, <1>5 DEF TableTypes, InfosOK, Held
  <1>10. CASE port # NoPort /\ port \in DOMAIN spByPort
    <2>1. UNCHANGED <<spFree, spByFd, spByPort>>
      BY <1>1, <1>3, <1>10 DEF addSocket
    <2>2. Members' = Members /\ PoolSize' = PoolSize
      BY <2>1 DEF Members, PoolSize
    <2>3. TableTypes'
      BY <1>0, <1>4, <1>7, <1>8, <2>1, <2>2 DEF TableTypes
    <2>4. \A t \in Members' : spInfo'[spByFd'[t]].fd = t
      BY <1>0, <1>7, <1>9, <2>1, <2>2 DEF InfosOK
    <2>5. InfosOK'
      BY <1>0, <1>4, <2>1, <2>2, <2>4 DEF InfosOK, Held, IsFree, OnceIn
    <2>6. PortsOK'
      BY <1>0, <2>1, <2>2 DEF PortsOK
    <2> QED
      BY <1>4, <2>1, <2>2, <2>3, <2>5, <2>6 DEF TablesOK
  <1>11. CASE ~(port # NoPort /\ port \in DOMAIN spByPort)
    <2>1. /\ spFree' = Tail(spFree)
          /\ spByFd' = [t \in Members \cup {s} |-> IF t = s THEN i ELSE spByFd[t]]
          /\ spByPort' = IF port = NoPort THEN spByPort
                         ELSE [q \in DOMAIN spByPort \cup {port} |->
                                 IF q = port THEN i ELSE spByPort[q]]
      BY <1>1, <1>3, <1>11 DEF addSocket
    <2>2. /\ Members' = Members \cup {s} /\ spByFd'[s] = i
          /\ \A t \in Members : spByFd'[t] = spByFd[t]
      BY <1>4, <2>1 DEF Members
    <2>3. /\ IsFiniteSet(Members') /\ PoolSize' = PoolSize + 1
      BY <1>0, <1>4, <2>2, FS_AddElement DEF TableTypes, PoolSize
    <2>4. \A q \in DOMAIN spByPort' : spByPort'[q] \in Infos
      BY <1>0, <1>5, <2>1 DEF TableTypes
    <2>5. TableTypes'
      <3>1. spFree' \in Seq(Infos)
        BY <1>0, <1>4, <2>1 DEF TableTypes
      <3>2. Members' \subseteq PoolSockets /\ \A t \in Members' : spByFd'[t] \in Infos
        BY <1>0, <1>5, <1>9, <2>2 DEF TableTypes
      <3>3. (spStatus \in {"BUILDED", "INITIALIZED"})'
        BY <1>0, <1>4 DEF TableTypes
      <3> QED
        BY <1>7, <1>8, <2>3, <2>4, <3>1, <3>2, <3>3 DEF TableTypes
    <2>6. \A t \in Members' : spInfo'[spByFd'[t]].fd = t
      BY <1>0, <1>7, <1>9, <2>2 DEF InfosOK
    <2>7. /\ Len(spFree') = Len(spFree) - 1
          /\ \A k \in 1 .. Len(spFree') : spFree'[k] = spFree[k + 1] /\ k + 1 \in 1 .. Len(spFree)
      BY <1>0, <1>4, <2>1 DEF TableTypes
    <2>8. OnceIn(spFree')
      <3> SUFFICES ASSUME NEW j \in 1 .. Len(spFree'), NEW k \in 1 .. Len(spFree'), spFree'[j] = spFree'[k]
                   PROVE  j = k
        BY DEF OnceIn
      <3>1. spFree[j + 1] = spFree[k + 1] /\ j + 1 \in 1 .. Len(spFree) /\ k + 1 \in 1 .. Len(spFree)
        BY <2>7
      <3>2. j + 1 = k + 1
        BY <1>0, <3>1 DEF InfosOK, OnceIn
      <3> QED
        BY <3>2
    <2>9. \A j \in Infos : Held(j)' <=> (Held(j) \/ j = i)
      BY <2>2 DEF Held
    <2>10. \A j \in Infos : IsFree(j)' <=> (IsFree(j) /\ j # i)
      <3>1. \A k \in 1 .. Len(spFree') : spFree'[k] # i
        <4> SUFFICES ASSUME NEW k \in 1 .. Len(spFree'), spFree'[k] = i PROVE FALSE
          OBVIOUS
        <4>1. spFree[k + 1] = spFree[1] /\ k + 1 \in 1 .. Len(spFree)
          BY <1>5, <2>7
        <4> QED
          BY <1>0, <1>5, <4>1 DEF InfosOK, OnceIn
      <3>2. \A j \in Infos : IsFree(j)' => IsFree(j) /\ j # i
        BY <2>7, <3>1 DEF IsFree
      <3>3. ASSUME NEW j \in Infos, IsFree(j), j # i PROVE IsFree(j)'
        <4>1. PICK k \in 1 .. Len(spFree) : spFree[k] = j
          BY <3>3 DEF IsFree
        <4>2. k # 1 /\ k - 1 \in 1 .. Len(spFree')
          BY <1>0, <1>5, <2>7, <3>3, <4>1 DEF TableTypes
        <4>3. spFree'[k - 1] = spFree[(k - 1) + 1] /\ (k - 1) + 1 = k
          BY <2>7, <4>2
        <4> QED
          BY <4>1, <4>2, <4>3 DEF IsFree
      <3> QED
        BY <3>2, <3>3
    <2>11. InfosOK'
      <3>1. \A j \in Infos : ~(Held(j)' /\ IsFree(j)')
        BY <1>0, <2>9, <2>10 DEF InfosOK
      <3>2. \A j \in Infos : Held(j)' \/ IsFree(j)'
        BY <1>0, <2>9, <2>10 DEF InfosOK
      <3>3. PoolSize' + Len(spFree') = ulMaxSocketsNumber
        BY <1>0, <2>3, <2>7, MemberCount DEF InfosOK, TableTypes
      <3>4. spStatus' # "BUILDED"
        BY <1>4
      <3> QED
        BY <2>6, <2>8, <3>1, <3>2, <3>3, <3>4 DEF InfosOK
    <2>12. PortsOK'
      <3>1. ASSUME NEW t \in Members', LocalPort[t] # NoPort
            PROVE  LocalPort[t] \in DOMAIN spByPort' /\ spByPort'[LocalPort[t]] = spByFd'[t]
        <4>1. CASE t = s
          BY <1>3, <2>1, <2>2, <3>1, <4>1
        <4>2. CASE t # s
          BY <1>0, <1>3, <1>11, <2>1, <2>2, <3>1, <4>2 DEF PortsOK
        <4> QED
          BY <4>1, <4>2
      <3>2. ASSUME NEW q \in DOMAIN spByPort'
            PROVE  q # NoPort /\ \E t \in Members' : LocalPort[t] = q /\ spByPort'[q] = spByFd'[t]
        <4>1. CASE q \in DOMAIN spByPort
          <5>1. PICK t \in Members : LocalPort[t] = q /\ spByPort[q] = spByFd[t]
            BY <1>0, <4>1 DEF PortsOK
          <5>2. q # NoPort /\ spByPort'[q] = spByPort[q]
            BY <1>0, <1>11, <2>1, <3>2, <4>1 DEF PortsOK
          <5> QED
            BY <2>2, <5>1, <5>2
        <4>2. CASE q \notin DOMAIN spByPort
          <5>1. port # NoPort /\ q = port
            BY <2>1, <3>2, <4>2
          <5> QED
            BY <1>3, <2>1, <2>2, <5>1
        <4> QED
          BY <4>1, <4>2
      <3> QED
        BY <3>1, <3>2 DEF PortsOK
    <2> QED
      BY <1>4, <2>2, <2>5, <2>11, <2>12 DEF TablesOK
  <1> QED
    BY <1>10, <1>11

LEMMA DeleteKeeps ==
    ASSUME TablesOK, spStatus = "INITIALIZED", NEW s, deleteSocket(s)
    PROVE  /\ TablesOK' /\ s \in Members /\ Members' = Members \ {s}
           /\ \A t \in Members' : spByFd'[t] = spByFd[t]
           /\ spStatus' = spStatus
  <1>0. TableTypes /\ InfosOK /\ PortsOK
    BY DEF TablesOK
  <1>1. PICK i : i = spByFd[s]
    OBVIOUS
  <1>2. PICK back : back = PoolSize - 1
    OBVIOUS
  <1>3. /\ s \in Members
        /\ spSlots' = [spSlots EXCEPT ![spInfo[i].slot] = spSlots[back]]
        /\ spByFd' = [t \in Members \ {s} |-> spByFd[t]]
        /\ spByPort' = IF LocalPort[s] = NoPort THEN spByPort
                       ELSE [q \in DOMAIN spByPort \ {LocalPort[s]} |-> spByPort[q]]
        /\ spFree' = Append(spFree, i)
        /\ UNCHANGED <<spStatus, spInfo>>
    BY <1>1, <1>2 DEF deleteSocket, Table!Restrict
  <1>4. i \in Infos /\ Held(i)
    BY <1>0, <1>1, <1>3 DEF TableTypes, Held
  <1>5. back \in Slots
    BY <1>0, <1>2, <1>3, MemberCount, PoolAssumption DEF Slots, InfosOK, TableTypes
  <1>6. spSlots' \in [Slots -> [fd : PoolSockets \cup {NoFd}, revents : BOOLEAN]]
    BY <1>0, <1>3, <1>5 DEF TableTypes
  <1>7. Members' = Members \ {s} /\ \A t \in Members' : spByFd'[t] = spByFd[t]
    BY <1>3 DEF Members
  <1>8. IsFiniteSet(Members') /\ PoolSize' = PoolSize - 1
    BY <1>0, <1>3, <1>7, FS_RemoveElement DEF TableTypes, PoolSize
  <1>9. TableTypes'
    <2>1. spFree' \in Seq(Infos)
      BY <1>0, <1>3, <1>4 DEF TableTypes
    <2>2. \A q \in DOMAIN spByPort' : spByPort'[q] \in Infos
      BY <1>0, <1>3 DEF TableTypes
    <2>3. Members' \subseteq PoolSockets /\ \A t \in Members' : spByFd'[t] \in Infos
      BY <1>0, <1>7 DEF TableTypes
    <2>4. /\ (spStatus \in {"BUILDED", "INITIALIZED"})'
          /\ (spInfo \in [Infos -> [fd : PoolSockets \cup {NoFd}, slot : Slots]])'
      BY <1>0, <1>3 DEF TableTypes, Infos, Slots
    <2> QED
      BY <1>6, <1>8, <2>1, <2>2, <2>3, <2>4 DEF TableTypes
  <1>10. /\ Len(spFree') = Len(spFree) + 1 /\ spFree'[Len(spFree) + 1] = i
         /\ \A k \in 1 .. Len(spFree) : spFree'[k] = spFree[k]
    BY <1>0, <1>3, <1>4 DEF TableTypes
  <1>11. OnceIn(spFree')
    <2>1. \A k \in 1 .. Len(spFree) : spFree[k] # i
      BY <1>0, <1>4 DEF InfosOK, IsFree
    <2>2. Len(spFree) \in Nat
      BY <1>0 DEF TableTypes
    <2> QED
      BY <1>0, <1>10, <2>1, <2>2 DEF InfosOK, OnceIn
  <1>12. \A j \in Infos : Held(j)' <=> (Held(j) /\ j # i)
    <2>1. ASSUME NEW j \in Infos, Held(j)' PROVE Held(j) /\ j # i
      <3>1. PICK t \in Members' : spByFd'[t] = j
        BY <2>1 DEF Held
      <3>2. t \in Members /\ t # s /\ spByFd[t] = j
        BY <1>7, <3>1
      <3> QED
        BY <1>0, <1>1, <1>3, <3>2, OwnInfo DEF Held
    <2>2. ASSUME NEW j \in Infos, Held(j), j # i PROVE Held(j)'
      <3>1. PICK t \in Members : spByFd[t] = j
        BY <2>2 DEF Held
      <3>2. t \in Members' /\ spByFd'[t] = j
        BY <1>1, <1>7, <2>2, <3>1
      <3> QED
        BY <3>2 DEF Held
    <2> QED
      BY <2>1, <2>2
  <1>13. \A j \in Infos : IsFree(j)' <=> (IsFree(j) \/ j = i)
    <2>1. Len(spFree) \in Nat
      BY <1>0 DEF TableTypes
    <2>2. ASSUME NEW j \in Infos, IsFree(j)' PROVE IsFree(j) \/ j = i
      <3>1. PICK k \in 1 .. Len(spFree') : spFree'[k] = j
        BY <2>2 DEF IsFree
      <3>2. k \in 1 .. Len(spFree) \/ k = Len(spFree) + 1
        BY <1>10, <2>1, <3>1
      <3> QED
        BY <1>10, <3>1, <3>2 DEF IsFree
    <2>3. ASSUME NEW j \in Infos, IsFree(j) PROVE IsFree(j)'
      <3>1. PICK k \in 1 .. Len(spFree) : spFree[k] = j
        BY <2>3 DEF IsFree
      <3>2. k \in 1 .. Len(spFree') /\ spFree'[k] = j
        BY <1>10, <2>1, <3>1
      <3> QED
        BY <3>2 DEF IsFree
    <2>4. IsFree(i)'
      <3>1. Len(spFree) + 1 \in 1 .. Len(spFree')
        BY <1>10, <2>1
      <3> QED
        BY <1>10, <3>1 DEF IsFree
    <2> QED
      BY <2>2, <2>3, <2>4
  <1>14. InfosOK'
    <2>1. \A j \in Infos : ~(Held(j)' /\ IsFree(j)')
      BY <1>0, <1>12, <1>13 DEF InfosOK
    <2>2. \A j \in Infos : Held(j)' \/ IsFree(j)'
      BY <1>0, <1>12, <1>13 DEF InfosOK
    <2>3. PoolSize' + Len(spFree') = ulMaxSocketsNumber
      BY <1>0, <1>8, <1>10, MemberCount DEF InfosOK, TableTypes
    <2>4. \A t \in Members' : spInfo'[spByFd'[t]].fd = t
      BY <1>0, <1>3, <1>7 DEF InfosOK
    <2>5. spStatus' # "BUILDED"
      BY <1>3
    <2> QED
      BY <1>11, <2>1, <2>2, <2>3, <2>4, <2>5 DEF InfosOK
  <1>15. \A t \in Members' : LocalPort[t] # NoPort => LocalPort[t] # LocalPort[s]
    BY <1>0, <1>3, <1>7, OwnInfo DEF PortsOK
  <1>16. PortsOK'
    <2>1. ASSUME NEW t \in Members', LocalPort[t] # NoPort
          PROVE  LocalPort[t] \in DOMAIN spByPort' /\ spByPort'[LocalPort[t]] = spByFd'[t]
      BY <1>0, <1>3, <1>7, <1>15, <2>1 DEF PortsOK
    <2>2. ASSUME NEW q \in DOMAIN spByPort'
          PROVE  q # NoPort /\ \E t \in Members' : LocalPort[t] = q /\ spByPort'[q] = spByFd'[t]
      <3>1. q \in DOMAIN spByPort /\ spByPort'[q] = spByPort[q] /\ (LocalPort[s] # NoPort => q # LocalPort[s])
        BY <1>3, <2>2
      <3>2. PICK t \in Members : LocalPort[t] = q /\ spByPort[q] = spByFd[t] /\ q # NoPort
        BY <1>0, <3>1 DEF PortsOK
      <3> QED
        BY <1>7, <3>1, <3>2
    <2> QED
      BY <2>1, <2>2 DEF PortsOK
  <1> QED
    BY <1>3, <1>7, <1>9, <1>14, <1>16 DEF TablesOK

-----------------------------------------------------------------------------
(***************************************************************************)
(* The parts of the invariant that a step leaves alone.                    *)
(***************************************************************************)
LEMMA TablesSame ==
    ASSUME TablesOK, UNCHANGED poolTables
    PROVE  TablesOK' /\ Members' = Members
  <1>1. spSlots' \in [Slots -> [fd : PoolSockets \cup {NoFd}, revents : BOOLEAN]]
    BY DEF poolTables, TablesOK, TableTypes, Slots
  <1> QED
    BY <1>1, TablesKept DEF poolTables

\* The thread's own variables, when members only come and it is not scanning.
LEMMA RunSame ==
    ASSUME RunTypes, ControlOK, UpdatesOK, UNCHANGED poolThread,
           spStatus' = spStatus, (thPc' = "running") <=> (thPc = "running"),
           spPc # "scan" \/ (Members \subseteq Members' /\ \A s \in Members : spByFd'[s] = spByFd[s]),
           spShutdown' \in BOOLEAN, spCancels' \in BOOLEAN, spReady' \subseteq Members'
    PROVE  RunTypes' /\ ControlOK' /\ UpdatesOK'
  <1>0. UNCHANGED <<spMutex, spPc, spScan, spUpdates, spPoll>>
    BY DEF poolThread
  <1>1. spScan' \subseteq Members'
    BY <1>0 DEF RunTypes, ControlOK
  <1>2. RunTypes'
    BY <1>0, <1>1 DEF RunTypes, Infos
  <1>3. ControlOK'
    BY <1>0 DEF ControlOK
  <1>4. UpdatesOK'
    <2>1. CASE spPc # "scan"
      BY <1>0, <2>1 DEF UpdatesOK, ControlOK, OnceIn
    <2>2. CASE spPc = "scan"
      BY <1>0, <2>2 DEF UpdatesOK, OnceIn
    <2> QED
      BY <2>1, <2>2
  <1> QED
    BY <1>2, <1>3, <1>4

\* The thread goes on outside of the scan, with the tables as they are.
LEMMA RunGoes ==
    ASSUME RunTypes, ControlOK, Members' = Members, spStatus' = spStatus,
           spPc # "out", spPc' # "scan", spPc' \in {"out", "begins", "check", "poll", "unlock", "sleep"},
           (spPc' # "out") <=> (thPc' = "running"),
           spPc' \in {"poll", "unlock"} => spMutex',
           spMutex' \in BOOLEAN, spShutdown' \in BOOLEAN, spCancels' \in BOOLEAN,
           spScan' = {}, spUpdates' = <<>>, spReady' = spReady
    PROVE  RunTypes' /\ ControlOK' /\ UpdatesOK'
  <1>1. RunTypes'
    BY DEF RunTypes
  <1>2. ControlOK'
    BY DEF ControlOK
  <1>3. UpdatesOK'
    BY DEF UpdatesOK, OnceIn
  <1> QED
    BY <1>1, <1>2, <1>3

LEMMA PollSame == PollOK /\ spPoll' = spPoll => PollOK'
  BY DEF PollOK

LEMMA ThreadSame == ThreadOK /\ UNCHANGED threadVars => ThreadOK' /\ thPc' = thPc
  BY DEF ThreadOK, ThreadTypeOK, threadVars

-----------------------------------------------------------------------------
(***************************************************************************)
(* The steps of the owner and of the other threads.                        *)
(***************************************************************************)
LEMMA Initially == PoolInit => PoolInv
  <1> SUFFICES ASSUME PoolInit PROVE PoolInv
    OBVIOUS
  <1> USE DEF PoolInit
  <1>1. ThreadOK
    BY ThreadAssumption DEF ThreadInit, ThreadOK, ThreadTypeOK, ThreadStatuses
  <1>2. PollOK
    BY PoolAssumption DEF PollOK, NoPoll
  <1>3. Members = {} /\ DOMAIN spByPort = {} /\ IsFiniteSet(Members)
    BY FS_EmptySet DEF Members
  <1>4. spInfo \in [Infos -> [fd : PoolSockets \cup {NoFd}, slot : Slots]]
    BY PoolAssumption DEF NoInfos, Infos, Slots
  <1>5. spSlots \in [Slots -> [fd : PoolSockets \cup {NoFd}, revents : BOOLEAN]]
    BY DEF NoSlots
  <1>6. TablesOK
    <2>1. spFree \in Seq(Infos) /\ Len(spFree) = 0
      OBVIOUS
    <2>2. TableTypes
      BY <1>3, <1>4, <1>5, <2>1 DEF TableTypes
    <2>3. InfosOK
      BY <1>3, <2>1 DEF InfosOK, OnceIn, Held
    <2> QED
      <3>1. PortsOK
        BY <1>3 DEF PortsOK
      <3> QED
        BY <2>2, <2>3, <3>1 DEF TablesOK
  <1>7. RunTypes
    <2>1. spUpdates \in Seq(Infos)
      OBVIOUS
    <2>2. spScan \subseteq Members /\ spReady \subseteq Members
      OBVIOUS
    <2> QED
      BY <2>1, <2>2 DEF RunTypes
  <1>8. ControlOK
    BY DEF ControlOK, ThreadInit
  <1>9. UpdatesOK
    BY DEF UpdatesOK, OnceIn
  <1> QED
    BY <1>1, <1>2, <1>6, <1>7, <1>8, <1>9 DEF PoolInv

LEMMA InitPoolKeeps == PoolInv /\ InitPool => PoolInv'
  <1> SUFFICES ASSUME PoolInv, InitPool PROVE PoolInv'
    OBVIOUS
  <1>0. ThreadOK /\ PollOK /\ TableTypes /\ InfosOK /\ RunTypes /\ ControlOK /\ UpdatesOK
    BY DEF PoolInv, TablesOK
  <1>1. /\ spStatus = "BUILDED" /\ spStatus' = "INITIALIZED"
        /\ spFree' = [i \in Infos |-> i]
        /\ UNCHANGED <<spInfo, spByFd, spByPort, spSlots, poolThread, spShutdown, spReady, spCancels>>
        /\ thStatus = "BUILDED" /\ InitThread
    BY DEF InitPool, InitThread
  <1>2. ThreadOK' /\ thPc' = thPc /\ thPc # "running"
    BY <1>0, <1>1 DEF InitThread, ThreadOK, ThreadTypeOK, Idle, ThreadStatuses
  <1>3. spPc = "out" /\ Members = {} /\ DOMAIN spByPort = {} /\ Members' = Members
    BY <1>0, <1>1, <1>2 DEF ControlOK, InfosOK, Members
  <1>4. spFree' \in Seq(Infos) /\ Len(spFree') = ulMaxSocketsNumber /\ \A k \in 1 .. Len(spFree') : spFree'[k] = k
    BY <1>1, PoolAssumption DEF Infos
  <1>5. PoolSize' = 0 /\ IsFiniteSet(Members')
    BY <1>3, FS_EmptySet DEF PoolSize
  <1>6. TableTypes'
    BY <1>0, <1>1, <1>3, <1>4, <1>5 DEF TableTypes
  <1>7. InfosOK'
    BY <1>1, <1>3, <1>4, <1>5, PoolAssumption DEF InfosOK, OnceIn, Held, IsFree, Infos
  <1>8. PortsOK'
    BY <1>1, <1>3 DEF PortsOK
  <1>9. spPc' = "out" /\ spPoll' = spPoll /\ spMutex' = spMutex /\ spScan' = spScan /\ spUpdates' = spUpdates
    BY <1>1, <1>3 DEF poolThread
  <1>10. RunTypes'
    BY <1>0, <1>1, <1>3, <1>9 DEF RunTypes
  <1>11. ControlOK' /\ UpdatesOK'
    BY <1>0, <1>2, <1>3, <1>9 DEF ControlOK, UpdatesOK, OnceIn
  <1> QED
    BY <1>0, <1>2, <1>6, <1>7, <1>8, <1>9, <1>10, <1>11, PollSame DEF PoolInv, TablesOK

LEMMA FinishPoolKeeps == PoolInv /\ FinishPool => PoolInv'
  <1> SUFFICES ASSUME PoolInv, FinishPool PROVE PoolInv'
    OBVIOUS
  <1>0. ThreadOK /\ PollOK /\ TableTypes /\ InfosOK /\ RunTypes /\ ControlOK /\ UpdatesOK
    BY DEF PoolInv, TablesOK
  <1>1. /\ spStatus' = "BUILDED" /\ FinishThread /\ thStatus \in Idle
        /\ spFree' = <<>> /\ spByFd' = <<>> /\ spByPort' = <<>>
        /\ spInfo' = NoInfos /\ spSlots' = NoSlots /\ spReady' = {}
        /\ UNCHANGED <<poolThread, spShutdown, spCancels>>
    BY DEF FinishPool, FinishThread
  <1>2. ThreadOK' /\ thPc' = thPc /\ thPc # "running"
    BY <1>0, <1>1 DEF FinishThread, ThreadOK, ThreadTypeOK, Idle, ThreadStatuses
  <1>3. spPc = "out" /\ spScan = {} /\ spUpdates = <<>>
    BY <1>0, <1>2 DEF ControlOK
  <1>4. Members' = {} /\ DOMAIN spByPort' = {} /\ IsFiniteSet(Members')
    BY <1>1, FS_EmptySet DEF Members
  <1>5. (spInfo \in [Infos -> [fd : PoolSockets \cup {NoFd}, slot : Slots]])'
    BY <1>1, PoolAssumption DEF NoInfos, Infos, Slots
  <1>6. (spSlots \in [Slots -> [fd : PoolSockets \cup {NoFd}, revents : BOOLEAN]])'
    BY <1>1 DEF NoSlots
  <1>7. TablesOK'
    BY <1>1, <1>4, <1>5, <1>6 DEF TablesOK, TableTypes, InfosOK, PortsOK, OnceIn, Held
  <1>8. spPc' = "out" /\ spPoll' = spPoll /\ spMutex' = spMutex /\ spScan' = {} /\ spUpdates' = <<>>
    BY <1>1, <1>3 DEF poolThread
  <1>9. RunTypes'
    BY <1>0, <1>1, <1>4, <1>8 DEF RunTypes
  <1>10. ControlOK' /\ UpdatesOK'
    BY <1>2, <1>8 DEF ControlOK, UpdatesOK, OnceIn
  <1> QED
    BY <1>0, <1>2, <1>7, <1>8, <1>9, <1>10, PollSame DEF PoolInv

LEMMA StartPoolKeeps == PoolInv /\ StartPool => PoolInv'
  <1> SUFFICES ASSUME PoolInv, StartPool PROVE PoolInv'
    OBVIOUS
  <1>0. ThreadOK /\ PollOK /\ TablesOK /\ RunTypes /\ ControlOK /\ UpdatesOK
    BY DEF PoolInv
  <1>1. /\ spStatus = "INITIALIZED" /\ StartThread(FALSE) /\ thStatus \in Idle
        /\ spPc' = IF thPc' = "running" THEN "begins" ELSE spPc
        /\ UNCHANGED <<poolTables, spMutex, spScan, spUpdates, spPoll, spShutdown, spReady, spCancels>>
    BY DEF StartPool, StartThread
  <1>2. thPc # "running" /\ spPc = "out" /\ spScan = {} /\ spUpdates = <<>>
    BY <1>0, <1>1 DEF ThreadOK, ControlOK
  <1>3. ThreadOK' /\ (thPc' = "running" \/ thPc' = thPc)
    BY <1>0, <1>1, ThreadAssumption DEF StartThread, ThreadOK, ThreadTypeOK, Idle, ThreadStatuses
  <1>4. TablesOK' /\ Members' = Members /\ spStatus' = "INITIALIZED"
    BY <1>0, <1>1, TablesSame DEF poolTables
  <1>5. RunTypes'
    BY <1>0, <1>1, <1>2, <1>4 DEF RunTypes
  <1>6. ControlOK' /\ UpdatesOK'
    BY <1>1, <1>2, <1>3, <1>4 DEF ControlOK, UpdatesOK, OnceIn
  <1> QED
    BY <1>0, <1>1, <1>3, <1>4, <1>5, <1>6, PollSame DEF PoolInv

\* The rest of runFunction, and join, beside a thread that is not in run.
LEMMA ThreadKeeps == PoolInv /\ (PoolRunFunction \/ JoinPool) => PoolInv'
  <1> SUFFICES ASSUME PoolInv, PoolRunFunction \/ JoinPool PROVE PoolInv'
    OBVIOUS
  <1>0. ThreadOK /\ PollOK /\ TablesOK /\ RunTypes /\ ControlOK /\ UpdatesOK
    BY DEF PoolInv
  <1>1. (runFunction \/ joinThread) /\ UNCHANGED poolVars
    BY DEF PoolRunFunction, JoinPool
  <1>2. ThreadOK'
    BY <1>0, <1>1 DEF runFunction, EndDetached, EndReadsStatus, DetachItself, EndRun, joinThread, JoinChecks,
                      JoinMarks, JoinWaits, OwnerFree, ThreadOK, ThreadTypeOK, Idle, ThreadStatuses
  <1>3. (thPc' = "running") <=> (thPc = "running")
    BY <1>0, <1>1 DEF runFunction, EndDetached, EndReadsStatus, DetachItself, EndRun, joinThread, JoinChecks,
                      JoinMarks, JoinWaits, ThreadOK, ThreadTypeOK
  <1>4. /\ UNCHANGED poolTables /\ UNCHANGED poolThread /\ spShutdown' = spShutdown /\ spCancels' = spCancels
        /\ spReady' = spReady /\ spStatus' = spStatus /\ spByFd' = spByFd /\ spPoll' = spPoll
    BY <1>1 DEF poolVars, poolTables, poolThread
  <1>5. TablesOK' /\ Members' = Members
    BY <1>0, <1>4, TablesSame
  <1>6. RunTypes' /\ ControlOK' /\ UpdatesOK'
    BY <1>0, <1>3, <1>4, <1>5, RunSame DEF RunTypes
  <1> QED
    BY <1>0, <1>2, <1>4, <1>5, <1>6, PollSame DEF PoolInv

LEMMA OthersKeep == PoolInv /\ (AddSocket \/ DeleteSocket \/ SocketReady \/ cancelPool \/ CancelSeesEnd) => PoolInv'
  <1> SUFFICES ASSUME PoolInv, AddSocket \/ DeleteSocket \/ SocketReady \/ cancelPool \/ CancelSeesEnd PROVE PoolInv'
    OBVIOUS
  <1>0. ThreadOK /\ PollOK /\ TablesOK /\ RunTypes /\ ControlOK /\ UpdatesOK
    BY DEF PoolInv
  <1>1. UNCHANGED threadVars /\ UNCHANGED poolThread /\ spShutdown' \in BOOLEAN /\ spCancels' \in BOOLEAN
    BY <1>0 DEF AddSocket, DeleteSocket, SocketReady, cancelPool, CancelSeesEnd, RunTypes
  <1>2. ThreadOK' /\ thPc' = thPc /\ PollOK'
    BY <1>0, <1>1, ThreadSame, PollSame DEF poolThread
  <1>3. /\ TablesOK' /\ spStatus' = spStatus /\ spReady' \subseteq Members'
        /\ spPc # "scan" \/ (Members \subseteq Members' /\ \A s \in Members : spByFd'[s] = spByFd[s])
    <2>1. CASE AddSocket
      <3>1. PICK s \in PoolSockets : addSocket(s)
        BY <2>1 DEF AddSocket
      <3>2. spReady' = spReady /\ spStatus = "INITIALIZED"
        BY <2>1 DEF AddSocket
      <3> QED
        BY <1>0, <3>1, <3>2, AddKeeps DEF RunTypes
    <2>2. CASE DeleteSocket
      <3>1. PICK s \in Members : deleteSocket(s) /\ spReady' = spReady \ {s}
        BY <2>2 DEF DeleteSocket
      <3>2. spStatus = "INITIALIZED" /\ ~spMutex
        BY <2>2 DEF DeleteSocket
      <3>3. spPc # "scan"
        BY <1>0, <3>2 DEF ControlOK
      <3> QED
        BY <1>0, <3>1, <3>2, <3>3, DeleteKeeps DEF RunTypes
    <2>3. CASE SocketReady \/ cancelPool \/ CancelSeesEnd
      <3>1. UNCHANGED poolTables /\ spReady' \subseteq Members
        BY <1>0, <2>3 DEF SocketReady, cancelPool, CancelSeesEnd, RunTypes
      <3>2. spStatus' = spStatus /\ spByFd' = spByFd
        BY <3>1 DEF poolTables
      <3> QED
        BY <1>0, <3>1, <3>2, TablesSame
    <2> QED
      BY <2>1, <2>2, <2>3
  <1>4. RunTypes' /\ ControlOK' /\ UpdatesOK'
    BY <1>0, <1>1, <1>2, <1>3, RunSame
  <1> QED
    BY <1>2, <1>3, <1>4 DEF PoolInv

\* A thread is cancelled outside of the scan, whose updates go with it.
LEMMA CancelKeeps == PoolInv /\ CancelGivesUp => PoolInv'
  <1> SUFFICES ASSUME PoolInv, CancelGivesUp PROVE PoolInv'
    OBVIOUS
  <1>0. ThreadOK /\ PollOK /\ TablesOK /\ RunTypes /\ ControlOK /\ UpdatesOK
    BY DEF PoolInv
  <1>1. UNCHANGED poolTables /\ spShutdown' = spShutdown /\ spReady' = spReady /\ spCancels' = FALSE
    BY DEF CancelGivesUp
  <1>2. TablesOK' /\ Members' = Members /\ spStatus' = spStatus /\ spByFd' = spByFd
    BY <1>0, <1>1, TablesSame DEF poolTables
  <1>3. CASE thStatus = "STARTED" /\ spPc \in {"begins", "poll", "sleep"}
    <2>1. /\ CancelThread /\ spPc' = "out" /\ spScan' = {} /\ spUpdates' = <<>>
          /\ spMutex' = spMutex /\ spPoll' = spPoll
      BY <1>3 DEF CancelGivesUp
    <2>2. ThreadOK' /\ thPc' # "running"
      BY <1>0, <1>3, <2>1 DEF CancelThread, ThreadOK, ThreadTypeOK, Idle
    <2>3. spPc # "out"
      BY <1>3
    <2>4. RunTypes' /\ ControlOK' /\ UpdatesOK'
      <3>1. spMutex' \in BOOLEAN /\ spShutdown' \in BOOLEAN /\ spCancels' \in BOOLEAN
        BY <1>0, <1>1, <2>1 DEF RunTypes
      <3> QED
        BY <1>0, <1>1, <1>2, <2>1, <2>2, <2>3, <3>1, RunGoes
    <2> QED
      BY <1>0, <1>2, <2>1, <2>2, <2>4, PollSame DEF PoolInv
  <1>4. CASE ~(thStatus = "STARTED" /\ spPc \in {"begins", "poll", "sleep"})
    <2>1. UNCHANGED threadVars /\ UNCHANGED poolThread
      BY <1>4 DEF CancelGivesUp
    <2>2. ThreadOK' /\ thPc' = thPc /\ PollOK'
      BY <1>0, <2>1, ThreadSame, PollSame DEF poolThread
    <2>3. RunTypes' /\ ControlOK' /\ UpdatesOK'
      BY <1>0, <1>1, <1>2, <2>1, <2>2, RunSame DEF RunTypes
    <2> QED
      BY <1>2, <2>2, <2>3 DEF PoolInv
  <1> QED
    BY <1>3, <1>4

-----------------------------------------------------------------------------
(***************************************************************************)
(* The steps of the thread in run.                                         *)
(***************************************************************************)
\* Outside of the scan.
LEMMA RunKeeps ==
    PoolInv /\ (BeginsRun \/ LockForCheck \/ PollTick \/ PollInterrupted \/ PollExpires \/ UnlockAfterCheck
             \/ ReadsShutdown \/ PollFails \/ ScanEnds) => PoolInv'
  <1> SUFFICES ASSUME PoolInv, \/ BeginsRun \/ LockForCheck \/ PollTick \/ PollInterrupted \/ PollExpires
                            \/ UnlockAfterCheck \/ ReadsShutdown \/ PollFails \/ ScanEnds
               PROVE  PoolInv'
    OBVIOUS
  <1> USE DEF Running
  <1>0. ThreadOK /\ PollOK /\ TablesOK /\ RunTypes /\ ControlOK /\ UpdatesOK
    BY DEF PoolInv
  <1>1. UNCHANGED poolTables /\ UNCHANGED <<spScan, spUpdates, spReady, spCancels>> /\ thPc = "running"
    BY DEF BeginsRun, LockForCheck, PollTick, PollInterrupted, PollExpires, UnlockAfterCheck, ReadsShutdown,
           PollFails, ScanEnds, RunReturns, NoPoll
  <1>2. TablesOK' /\ Members' = Members /\ spStatus' = spStatus
    BY <1>0, <1>1, TablesSame DEF poolTables
  <1>3. PollOK'
    <2>1. CASE LockForCheck
      BY <1>0, <2>1, PoolAssumption DEF LockForCheck, PollOK, NoPoll
    <2>2. CASE PollTick
      BY <1>0, <2>2 DEF PollTick, PollOK
    <2>3. CASE PollInterrupted
      <3>1. spPoll' = spPoll \/ spPoll.elapsed < spPoll.left
        BY <1>0, <2>3 DEF PollInterrupted, PollOK
      <3>2. \/ spPoll' = spPoll
            \/ spPoll' = [spPoll EXCEPT !.left = @ - spPoll.elapsed, !.called = spPoll.elapsed]
        BY <2>3 DEF PollInterrupted
      <3>3. PICK e \in Nat, f \in Nat, l \in Nat : spPoll = [elapsed |-> e, called |-> f, left |-> l]
        BY <1>0 DEF PollOK
      <3>4. CASE spPoll' # spPoll
        <4>1. e < l /\ l - e \in Nat /\ spPoll' = [elapsed |-> e, called |-> e, left |-> l - e]
          <5>1. spPoll.elapsed = e /\ spPoll.left = l /\ e < l
            BY <3>1, <3>3, <3>4
          <5>2. PICK m : m = [spPoll EXCEPT !.left = l - e]
            OBVIOUS
          <5>3. spPoll' = [m EXCEPT !.called = e]
            BY <3>2, <3>4, <5>1, <5>2, Zenon
          <5>4. m = [elapsed |-> e, called |-> f, left |-> l - e]
            BY <3>3, <5>2
          <5> QED
            BY <3>3, <5>1, <5>3, <5>4
        <4>2. f + l <= PollTime
          BY <1>0, <3>3 DEF PollOK
        <4> QED
          BY <3>3, <4>1, <4>2, PoolAssumption DEF PollOK
      <3> QED
        BY <1>0, <3>4, PollSame
    <2>4. CASE UnlockAfterCheck
      BY <2>4, PoolAssumption DEF UnlockAfterCheck, PollOK, NoPoll
    <2>5. CASE BeginsRun \/ PollExpires \/ ReadsShutdown \/ PollFails \/ ScanEnds
      BY <1>0, <2>5, PollSame DEF BeginsRun, PollExpires, ReadsShutdown, PollFails, ScanEnds
    <2> QED
      BY <2>1, <2>2, <2>3, <2>4, <2>5
  <1>4. ThreadOK' /\ ((spPc' # "out") <=> (thPc' = "running"))
    <2>1. CASE UNCHANGED threadVars
      BY <1>0, <1>1, <2>1, ThreadSame DEF BeginsRun, LockForCheck, PollTick, PollInterrupted, PollExpires,
         UnlockAfterCheck, ReadsShutdown, PollFails, ScanEnds, RunReturns, ControlOK, threadVars
    <2>2. CASE RunReturns /\ spPc' = "out"
      BY <1>0, <2>2 DEF RunReturns, ThreadOK, ThreadTypeOK, Idle
    <2> QED
      BY <2>1, <2>2 DEF BeginsRun, LockForCheck, PollTick, PollInterrupted, PollExpires, UnlockAfterCheck,
         ReadsShutdown, PollFails, ScanEnds
  <1>5. /\ spPc' \in {"out", "begins", "check", "poll", "unlock", "sleep"} /\ spScan = {} /\ spUpdates = <<>>
        /\ spPc # "out" /\ spMutex' \in BOOLEAN /\ spShutdown' \in BOOLEAN /\ spCancels' \in BOOLEAN
        /\ spPc' \in {"poll", "unlock"} => spMutex'
    BY <1>0, <1>1 DEF BeginsRun, LockForCheck, PollTick, PollInterrupted, PollExpires, UnlockAfterCheck,
       ReadsShutdown, PollFails, ScanEnds, RunTypes, ControlOK
  <1>6. RunTypes' /\ ControlOK' /\ UpdatesOK'
    BY <1>0, <1>1, <1>2, <1>4, <1>5, RunGoes
  <1> QED
    BY <1>2, <1>3, <1>4, <1>6 DEF PoolInv

\* The poll returns to a scan of all members, with no update yet.
LEMMA ReturnKeeps == PoolInv /\ PollReturns => PoolInv'
  <1> SUFFICES ASSUME PoolInv, PollReturns PROVE PoolInv'
    OBVIOUS
  <1>0. ThreadOK /\ PollOK /\ TablesOK /\ RunTypes /\ ControlOK /\ UpdatesOK
    BY DEF PoolInv
  <1>1. /\ spPc = "poll" /\ spPc' = "scan" /\ spScan' = Members
        /\ spSlots' = [n \in Slots |-> [spSlots[n] EXCEPT !.revents = @ \/ n \in PolledReady]]
        /\ UNCHANGED <<threadVars, spStatus, spInfo, spFree, spByFd, spByPort, spMutex, spUpdates, spPoll,
                       spShutdown, spReady, spCancels>>
    BY DEF PollReturns, Running
  <1>2. spSlots' \in [Slots -> [fd : PoolSockets \cup {NoFd}, revents : BOOLEAN]]
    <2>1. ASSUME NEW n \in Slots
          PROVE  [spSlots[n] EXCEPT !.revents = @ \/ n \in PolledReady]
                   \in [fd : PoolSockets \cup {NoFd}, revents : BOOLEAN]
      <3>1. spSlots[n] \in [fd : PoolSockets \cup {NoFd}, revents : BOOLEAN]
        BY <1>0, <2>1 DEF TablesOK, TableTypes
      <3>2. PICK r : r = (spSlots[n].revents \/ n \in PolledReady)
        OBVIOUS
      <3>3. r \in BOOLEAN
        BY <3>1, <3>2, Zenon
      <3> QED
        BY <3>1, <3>2, <3>3
    <2> QED
      BY <1>1, <2>1
  <1>3. TablesOK' /\ Members' = Members
    BY <1>0, <1>1, <1>2, TablesKept
  <1>4. ThreadOK' /\ PollOK' /\ thPc' = thPc
    BY <1>0, <1>1, ThreadSame, PollSame
  <1>5. spUpdates' = <<>> /\ spMutex' = TRUE
    BY <1>0, <1>1 DEF ControlOK, RunTypes
  <1>6. RunTypes'
    BY <1>0, <1>1, <1>3 DEF RunTypes, Infos
  <1>7. ControlOK'
    BY <1>0, <1>1, <1>4, <1>5 DEF ControlOK
  <1>8. UpdatesOK'
    BY <1>5 DEF UpdatesOK, OnceIn
  <1> QED
    BY <1>3, <1>4, <1>6, <1>7, <1>8 DEF PoolInv

\* A socket that the scan sees is not the one of an earlier update.
LEMMA ScanKeeps == PoolInv /\ ScanSocket => PoolInv'
  <1> SUFFICES ASSUME PoolInv, ScanSocket PROVE PoolInv'
    OBVIOUS
  <1>0. ThreadOK /\ PollOK /\ TablesOK /\ RunTypes /\ ControlOK /\ UpdatesOK /\ TableTypes /\ InfosOK
    BY DEF PoolInv, TablesOK
  <1>1. PICK s \in spScan :
           /\ spScan' = spScan \ {s}
           /\ spUpdates' = IF spSlots[spInfo[spByFd[s]].slot].revents
                           THEN Append(spUpdates, spByFd[s]) ELSE spUpdates
           /\ spSlots' = [spSlots EXCEPT ![spInfo[spByFd[s]].slot].revents = FALSE]
    BY DEF ScanSocket
  <1>2. /\ UNCHANGED <<threadVars, spStatus, spInfo, spFree, spByFd, spByPort, spMutex, spPc, spPoll,
                       spShutdown, spReady, spCancels>>
        /\ spPc = "scan"
    BY DEF ScanSocket, Running
  <1>3. s \in Members /\ spByFd[s] \in Infos
    BY <1>0 DEF RunTypes, TableTypes
  <1>4. spSlots' \in [Slots -> [fd : PoolSockets \cup {NoFd}, revents : BOOLEAN]]
    BY <1>0, <1>1 DEF TableTypes
  <1>5. TablesOK' /\ Members' = Members
    BY <1>0, <1>2, <1>4, TablesKept
  <1>6. ThreadOK' /\ PollOK' /\ thPc' = thPc
    BY <1>0, <1>2, ThreadSame, PollSame
  <1>7. spUpdates \in Seq(Infos) /\ spUpdates' \in Seq(Infos)
    BY <1>0, <1>1, <1>3 DEF RunTypes
  <1>8. RunTypes'
    <2>1. spScan' \subseteq Members'
      BY <1>0, <1>1, <1>5 DEF RunTypes
    <2> QED
      BY <1>0, <1>2, <1>5, <1>7, <2>1 DEF RunTypes, Infos
  <1>9. ControlOK'
    BY <1>0, <1>2, <1>6 DEF ControlOK
  <1>10. \A k \in 1 .. Len(spUpdates) : spUpdates[k] # spByFd[s]
    BY <1>0, <1>3, OwnInfo DEF UpdatesOK
  <1>11. \A k \in 1 .. Len(spUpdates) : \E t \in Members \ spScan' : spUpdates[k] = spByFd[t]
    BY <1>0, <1>1 DEF UpdatesOK
  <1>12. UpdatesOK'
    <2>1. CASE spUpdates' = spUpdates
      BY <1>0, <1>2, <1>5, <1>11, <2>1 DEF UpdatesOK, OnceIn
    <2>2. CASE spUpdates' = Append(spUpdates, spByFd[s])
      <3>1. /\ Len(spUpdates) \in Nat /\ Len(spUpdates') = Len(spUpdates) + 1
            /\ spUpdates'[Len(spUpdates) + 1] = spByFd[s]
            /\ \A k \in 1 .. Len(spUpdates) : spUpdates'[k] = spUpdates[k]
        BY <1>3, <1>7, <2>2
      <3>2. OnceIn(spUpdates')
        BY <1>0, <1>10, <3>1 DEF UpdatesOK, OnceIn
      <3>3. \A k \in 1 .. Len(spUpdates') : \E t \in Members' \ spScan' : spUpdates'[k] = spByFd'[t]
        BY <1>1, <1>2, <1>3, <1>5, <1>11, <3>1
      <3> QED
        BY <3>2, <3>3 DEF UpdatesOK
    <2> QED
      BY <1>1, <2>1, <2>2
  <1> QED
    BY <1>5, <1>6, <1>8, <1>9, <1>12 DEF PoolInv

\* An update of a member; the member it deletes has no other update.
LEMMA UpdateKeeps == PoolInv /\ updateSocketStatus => PoolInv'
  <1> SUFFICES ASSUME PoolInv, updateSocketStatus PROVE PoolInv'
    OBVIOUS
  <1>0. ThreadOK /\ PollOK /\ TablesOK /\ RunTypes /\ ControlOK /\ UpdatesOK /\ TableTypes /\ InfosOK
    BY DEF PoolInv, TablesOK
  <1>1. PICK s : s = spInfo[Head(spUpdates)].fd
    OBVIOUS
  <1>2. /\ MayUpdate /\ spReady' = spReady \ {s} /\ spUpdates' = Tail(spUpdates)
        /\ \/ UNCHANGED poolTables
           \/ bAllowDeletion /\ deleteSocket(s)
           \/ bAllowDeletion /\ \E t \in PoolSockets : addSocket(t)
        /\ UNCHANGED <<threadVars, spMutex, spPc, spScan, spPoll, spShutdown, spCancels>>
    BY <1>1 DEF updateSocketStatus
  <1>3. spPc = "scan" /\ spUpdates # <<>> /\ (bAllowDeletion => spScan = {})
    BY <1>2 DEF MayUpdate, Running
  <1>4. /\ spUpdates \in Seq(Infos) /\ 1 \in 1 .. Len(spUpdates) /\ spUpdates[1] = Head(spUpdates)
        /\ Len(spUpdates') = Len(spUpdates) - 1 /\ spUpdates' \in Seq(Infos)
        /\ \A k \in 1 .. Len(spUpdates') : spUpdates'[k] = spUpdates[k + 1] /\ k + 1 \in 1 .. Len(spUpdates)
    BY <1>0, <1>2, <1>3 DEF RunTypes
  <1>5. s \in Members /\ spByFd[s] = Head(spUpdates)
    <2>1. PICK t \in Members : spUpdates[1] = spByFd[t]
      BY <1>0, <1>4 DEF UpdatesOK
    <2> QED
      BY <1>0, <1>1, <1>4, <2>1 DEF InfosOK
  <1>6. \A k \in 1 .. Len(spUpdates') : \E t \in (Members \ {s}) \ spScan : spUpdates'[k] = spByFd[t]
    <2> SUFFICES ASSUME NEW k \in 1 .. Len(spUpdates')
                 PROVE  \E t \in (Members \ {s}) \ spScan : spUpdates'[k] = spByFd[t]
      OBVIOUS
    <2>1. PICK t \in Members \ spScan : spUpdates[k + 1] = spByFd[t]
      BY <1>0, <1>4 DEF UpdatesOK
    <2>2. spUpdates[k + 1] # spUpdates[1]
      BY <1>0, <1>4 DEF UpdatesOK, OnceIn
    <2> QED
      BY <1>4, <1>5, <2>1, <2>2
  <1>7. OnceIn(spUpdates')
    BY <1>0, <1>4 DEF UpdatesOK, OnceIn
  <1>8. spStatus = "INITIALIZED"
    BY <1>0, <1>3 DEF ControlOK
  <1>9. /\ TablesOK' /\ spStatus' = spStatus
        /\ Members \ {s} \subseteq Members' /\ spScan \subseteq Members'
        /\ \A t \in Members \ {s} : spByFd'[t] = spByFd[t]
    <2>1. CASE UNCHANGED poolTables
      <3>1. spStatus' = spStatus /\ spByFd' = spByFd
        BY <2>1 DEF poolTables
      <3> QED
        BY <1>0, <2>1, <3>1, TablesSame DEF RunTypes
    <2>2. CASE bAllowDeletion /\ deleteSocket(s)
      BY <1>0, <1>3, <1>8, <2>2, DeleteKeeps
    <2>3. CASE bAllowDeletion /\ \E t \in PoolSockets : addSocket(t)
      BY <1>0, <1>3, <1>8, <2>3, AddKeeps
    <2> QED
      BY <1>2, <2>1, <2>2, <2>3
  <1>10. ThreadOK' /\ PollOK' /\ thPc' = thPc
    BY <1>0, <1>2, ThreadSame, PollSame
  <1>11. RunTypes'
    BY <1>0, <1>2, <1>4, <1>9 DEF RunTypes, Infos
  <1>12. ControlOK'
    BY <1>0, <1>2, <1>3, <1>9, <1>10 DEF ControlOK
  <1>13. UpdatesOK'
    <2> SUFFICES ASSUME NEW k \in 1 .. Len(spUpdates')
                 PROVE  \E t \in Members' \ spScan' : spUpdates'[k] = spByFd'[t]
      BY <1>7 DEF UpdatesOK
    <2>1. PICK t \in (Members \ {s}) \ spScan : spUpdates'[k] = spByFd[t]
      BY <1>6
    <2>2. t \in Members' \ spScan' /\ spByFd'[t] = spByFd[t]
      BY <1>2, <1>9, <2>1
    <2> QED
      BY <2>1, <2>2
  <1> QED
    BY <1>9, <1>10, <1>11, <1>12, <1>13 DEF PoolInv

LEMMA Stutters == PoolInv /\ UNCHANGED <<threadVars, poolVars>> => PoolInv'
  <1> SUFFICES ASSUME PoolInv, UNCHANGED <<threadVars, poolVars>> PROVE PoolInv'
    OBVIOUS
  <1>0. ThreadOK /\ PollOK /\ TablesOK /\ RunTypes /\ ControlOK /\ UpdatesOK
    BY DEF PoolInv
  <1>1. /\ UNCHANGED poolTables /\ UNCHANGED poolThread /\ spShutdown' = spShutdown /\ spCancels' = spCancels
        /\ spReady' = spReady /\ spStatus' = spStatus /\ spByFd' = spByFd /\ spPoll' = spPoll
    BY DEF poolVars, poolTables, poolThread
  <1>2. ThreadOK' /\ thPc' = thPc /\ PollOK' /\ TablesOK' /\ Members' = Members
    BY <1>0, <1>1, ThreadSame, PollSame, TablesSame
  <1> QED
    BY <1>0, <1>1, <1>2, RunSame DEF RunTypes, PoolInv

-----------------------------------------------------------------------------
\* The poll ends in time, the infos are conserved, the hash maps agree and
\* the updates are those of members: checkSocketsStatus, addSocket and
\* deleteSocket keep it, whatever the ports and the number of sockets are.
THEOREM PoolInvariant == PoolSpec => []PoolInv
  <1>1. PoolInv /\ [PoolNext]_<<threadVars, poolVars>> => PoolInv'
    BY InitPoolKeeps, FinishPoolKeeps, StartPoolKeeps, ThreadKeeps, OthersKeep, CancelKeeps, RunKeeps,
       ReturnKeeps, ScanKeeps, UpdateKeeps, Stutters DEF PoolNext, PoolRun, checkSocketsStatus
  <1> QED
    BY Initially, <1>1, PTL DEF PoolSpec

\* What the invariant says of the pool that the other threads see.
LEMMA Consistent == PoolInv => PoolConsistent
  <1> SUFFICES ASSUME PoolInv PROVE PoolConsistent
    OBVIOUS
  <1>0. ThreadOK /\ PollOK /\ TableTypes /\ InfosOK /\ PortsOK /\ RunTypes /\ ControlOK /\ UpdatesOK
    BY DEF PoolInv, TablesOK
  <1>1. PoolTypeOK
    BY <1>0 DEF PoolTypeOK, TableTypes, RunTypes
  <1>2. ASSUME spStatus = "INITIALIZED"
        PROVE  {spByFd[s] : s \in Members} \cup {spFree[k] : k \in DOMAIN spFree} = Infos
    <2>1. spFree \in Seq(Infos) /\ DOMAIN spFree = 1 .. Len(spFree)
      BY <1>0 DEF TableTypes
    <2>2. \A i \in Infos : (\E s \in Members : spByFd[s] = i) \/ (\E k \in DOMAIN spFree : spFree[k] = i)
      BY <1>0, <1>2, <2>1 DEF InfosOK, Held, IsFree
    <2>3. (\A s \in Members : spByFd[s] \in Infos) /\ (\A k \in DOMAIN spFree : spFree[k] \in Infos)
      BY <1>0, <2>1 DEF TableTypes
    <2> QED
      BY <2>2, <2>3
  <1>3. \A s \in Members : LocalPort[s] # NoPort => FindServerSocket(LocalPort[s]) = s
    BY <1>0 DEF FindServerSocket, PortsOK, InfosOK
  <1>4. \A q \in DOMAIN spByPort : FindServerSocket(q) \in Members
    <2> SUFFICES ASSUME NEW q \in DOMAIN spByPort PROVE FindServerSocket(q) \in Members
      OBVIOUS
    <2>1. PICK s \in Members : spByPort[q] = spByFd[s]
      BY <1>0 DEF PortsOK
    <2> QED
      BY <1>0, <2>1 DEF FindServerSocket, InfosOK
  <1>5. PoolInfosConserved
    BY <1>0, <1>2, <1>3, <1>4 DEF PoolInfosConserved, InfosOK, PoolSize
  <1>6. UpdatesOfMembers
    <2> SUFFICES ASSUME MayUpdate PROVE spInfo[Head(spUpdates)].fd \in Members
      BY DEF UpdatesOfMembers
    <2>1. spUpdates \in Seq(Infos) /\ spUpdates # <<>>
      BY <1>0 DEF RunTypes, MayUpdate
    <2>2. 1 \in 1 .. Len(spUpdates) /\ Head(spUpdates) = spUpdates[1]
      BY <2>1
    <2>3. PICK s \in Members : spUpdates[1] = spByFd[s]
      BY <1>0, <2>2 DEF UpdatesOK
    <2> QED
      BY <1>0, <2>2, <2>3 DEF InfosOK
  <1>7. PollWithinPeriod
    BY <1>0, PoolAssumption DEF PollOK, PollWithinPeriod
  <1> QED
    BY <1>0, <1>1, <1>5, <1>6, <1>7 DEF PoolConsistent, ThreadOK

\* Each member of the pool has one info of its own, the two hash maps agree,
\* updateSocketStatus is called for members only and signals do not make the
\* poll outlast its period.
THEOREM PoolIsConsistent == PoolSpec => []PoolConsistent
  BY PoolInvariant, Consistent, PTL

-----------------------------------------------------------------------------
(***************************************************************************)
(* The descriptors.  The methods of ServerSocket and ClientSocket leave a  *)
(* SocketImpl with a new descriptor, or with none and the open ones as     *)
(* they were.                                                              *)
(***************************************************************************)
ImplState == [fd : Descriptors \cup {MinusOne}, realized : BOOLEAN, port : BOOLEAN, open : SUBSET Descriptors]

Opened(i) == i \in ImplState /\ i.fd \in Descriptors \ siOpen /\ i.open = siOpen \cup {i.fd}
Closed(i) == i \in ImplState /\ i.fd = MinusOne /\ i.open = siOpen

\* The outcome of a chain of calls, before and after its clean-up.
Attempted(r) ==
    /\ r = [ok |-> r.ok, impl |-> r.impl] /\ r.ok \in BOOLEAN
    /\ Opened(r.impl) \/ Closed(r.impl)
    /\ r.ok => Opened(r.impl)

CleanedUp(r) == Attempted(r) /\ (~r.ok => Closed(r.impl))

\* A socket that is not initialized has no descriptor: without that, init would
\* lose the one it has.
ImplInv ==
    /\ ImplTypeOK /\ DescriptorsOwned
    /\ \A o \in Impls : siStatus[o] = "BUILDED" => siFd[o] = MinusOne

LEMMA NewFacts == New = [fd |-> MinusOne, realized |-> FALSE, port |-> FALSE, open |-> siOpen]
  BY DEF New

\* Both ways of giving a SocketImpl up close the descriptor it has.
LEMMA GivesUp ==
    ASSUME siOpen \subseteq Descriptors, NEW i, Opened(i) \/ Closed(i)
    PROVE  Closed(deleteImpl(i)) /\ Closed(deleteImpl(closeImpl(i)))
  <1>1. i = [fd |-> i.fd, realized |-> i.realized, port |-> i.port, open |-> i.open]
    BY DEF Opened, Closed, ImplState
  <1>2. i.realized \in BOOLEAN /\ i.port \in BOOLEAN /\ MinusOne \notin siOpen
    BY DescriptorsAssumption DEF Opened, Closed, ImplState
  <1>3. i.open \ {i.fd} = siOpen
    <2>1. CASE Opened(i)
      BY <2>1 DEF Opened
    <2>2. CASE Closed(i)
      BY <1>2, <2>2 DEF Closed
    <2> QED
      BY <2>1, <2>2
  <1>4. ASSUME NEW j, j.open \ {j.fd} = siOpen PROVE Closed(deleteImpl(j))
    <2>1. deleteImpl(j) = [New EXCEPT !.open = siOpen]
      BY <1>4, Zenon DEF deleteImpl
    <2>2. deleteImpl(j) = [fd |-> MinusOne, realized |-> FALSE, port |-> FALSE, open |-> siOpen]
      BY <2>1, NewFacts
    <2> QED
      BY <2>2 DEF Closed, ImplState
  <1>5. PICK m : m = [i EXCEPT !.fd = MinusOne]
    OBVIOUS
  <1>6. closeImpl(i) = [m EXCEPT !.open = @ \ {i.fd}]
    BY <1>5, Zenon DEF closeImpl
  <1>7. m = [fd |-> MinusOne, realized |-> i.realized, port |-> i.port, open |-> i.open]
    BY <1>1, <1>5
  <1>8. closeImpl(i) = [fd |-> MinusOne, realized |-> i.realized, port |-> i.port, open |-> siOpen]
    BY <1>3, <1>6, <1>7
  <1>9. closeImpl(i).open \ {closeImpl(i).fd} = siOpen
    BY <1>2, <1>8
  <1> QED
    BY <1>3, <1>4, <1>9

LEMMA Refuses ==
    ASSUME siOpen \subseteq Descriptors, NEW i, Opened(i) \/ Closed(i)
    PROVE  /\ CleanedUp([ok |-> FALSE, impl |-> deleteImpl(i)])
           /\ CleanedUp([ok |-> FALSE, impl |-> deleteImpl(closeImpl(i))])
  <1>1. PICK j : j = deleteImpl(i)
    OBVIOUS
  <1>2. PICK k : k = deleteImpl(closeImpl(i))
    OBVIOUS
  <1>3. Closed(j) /\ Closed(k)
    BY <1>1, <1>2, GivesUp
  <1>4. CleanedUp([ok |-> FALSE, impl |-> j]) /\ CleanedUp([ok |-> FALSE, impl |-> k])
    BY <1>3 DEF CleanedUp, Attempted
  <1> QED
    BY <1>1, <1>2, <1>4, Zenon

LEMMA Creates ==
    ASSUME siOpen \subseteq Descriptors, NEW r \in createImpl
    PROVE  CleanedUp(r)
  <1>1. CASE r = [ok |-> FALSE, impl |-> New]
    BY <1>1, NewFacts DEF CleanedUp, Attempted, Closed, ImplState
  <1>2. ASSUME NEW d \in Descriptors \ siOpen, r = [ok |-> TRUE, impl |-> [New EXCEPT !.fd = d, !.open = @ \cup {d}]]
        PROVE  CleanedUp(r)
    <2>1. r.impl = [fd |-> d, realized |-> FALSE, port |-> FALSE, open |-> siOpen \cup {d}]
      BY NewFacts, <1>2
    <2>2. Opened(r.impl)
      BY <2>1 DEF Opened, ImplState
    <2> QED
      BY <1>2, <2>2 DEF CleanedUp, Attempted
  <1> QED
    BY <1>1, <1>2 DEF createImpl

\* bind, listen and connect keep the descriptor.
LEMMA Continues ==
    ASSUME NEW i, Opened(i), NEW r \in bindImpl(i) \cup listenImpl(i) \cup connectImpl(i)
    PROVE  Attempted(r)
  <1>1. i = [fd |-> i.fd, realized |-> i.realized, port |-> i.port, open |-> i.open]
    BY DEF Opened, ImplState
  <1>2. PICK p : p = [i EXCEPT !.port = TRUE]
    OBVIOUS
  <1>3. PICK q : q = [i EXCEPT !.realized = TRUE]
    OBVIOUS
  <1>4. Opened(p) /\ Opened(q)
    <2>1. p = [fd |-> i.fd, realized |-> i.realized, port |-> TRUE, open |-> i.open]
      BY <1>1, <1>2
    <2>2. q = [fd |-> i.fd, realized |-> TRUE, port |-> i.port, open |-> i.open]
      BY <1>1, <1>3
    <2> QED
      BY <2>1, <2>2 DEF Opened, ImplState
  <1>5. bindImpl(i) = {[ok |-> FALSE, impl |-> p], [ok |-> TRUE, impl |-> p]}
    BY <1>2, Zenon DEF bindImpl
  <1>6. connectImpl(i) = {[ok |-> FALSE, impl |-> i], [ok |-> TRUE, impl |-> q]}
    BY <1>3, Zenon DEF connectImpl
  <1>7. \E b \in BOOLEAN, j \in {i, p, q} : r = [ok |-> b, impl |-> j]
    BY <1>5, <1>6 DEF listenImpl
  <1> QED
    BY <1>4, <1>7 DEF Attempted

LEMMA ServerOutcome ==
    ASSUME siOpen \subseteq Descriptors, initServer
    PROVE  \E r : CleanedUp(r) /\ Becomes("server", r)
  <1> DEFINE cleanUp(i) == deleteImpl(closeImpl(i))
             bound == Then(createImpl, LAMBDA i : bindImpl(i), LAMBDA i : deleteImpl(i))
             listening == Then(bound, LAMBDA i : listenImpl(i), cleanUp)
  <1>1. ASSUME NEW r \in bound PROVE Attempted(r)
    <2>1. PICK b \in createImpl : r \in IF b.ok THEN bindImpl(b.impl)
                                       ELSE {[ok |-> FALSE, impl |-> deleteImpl(b.impl)]}
      BY <1>1 DEF Then
    <2>2. CleanedUp(b)
      BY Creates
    <2> QED
      <3>1. CASE b.ok
        BY <2>1, <2>2, <3>1, Continues DEF CleanedUp, Attempted
      <3>2. CASE ~b.ok
        <4>1. r = [ok |-> FALSE, impl |-> deleteImpl(b.impl)]
          BY <2>1, <3>2, Zenon
        <4>2. CleanedUp(r)
          BY <2>2, <4>1, Refuses, Zenon DEF CleanedUp, Attempted
        <4> QED
          BY <4>2 DEF CleanedUp
      <3> QED
        BY <3>1, <3>2
  <1>2. ASSUME NEW r \in listening PROVE Attempted(r)
    <2> HIDE DEF bound
    <2>1. PICK b \in bound : r \in IF b.ok THEN listenImpl(b.impl)
                                   ELSE {[ok |-> FALSE, impl |-> deleteImpl(closeImpl(b.impl))]}
      BY <1>2 DEF Then
    <2>2. Attempted(b)
      BY <1>1
    <2> QED
      <3>1. CASE b.ok
        BY <2>1, <2>2, <3>1, Continues DEF Attempted
      <3>2. CASE ~b.ok
        <4>1. r = [ok |-> FALSE, impl |-> deleteImpl(closeImpl(b.impl))]
          BY <2>1, <3>2, Zenon
        <4>2. CleanedUp(r)
          BY <2>2, <4>1, Refuses, Zenon DEF Attempted
        <4> QED
          BY <4>2 DEF CleanedUp
      <3> QED
        BY <3>1, <3>2
  <1>3. ASSUME NEW r \in Then(listening, LAMBDA i : {[ok |-> TRUE, impl |-> i]}, cleanUp) PROVE CleanedUp(r)
    <2> HIDE DEF listening
    <2>1. PICK b \in listening : r \in IF b.ok THEN {[ok |-> TRUE, impl |-> b.impl]}
                                       ELSE {[ok |-> FALSE, impl |-> deleteImpl(closeImpl(b.impl))]}
      BY <1>3 DEF Then
    <2>2. Attempted(b)
      BY <1>2
    <2> QED
      <3>1. CASE b.ok
        BY <2>1, <2>2, <3>1 DEF CleanedUp, Attempted
      <3>2. CASE ~b.ok
        <4>1. r = [ok |-> FALSE, impl |-> deleteImpl(closeImpl(b.impl))]
          BY <2>1, <3>2, Zenon
        <4> QED
          BY <2>2, <4>1, Refuses, Zenon DEF Attempted
      <3> QED
        BY <3>1, <3>2
  <1>4. PICK r \in Then(listening, LAMBDA i : {[ok |-> TRUE, impl |-> i]}, cleanUp) : Becomes("server", r)
    BY DEF initServer
  <1> QED
    BY <1>3, <1>4

LEMMA ClientOutcome ==
    ASSUME siOpen \subseteq Descriptors, initClient
    PROVE  \E r : CleanedUp(r) /\ Becomes("client", r)
  <1> DEFINE cleanUp(i) == deleteImpl(closeImpl(i))
             bound == Then(createImpl, LAMBDA i : bindImpl(i), LAMBDA i : deleteImpl(i))
             connected == Then(bound, LAMBDA i : connectImpl(i), cleanUp)
  <1>1. ASSUME NEW r \in bound PROVE Attempted(r)
    <2>1. PICK b \in createImpl : r \in IF b.ok THEN bindImpl(b.impl)
                                       ELSE {[ok |-> FALSE, impl |-> deleteImpl(b.impl)]}
      BY <1>1 DEF Then
    <2>2. CleanedUp(b)
      BY Creates
    <2> QED
      <3>1. CASE b.ok
        BY <2>1, <2>2, <3>1, Continues DEF CleanedUp, Attempted
      <3>2. CASE ~b.ok
        <4>1. r = [ok |-> FALSE, impl |-> deleteImpl(b.impl)]
          BY <2>1, <3>2, Zenon
        <4>2. CleanedUp(r)
          BY <2>2, <4>1, Refuses, Zenon DEF CleanedUp, Attempted
        <4> QED
          BY <4>2 DEF CleanedUp
      <3> QED
        BY <3>1, <3>2
  <1>2. ASSUME NEW r \in connected PROVE Attempted(r)
    <2> HIDE DEF bound
    <2>1. PICK b \in bound : r \in IF b.ok THEN connectImpl(b.impl)
                                   ELSE {[ok |-> FALSE, impl |-> deleteImpl(closeImpl(b.impl))]}
      BY <1>2 DEF Then
    <2>2. Attempted(b)
      BY <1>1
    <2> QED
      <3>1. CASE b.ok
        BY <2>1, <2>2, <3>1, Continues DEF Attempted
      <3>2. CASE ~b.ok
        <4>1. r = [ok |-> FALSE, impl |-> deleteImpl(closeImpl(b.impl))]
          BY <2>1, <3>2, Zenon
        <4>2. CleanedUp(r)
          BY <2>2, <4>1, Refuses, Zenon DEF Attempted
        <4> QED
          BY <4>2 DEF CleanedUp
      <3> QED
        BY <3>1, <3>2
  <1>3. ASSUME NEW r \in Then(connected, LAMBDA i : {[ok |-> TRUE, impl |-> i]}, cleanUp) PROVE CleanedUp(r)
    <2> HIDE DEF connected
    <2>1. PICK b \in connected : r \in IF b.ok THEN {[ok |-> TRUE, impl |-> b.impl]}
                                       ELSE {[ok |-> FALSE, impl |-> deleteImpl(closeImpl(b.impl))]}
      BY <1>3 DEF Then
    <2>2. Attempted(b)
      BY <1>2
    <2> QED
      <3>1. CASE b.ok
        BY <2>1, <2>2, <3>1 DEF CleanedUp, Attempted
      <3>2. CASE ~b.ok
        <4>1. r = [ok |-> FALSE, impl |-> deleteImpl(closeImpl(b.impl))]
          BY <2>1, <3>2, Zenon
        <4> QED
          BY <2>2, <4>1, Refuses, Zenon DEF Attempted
      <3> QED
        BY <3>1, <3>2
  <1>4. PICK r \in Then(connected, LAMBDA i : {[ok |-> TRUE, impl |-> i]}, cleanUp) : Becomes("client", r)
    BY DEF initClient
  <1> QED
    BY <1>3, <1>4

\* A socket without descriptor gets a new one or stays without.
LEMMA BecomesKeeps ==
    ASSUME ImplInv, NEW o \in Impls, siFd[o] = MinusOne, NEW r, Attempted(r), Becomes(o, r),
           ~r.ok => Closed(r.impl)
    PROVE  ImplInv'
  <1>1. /\ siFd' = [siFd EXCEPT ![o] = r.impl.fd] /\ siRealized' = [siRealized EXCEPT ![o] = r.impl.realized]
        /\ siPort' = [siPort EXCEPT ![o] = r.impl.port] /\ siOpen' = r.impl.open
        /\ siStatus' = [siStatus EXCEPT ![o] = IF r.ok THEN "INITIALIZED" ELSE "BUILDED"]
        /\ siOptions' = [d \in Descriptors |-> IF d \in siOpen' THEN siOptions[d] ELSE {}]
    BY DEF Becomes
  <1>2. r.impl \in ImplState /\ r.ok \in BOOLEAN
    BY DEF Attempted, Opened, Closed
  <1>3. /\ r.impl.fd \in Descriptors \cup {MinusOne} /\ r.impl.realized \in BOOLEAN /\ r.impl.port \in BOOLEAN
        /\ r.impl.open \subseteq Descriptors
    BY <1>2 DEF ImplState
  <1>4. ImplTypeOK'
    <2>1. siOptions' \in [Descriptors -> SUBSET Options]
      BY <1>1 DEF ImplInv, ImplTypeOK
    <2>2. siStatus' \in [Impls -> {"BUILDED", "INITIALIZED"}]
      BY <1>1 DEF ImplInv, ImplTypeOK
    <2> QED
      BY <1>1, <1>3, <2>1, <2>2 DEF ImplInv, ImplTypeOK
  <1>5. /\ siFd'[o] = r.impl.fd /\ siStatus'[o] = (IF r.ok THEN "INITIALIZED" ELSE "BUILDED")
        /\ \A p \in Impls \ {o} : siFd'[p] = siFd[p] /\ siStatus'[p] = siStatus[p]
    BY <1>1 DEF ImplInv, ImplTypeOK
  <1>6. DescriptorsOwned'
    <2>1. CASE Closed(r.impl)
      BY <1>1, <1>5, <2>1 DEF Closed, ImplInv, DescriptorsOwned
    <2>2. CASE Opened(r.impl)
      <3>1. r.impl.fd \in Descriptors \ siOpen /\ siOpen' = siOpen \cup {r.impl.fd}
        BY <1>1, <2>2 DEF Opened
      <3>2. \A p \in Impls \ {o} : siFd'[p] # r.impl.fd
        BY <1>5, <3>1, DescriptorsAssumption DEF ImplInv, DescriptorsOwned
      <3>3. siOpen' = {siFd'[p] : p \in Impls} \ {MinusOne}
        BY <1>5, <3>1, DescriptorsAssumption DEF ImplInv, DescriptorsOwned
      <3>4. \A p, q \in Impls : siFd'[p] = siFd'[q] /\ siFd'[p] # MinusOne => p = q
        BY <1>5, <3>2 DEF ImplInv, DescriptorsOwned
      <3> QED
        BY <3>3, <3>4 DEF DescriptorsOwned
    <2> QED
      BY <2>1, <2>2 DEF Attempted
  <1>7. \A p \in Impls : siStatus'[p] = "BUILDED" => siFd'[p] = MinusOne
    BY <1>5 DEF ImplInv, Closed
  <1> QED
    BY <1>4, <1>6, <1>7 DEF ImplInv

\* finish closes the descriptor that the socket has, if it has one.
LEMMA FinishKeeps ==
    ASSUME ImplInv, NEW o \in Impls,
           Becomes(o, [ok |-> FALSE, impl |-> deleteImpl(closeImpl([New EXCEPT !.fd = siFd[o]]))])
    PROVE  ImplInv'
  <1>1. PICK i : i = [New EXCEPT !.fd = siFd[o]]
    OBVIOUS
  <1>2. PICK j : j = deleteImpl(closeImpl(i))
    OBVIOUS
  <1>3. siOpen \subseteq Descriptors /\ siFd[o] \in Descriptors \cup {MinusOne} /\ MinusOne \notin siOpen
    BY DescriptorsAssumption DEF ImplInv, ImplTypeOK
  <1>4. j = [fd |-> MinusOne, realized |-> FALSE, port |-> FALSE, open |-> siOpen \ {siFd[o]}]
    <2>1. i = [fd |-> siFd[o], realized |-> FALSE, port |-> FALSE, open |-> siOpen]
      BY <1>1, NewFacts
    <2>2. PICK m : m = [i EXCEPT !.fd = MinusOne]
      OBVIOUS
    <2>3. closeImpl(i) = [m EXCEPT !.open = @ \ {i.fd}]
      BY <2>2, Zenon DEF closeImpl
    <2>4. m = [fd |-> MinusOne, realized |-> FALSE, port |-> FALSE, open |-> siOpen]
      BY <2>1, <2>2
    <2>5. PICK c : c = closeImpl(i)
      OBVIOUS
    <2>6. c = [fd |-> MinusOne, realized |-> FALSE, port |-> FALSE, open |-> siOpen \ {siFd[o]}]
      BY <2>1, <2>3, <2>4, <2>5
    <2>7. j = [New EXCEPT !.open = c.open \ {c.fd}]
      BY <1>2, <2>5, Zenon DEF deleteImpl
    <2>8. c.open \ {c.fd} = siOpen \ {siFd[o]}
      BY <1>3, <2>6
    <2> QED
      BY <2>7, <2>8, NewFacts
  <1>5. Becomes(o, [ok |-> FALSE, impl |-> j])
    BY <1>1, <1>2, Zenon
  <1>6. /\ siFd' = [siFd EXCEPT ![o] = MinusOne] /\ siRealized' = [siRealized EXCEPT ![o] = FALSE]
        /\ siPort' = [siPort EXCEPT ![o] = FALSE] /\ siOpen' = siOpen \ {siFd[o]}
        /\ siStatus' = [siStatus EXCEPT ![o] = "BUILDED"]
        /\ siOptions' = [d \in Descriptors |-> IF d \in siOpen' THEN siOptions[d] ELSE {}]
    BY <1>4, <1>5 DEF Becomes
  <1>7. ImplTypeOK'
    <2>1. siOptions' \in [Descriptors -> SUBSET Options]
      BY <1>6 DEF ImplInv, ImplTypeOK
    <2> QED
      BY <1>3, <1>6, <2>1 DEF ImplInv, ImplTypeOK
  <1>8. /\ siFd'[o] = MinusOne /\ siStatus'[o] = "BUILDED"
        /\ \A p \in Impls \ {o} : siFd'[p] = siFd[p] /\ siStatus'[p] = siStatus[p]
    BY <1>6 DEF ImplInv, ImplTypeOK
  <1>9. siOpen' = {siFd'[p] : p \in Impls} \ {MinusOne}
    BY <1>6, <1>8 DEF ImplInv, DescriptorsOwned
  <1>10. \A p, q \in Impls : siFd'[p] = siFd'[q] /\ siFd'[p] # MinusOne => p = q
    BY <1>8 DEF ImplInv, DescriptorsOwned
  <1> QED
    BY <1>7, <1>8, <1>9, <1>10 DEF ImplInv, DescriptorsOwned

\* A new descriptor of accept.
LEMMA AcceptKeeps == ImplInv /\ acceptConnection => ImplInv'
  <1> SUFFICES ASSUME ImplInv, acceptConnection PROVE ImplInv'
    OBVIOUS
  <1>1. "accepted" \in Impls /\ siFd["accepted"] = MinusOne /\ siOpen \subseteq Descriptors
    BY DEF acceptConnection, Impls, ImplInv, ImplTypeOK
  <1>2. CASE UNCHANGED implVars
    BY <1>2 DEF implVars, ImplInv, ImplTypeOK, DescriptorsOwned
  <1>3. ASSUME NEW d \in Descriptors \ siOpen,
               Becomes("accepted", [ok |-> TRUE, impl |-> [New EXCEPT !.fd = d, !.realized = TRUE,
                                                                      !.open = @ \cup {d}]])
        PROVE  ImplInv'
    <2>1. PICK i : i = [New EXCEPT !.fd = d, !.realized = TRUE, !.open = @ \cup {d}]
      OBVIOUS
    <2>2. i = [fd |-> d, realized |-> TRUE, port |-> FALSE, open |-> siOpen \cup {d}]
      BY <2>1, NewFacts
    <2>3. PICK r : r = [ok |-> TRUE, impl |-> i]
      OBVIOUS
    <2>4. Attempted(r) /\ r.ok
      BY <1>1, <2>2, <2>3 DEF Attempted, Opened, ImplState
    <2>5. Becomes("accepted", r)
      BY <1>3, <2>1, <2>3, Zenon
    <2> QED
      BY <1>1, <2>4, <2>5, BecomesKeeps
  <1> QED
    BY <1>2, <1>3 DEF acceptConnection

LEMMA OptionKeeps ==
    ASSUME ImplInv, NEW o \in Impls, NEW option \in Options, setOption(o, option) \/ setBlocking(o)
    PROVE  ImplInv'
  <1>1. /\ siFd[o] # MinusOne /\ UNCHANGED <<siFd, siRealized, siPort, siOpen, siStatus>>
        /\ \E x \in SUBSET Options : siOptions' = [siOptions EXCEPT ![siFd[o]] = x]
    BY DEF setOption, setBlocking, Options, ImplInv, ImplTypeOK
  <1>2. siOptions' \in [Descriptors -> SUBSET Options]
    BY <1>1 DEF ImplInv, ImplTypeOK
  <1> QED
    BY <1>1, <1>2 DEF ImplInv, ImplTypeOK, DescriptorsOwned

\* Whichever call fails, the open descriptors are those of the sockets: each
\* path of init, accept and finish closes what it has opened, once.
THEOREM ImplInvariant == ImplSpec => []ImplInv
  <1>1. ImplInit => ImplInv
    BY DEF ImplInit, ImplInv, ImplTypeOK, DescriptorsOwned, Impls
  <1>2. ImplInv /\ [ImplNext]_implVars => ImplInv'
    <2> SUFFICES ASSUME ImplInv, [ImplNext]_implVars PROVE ImplInv'
      OBVIOUS
    <2>0. siOpen \subseteq Descriptors /\ "server" \in Impls /\ "client" \in Impls
      BY DEF ImplInv, ImplTypeOK, Impls
    <2>1. CASE initServer
      <3>1. siFd["server"] = MinusOne
        BY <2>0, <2>1 DEF initServer, ImplInv
      <3> QED
        BY <2>0, <2>1, <3>1, ServerOutcome, BecomesKeeps DEF CleanedUp
    <2>2. CASE initClient
      <3>1. siFd["client"] = MinusOne
        BY <2>0, <2>2 DEF initClient, ImplInv
      <3> QED
        BY <2>0, <2>2, <3>1, ClientOutcome, BecomesKeeps DEF CleanedUp
    <2>3. CASE finishServer
      BY <2>0, <2>3, FinishKeeps DEF finishServer
    <2>4. ASSUME NEW o \in Impls, finishClient(o) PROVE ImplInv'
      BY <2>4, FinishKeeps DEF finishClient
    <2>5. CASE initAccepted
      BY <2>5 DEF initAccepted, ImplInv, ImplTypeOK, DescriptorsOwned
    <2>6. CASE acceptConnection
      BY <2>6, AcceptKeeps
    <2>7. ASSUME NEW o \in {"client"},
                 \/ setReceivingTimeout(o) \/ setSendingTimeout(o) \/ setMaxSendBuffer(o)
                 \/ setMaxReceiveBuffer(o) \/ setLinger(o) \/ setKeepAlive(o)
                 \/ setNoDelay(o) \/ setBlocking(o)
          PROVE  ImplInv'
      <3>1. \E option \in Options : setOption(o, option) \/ setBlocking(o)
        BY <2>7 DEF Options, setReceivingTimeout, setSendingTimeout, setMaxSendBuffer, setMaxReceiveBuffer,
                    setLinger, setKeepAlive, setNoDelay
      <3> QED
        BY <2>0, <3>1, OptionKeeps
    <2>8. CASE UNCHANGED implVars
      BY <2>8 DEF implVars, ImplInv, ImplTypeOK, DescriptorsOwned
    <2> QED
      BY <2>1, <2>2, <2>3, <2>4, <2>5, <2>6, <2>7, <2>8 DEF ImplNext
  <1> QED
    BY <1>1, <1>2, PTL DEF ImplSpec

\* Threads and descriptors together: the kernel keeps nothing that no object
\* has, and never runs two threads for one object.
THEOREM KernelResourcesAreOwned == KernelSpec => KernelResourcesOwned
  <1>1. ImplInv => ImplTypeOK /\ DescriptorsOwned
    BY DEF ImplInv
  <1> QED
    BY <1>1, ImplInvariant, ThreadsAreReleased, OneThread, PTL DEF KernelSpec, KernelResourcesOwned

-----------------------------------------------------------------------------
(***************************************************************************)
(* The pool of connected client sockets.                                   *)
(***************************************************************************)
ClientSockets == [status : {"BUILDED", "INITIALIZED"}, connection : {"none", "up", "closed"}, age : 0 .. MaxAge]

\* A socket is free, or one user has it, or it was lost on its way back; an
\* address that nobody asked for has no used sockets.
KeptOnce(known, free, used) ==
    \A a \in RemoteAddresses :
        /\ OnceIn(free[a])
        /\ \A i \in 1 .. PerAddress, u \in SocketUsers :
             <<a, i>> \in used[u] =>
                /\ a \in known /\ i \notin Vector!ToSet(free[a])
                /\ \A v \in SocketUsers : <<a, i>> \in used[v] => u = v

ClientPoolInv == ClientPoolTypeOK /\ KeptOnce(csKnown, csFree, csUsed)

\* A connection that may be handed out.
Young(s) == s.connection # "none" => s.age = 0 \/ ~TooOld(s)

\* An outcome that reports success leaves a connection that may be used.
OutcomeOK(o) == o.socket \in ClientSockets /\ o.ok \in BOOLEAN /\ (o.ok => Young(o.socket))

\* What the first and the other elements of a sequence without repetitions
\* are, and what it is with a new one at its front.
LEMMA OnceTail ==
    ASSUME NEW S, NEW s \in Seq(S), s # <<>>, OnceIn(s)
    PROVE  /\ Head(s) \in S /\ Head(s) \in Vector!ToSet(s)
           /\ Tail(s) \in Seq(S) /\ OnceIn(Tail(s))
           /\ Vector!ToSet(Tail(s)) \subseteq Vector!ToSet(s) \ {Head(s)}
  <1>1. Len(s) \in Nat /\ Len(s) # 0 /\ DOMAIN s = 1 .. Len(s)
    OBVIOUS
  <1>2. Head(s) = s[1] /\ 1 \in 1 .. Len(s)
    BY <1>1
  <1>3. PICK t : t = Tail(s)
    OBVIOUS
  <1>4. t \in Seq(S) /\ Len(t) = Len(s) - 1 /\ DOMAIN t = 1 .. Len(t)
    BY <1>1, <1>3
  <1>5. ASSUME NEW k \in 1 .. Len(t) PROVE t[k] = s[k + 1] /\ k + 1 \in 1 .. Len(s) /\ k + 1 # 1
    BY <1>1, <1>3, <1>4
  <1>6. OnceIn(t)
    <2>1. ASSUME NEW j \in 1 .. Len(t), NEW k \in 1 .. Len(t), t[j] = t[k] PROVE j = k
      <3>1. j + 1 = k + 1
        BY <1>5, <2>1 DEF OnceIn
      <3> QED
        BY <1>4, <3>1
    <2> QED
      BY <2>1 DEF OnceIn
  <1>7. \A k \in 1 .. Len(t) : t[k] # s[1]
    BY <1>2, <1>5 DEF OnceIn
  <1> QED
    BY <1>1, <1>2, <1>3, <1>4, <1>5, <1>6, <1>7 DEF Vector!ToSet

LEMMA OnceFront ==
    ASSUME NEW S, NEW s \in Seq(S), OnceIn(s), NEW x \in S, x \notin Vector!ToSet(s)
    PROVE  /\ <<x>> \o s \in Seq(S) /\ OnceIn(<<x>> \o s)
           /\ Vector!ToSet(<<x>> \o s) \subseteq Vector!ToSet(s) \cup {x}
  <1>1. Len(s) \in Nat /\ DOMAIN s = 1 .. Len(s)
    OBVIOUS
  <1>2. PICK t : t = <<x>> \o s
    OBVIOUS
  <1>3. t \in Seq(S) /\ Len(t) = Len(s) + 1 /\ DOMAIN t = 1 .. Len(t) /\ t[1] = x
    BY <1>1, <1>2
  <1>4. ASSUME NEW k \in 1 .. Len(t), k # 1
        PROVE  k - 1 \in 1 .. Len(s) /\ t[k] = s[k - 1] /\ t[k] \in Vector!ToSet(s) /\ t[k] # x
    <2>1. k - 1 \in 1 .. Len(s)
      BY <1>1, <1>3, <1>4
    <2>2. t[k] = s[k - 1]
      BY <1>1, <1>2, <1>3, <1>4, <2>1
    <2>3. s[k - 1] \in Vector!ToSet(s)
      BY <1>1, <2>1 DEF Vector!ToSet
    <2> QED
      BY <2>1, <2>2, <2>3
  <1>5. OnceIn(t)
    <2>1. ASSUME NEW j \in 1 .. Len(t), NEW k \in 1 .. Len(t), t[j] = t[k] PROVE j = k
      <3>1. j = 1 <=> k = 1
        BY <1>3, <1>4, <2>1
      <3>2. CASE j # 1
        <4>1. j - 1 = k - 1
          BY <1>4, <2>1, <3>1, <3>2 DEF OnceIn
        <4> QED
          BY <1>3, <4>1
      <3> QED
        BY <3>1, <3>2
    <2> QED
      BY <2>1 DEF OnceIn
  <1>6. \A y \in Vector!ToSet(t) : y = x \/ y \in Vector!ToSet(s)
    BY <1>3, <1>4 DEF Vector!ToSet
  <1> QED
    BY <1>2, <1>3, <1>5, <1>6

-----------------------------------------------------------------------------
LEMMA FinishOutcomes ==
    ASSUME NEW s \in ClientSockets, NEW o \in finishClientSocket(s)
    PROVE  o.socket \in ClientSockets /\ o.ok \in BOOLEAN /\ (~o.ok => o.socket = s) /\ (o.ok => Young(o.socket))
           /\ o = [socket |-> o.socket, ok |-> o.ok]
  <1>1. MaxAge \in Nat /\ Builded \in ClientSockets /\ Young(Builded)
    BY ClientSocketsAssumption DEF Builded, ClientSockets, Young
  <1>2. o = [socket |-> Builded, ok |-> TRUE] \/ o = [socket |-> s, ok |-> FALSE]
    BY DEF finishClientSocket, Outcome
  <1>3. ASSUME o = [socket |-> Builded, ok |-> TRUE] PROVE o.socket = Builded /\ o.ok = TRUE
    BY <1>3
  <1>4. ASSUME o = [socket |-> s, ok |-> FALSE] PROVE o.socket = s /\ o.ok = FALSE
    BY <1>4
  <1> QED
    BY <1>1, <1>2, <1>3, <1>4

LEMMA InitOutcomes ==
    ASSUME NEW s \in ClientSockets, NEW o \in initClientSocket(s)
    PROVE  OutcomeOK(o)
  <1>1. MaxAge \in Nat
    BY ClientSocketsAssumption
  <1>2. Builded \in ClientSockets /\ Connected \in ClientSockets /\ Young(Builded) /\ Young(Connected)
    BY <1>1 DEF Builded, Connected, ClientSockets, Young
  <1>3. \A x \in GivenUp : x \in ClientSockets /\ Young(x)
    <2>1. NotConnected \in ClientSockets /\ Young(NotConnected)
      BY <1>1 DEF NotConnected, ClientSockets, Young
    <2> QED
      BY <1>2, <2>1 DEF GivenUp
  <1>4. \/ o = [socket |-> s, ok |-> FALSE]
        \/ \E y \in {Builded, Connected} \cup GivenUp, b \in BOOLEAN : o = [socket |-> y, ok |-> b]
    <2>1. CASE s.status # "BUILDED"
      BY <2>1, Zenon DEF initClientSocket, Outcome
    <2>2. CASE s.status = "BUILDED"
      BY <2>2, Zenon DEF initClientSocket, Outcome
    <2> QED
      BY <2>1, <2>2
  <1>5. CASE o = [socket |-> s, ok |-> FALSE]
    BY <1>5 DEF OutcomeOK
  <1>6. ASSUME NEW y \in {Builded, Connected} \cup GivenUp, NEW b \in BOOLEAN, o = [socket |-> y, ok |-> b]
        PROVE  OutcomeOK(o)
    <2>1. y \in ClientSockets /\ Young(y)
      BY <1>2, <1>3
    <2>2. o.socket = y /\ o.ok = b
      BY <1>6
    <2> QED
      BY <2>1, <2>2 DEF OutcomeOK
  <1> QED
    BY <1>4, <1>5, <1>6

LEMMA ReinitOutcomes ==
    ASSUME NEW s \in ClientSockets, NEW o \in reinitClientSocket(s)
    PROVE  OutcomeOK(o)
  <1>1. PICK f \in finishClientSocket(s) : o \in IF f.ok THEN initClientSocket(f.socket) ELSE {f}
    BY DEF reinitClientSocket
  <1> QED
    BY <1>1, FinishOutcomes, InitOutcomes DEF OutcomeOK

\* What is handed out is connected anew, or was found young and writable.
LEMMA PreparedOutcomes ==
    ASSUME NEW s \in ClientSockets, NEW o \in Prepared(s)
    PROVE  OutcomeOK(o)
  <1>1. CASE s.status = "BUILDED"
    BY <1>1, InitOutcomes DEF Prepared
  <1>2. CASE s.status # "BUILDED"
    <2> DEFINE young == IF TooOld(s) THEN reinitClientSocket(s) ELSE {Outcome(s, TRUE)}
               checked(x) ==
                 IF ~x.ok THEN {x}
                 ELSE IF x.socket.status = "BUILDED" THEN {}
                 ELSE {x, Outcome(x.socket, FALSE)} \cup reinitClientSocket(x.socket)
    <2>1. ASSUME NEW x \in young PROVE OutcomeOK(x)
      <3>1. CASE TooOld(s)
        BY <2>1, <3>1, ReinitOutcomes
      <3>2. CASE ~TooOld(s)
        <4>1. x = [socket |-> s, ok |-> TRUE]
          BY <2>1, <3>2 DEF Outcome
        <4> QED
          BY <3>2, <4>1 DEF Young, OutcomeOK
      <3> QED
        BY <3>1, <3>2
    <2>2. PICK x \in young : o \in checked(x)
      <3>1. o \in UNION {checked(x) : x \in young}
        BY <1>2, Zenon DEF Prepared, Refreshed
      <3> HIDE DEF young, checked
      <3> QED
        BY <3>1
    <2>3. o = x \/ o = [socket |-> x.socket, ok |-> FALSE] \/ o \in reinitClientSocket(x.socket)
      <3> HIDE DEF young
      <3> QED
        BY <2>2 DEF Outcome
    <2> HIDE DEF young, checked
    <2>4. OutcomeOK(x)
      BY <2>1
    <2>5. CASE o = [socket |-> x.socket, ok |-> FALSE]
      BY <2>4, <2>5 DEF OutcomeOK
    <2>6. CASE o \in reinitClientSocket(x.socket)
      BY <2>4, <2>6, ReinitOutcomes DEF OutcomeOK
    <2> QED
      BY <2>3, <2>4, <2>5, <2>6
  <1> QED
    BY <1>1, <1>2

LEMMA OneSocket ==
    ASSUME ClientPoolTypeOK, NEW a \in RemoteAddresses, NEW i \in 1 .. PerAddress, NEW x \in ClientSockets,
           csSocket' = [csSocket EXCEPT ![a][i] = x]
    PROVE  /\ csSocket[a][i] \in ClientSockets /\ csSocket'[a][i] = x
           /\ csSocket' \in [RemoteAddresses -> [1 .. PerAddress -> ClientSockets]]
  BY DEF ClientPoolTypeOK, ClientSockets

\* getClientSocket gives the user the first free socket, young, or nothing.
LEMMA GetKeeps ==
    ASSUME ClientPoolInv, NEW u \in SocketUsers, NEW a \in RemoteAddresses, getFreeClientSocket(u, a)
    PROVE  /\ ClientPoolInv'
           /\ \A v \in SocketUsers : \A x \in csUsed'[v] \ csUsed[v] : Young(csSocket'[x[1]][x[2]])
  <1> USE DEF ClientPoolInv
  <1>1. PICK free : free = FreeOf(a)
    OBVIOUS
  <1>2. PICK i : i = Head(free)
    OBVIOUS
  <1>3. /\ free \in Seq(1 .. PerAddress) /\ OnceIn(free)
        /\ \A v \in SocketUsers, k \in 1 .. PerAddress : k \in Vector!ToSet(free) => <<a, k>> \notin csUsed[v]
    <2>1. CASE a \in csKnown
      BY <1>1, <2>1 DEF FreeOf, ClientPoolTypeOK, KeptOnce
    <2>2. CASE a \notin csKnown
      <3>1. /\ free = [k \in 1 .. PerAddress |-> k] /\ PerAddress \in Nat
            /\ free \in Seq(1 .. PerAddress) /\ Len(free) = PerAddress
        BY <1>1, <2>2, ClientSocketsAssumption DEF FreeOf
      <3> QED
        BY <2>2, <3>1 DEF KeptOnce, OnceIn
    <2> QED
      BY <2>1, <2>2
  <1>4. csKnown' = csKnown \cup {a}
    BY DEF getFreeClientSocket
  <1>5. CASE free = <<>>
    <2>1. UNCHANGED <<csFree, csSocket, csUsed>>
      BY <1>1, <1>5 DEF getFreeClientSocket
    <2> QED
      BY <1>4, <2>1 DEF ClientPoolTypeOK, KeptOnce
  <1>6. CASE free # <<>>
    <2>1. PICK o \in Prepared(csSocket[a][i]) :
             /\ csSocket' = [csSocket EXCEPT ![a][i] = o.socket]
             /\ csUsed' = IF o.ok THEN [csUsed EXCEPT ![u] = @ \cup {<<a, i>>}] ELSE csUsed
      BY <1>1, <1>2, <1>6 DEF getFreeClientSocket
    <2>2. csFree' = [csFree EXCEPT ![a] = Tail(free)]
      BY <1>1, <1>6 DEF getFreeClientSocket
    <2>3. /\ i \in 1 .. PerAddress /\ i \in Vector!ToSet(free)
          /\ Tail(free) \in Seq(1 .. PerAddress) /\ OnceIn(Tail(free))
          /\ Vector!ToSet(Tail(free)) \subseteq Vector!ToSet(free) \ {i}
      BY <1>2, <1>3, <1>6, OnceTail
    <2>4. csSocket[a][i] \in ClientSockets
      BY <2>3 DEF ClientPoolTypeOK, ClientSockets
    <2>5. o.socket \in ClientSockets /\ (o.ok => Young(o.socket))
      BY <2>4, PreparedOutcomes DEF OutcomeOK
    <2>6. csSocket' \in [RemoteAddresses -> [1 .. PerAddress -> ClientSockets]] /\ csSocket'[a][i] = o.socket
      BY <2>1, <2>3, <2>5, OneSocket
    <2>7. \A v \in SocketUsers : <<a, i>> \notin csUsed[v]
      BY <1>3, <2>3
    <2>8. /\ \A b \in RemoteAddresses \ {a} : csFree'[b] = csFree[b]
          /\ csFree'[a] = Tail(free) /\ csFree' \in [RemoteAddresses -> Seq(1 .. PerAddress)]
      BY <2>2, <2>3 DEF ClientPoolTypeOK
    <2>9. /\ csUsed' \in [SocketUsers -> SUBSET (RemoteAddresses \X (1 .. PerAddress))]
          /\ \A v \in SocketUsers : \A x \in csUsed'[v] : x \in csUsed[v] \/ (o.ok /\ v = u /\ x = <<a, i>>)
      BY <2>1, <2>3 DEF ClientPoolTypeOK
    <2>10. ClientPoolTypeOK'
      BY <1>4, <2>6, <2>8, <2>9 DEF ClientPoolTypeOK, ClientSockets
    <2>11. ASSUME NEW b \in RemoteAddresses, NEW k \in 1 .. PerAddress, NEW v \in SocketUsers, <<b, k>> \in csUsed'[v]
           PROVE  /\ b \in csKnown' /\ k \notin Vector!ToSet(csFree'[b])
                  /\ \A w \in SocketUsers : <<b, k>> \in csUsed'[w] => v = w
      <3>1. CASE <<b, k>> = <<a, i>>
        <4>1. \A w \in SocketUsers : <<b, k>> \in csUsed'[w] => w = u
          BY <2>7, <2>9, <3>1
        <4>2. b = a /\ k = i
          BY <3>1
        <4>3. k \notin Vector!ToSet(csFree'[b])
          BY <2>3, <2>8, <4>2
        <4> QED
          BY <1>4, <2>11, <4>1, <4>2, <4>3
      <3>2. CASE <<b, k>> # <<a, i>>
        <4>1. \A w \in SocketUsers : <<b, k>> \in csUsed'[w] => <<b, k>> \in csUsed[w]
          BY <2>9, <3>2
        <4>2. b \in csKnown /\ k \notin Vector!ToSet(csFree[b]) /\ \A w \in SocketUsers : <<b, k>> \in csUsed[w] => v = w
          BY <2>11, <4>1 DEF KeptOnce
        <4>3. k \notin Vector!ToSet(csFree'[b])
          <5>1. CASE b = a
            BY <1>3, <2>3, <2>8, <2>11, <4>1, <5>1
          <5>2. CASE b # a
            BY <2>8, <4>2, <5>2
          <5> QED
            BY <5>1, <5>2
        <4> QED
          BY <1>4, <4>1, <4>2, <4>3
      <3> QED
        BY <3>1, <3>2
    <2>12. \A b \in RemoteAddresses : OnceIn(csFree'[b])
      BY <2>3, <2>8 DEF KeptOnce
    <2>13. ClientPoolInv'
      BY <2>10, <2>11, <2>12 DEF KeptOnce
    <2>14. ASSUME NEW v \in SocketUsers, NEW x \in csUsed'[v] \ csUsed[v] PROVE Young(csSocket'[x[1]][x[2]])
      <3>1. o.ok /\ x = <<a, i>>
        BY <2>9
      <3>2. x[1] = a /\ x[2] = i
        BY <3>1
      <3> QED
        BY <2>5, <2>6, <3>1, <3>2
    <2> QED
      BY <2>13, <2>14
  <1> QED
    BY <1>5, <1>6

\* releaseClientSocket puts back the socket that its user gives up, or loses it.
LEMMA ReleaseKeeps ==
    ASSUME ClientPoolInv, NEW u \in SocketUsers, NEW a \in RemoteAddresses, NEW i \in 1 .. PerAddress,
           NEW c \in BOOLEAN, releaseClientSocket(u, a, i, c)
    PROVE  ClientPoolInv' /\ \A v \in SocketUsers : csUsed'[v] \subseteq csUsed[v]
  <1> USE DEF ClientPoolInv
  <1>1. <<a, i>> \in csUsed[u] /\ csUsed' = [csUsed EXCEPT ![u] = @ \ {<<a, i>>}] /\ csKnown' = csKnown
    BY DEF releaseClientSocket
  <1>2. PICK o \in IF c THEN finishClientSocket(csSocket[a][i]) ELSE {Outcome(csSocket[a][i], TRUE)} :
           /\ csSocket' = [csSocket EXCEPT ![a][i] = o.socket]
           /\ csFree' = IF o.ok THEN [csFree EXCEPT ![a] = <<i>> \o @] ELSE csFree
    BY DEF releaseClientSocket
  <1>3. csSocket[a][i] \in ClientSockets
    BY DEF ClientPoolTypeOK, ClientSockets
  <1>4. o.socket \in ClientSockets
    <2>1. CASE c
      BY <1>2, <1>3, <2>1, FinishOutcomes
    <2>2. CASE ~c
      BY <1>2, <1>3, <2>2 DEF Outcome
    <2> QED
      BY <2>1, <2>2
  <1>5. csSocket' \in [RemoteAddresses -> [1 .. PerAddress -> ClientSockets]]
    BY <1>2, <1>4, OneSocket
  <1>6. a \in csKnown /\ i \notin Vector!ToSet(csFree[a]) /\ \A v \in SocketUsers : <<a, i>> \in csUsed[v] => v = u
    BY <1>1 DEF KeptOnce
  <1>7. /\ <<i>> \o csFree[a] \in Seq(1 .. PerAddress) /\ OnceIn(<<i>> \o csFree[a])
        /\ Vector!ToSet(<<i>> \o csFree[a]) \subseteq Vector!ToSet(csFree[a]) \cup {i}
    <2>1. csFree[a] \in Seq(1 .. PerAddress) /\ OnceIn(csFree[a])
      BY DEF ClientPoolTypeOK, KeptOnce
    <2> QED
      BY <1>6, <2>1, OnceFront
  <1>8. /\ \A b \in RemoteAddresses \ {a} : csFree'[b] = csFree[b]
        /\ csFree'[a] = csFree[a] \/ csFree'[a] = <<i>> \o csFree[a]
        /\ csFree' \in [RemoteAddresses -> Seq(1 .. PerAddress)]
    <2>1. CASE o.ok
      BY <1>2, <1>7, <2>1 DEF ClientPoolTypeOK
    <2>2. CASE ~o.ok
      BY <1>2, <2>2 DEF ClientPoolTypeOK
    <2> QED
      BY <2>1, <2>2
  <1>9. /\ csUsed' \in [SocketUsers -> SUBSET (RemoteAddresses \X (1 .. PerAddress))]
        /\ \A v \in SocketUsers : csUsed'[v] \subseteq csUsed[v]
        /\ \A v \in SocketUsers : <<a, i>> \notin csUsed'[v]
    BY <1>1, <1>6 DEF ClientPoolTypeOK
  <1>10. ClientPoolTypeOK'
    BY <1>1, <1>5, <1>8, <1>9 DEF ClientPoolTypeOK, ClientSockets
  <1>11. \A b \in RemoteAddresses : OnceIn(csFree'[b])
    BY <1>7, <1>8 DEF KeptOnce
  <1>12. ASSUME NEW b \in RemoteAddresses, NEW k \in 1 .. PerAddress, NEW v \in SocketUsers, <<b, k>> \in csUsed'[v]
         PROVE  /\ b \in csKnown' /\ k \notin Vector!ToSet(csFree'[b])
                /\ \A w \in SocketUsers : <<b, k>> \in csUsed'[w] => v = w
    <2>1. b \in csKnown /\ k \notin Vector!ToSet(csFree[b]) /\ \A w \in SocketUsers : <<b, k>> \in csUsed'[w] => v = w
      BY <1>9, <1>12 DEF KeptOnce
    <2>2. b = a => k # i
      BY <1>9, <1>12
    <2>3. k \notin Vector!ToSet(csFree'[b])
      BY <1>7, <1>8, <2>1, <2>2
    <2> QED
      BY <1>1, <2>1, <2>3
  <1> QED
    BY <1>9, <1>10, <1>11, <1>12 DEF KeptOnce

LEMMA ClientNextKeeps ==
    ASSUME ClientPoolInv, [ClientPoolNext]_clientPoolVars
    PROVE  /\ ClientPoolInv'
           /\ \A v \in SocketUsers : \A x \in csUsed'[v] \ csUsed[v] : Young(csSocket'[x[1]][x[2]])
  <1> USE DEF ClientPoolInv
  <1>1. ASSUME NEW u \in SocketUsers, NEW a \in RemoteAddresses, getFreeClientSocket(u, a)
        PROVE  /\ ClientPoolInv'
               /\ \A v \in SocketUsers : \A x \in csUsed'[v] \ csUsed[v] : Young(csSocket'[x[1]][x[2]])
    BY <1>1, GetKeeps
  <1>2. ASSUME NEW u \in SocketUsers, NEW a \in RemoteAddresses, NEW i \in 1 .. PerAddress, NEW c \in BOOLEAN,
               releaseClientSocket(u, a, i, c) \/ releaseClientSocketByName(u, a, i, c)
        PROVE  ClientPoolInv' /\ \A v \in SocketUsers : csUsed'[v] \subseteq csUsed[v]
    BY <1>2, ReleaseKeeps DEF releaseClientSocketByName
  <1>3. CASE finishClientPool
    <2>1. PerAddress \in Nat /\ Builded \in ClientSockets
      BY ClientSocketsAssumption DEF Builded, ClientSockets
    <2>2. /\ csKnown' = {} /\ csFree' = [a \in RemoteAddresses |-> <<>>] /\ csUsed' = csUsed
          /\ csSocket' = [a \in RemoteAddresses |-> [i \in 1 .. PerAddress |-> Builded]]
          /\ \A u \in SocketUsers : csUsed'[u] = {}
      BY <1>3 DEF finishClientPool
    <2>3. ClientPoolTypeOK'
      BY <2>1, <2>2 DEF ClientPoolTypeOK, ClientSockets
    <2>4. \A a \in RemoteAddresses : csFree'[a] = <<>>
      BY <2>2
    <2>5. \A a \in RemoteAddresses : OnceIn(csFree'[a])
      BY <2>4 DEF OnceIn
    <2> QED
      BY <2>2, <2>3, <2>5 DEF KeptOnce
  <1>4. CASE TimePasses
    <2>1. ASSUME NEW s \in ClientSockets
          PROVE  [s EXCEPT !.age = IF s.connection # "none" /\ @ < MaxAge THEN @ + 1 ELSE @] \in ClientSockets
      BY ClientSocketsAssumption DEF ClientSockets
    <2>2. \A a \in RemoteAddresses, i \in 1 .. PerAddress : csSocket[a][i] \in ClientSockets
      BY DEF ClientPoolTypeOK, ClientSockets
    <2>3. csSocket' \in [RemoteAddresses -> [1 .. PerAddress -> ClientSockets]]
      BY <1>4, <2>1, <2>2, Zenon DEF TimePasses
    <2> QED
      BY <1>4, <2>3 DEF TimePasses, ClientPoolTypeOK, ClientSockets, KeptOnce
  <1>5. ASSUME NEW a \in RemoteAddresses, NEW i \in 1 .. PerAddress, PeerCloses(a, i)
        PROVE  ClientPoolInv' /\ UNCHANGED csUsed
    <2>1. PICK x : x = [csSocket[a][i] EXCEPT !.connection = "closed"]
      OBVIOUS
    <2>2. x \in ClientSockets
      <3>1. csSocket[a][i] \in ClientSockets
        BY DEF ClientPoolTypeOK, ClientSockets
      <3>2. \A s \in ClientSockets : [s EXCEPT !.connection = "closed"] \in ClientSockets
        BY DEF ClientSockets
      <3> QED
        BY <2>1, <3>1, <3>2
    <2>3. csSocket' = [csSocket EXCEPT ![a][i] = x]
      BY <1>5, <2>1, Zenon DEF PeerCloses
    <2>4. csSocket' \in [RemoteAddresses -> [1 .. PerAddress -> ClientSockets]]
      BY <2>2, <2>3, OneSocket
    <2> QED
      BY <1>5, <2>4 DEF PeerCloses, ClientPoolTypeOK, ClientSockets, KeptOnce
  <1>6. CASE UNCHANGED clientPoolVars
    BY <1>6 DEF clientPoolVars, ClientPoolTypeOK, KeptOnce
  <1>7. finishClientPool \/ TimePasses => UNCHANGED csUsed
    BY DEF finishClientPool, TimePasses
  <1> QED
    BY <1>1, <1>2, <1>3, <1>4, <1>5, <1>6, <1>7 DEF ClientPoolNext, clientPoolVars

\* No client socket has two users or is used and free: every call of the pool
\* and every failure in it keeps a socket in one place.
THEOREM ClientPoolInvariant == ClientPoolSpec => []ClientPoolInv
  <1>1. ClientPoolInit => ClientPoolInv
    <2> SUFFICES ASSUME ClientPoolInit PROVE ClientPoolInv
      OBVIOUS
    <2>1. PerAddress \in Nat /\ Builded \in ClientSockets
      BY ClientSocketsAssumption DEF Builded, ClientSockets
    <2>2. ClientPoolTypeOK
      BY <2>1 DEF ClientPoolInit, ClientPoolTypeOK, ClientSockets
    <2>3. \A a \in RemoteAddresses : csFree[a] = <<>>
      BY DEF ClientPoolInit
    <2>4. \A a \in RemoteAddresses : OnceIn(csFree[a])
      BY <2>3 DEF OnceIn
    <2> QED
      BY <2>2, <2>4 DEF ClientPoolInit, ClientPoolInv, KeptOnce
  <1>2. ClientPoolInv /\ [ClientPoolNext]_clientPoolVars => ClientPoolInv'
    BY ClientNextKeeps
  <1> QED
    BY <1>1, <1>2, PTL DEF ClientPoolSpec

LEMMA OnceIsUsedOnce == ClientPoolInv => ClientPoolTypeOK /\ ClientSocketUsedOnce
  <1> SUFFICES ASSUME ClientPoolInv PROVE ClientSocketUsedOnce
    BY DEF ClientPoolInv
  <1>1. ASSUME NEW a \in RemoteAddresses PROVE Cardinality(Vector!ToSet(csFree[a])) = Len(csFree[a])
    <2>1. PICK s : s = csFree[a]
      OBVIOUS
    <2>2. s \in Seq(1 .. PerAddress) /\ OnceIn(s)
      BY <2>1 DEF ClientPoolInv, ClientPoolTypeOK, KeptOnce
    <2>3. Len(s) \in Nat /\ DOMAIN s = 1 .. Len(s) /\ s \in [1 .. Len(s) -> Vector!ToSet(s)]
      BY <2>2 DEF Vector!ToSet
    <2>4. s \in Bijection(1 .. Len(s), Vector!ToSet(s))
      BY <2>2, <2>3 DEF OnceIn, Bijection, Injection, Surjection, IsInjective, Vector!ToSet
    <2>5. ExistsBijection(1 .. Len(s), Vector!ToSet(s))
      BY <2>4 DEF ExistsBijection
    <2>6. Cardinality(Vector!ToSet(s)) = Len(s)
      BY <2>3, <2>5, FS_CountingElements
    <2> QED
      BY <2>1, <2>6
  <1>2. ASSUME NEW a \in RemoteAddresses, NEW i \in 1 .. PerAddress
        PROVE  LET users == {u \in SocketUsers : <<a, i>> \in csUsed[u]}
               IN Cardinality(users) <= 1 /\ (i \in Vector!ToSet(csFree[a]) => users = {})
    <2> DEFINE users == {u \in SocketUsers : <<a, i>> \in csUsed[u]}
    <2>1. \A u, v \in users : u = v
      BY DEF ClientPoolInv, KeptOnce
    <2>2. i \in Vector!ToSet(csFree[a]) => users = {}
      BY DEF ClientPoolInv, KeptOnce
    <2> HIDE DEF users
    <2>3. users = {} \/ \E u : users = {u}
      <3>1. ASSUME NEW u \in users PROVE users = {u}
        BY <2>1
      <3> QED
        BY <3>1
    <2>4. Cardinality(users) <= 1
      BY <2>3, FS_EmptySet, FS_Singleton
    <2> QED
      BY <2>2, <2>4 DEF users
  <1> QED
    BY <1>1, <1>2 DEF ClientSocketUsedOnce

\* getClientSocket never hands out a socket that somebody has, nor one that has
\* outlived its time, whatever failed on its way back into the pool.
THEOREM ClientSocketsAreSafe == ClientPoolSpec => ClientSocketsSafe
  <1>1. ClientPoolInv /\ [ClientPoolNext]_clientPoolVars =>
          [\A u \in SocketUsers : \A x \in csUsed'[u] \ csUsed[u] :
             LET s == csSocket'[x[1]][x[2]]
             IN s.connection # "none" => s.age = 0 \/ ~(TTL # NoTTL /\ s.age >= TTL)]_clientPoolVars
    BY ClientNextKeeps DEF Young, TooOld
  <1>2. ClientPoolSpec => HandedOutIsYoung
    BY <1>1, ClientPoolInvariant, PTL DEF ClientPoolSpec, HandedOutIsYoung
  <1> QED
    BY <1>2, OnceIsUsedOnce, ClientPoolInvariant, PTL DEF ClientSocketsSafe

-----------------------------------------------------------------------------
(***************************************************************************)
(* The streams: the text of a sequence of bytes, what the decoder makes of *)
(* it, the plain text of a telnet session and the lines of a buffer.       *)
(***************************************************************************)
\* The element of a set of numbers that CHOOSE names is its first.
LEMMA LeastIsIn ==
    ASSUME NEW S, S \subseteq Nat, S # {}
    PROVE  /\ (CHOOSE i \in S : \A j \in S : i <= j) \in S
           /\ \A k \in S : (CHOOSE i \in S : \A j \in S : i <= j) <= k
  <1>1. PICK i \in S : \A j \in S : ~ (<<j, i>> \in OpToRel(<, Nat))
    BY NatLessThanWellFounded, WFMin
  <1>2. \A j \in S : j \in Nat /\ i \in Nat /\ ~ (j < i)
    BY <1>1 DEF OpToRel
  <1>3. \A j \in S : i <= j
    BY <1>2
  <1> QED
    BY <1>3

\* A set of places with the first one and, after each place, the next one, has
\* all of them.
LEMMA AllPlaces ==
    ASSUME NEW n \in Nat, NEW S, 0 \in S, \A k \in 0..n : k \in S /\ k < n => k + 1 \in S
    PROVE  \A k \in 0..n : k \in S
  <1> DEFINE T == {k \in 0..n : k \notin S}
  <1> SUFFICES ASSUME T # {} PROVE FALSE
    OBVIOUS
  <1>1. PICK m \in T : \A j \in T : m <= j
    <2>1. T \subseteq Nat
      OBVIOUS
    <2> QED
      BY <2>1, LeastIsIn
  <1>2. m \in Nat /\ m # 0 /\ m <= n /\ m \notin S
    OBVIOUS
  <1>3. m - 1 \in 0..n /\ m - 1 < n /\ m - 1 < m /\ m - 1 + 1 = m
    BY <1>2
  <1>4. m - 1 \in S
    BY <1>1, <1>3
  <1> QED
    BY <1>2, <1>3, <1>4

\* What is defined from one place to the next exists.
Steps(f, n, S, base, step) ==
    f \in [0..n -> S] /\ f[0] = base /\ \A k \in 1..n : f[k] = step[k][f[k - 1]]

LEMMA StepByStep ==
    ASSUME NEW n \in Nat, NEW S, NEW base \in S, NEW step \in [1..n -> [S -> S]]
    PROVE  \E f : Steps(f, n, S, base, step)
  <1> DEFINE Until(m, f) == f \in [0..m -> S] /\ f[0] = base /\ \A k \in 1..m : f[k] = step[k][f[k - 1]]
             T == {m \in 0..n : \E f : Until(m, f)}
  <1>1. 0 \in T
    <2>1. Until(0, [k \in 0..0 |-> base])
      OBVIOUS
    <2> HIDE DEF Until
    <2> QED
      BY <2>1
  <1>2. ASSUME NEW m \in 0..n, m \in T, m < n
        PROVE  m + 1 \in T
    <2>1. PICK f : Until(m, f)
      <3> HIDE DEF Until
      <3> QED
        BY <1>2
    <2> DEFINE g == [k \in 0..(m + 1) |-> IF k <= m THEN f[k] ELSE step[m + 1][f[m]]]
    <2>2. step[m + 1][f[m]] \in S
      BY <1>2, <2>1
    <2>3. g \in [0..(m + 1) -> S]
      BY <2>1, <2>2
    <2>4. g[0] = base
      BY <2>1
    <2>5. ASSUME NEW k \in 1..(m + 1)
          PROVE  g[k] = step[k][g[k - 1]]
      <3>1. CASE k <= m
        BY <2>1, <3>1
      <3>2. CASE k = m + 1
        BY <3>2
      <3> QED
        BY <3>1, <3>2
    <2>6. Until(m + 1, g)
      BY <2>3, <2>4, <2>5
    <2> HIDE DEF Until, g
    <2> QED
      BY <1>2, <2>6
  <1>3. n \in T
    <2>1. \A m \in 0..n : m \in T /\ m < n => m + 1 \in T
      BY <1>2
    <2> HIDE DEF T
    <2>2. \A m \in 0..n : m \in T
      BY <1>1, <2>1, AllPlaces, Zenon
    <2> QED
      BY <2>2
  <1>4. PICK f : Until(n, f)
    <2> HIDE DEF Until
    <2> QED
      BY <1>3
  <1>5. Steps(f, n, S, base, step)
    BY <1>4 DEF Steps
  <1> QED
    BY <1>5

\* The bytes that are read and those of the telnet protocol.
Bytes == Symbols \cup {"IAC", "IS", "dumb", "DONT", "WILL", "WONT"}

LEMMA SymbolsAreBytes == Seq(Symbols) \subseteq Seq(Bytes)
  <1>1. Symbols \subseteq Bytes
    BY DEF Bytes
  <1> QED
    BY <1>1

\* The text of the first k bytes, for each k.
LEMMA TextFacts ==
    ASSUME NEW s \in Seq(Bytes)
    PROVE  \E f \in [0..Len(s) -> Seq(Bytes)] :
             /\ f[0] = <<>> /\ f[Len(s)] = Text(s)
             /\ \A k \in 1..Len(s) :
                  f[k] = IF s[k] \in LineEnds THEN f[k - 1] ELSE Append(f[k - 1], s[k])
  <1> DEFINE n == Len(s)
             T == Seq(Bytes)
             step == [k \in 1..n |-> [t \in T |-> IF s[k] \in LineEnds THEN t ELSE Append(t, s[k])]]
             Rule(f) == [k \in 0..n |->
                           IF k = 0 THEN <<>>
                           ELSE IF s[k] \in LineEnds THEN f[k - 1] ELSE Append(f[k - 1], s[k])]
             upTo == CHOOSE f : f = Rule(f)
  <1>0. n \in Nat /\ <<>> \in T /\ \A k \in 1..n : s[k] \in Bytes
    OBVIOUS
  <1>1. step \in [1..n -> [T -> T]]
    BY <1>0
  <1>2. PICK f \in [0..n -> T] : f[0] = <<>> /\ \A k \in 1..n : f[k] = step[k][f[k - 1]]
    <2> HIDE DEF step, n, T
    <2>1. \E f : Steps(f, n, T, <<>>, step)
      BY <1>0, <1>1, StepByStep, Zenon
    <2> QED
      BY <2>1 DEF Steps
  <1>3. \A k \in 1..n : f[k - 1] \in T
    BY <1>0, <1>2
  <1>4. f = Rule(f)
    <2>1. \A k \in 1..n : f[k] = IF s[k] \in LineEnds THEN f[k - 1] ELSE Append(f[k - 1], s[k])
      BY <1>2, <1>3
    <2>2. f = [k \in 0..n |-> f[k]]
      BY <1>2
    <2>3. \A k \in 0..n : k = 0 \/ k \in 1..n
      BY <1>0
    <2>4. \A k \in 0..n : f[k] = Rule(f)[k]
      BY <1>2, <2>1, <2>3
    <2> QED
      BY <2>2, <2>4
  <1>5. upTo = Rule(upTo)
    <2> HIDE DEF Rule
    <2> QED
      BY <1>4
  <1>6. Text(s) = upTo[n]
    BY DEF Text
  <1> HIDE DEF upTo
  <1>7. \A k \in 0..n : k \in {j \in 0..n : upTo[j] = f[j]}
    <2> DEFINE U == {j \in 0..n : upTo[j] = f[j]}
    <2>1. 0 \in U
      BY <1>0, <1>2, <1>5
    <2>2. ASSUME NEW k \in 0..n, k \in U, k < n PROVE k + 1 \in U
      <3>1. k + 1 \in 0..n /\ k + 1 # 0 /\ k + 1 - 1 = k
        BY <1>0, <2>2
      <3>2. upTo[k + 1] = Rule(upTo)[k + 1] /\ f[k + 1] = Rule(f)[k + 1]
        BY <1>4, <1>5
      <3>3. upTo[k] = f[k]
        BY <2>2
      <3> QED
        BY <3>1, <3>2, <3>3
    <2>3. \A k \in 0..n : k \in U /\ k < n => k + 1 \in U
      BY <2>2
    <2> HIDE DEF U
    <2>4. \A k \in 0..n : k \in U
      BY <1>0, <2>1, <2>3, AllPlaces, Zenon
    <2> QED
      BY <2>4 DEF U
  <1>8. Text(s) = f[n]
    BY <1>0, <1>6, <1>7
  <1> QED
    BY <1>2, <1>3, <1>8

LEMMA TextIsText ==
    ASSUME NEW s \in Seq(Bytes)
    PROVE  Text(s) \in Seq(Bytes)
  BY TextFacts

LEMMA TextOfNone == Text(<<>>) = <<>>
  <1>1. <<>> \in Seq(Bytes) /\ Len(<<>>) = 0
    OBVIOUS
  <1> QED
    BY <1>1, TextFacts

LEMMA TextAppend ==
    ASSUME NEW s \in Seq(Bytes), NEW c \in Bytes
    PROVE  Text(Append(s, c)) = IF c \in LineEnds THEN Text(s) ELSE Append(Text(s), c)
  <1> DEFINE n == Len(s)
             t == Append(s, c)
  <1>0. n \in Nat /\ t \in Seq(Bytes) /\ Len(t) = n + 1 /\ t[n + 1] = c
        /\ \A k \in 1..n : t[k] = s[k]
    OBVIOUS
  <1>1. PICK f \in [0..n -> Seq(Bytes)] :
               /\ f[0] = <<>> /\ f[n] = Text(s)
               /\ \A k \in 1..n : f[k] = IF s[k] \in LineEnds THEN f[k - 1] ELSE Append(f[k - 1], s[k])
    BY TextFacts
  <1>2. PICK g \in [0..Len(t) -> Seq(Bytes)] :
               /\ g[0] = <<>> /\ g[Len(t)] = Text(t)
               /\ \A k \in 1..Len(t) : g[k] = IF t[k] \in LineEnds THEN g[k - 1] ELSE Append(g[k - 1], t[k])
    BY <1>0, TextFacts
  <1> HIDE DEF n, t
  <1>3. \A k \in 0..n : g[k] = f[k]
    <2> DEFINE U == {k \in 0..n : g[k] = f[k]}
    <2>1. 0 \in U
      BY <1>0, <1>1, <1>2
    <2>2. \A k \in 0..n : k \in U /\ k < n => k + 1 \in U
      <3> SUFFICES ASSUME NEW k \in 0..n, k \in U, k < n PROVE k + 1 \in U
        OBVIOUS
      <3>1. k + 1 \in 1..n /\ k + 1 \in 1..Len(t) /\ k + 1 - 1 = k /\ k + 1 \in 0..n
        BY <1>0
      <3>2. /\ g[k + 1] = IF t[k + 1] \in LineEnds THEN g[k] ELSE Append(g[k], t[k + 1])
            /\ f[k + 1] = IF s[k + 1] \in LineEnds THEN f[k] ELSE Append(f[k], s[k + 1])
        BY <1>1, <1>2, <3>1
      <3> QED
        BY <1>0, <3>1, <3>2
    <2> HIDE DEF U
    <2>3. \A k \in 0..n : k \in U
      BY <1>0, <2>1, <2>2, AllPlaces, Zenon
    <2> QED
      BY <2>3 DEF U
  <1>4. g[n] = Text(s)
    BY <1>0, <1>1, <1>3
  <1>5. n + 1 \in 1..Len(t) /\ n + 1 - 1 = n
    BY <1>0
  <1>6. g[n + 1] = IF c \in LineEnds THEN g[n] ELSE Append(g[n], c)
    <2>1. ASSUME NEW k \in 1..Len(t), k - 1 = n
          PROVE  g[k] = IF t[k] \in LineEnds THEN g[n] ELSE Append(g[n], t[k])
      BY <1>2, <2>1
    <2>2. g[n + 1] = IF t[n + 1] \in LineEnds THEN g[n] ELSE Append(g[n], t[n + 1])
      <3> DEFINE m == n + 1
      <3>1. m \in 1..Len(t) /\ m - 1 = n
        BY <1>0
      <3> HIDE DEF m
      <3>2. g[m] = IF t[m] \in LineEnds THEN g[n] ELSE Append(g[n], t[m])
        BY <2>1, <3>1
      <3> QED
        BY <3>2 DEF m
    <2> QED
      BY <1>0, <2>2
  <1> QED
    BY <1>0, <1>2, <1>4, <1>6 DEF t

\* The first k symbols of a text and the next one.
LEMMA OneMore ==
    ASSUME NEW S, NEW s \in Seq(S), NEW k \in 0..Len(s), k < Len(s)
    PROVE  /\ SubSeq(s, 1, k) \in Seq(S) /\ s[k + 1] \in S
           /\ SubSeq(s, 1, k + 1) = Append(SubSeq(s, 1, k), s[k + 1])
  <1>1. k + 1 \in 1..Len(s) /\ 1 \in 1..Len(s) /\ k + 1 - 1 = k
    OBVIOUS
  <1>2. SubSeq(s, 1, k) \in Seq(S) /\ s[k + 1] \in S
    BY <1>1
  <1>3. SubSeq(s, 1, k + 1) = SubSeq(s, 1, k + 1 - 1) \o <<s[k + 1]>>
    BY <1>1, SubSeqRecursiveSecond
  <1> QED
    BY <1>1, <1>2, <1>3, AppendIsConcat

LEMMA TextConcat ==
    ASSUME NEW s \in Seq(Bytes), NEW t \in Seq(Bytes)
    PROVE  Text(s \o t) = Text(s) \o Text(t)
  <1> DEFINE n == Len(t)
             pre(k) == SubSeq(t, 1, k)
             U == {k \in 0..n : Text(s \o pre(k)) = Text(s) \o Text(pre(k))}
  <1>0. n \in Nat
    OBVIOUS
  <1>1. 0 \in U
    <2>1. pre(0) = <<>>
      BY SubSeqEmpty
    <2>2. s \o <<>> = s /\ Text(s) \o <<>> = Text(s)
      BY TextIsText, ConcatEmptySeq
    <2>3. Text(s \o pre(0)) = Text(s) \o Text(pre(0))
      BY <2>1, <2>2, TextOfNone
    <2> QED
      BY <1>0, <2>3
  <1>2. \A k \in 0..n : k \in U /\ k < n => k + 1 \in U
    <2> SUFFICES ASSUME NEW k \in 0..n, k \in U, k < n PROVE k + 1 \in U
      OBVIOUS
    <2> DEFINE c == t[k + 1]
               p == pre(k)
    <2>1. /\ p \in Seq(Bytes) /\ c \in Bytes /\ pre(k + 1) = Append(p, c)
      BY OneMore
    <2>2. Text(s \o p) = Text(s) \o Text(p)
      OBVIOUS
    <2> HIDE DEF p, c, pre
    <2>3. s \o Append(p, c) = Append(s \o p, c) /\ s \o p \in Seq(Bytes)
      <3>1. /\ Append(p, c) = p \o <<c>> /\ s \o p \in Seq(Bytes) /\ Append(s \o p, c) = (s \o p) \o <<c>>
            /\ <<c>> \in Seq(Bytes)
        BY <2>1, AppendIsConcat
      <3>2. ASSUME NEW x \in Seq(Bytes), NEW y \in Seq(Bytes), NEW z \in Seq(Bytes)
            PROVE  (x \o y) \o z = x \o (y \o z)
        BY ConcatAssociative, SMTT(60)
      <3>3. (s \o p) \o <<c>> = s \o (p \o <<c>>)
        BY <2>1, <3>1, <3>2, Zenon
      <3> QED
        BY <3>1, <3>3
    <2>4. Text(s \o Append(p, c)) = IF c \in LineEnds THEN Text(s \o p) ELSE Append(Text(s \o p), c)
      BY <2>1, <2>3, TextAppend
    <2>5. Text(Append(p, c)) = IF c \in LineEnds THEN Text(p) ELSE Append(Text(p), c)
      BY <2>1, TextAppend
    <2>6. Text(s) \o Append(Text(p), c) = Append(Text(s) \o Text(p), c)
      <3>1. Text(s) \in Seq(Bytes) /\ Text(p) \in Seq(Bytes)
        BY <2>1, TextIsText
      <3>2. /\ Append(Text(p), c) = Text(p) \o <<c>> /\ Text(s) \o Text(p) \in Seq(Bytes)
            /\ Append(Text(s) \o Text(p), c) = (Text(s) \o Text(p)) \o <<c>> /\ <<c>> \in Seq(Bytes)
        BY <2>1, <3>1, AppendIsConcat
      <3> QED
        BY <3>1, <3>2, ConcatAssociative, SMTT(60)
    <2>7. Text(s \o pre(k + 1)) = Text(s) \o Text(pre(k + 1))
      BY <2>1, <2>2, <2>3, <2>4, <2>5, <2>6
    <2> QED
      BY <1>0, <2>7
  <1>3. n \in U
    <2> HIDE DEF U
    <2>1. \A k \in 0..n : k \in U
      BY <1>0, <1>1, <1>2, AllPlaces, Zenon
    <2> QED
      BY <1>0, <2>1
  <1>4. pre(n) = t
    BY SubSeqFull
  <1> QED
    BY <1>3, <1>4

\* Line ends only: no text.
LEMMA TextOfEnds ==
    ASSUME NEW s \in Seq(Bytes), \A i \in 1..Len(s) : s[i] \in LineEnds
    PROVE  Text(s) = <<>>
  <1> DEFINE n == Len(s)
             U == {k \in 0..n : Text(SubSeq(s, 1, k)) = <<>>}
  <1>0. n \in Nat
    OBVIOUS
  <1>1. 0 \in U
    <2>1. SubSeq(s, 1, 0) = <<>>
      BY SubSeqEmpty
    <2>2. Text(SubSeq(s, 1, 0)) = <<>>
      BY <2>1, TextOfNone
    <2> QED
      BY <1>0, <2>2
  <1>2. \A k \in 0..n : k \in U /\ k < n => k + 1 \in U
    <2> SUFFICES ASSUME NEW k \in 0..n, k \in U, k < n PROVE k + 1 \in U
      OBVIOUS
    <2>1. /\ SubSeq(s, 1, k) \in Seq(Bytes) /\ s[k + 1] \in Bytes
          /\ SubSeq(s, 1, k + 1) = Append(SubSeq(s, 1, k), s[k + 1])
      BY OneMore
    <2>2. s[k + 1] \in LineEnds /\ k + 1 \in 0..n
      BY <1>0
    <2> QED
      BY <2>1, <2>2, TextAppend
  <1>3. n \in U
    <2> HIDE DEF U
    <2>1. \A k \in 0..n : k \in U
      BY <1>0, <1>1, <1>2, AllPlaces, Zenon
    <2> QED
      BY <1>0, <2>1
  <1> QED
    BY <1>3, SubSeqFull

States == {"RESET", "OPCODE", "SB", "TERMTYPE", "SEND", "IAC", "WILL", "DO"}
Results == [state : States, out : Seq(Bytes), answer : Seq(Seq(Bytes))]

\* What is there after one more byte.
After(r, c) == [state |-> DecodeByte(r.state, c).state,
                out |-> r.out \o DecodeByte(r.state, c).out,
                answer |-> r.answer \o DecodeByte(r.state, c).answer]

LEMMA ByteType ==
    ASSUME NEW state \in States, NEW c \in Bytes
    PROVE  DecodeByte(state, c) \in Results
  <1>1. /\ <<>> \in Seq(Bytes) /\ <<c>> \in Seq(Bytes) /\ <<"IAC">> \in Seq(Bytes)
        /\ <<"IS", "dumb">> \in Seq(Bytes) /\ <<"DONT", c>> \in Seq(Bytes)
        /\ <<"WILL", c>> \in Seq(Bytes) /\ <<"WONT", c>> \in Seq(Bytes)
    <2>1. \A x, y \in Bytes : <<x>> \in Seq(Bytes) /\ <<x, y>> \in Seq(Bytes)
      OBVIOUS
    <2>2. /\ "IAC" \in Bytes /\ "IS" \in Bytes /\ "dumb" \in Bytes
          /\ "DONT" \in Bytes /\ "WILL" \in Bytes /\ "WONT" \in Bytes
      BY DEF Bytes
    <2> QED
      BY <2>1, <2>2
  <1>2. /\ \A s \in Seq(Bytes) : <<s>> \in Seq(Seq(Bytes))
        /\ <<>> \in Seq(Seq(Bytes))
    OBVIOUS
  <1> DEFINE to(s) == [state |-> s, out |-> <<>>, answer |-> <<>>]
             answer(x) == [state |-> "RESET", out |-> <<>>, answer |-> <<x>>]
  <1>3. \A s \in States : to(s) \in Results
    BY <1>1, <1>2 DEF Results
  <1>4. \A x \in Seq(Bytes) : answer(x) \in Results
    BY <1>1, <1>2 DEF Results, States
  <1>5. \A x \in {<<c>>, <<"IAC">>} : [to("RESET") EXCEPT !.out = x] \in Results
    BY <1>1, <1>2 DEF Results, States
  <1> HIDE DEF to, answer
  <1>6. CASE state = "RESET"
    BY <1>3, <1>5, <1>6 DEF DecodeByte, States, to
  <1>7. CASE state = "OPCODE"
    <2>1. DecodeByte(state, c) = IF c \in {"WILL", "DO", "SB"} THEN to(c)
                                 ELSE IF c = "IAC" THEN [to("RESET") EXCEPT !.out = <<"IAC">>] ELSE to("RESET")
      BY <1>7 DEF DecodeByte, to
    <2>2. c \in {"WILL", "DO", "SB"} => c \in States
      BY DEF States
    <2> QED
      BY <1>3, <1>5, <2>1, <2>2 DEF States
  <1>8. CASE state \in {"SB", "TERMTYPE", "SEND"}
    <2>1. DecodeByte(state, c) \in {to("TERMTYPE"), to("SEND"), to("IAC"), to("RESET")}
      BY <1>8 DEF DecodeByte, to
    <2> QED
      BY <1>3, <2>1 DEF States
  <1>9. CASE state = "IAC"
    <2>1. DecodeByte(state, c) \in {answer(<<"IS", "dumb">>), to("RESET")}
      BY <1>9 DEF DecodeByte, to, answer
    <2> QED
      BY <1>1, <1>3, <1>4, <2>1 DEF States
  <1>10. CASE state \in {"WILL", "DO"}
    <2>1. DecodeByte(state, c) \in {answer(<<"DONT", c>>), answer(<<"WILL", c>>), answer(<<"WONT", c>>)}
      BY <1>10 DEF DecodeByte, answer
    <2> QED
      BY <1>1, <1>4, <2>1
  <1> QED
    BY <1>6, <1>7, <1>8, <1>9, <1>10 DEF States

LEMMA AfterType ==
    ASSUME NEW r \in Results, NEW c \in Bytes
    PROVE  After(r, c) \in Results
  <1> DEFINE d == DecodeByte(r.state, c)
  <1>1. r.state \in States /\ r.out \in Seq(Bytes) /\ r.answer \in Seq(Seq(Bytes))
    BY DEF Results
  <1>2. d.state \in States /\ d.out \in Seq(Bytes) /\ d.answer \in Seq(Seq(Bytes))
    <2>1. d \in Results
      BY <1>1, ByteType
    <2> HIDE DEF d
    <2> QED
      BY <2>1 DEF Results
  <1> HIDE DEF d
  <1>3. r.out \o d.out \in Seq(Bytes) /\ r.answer \o d.answer \in Seq(Seq(Bytes))
    BY <1>1, <1>2, ConcatProperties
  <1>4. [state |-> d.state, out |-> r.out \o d.out, answer |-> r.answer \o d.answer] \in Results
    BY <1>2, <1>3 DEF Results
  <1> QED
    BY <1>4 DEF After, d

\* The results of the first k bytes, for each k.
LEMMA DecodeFacts ==
    ASSUME NEW first \in Results, NEW s \in Seq(Bytes)
    PROVE  \E f \in [0..Len(s) -> Results] :
             /\ f[0] = first /\ f[Len(s)] = DecodeFrom(first, s)
             /\ \A k \in 1..Len(s) : f[k] = After(f[k - 1], s[k])
  <1> DEFINE n == Len(s)
             step == [k \in 1..n |-> [r \in Results |-> After(r, s[k])]]
             Rule(f) == [k \in 0..n |-> IF k = 0 THEN first ELSE After(f[k - 1], s[k])]
             upTo == CHOOSE f : f = Rule(f)
  <1>0. n \in Nat /\ \A k \in 1..n : s[k] \in Bytes
    OBVIOUS
  <1>1. step \in [1..n -> [Results -> Results]]
    BY <1>0, AfterType
  <1>2. PICK f \in [0..n -> Results] : f[0] = first /\ \A k \in 1..n : f[k] = step[k][f[k - 1]]
    <2>1. n \in Nat /\ first \in Results
      BY <1>0
    <2> HIDE DEF step, n
    <2>2. \E f : Steps(f, n, Results, first, step)
      BY <1>1, <2>1, StepByStep, Zenon
    <2> QED
      BY <2>2 DEF Steps
  <1>3. \A k \in 1..n : f[k - 1] \in Results
    BY <1>0, <1>2
  <1>4. f = Rule(f)
    <2>1. \A k \in 1..n : f[k] = After(f[k - 1], s[k])
      BY <1>2, <1>3
    <2>2. f = [k \in 0..n |-> f[k]]
      BY <1>2
    <2>3. \A k \in 0..n : k = 0 \/ k \in 1..n
      BY <1>0
    <2>4. \A k \in 0..n : f[k] = Rule(f)[k]
      BY <1>2, <2>1, <2>3
    <2> QED
      BY <2>2, <2>4
  <1>5. upTo = Rule(upTo)
    <2> HIDE DEF Rule
    <2> QED
      BY <1>4
  <1>6. DecodeFrom(first, s) = upTo[n]
    BY DEF DecodeFrom, After
  <1> HIDE DEF upTo
  <1>7. \A k \in 0..n : upTo[k] = f[k]
    <2> DEFINE U == {j \in 0..n : upTo[j] = f[j]}
    <2>1. 0 \in U
      BY <1>0, <1>2, <1>5
    <2>2. ASSUME NEW k \in 0..n, k \in U, k < n PROVE k + 1 \in U
      <3>1. k + 1 \in 0..n /\ k + 1 # 0 /\ k + 1 - 1 = k
        BY <1>0, <2>2
      <3>2. upTo[k + 1] = Rule(upTo)[k + 1] /\ f[k + 1] = Rule(f)[k + 1]
        BY <1>4, <1>5
      <3>3. upTo[k] = f[k]
        BY <2>2
      <3> QED
        BY <3>1, <3>2, <3>3
    <2>3. \A k \in 0..n : k \in U /\ k < n => k + 1 \in U
      BY <2>2
    <2> HIDE DEF U
    <2>4. \A k \in 0..n : k \in U
      BY <1>0, <2>1, <2>3, AllPlaces, Zenon
    <2> QED
      BY <2>4 DEF U
  <1>8. DecodeFrom(first, s) = f[n]
    BY <1>0, <1>6, <1>7
  <1>9. \A k \in 1..n : f[k] = After(f[k - 1], s[k])
    BY <1>2, <1>3
  <1> QED
    BY <1>2, <1>8, <1>9

LEMMA DecodeType ==
    ASSUME NEW first \in Results, NEW s \in Seq(Bytes)
    PROVE  DecodeFrom(first, s) \in Results
  BY DecodeFacts

LEMMA DecodeNone ==
    ASSUME NEW first \in Results
    PROVE  DecodeFrom(first, <<>>) = first
  <1>1. <<>> \in Seq(Bytes) /\ Len(<<>>) = 0
    OBVIOUS
  <1>2. PICK f \in [0..Len(<<>>) -> Results] : f[0] = first /\ f[Len(<<>>)] = DecodeFrom(first, <<>>)
    BY <1>1, DecodeFacts
  <1> QED
    BY <1>1, <1>2

LEMMA AppendInside ==
    ASSUME NEW S, NEW s \in Seq(S), NEW p \in Seq(S), NEW c \in S
    PROVE  s \o p \in Seq(S) /\ s \o Append(p, c) = Append(s \o p, c)
  <1>1. <<c>> \in Seq(S) /\ s \o p \in Seq(S)
    OBVIOUS
  <1>2. Append(p, c) = p \o <<c>> /\ Append(s \o p, c) = (s \o p) \o <<c>>
    BY <1>1, AppendIsConcat
  <1> QED
    BY <1>1, <1>2, ConcatAssociative

LEMMA DecodeAppend ==
    ASSUME NEW first \in Results, NEW s \in Seq(Bytes), NEW c \in Bytes
    PROVE  DecodeFrom(first, Append(s, c)) = After(DecodeFrom(first, s), c)
  <1> DEFINE n == Len(s)
             t == Append(s, c)
  <1>0. n \in Nat /\ t \in Seq(Bytes) /\ Len(t) = n + 1 /\ t[n + 1] = c
        /\ \A k \in 1..n : t[k] = s[k]
    OBVIOUS
  <1>1. PICK f \in [0..n -> Results] :
               f[0] = first /\ f[n] = DecodeFrom(first, s) /\ \A k \in 1..n : f[k] = After(f[k - 1], s[k])
    BY DecodeFacts
  <1>2. PICK g \in [0..Len(t) -> Results] :
               f[0] = g[0] /\ g[Len(t)] = DecodeFrom(first, t) /\ \A k \in 1..Len(t) : g[k] = After(g[k - 1], t[k])
    BY <1>0, <1>1, DecodeFacts
  <1> HIDE DEF n, t
  <1>3. \A k \in 0..n : g[k] = f[k]
    <2> DEFINE U == {k \in 0..n : g[k] = f[k]}
    <2>1. 0 \in U
      BY <1>0, <1>1, <1>2
    <2>2. \A k \in 0..n : k \in U /\ k < n => k + 1 \in U
      <3> SUFFICES ASSUME NEW k \in 0..n, k \in U, k < n PROVE k + 1 \in U
        OBVIOUS
      <3>1. k + 1 \in 1..n /\ k + 1 \in 1..Len(t) /\ k + 1 - 1 = k /\ k + 1 \in 0..n
        BY <1>0
      <3>2. g[k + 1] = After(g[k], t[k + 1]) /\ f[k + 1] = After(f[k], s[k + 1])
        BY <1>1, <1>2, <3>1
      <3> QED
        BY <1>0, <3>1, <3>2
    <2> HIDE DEF U
    <2>3. \A k \in 0..n : k \in U
      BY <1>0, <2>1, <2>2, AllPlaces, Zenon
    <2> QED
      BY <2>3 DEF U
  <1>4. g[n] = DecodeFrom(first, s)
    BY <1>0, <1>1, <1>3
  <1>5. g[n + 1] = After(g[n], t[n + 1])
    <2> DEFINE m == n + 1
    <2>1. m \in 1..Len(t) /\ m - 1 = n
      BY <1>0
    <2> HIDE DEF m
    <2>2. g[m] = After(g[n], t[m])
      BY <1>2, <2>1
    <2> QED
      BY <2>2 DEF m
  <1> QED
    BY <1>0, <1>2, <1>4, <1>5 DEF t

\* A buffer after the other is both at once.
LEMMA DecodeConcat ==
    ASSUME NEW first \in Results, NEW s \in Seq(Bytes), NEW t \in Seq(Bytes)
    PROVE  DecodeFrom(first, s \o t) = DecodeFrom(DecodeFrom(first, s), t)
  <1> DEFINE n == Len(t)
             pre(k) == SubSeq(t, 1, k)
             mid == DecodeFrom(first, s)
             U == {k \in 0..n : DecodeFrom(first, s \o pre(k)) = DecodeFrom(mid, pre(k))}
  <1>0. n \in Nat /\ mid \in Results
    BY DecodeType
  <1>1. 0 \in U
    <2>1. pre(0) = <<>>
      BY SubSeqEmpty
    <2>2. s \o <<>> = s
      BY ConcatEmptySeq
    <2>3. DecodeFrom(first, s \o pre(0)) = DecodeFrom(mid, pre(0))
      BY <1>0, <2>1, <2>2, DecodeNone
    <2> QED
      BY <1>0, <2>3
  <1>2. \A k \in 0..n : k \in U /\ k < n => k + 1 \in U
    <2> SUFFICES ASSUME NEW k \in 0..n, k \in U, k < n PROVE k + 1 \in U
      OBVIOUS
    <2> DEFINE c == t[k + 1]
               p == pre(k)
    <2>1. /\ p \in Seq(Bytes) /\ c \in Bytes /\ pre(k + 1) = Append(p, c)
      BY OneMore
    <2>2. DecodeFrom(first, s \o p) = DecodeFrom(mid, p)
      OBVIOUS
    <2> HIDE DEF p, c, pre, mid
    <2>3. s \o Append(p, c) = Append(s \o p, c) /\ s \o p \in Seq(Bytes)
      BY <2>1, AppendInside
    <2>4. DecodeFrom(first, s \o Append(p, c)) = After(DecodeFrom(first, s \o p), c)
      BY <2>1, <2>3, DecodeAppend
    <2>5. DecodeFrom(mid, Append(p, c)) = After(DecodeFrom(mid, p), c)
      BY <1>0, <2>1, DecodeAppend
    <2>6. DecodeFrom(first, s \o pre(k + 1)) = DecodeFrom(mid, pre(k + 1))
      BY <2>1, <2>2, <2>4, <2>5
    <2> QED
      BY <1>0, <2>6
  <1>3. n \in U
    <2> HIDE DEF U
    <2>1. \A k \in 0..n : k \in U
      BY <1>0, <1>1, <1>2, AllPlaces, Zenon
    <2> QED
      BY <1>0, <2>1
  <1>4. pre(n) = t
    BY SubSeqFull
  <1> QED
    BY <1>3, <1>4

LEMMA AfterOn ==
    ASSUME NEW d \in Results, NEW e \in Results, NEW out \in Seq(Bytes), NEW c \in Bytes,
           e.state = d.state, e.out = out \o d.out
    PROVE  After(e, c).state = After(d, c).state /\ After(e, c).out = out \o After(d, c).out
  <1> DEFINE b == DecodeByte(d.state, c)
  <1>1. d.state \in States /\ d.out \in Seq(Bytes)
    BY DEF Results
  <1>2. b.out \in Seq(Bytes)
    <2>1. b \in Results
      BY <1>1, ByteType
    <2> HIDE DEF b
    <2> QED
      BY <2>1 DEF Results
  <1>3. /\ After(d, c).state = b.state /\ After(d, c).out = d.out \o b.out
        /\ After(e, c).state = b.state /\ After(e, c).out = (out \o d.out) \o b.out
    BY DEF After
  <1> HIDE DEF b
  <1>4. (out \o d.out) \o b.out = out \o (d.out \o b.out)
    <2>1. \A x, y \in Seq(Bytes) : (out \o x) \o y = out \o (x \o y)
      BY ConcatAssociative
    <2> QED
      BY <1>1, <1>2, <2>1, Zenon
  <1> QED
    BY <1>3, <1>4

\* What was let through before does not change what a buffer lets through.
LEMMA DecodeOn ==
    ASSUME NEW r \in Results, NEW t \in Seq(Bytes)
    PROVE  LET d == DecodeFrom(Decoded(r.state), t)
           IN /\ d \in Results
              /\ DecodeFrom(r, t).state = d.state
              /\ DecodeFrom(r, t).out = r.out \o d.out
  <1> DEFINE n == Len(t)
             zero == Decoded(r.state)
             Same(s) == /\ DecodeFrom(r, s).state = DecodeFrom(zero, s).state
                        /\ DecodeFrom(r, s).out = r.out \o DecodeFrom(zero, s).out
             U == {k \in 0..n : Same(SubSeq(t, 1, k))}
  <1>0. n \in Nat /\ zero \in Results /\ r.out \in Seq(Bytes) /\ zero.state = r.state /\ zero.out = <<>>
    BY DEF Results, Decoded
  <1> HIDE DEF zero
  <1>1. 0 \in U
    <2>1. SubSeq(t, 1, 0) = <<>>
      BY SubSeqEmpty
    <2>2. DecodeFrom(zero, <<>>) = zero /\ DecodeFrom(r, <<>>) = r
      BY <1>0, DecodeNone
    <2>3. r.out \o <<>> = r.out
      BY <1>0, ConcatEmptySeq
    <2>4. Same(<<>>)
      BY <1>0, <2>2, <2>3
    <2> HIDE DEF Same
    <2>5. Same(SubSeq(t, 1, 0))
      BY <2>1, <2>4, Zenon
    <2>6. 0 \in 0..n
      BY <1>0
    <2> QED
      BY <2>5, <2>6, Zenon
  <1>2. \A k \in 0..n : k \in U /\ k < n => k + 1 \in U
    <2> SUFFICES ASSUME NEW k \in 0..n, k \in U, k < n PROVE k + 1 \in U
      OBVIOUS
    <2> DEFINE c == t[k + 1]
               p == SubSeq(t, 1, k)
    <2>1. /\ p \in Seq(Bytes) /\ c \in Bytes /\ SubSeq(t, 1, k + 1) = Append(p, c)
      BY OneMore
    <2>2. Same(p)
      OBVIOUS
    <2> HIDE DEF c, p
    <2>3. /\ DecodeFrom(zero, Append(p, c)) = After(DecodeFrom(zero, p), c)
          /\ DecodeFrom(r, Append(p, c)) = After(DecodeFrom(r, p), c)
          /\ DecodeFrom(zero, p) \in Results /\ DecodeFrom(r, p) \in Results
      BY <1>0, <2>1, DecodeAppend, DecodeType
    <2>4. Same(Append(p, c))
      <3> DEFINE d == DecodeFrom(zero, p)
                 e == DecodeFrom(r, p)
      <3>1. d \in Results /\ e \in Results /\ e.state = d.state /\ e.out = r.out \o d.out
        BY <2>2, <2>3
      <3> HIDE DEF d, e
      <3>2. After(e, c).state = After(d, c).state /\ After(e, c).out = r.out \o After(d, c).out
        BY <1>0, <2>1, <3>1, AfterOn
      <3> QED
        BY <2>3, <3>2 DEF d, e
    <2> HIDE DEF Same
    <2>5. Same(SubSeq(t, 1, k + 1))
      BY <2>1, <2>4, Zenon
    <2>6. k + 1 \in 0..n
      BY <1>0
    <2> QED
      BY <2>5, <2>6, Zenon
  <1>3. n \in U
    <2> HIDE DEF U
    <2>1. \A k \in 0..n : k \in U
      BY <1>0, <1>1, <1>2, AllPlaces, Zenon
    <2> QED
      BY <1>0, <2>1
  <1>4. SubSeq(t, 1, n) = t
    BY SubSeqFull
  <1>5. DecodeFrom(zero, t) \in Results
    BY <1>0, DecodeType
  <1>6. Same(t)
    <2> HIDE DEF Same
    <2> QED
      BY <1>3, <1>4
  <1> QED
    BY <1>5, <1>6 DEF zero
-----------------------------------------------------------------------------
Texts == [text : Seq(Bytes), next : Nat]

\* What Plain does with the byte k.
PlainStep(s, k, r) ==
    IF k < r.next THEN r
    ELSE IF s[k] # "IAC" THEN [text |-> Append(r.text, s[k]), next |-> k + 1]
    ELSE [text |-> r.text \o IF s[k + 1] = "IAC" THEN <<"IAC">> ELSE <<>>,
          next |-> k + CommandLength(s, k)]

LEMMA LengthOfCommand ==
    ASSUME NEW s, NEW k
    PROVE  /\ s[k + 1] = "SB" => CommandLength(s, k) = 6
           /\ s[k + 1] \in {"WILL", "DO"} => CommandLength(s, k) = 3
           /\ s[k + 1] \notin {"SB", "WILL", "DO"} => CommandLength(s, k) = 2
           /\ CommandLength(s, k) \in {2, 3, 6}
  BY DEF CommandLength

LEMMA PlainStepType ==
    ASSUME NEW s \in Seq(Bytes), NEW k \in 1..Len(s), NEW r \in Texts
    PROVE  PlainStep(s, k, r) \in Texts
  <1>1. k \in Nat /\ s[k] \in Bytes /\ r.text \in Seq(Bytes) /\ r.next \in Nat
    BY DEF Texts
  <1>2. CommandLength(s, k) \in Nat
    BY LengthOfCommand
  <1>3. CASE k < r.next
    BY <1>3 DEF PlainStep
  <1>4. CASE ~(k < r.next) /\ s[k] # "IAC"
    <2>1. Append(r.text, s[k]) \in Seq(Bytes) /\ k + 1 \in Nat
      BY <1>1
    <2> QED
      BY <1>4, <2>1 DEF PlainStep, Texts
  <1>5. CASE ~(k < r.next) /\ s[k] = "IAC"
    <2>1. "IAC" \in Bytes
      BY DEF Bytes
    <2> DEFINE x == IF s[k + 1] = "IAC" THEN <<"IAC">> ELSE <<>>
    <2>2. x \in Seq(Bytes)
      BY <2>1
    <2>3. k + CommandLength(s, k) \in Nat
      BY <1>1, <1>2
    <2>4. PlainStep(s, k, r) = [text |-> r.text \o x, next |-> k + CommandLength(s, k)]
      BY <1>5 DEF PlainStep
    <2> HIDE DEF x
    <2>5. r.text \o x \in Seq(Bytes)
      BY <1>1, <2>2, ConcatProperties
    <2> QED
      BY <2>3, <2>4, <2>5 DEF Texts
  <1> QED
    BY <1>3, <1>4, <1>5

LEMMA PlainFacts ==
    ASSUME NEW s \in Seq(Bytes)
    PROVE  /\ Plain(s)[0] = [text |-> <<>>, next |-> 1]
           /\ \A k \in 1..Len(s) : Plain(s)[k] = PlainStep(s, k, Plain(s)[k - 1])
           /\ \A k \in 0..Len(s) : Plain(s)[k] \in Texts
  <1> DEFINE n == Len(s)
             first == [text |-> <<>>, next |-> 1]
             step == [k \in 1..n |-> [r \in Texts |-> PlainStep(s, k, r)]]
             Rule(f) == [k \in 0..n |-> IF k = 0 THEN first ELSE PlainStep(s, k, f[k - 1])]
             upTo == CHOOSE f : f = Rule(f)
  <1>0. n \in Nat /\ first \in Texts
    BY DEF Texts
  <1>1. step \in [1..n -> [Texts -> Texts]]
    BY <1>0, PlainStepType
  <1>2. PICK f \in [0..n -> Texts] : f[0] = first /\ \A k \in 1..n : f[k] = step[k][f[k - 1]]
    <2> HIDE DEF step, n, first
    <2>2. \E f : Steps(f, n, Texts, first, step)
      BY <1>0, <1>1, StepByStep, Zenon
    <2> QED
      BY <2>2 DEF Steps
  <1> HIDE DEF first
  <1>3. \A k \in 1..n : f[k - 1] \in Texts
    BY <1>0, <1>2
  <1>4. f = Rule(f)
    <2>1. \A k \in 1..n : f[k] = PlainStep(s, k, f[k - 1])
      BY <1>2, <1>3
    <2>2. f = [k \in 0..n |-> f[k]]
      BY <1>2
    <2>3. \A k \in 0..n : k = 0 \/ k \in 1..n
      BY <1>0
    <2>4. \A k \in 0..n : f[k] = Rule(f)[k]
      BY <1>2, <2>1, <2>3
    <2> QED
      BY <2>2, <2>4
  <1>5. upTo = Rule(upTo)
    <2> HIDE DEF Rule
    <2> QED
      BY <1>4
  <1>6. Plain(s) = upTo
    BY DEF Plain, PlainStep, first
  <1> HIDE DEF upTo
  <1>7. /\ upTo[0] = first /\ \A k \in 1..n : upTo[k] = PlainStep(s, k, upTo[k - 1])
    <2>1. \A k \in 0..n : upTo[k] = IF k = 0 THEN first ELSE PlainStep(s, k, upTo[k - 1])
      BY <1>5
    <2> QED
      BY <1>0, <2>1
  <1>8. \A k \in 0..n : upTo[k] \in Texts
    <2> DEFINE U == {j \in 0..n : upTo[j] \in Texts}
    <2>1. 0 \in U
      BY <1>0, <1>7
    <2>2. ASSUME NEW k \in 0..n, k \in U, k < n PROVE k + 1 \in U
      <3>1. k + 1 \in 0..n /\ k + 1 \in 1..n /\ k + 1 - 1 = k /\ upTo[k] \in Texts
        BY <1>0, <2>2
      <3>2. upTo[k + 1] = PlainStep(s, k + 1, upTo[k])
        BY <1>7, <3>1
      <3>3. PlainStep(s, k + 1, upTo[k]) \in Texts
        BY <3>1, PlainStepType
      <3> QED
        BY <3>1, <3>2, <3>3
    <2>3. \A k \in 0..n : k \in U /\ k < n => k + 1 \in U
      BY <2>2
    <2> HIDE DEF U
    <2>4. \A k \in 0..n : k \in U
      BY <1>0, <2>1, <2>3, AllPlaces, Zenon
    <2> QED
      BY <2>4 DEF U
  <1> QED
    BY <1>6, <1>7, <1>8 DEF first
-----------------------------------------------------------------------------
\* What the decoder has after the first n bytes.
Run(s, n) == DecodeFrom(Decoded("RESET"), SubSeq(s, 1, n))

LEMMA RunFacts ==
    ASSUME NEW s \in Seq(Bytes)
    PROVE  /\ Run(s, 0) = Decoded("RESET")
           /\ \A n \in 0..Len(s) : Run(s, n) \in Results
           /\ \A n \in 0..Len(s) : n < Len(s) => Run(s, n + 1) = After(Run(s, n), s[n + 1])
  <1>0. Decoded("RESET") \in Results
    BY DEF Decoded, Results, States
  <1>1. Run(s, 0) = Decoded("RESET")
    <2>1. SubSeq(s, 1, 0) = <<>>
      BY SubSeqEmpty
    <2>2. DecodeFrom(Decoded("RESET"), <<>>) = Decoded("RESET")
      BY <1>0, DecodeNone
    <2> QED
      BY <2>1, <2>2, Zenon DEF Run
  <1>2. ASSUME NEW n \in 0..Len(s)
        PROVE  Run(s, n) \in Results
    <2>1. SubSeq(s, 1, n) \in Seq(Bytes)
      OBVIOUS
    <2> QED
      BY <1>0, <2>1, DecodeType DEF Run
  <1>3. ASSUME NEW n \in 0..Len(s), n < Len(s)
        PROVE  Run(s, n + 1) = After(Run(s, n), s[n + 1])
    <2>1. /\ SubSeq(s, 1, n) \in Seq(Bytes) /\ s[n + 1] \in Bytes
          /\ SubSeq(s, 1, n + 1) = Append(SubSeq(s, 1, n), s[n + 1])
      BY <1>3, OneMore
    <2> QED
      BY <1>0, <2>1, DecodeAppend DEF Run
  <1> QED
    BY <1>1, <1>2, <1>3

\* The byte after which the decoder is outside a command again, the state it
\* leaves the decoder in otherwise, and what it lets through.
LEMMA ByteFacts ==
    ASSUME NEW c
    PROVE  /\ c # "IAC" => DecodeByte("RESET", c).state = "RESET" /\ DecodeByte("RESET", c).out = <<c>>
           /\ DecodeByte("RESET", "IAC").state = "OPCODE" /\ DecodeByte("RESET", "IAC").out = <<>>
           /\ c \in {"WILL", "DO", "SB"} =>
                DecodeByte("OPCODE", c).state = c /\ DecodeByte("OPCODE", c).out = <<>>
           /\ DecodeByte("OPCODE", "IAC").state = "RESET" /\ DecodeByte("OPCODE", "IAC").out = <<"IAC">>
           /\ c \notin {"WILL", "DO", "SB", "IAC"} =>
                DecodeByte("OPCODE", c).state = "RESET" /\ DecodeByte("OPCODE", c).out = <<>>
           /\ \A w \in {"WILL", "DO"} : DecodeByte(w, c).state = "RESET" /\ DecodeByte(w, c).out = <<>>
           /\ DecodeByte("SB", "TERMTYPE").state = "TERMTYPE" /\ DecodeByte("SB", "TERMTYPE").out = <<>>
           /\ DecodeByte("TERMTYPE", "SEND").state = "SEND" /\ DecodeByte("TERMTYPE", "SEND").out = <<>>
           /\ DecodeByte("SEND", "IAC").state = "IAC" /\ DecodeByte("SEND", "IAC").out = <<>>
           /\ DecodeByte("IAC", "SE").state = "RESET" /\ DecodeByte("IAC", "SE").out = <<>>
  <1>1. /\ c # "IAC" => DecodeByte("RESET", c).state = "RESET" /\ DecodeByte("RESET", c).out = <<c>>
        /\ DecodeByte("RESET", "IAC").state = "OPCODE" /\ DecodeByte("RESET", "IAC").out = <<>>
    BY DEF DecodeByte
  <1>2. /\ c \in {"WILL", "DO", "SB"} =>
             DecodeByte("OPCODE", c).state = c /\ DecodeByte("OPCODE", c).out = <<>>
        /\ DecodeByte("OPCODE", "IAC").state = "RESET" /\ DecodeByte("OPCODE", "IAC").out = <<"IAC">>
        /\ c \notin {"WILL", "DO", "SB", "IAC"} =>
             DecodeByte("OPCODE", c).state = "RESET" /\ DecodeByte("OPCODE", c).out = <<>>
    BY DEF DecodeByte
  <1>3. \A w \in {"WILL", "DO"} : DecodeByte(w, c).state = "RESET" /\ DecodeByte(w, c).out = <<>>
    BY DEF DecodeByte
  <1>4. /\ DecodeByte("SB", "TERMTYPE").state = "TERMTYPE" /\ DecodeByte("SB", "TERMTYPE").out = <<>>
        /\ DecodeByte("TERMTYPE", "SEND").state = "SEND" /\ DecodeByte("TERMTYPE", "SEND").out = <<>>
        /\ DecodeByte("SEND", "IAC").state = "IAC" /\ DecodeByte("SEND", "IAC").out = <<>>
        /\ DecodeByte("IAC", "SE").state = "RESET" /\ DecodeByte("IAC", "SE").out = <<>>
    BY DEF DecodeByte
  <1> QED
    BY <1>1, <1>2, <1>3, <1>4

\* The state of the decoder inside the command that begins at p.
Inside(s, p, n) ==
    IF n = p THEN "OPCODE"
    ELSE IF n = p + 1 THEN s[p + 1]
    ELSE IF n = p + 2 THEN "TERMTYPE"
    ELSE IF n = p + 3 THEN "SEND" ELSE "IAC"

\* The command or character that begins at p is the next one, or begins and
\* is not over yet, after n bytes.
Whole(s, p) ==
    /\ Plain(s)[p - 1].next = p
    /\ Run(s, p - 1).state = "RESET"
    /\ Run(s, p - 1).out = Plain(s)[p - 1].text

Begun(s, p, n) ==
    /\ p <= n /\ s[p] = "IAC" /\ n + 1 < p + CommandLength(s, p)
    /\ Run(s, n).state = Inside(s, p, n)
    /\ Run(s, n).out = Plain(s)[p - 1].text
    /\ Plain(s)[n].next = p + CommandLength(s, p)
    /\ Plain(s)[n].text = Plain(s)[p - 1].text \o IF s[p + 1] = "IAC" THEN <<"IAC">> ELSE <<>>

Place(s, n) == \E p \in 1..n + 1 : Whole(s, p) /\ (p = n + 1 \/ Begun(s, p, n))

\* One byte more.
LEMMA RunByte ==
    ASSUME NEW s \in Seq(Bytes), NEW n \in 0..Len(s), n < Len(s)
    PROVE  /\ Run(s, n + 1).state = DecodeByte(Run(s, n).state, s[n + 1]).state
           /\ Run(s, n + 1).out = Run(s, n).out \o DecodeByte(Run(s, n).state, s[n + 1]).out
           /\ Run(s, n).out \in Seq(Bytes) /\ Run(s, n).out \o <<>> = Run(s, n).out
           /\ Run(s, n + 1).out \in Seq(Bytes)
           /\ n + 1 \in 0..Len(s)
  <1>0. n + 1 \in 0..Len(s)
    OBVIOUS
  <1>1. Run(s, n + 1) = After(Run(s, n), s[n + 1]) /\ Run(s, n) \in Results /\ Run(s, n + 1) \in Results
    BY <1>0, RunFacts
  <1>2. Run(s, n).out \in Seq(Bytes) /\ Run(s, n + 1).out \in Seq(Bytes)
    BY <1>1 DEF Results
  <1>3. Run(s, n).out \o <<>> = Run(s, n).out
    BY <1>2, ConcatEmptySeq
  <1>4. \A r, c : /\ After(r, c).state = DecodeByte(r.state, c).state
                 /\ After(r, c).out = r.out \o DecodeByte(r.state, c).out
    BY DEF After
  <1>5. /\ Run(s, n + 1).state = DecodeByte(Run(s, n).state, s[n + 1]).state
        /\ Run(s, n + 1).out = Run(s, n).out \o DecodeByte(Run(s, n).state, s[n + 1]).out
    BY <1>1, <1>4, Zenon
  <1> QED
    BY <1>0, <1>2, <1>3, <1>5, Zenon

\* A byte more, the command or character is over.
LEMMA IsWhole ==
    ASSUME NEW s, NEW m \in Nat, Plain(s)[m].next = m + 1, Run(s, m).state = "RESET",
           Run(s, m).out = Plain(s)[m].text
    PROVE  Place(s, m)
  <1> DEFINE p == m + 1
  <1>1. p - 1 = m /\ p \in 1..m + 1 /\ p = m + 1
    OBVIOUS
  <1> HIDE DEF p
  <1>2. Whole(s, p)
    BY <1>1 DEF Whole
  <1> QED
    BY <1>1, <1>2 DEF Place

\* A command or a character begins.
LEMMA BeginsHere ==
    ASSUME NEW s \in Seq(Bytes), NEW n \in 0..Len(s), n < Len(s), Whole(s, n + 1)
    PROVE  Place(s, n + 1)
  <1> DEFINE c == s[n + 1]
             m == n + 1
             q == Plain(s)[n]
  <1>0. /\ n \in Nat /\ Len(s) \in Nat /\ m \in 1..Len(s) /\ m \in 0..Len(s) /\ m - 1 = n
        /\ c \in Bytes /\ m \in Nat /\ m = n + 1 /\ c = s[m]
    OBVIOUS
  <1>1. q \in Texts /\ Plain(s)[m] = PlainStep(s, m, q)
    BY <1>0, PlainFacts
  <1>2. q.next = m /\ Run(s, n).state = "RESET" /\ Run(s, n).out = q.text
    BY <1>0 DEF Whole
  <1>3. /\ Run(s, m).state = DecodeByte("RESET", c).state
        /\ Run(s, m).out = q.text \o DecodeByte("RESET", c).out
        /\ q.text \in Seq(Bytes) /\ q.text \o <<>> = q.text
    <2>1. /\ Run(s, n + 1).state = DecodeByte(Run(s, n).state, s[n + 1]).state
          /\ Run(s, n + 1).out = Run(s, n).out \o DecodeByte(Run(s, n).state, s[n + 1]).out
          /\ Run(s, n).out \in Seq(Bytes) /\ Run(s, n).out \o <<>> = Run(s, n).out
      BY RunByte
    <2> QED
      BY <1>2, <2>1, Zenon
  <1>4. ~(m < q.next)
    BY <1>0, <1>2
  <1>5. Whole(s, m)
    OBVIOUS
  <1>6. q = Plain(s)[m - 1]
    BY <1>0
  <1> HIDE DEF c, m, q
  <1>7. CASE c # "IAC"
    <2>1. Run(s, m).state = "RESET" /\ Run(s, m).out = q.text \o <<c>>
      BY <1>3, <1>7, ByteFacts
    <2>2. Plain(s)[m] = [text |-> Append(q.text, c), next |-> m + 1]
      BY <1>0, <1>1, <1>4, <1>7 DEF PlainStep
    <2>3. Append(q.text, c) = q.text \o <<c>>
      BY <1>0, <1>3, AppendIsConcat
    <2>4. Plain(s)[m].next = m + 1 /\ Plain(s)[m].text = Run(s, m).out
      BY <2>1, <2>2, <2>3
    <2> QED
      BY <1>0, <2>1, <2>4, IsWhole
  <1>8. CASE c = "IAC"
    <2>1. Run(s, m).state = "OPCODE" /\ Run(s, m).out = q.text
      BY <1>3, <1>8, ByteFacts
    <2> DEFINE x == IF s[m + 1] = "IAC" THEN <<"IAC">> ELSE <<>>
    <2>2. Plain(s)[m] = [text |-> q.text \o x, next |-> m + CommandLength(s, m)]
      BY <1>0, <1>1, <1>4, <1>8 DEF PlainStep
    <2> HIDE DEF x
    <2>3. Plain(s)[m].text = q.text \o x /\ Plain(s)[m].next = m + CommandLength(s, m)
      BY <2>2
    <2>4. m <= m /\ m + 1 < m + CommandLength(s, m) /\ m \in 1..m + 1
      BY <1>0, LengthOfCommand
    <2>5. Inside(s, m, m) = "OPCODE"
      BY DEF Inside
    <2>6. Begun(s, m, m)
      BY <1>0, <1>6, <1>8, <2>1, <2>3, <2>4, <2>5, Zenon DEF Begun, x
    <2> QED
      BY <1>0, <1>5, <2>4, <2>6 DEF Place
  <1> QED
    BY <1>0, <1>7, <1>8
\* A command goes on or ends.
LEMMA GoesOn ==
    ASSUME NEW s \in Seq(Bytes), Session(s), NEW n \in 0..Len(s), n < Len(s),
           NEW p \in 1..n, Whole(s, p), Begun(s, p, n)
    PROVE  Place(s, n + 1)
  <1> DEFINE c == s[n + 1]
             m == n + 1
             t == Plain(s)[p - 1].text
             o == s[p + 1]
             length == CommandLength(s, p)
             x == IF o = "IAC" THEN <<"IAC">> ELSE <<>>
             state == Inside(s, p, n)
  <1> SUFFICES Place(s, m)
    OBVIOUS
  <1>0. /\ n \in Nat /\ Len(s) \in Nat /\ m \in 1..Len(s) /\ m \in 0..Len(s) /\ m - 1 = n
        /\ c \in Bytes /\ m \in Nat /\ m = n + 1 /\ c = s[m] /\ p \in Nat /\ p >= 1 /\ p <= n
        /\ p \in 1..Len(s) /\ p \in 1..m + 1
    OBVIOUS
  <1>1. /\ s[p] = "IAC" /\ m < p + length /\ Run(s, n).state = state /\ Run(s, n).out = t
        /\ Plain(s)[n].next = p + length /\ Plain(s)[n].text = t \o x
    BY DEF Begun
  <1>2. Plain(s)[m] = Plain(s)[n]
    <2>1. Plain(s)[m] = PlainStep(s, m, Plain(s)[m - 1])
      BY <1>0, PlainFacts
    <2> HIDE DEF m
    <2>2. Plain(s)[m] = PlainStep(s, m, Plain(s)[n])
      BY <1>0, <2>1
    <2> QED
      BY <1>1, <2>2 DEF PlainStep
  <1>3. /\ Run(s, m).state = DecodeByte(state, c).state
        /\ Run(s, m).out = t \o DecodeByte(state, c).out
        /\ t \in Seq(Bytes) /\ t \o <<>> = t
    <2>1. /\ Run(s, n + 1).state = DecodeByte(Run(s, n).state, s[n + 1]).state
          /\ Run(s, n + 1).out = Run(s, n).out \o DecodeByte(Run(s, n).state, s[n + 1]).out
          /\ Run(s, n).out \in Seq(Bytes) /\ Run(s, n).out \o <<>> = Run(s, n).out
      BY RunByte
    <2> QED
      BY <1>1, <2>1, Zenon
  <1>4. /\ o = "SB" => s[p + 2] = "TERMTYPE" /\ s[p + 3] = "SEND" /\ s[p + 4] = "IAC" /\ s[p + 5] = "SE"
    BY <1>0, <1>1 DEF Session, Whole
  <1>5. /\ o = "SB" => length = 6
        /\ o \in {"WILL", "DO"} => length = 3
        /\ o \notin {"SB", "WILL", "DO"} => length = 2
    BY LengthOfCommand
  <1>6. Whole(s, p)
    OBVIOUS
  <1>7. state = Inside(s, p, n)
    OBVIOUS
  <1>8. o # "IAC" => x = <<>>
    OBVIOUS
  <1>9. o = "IAC" => x = <<"IAC">>
    OBVIOUS
  <1> HIDE DEF c, m, t, o, length, x, state
  <1>10. ASSUME m + 1 = p + length, DecodeByte(state, c).state = "RESET", DecodeByte(state, c).out = x
         PROVE  Place(s, m)
    <2>1. Plain(s)[m].next = m + 1 /\ Run(s, m).state = "RESET" /\ Run(s, m).out = Plain(s)[m].text
      BY <1>1, <1>2, <1>3, <1>10, Zenon
    <2> QED
      BY <1>0, <2>1, IsWhole
  <1>11. ASSUME m + 1 < p + length, DecodeByte(state, c).state = Inside(s, p, m), DecodeByte(state, c).out = <<>>
         PROVE  Place(s, m)
    <2>1. Run(s, m).state = Inside(s, p, m) /\ Run(s, m).out = t
      BY <1>3, <1>11, Zenon
    <2>2. p <= m
      BY <1>0
    <2>3. Begun(s, p, m)
      BY <1>1, <1>2, <1>11, <2>1, <2>2, Zenon DEF Begun, t, x, o, length
    <2> QED
      BY <1>0, <1>6, <2>3 DEF Place
  <1>12. CASE n = p
    <2>1. state = "OPCODE" /\ c = o /\ m = p + 1
      BY <1>0, <1>7, <1>12 DEF Inside, o
    <2>2. Inside(s, p, m) = o
      BY <1>0, <2>1 DEF Inside, o
    <2>3. CASE o \in {"WILL", "DO", "SB"}
      <3>1. DecodeByte(state, c).state = o /\ DecodeByte(state, c).out = <<>>
        BY <2>1, <2>3, ByteFacts
      <3>2. m + 1 < p + length
        BY <1>0, <1>5, <2>1, <2>3
      <3> QED
        BY <1>11, <2>2, <3>1, <3>2
    <2>4. CASE o \notin {"WILL", "DO", "SB"}
      <3>1. DecodeByte(state, c).state = "RESET" /\ DecodeByte(state, c).out = x
        BY <1>8, <1>9, <2>1, <2>4, ByteFacts
      <3>2. m + 1 = p + length
        BY <1>0, <1>5, <2>1, <2>4
      <3> QED
        BY <1>10, <3>1, <3>2
    <2> QED
      BY <2>3, <2>4
  <1>13. CASE n # p
    <2>1. n >= p + 1 /\ length # 2 /\ o # "IAC"
      BY <1>0, <1>1, <1>5, <1>13
    <2>2. x = <<>>
      BY <1>8, <2>1
    <2>3. CASE o \in {"WILL", "DO"}
      <3>1. n = p + 1 /\ m + 1 = p + length
        BY <1>0, <1>1, <1>5, <2>1, <2>3
      <3>2. state = o
        BY <1>0, <1>7, <3>1 DEF Inside, o
      <3>3. DecodeByte(state, c).state = "RESET" /\ DecodeByte(state, c).out = <<>>
        BY <2>3, <3>2, ByteFacts
      <3> QED
        BY <1>10, <2>2, <3>1, <3>3
    <2>4. CASE o = "SB"
      <3>0. length = 6 /\ n \in {p + 1, p + 2, p + 3, p + 4}
        <4>1. length = 6
          BY <1>5, <2>4
        <4>2. n + 1 < p + 6
          BY <1>0, <1>1, <4>1
        <4> QED
          BY <1>0, <2>1, <4>1, <4>2
      <3>1. CASE n = p + 1
        <4>1. state = "SB" /\ c = "TERMTYPE" /\ Inside(s, p, m) = "TERMTYPE" /\ m + 1 < p + length
          BY <1>0, <1>4, <1>7, <2>4, <3>0, <3>1 DEF Inside, o
        <4> QED
          BY <1>11, <4>1, ByteFacts
      <3>2. CASE n = p + 2
        <4>1. state = "TERMTYPE" /\ c = "SEND" /\ Inside(s, p, m) = "SEND" /\ m + 1 < p + length
          BY <1>0, <1>4, <1>7, <2>4, <3>0, <3>2 DEF Inside, o
        <4> QED
          BY <1>11, <4>1, ByteFacts
      <3>3. CASE n = p + 3
        <4>1. state = "SEND" /\ c = "IAC" /\ Inside(s, p, m) = "IAC" /\ m + 1 < p + length
          BY <1>0, <1>4, <1>7, <2>4, <3>0, <3>3 DEF Inside, o
        <4> QED
          BY <1>11, <4>1, ByteFacts
      <3>4. CASE n = p + 4
        <4>1. state = "IAC" /\ c = "SE" /\ m + 1 = p + length
          BY <1>0, <1>4, <1>7, <2>4, <3>0, <3>4 DEF Inside, o
        <4> QED
          BY <1>10, <2>2, <4>1, ByteFacts
      <3> QED
        BY <3>0, <3>1, <3>2, <3>3, <3>4
    <2> QED
      BY <1>5, <2>1, <2>3, <2>4
  <1> QED
    BY <1>0, <1>12, <1>13

\* Wherever a session is cut, the decoder is where it should be.
LEMMA Everywhere ==
    ASSUME NEW s \in Seq(Bytes), Session(s)
    PROVE  \A n \in 0..Len(s) : Place(s, n)
  <1> DEFINE U == {n \in 0..Len(s) : Place(s, n)}
  <1>1. 0 \in U
    <2>1. Plain(s)[0] = [text |-> <<>>, next |-> 1] /\ Run(s, 0) = Decoded("RESET")
      BY PlainFacts, RunFacts
    <2>2. Plain(s)[0].next = 0 + 1 /\ Run(s, 0).state = "RESET" /\ Run(s, 0).out = Plain(s)[0].text
      BY <2>1 DEF Decoded
    <2>3. Place(s, 0)
      BY <2>2, IsWhole
    <2> QED
      BY <2>3
  <1>2. \A n \in 0..Len(s) : n \in U /\ n < Len(s) => n + 1 \in U
    <2> SUFFICES ASSUME NEW n \in 0..Len(s), n \in U, n < Len(s) PROVE n + 1 \in U
      OBVIOUS
    <2>1. PICK p \in 1..n + 1 : Whole(s, p) /\ (p = n + 1 \/ Begun(s, p, n))
      BY DEF Place
    <2>2. CASE p = n + 1
      <3>1. Place(s, n + 1)
        BY <2>1, <2>2, BeginsHere
      <3> QED
        BY <3>1
    <2>3. CASE Begun(s, p, n)
      <3>1. p \in 1..n
        BY <2>3 DEF Begun
      <3>2. Place(s, n + 1)
        BY <2>1, <2>3, <3>1, GoesOn
      <3> QED
        BY <3>2
    <2> QED
      BY <2>1, <2>2, <2>3
  <1>3. Len(s) \in Nat
    OBVIOUS
  <1> HIDE DEF U
  <1>4. \A n \in 0..Len(s) : n \in U
    BY <1>1, <1>2, <1>3, AllPlaces, Zenon
  <1> QED
    BY <1>4 DEF U

\* Outside a command, what was let through is the plain text.
LEMMA OutsideIsPlain ==
    ASSUME NEW s \in Seq(Bytes), Session(s), NEW n \in 0..Len(s), Run(s, n).state = "RESET"
    PROVE  Run(s, n).out = Plain(s)[n].text
  <1>1. PICK p \in 1..n + 1 : Whole(s, p) /\ (p = n + 1 \/ Begun(s, p, n))
    <2>1. Place(s, n)
      BY Everywhere
    <2> QED
      BY <2>1 DEF Place
  <1>2. CASE p = n + 1
    <2>1. p - 1 = n
      BY <1>2
    <2> QED
      BY <1>1, <2>1 DEF Whole
  <1>3. CASE Begun(s, p, n)
    <2>1. Run(s, n).state = Inside(s, p, n) /\ n + 1 < p + CommandLength(s, p)
      BY <1>3 DEF Begun
    <2>2. n = p + 1 => s[p + 1] \in {"SB", "WILL", "DO"}
      <3> SUFFICES ASSUME n = p + 1, s[p + 1] \notin {"SB", "WILL", "DO"} PROVE FALSE
        OBVIOUS
      <3>1. CommandLength(s, p) = 2
        BY LengthOfCommand
      <3> QED
        BY <2>1, <3>1
    <2>3. Inside(s, p, n) # "RESET"
      BY <2>2 DEF Inside
    <2> QED
      BY <2>1, <2>3
  <1> QED
    BY <1>1, <1>2, <1>3

\* No command has a line end inside.
LEMMA EndIsOutside ==
    ASSUME NEW s \in Seq(Bytes), Session(s), NEW n \in 0..Len(s), n < Len(s), s[n + 1] \in LineEnds
    PROVE  /\ Run(s, n + 1).state = Run(s, n).state
           /\ Text(Run(s, n + 1).out) = Text(Run(s, n).out)
  <1> DEFINE c == s[n + 1]
  <1>1. PICK p \in 1..n + 1 : Whole(s, p) /\ (p = n + 1 \/ Begun(s, p, n))
    <2>1. Place(s, n)
      BY Everywhere
    <2> QED
      BY <2>1 DEF Place
  <1>2. p = n + 1
    <2> SUFFICES ASSUME Begun(s, p, n) PROVE FALSE
      BY <1>1
    <2> DEFINE length == CommandLength(s, p)
               i == n + 1 - p
    <2>1. s[p] = "IAC" /\ p <= n /\ n + 1 < p + length /\ Plain(s)[p - 1].next = p
      BY <1>1 DEF Begun, Whole
    <2>2. length \in {2, 3, 6} /\ p \in 1..Len(s)
      BY <2>1, LengthOfCommand
    <2>3. i \in 1..length - 1 /\ p + i = n + 1
      BY <2>1, <2>2
    <2>4. \A j \in 1..length - 1 : s[p + j] \notin LineEnds
      BY <2>1, <2>2 DEF Session
    <2> HIDE DEF i, length
    <2>5. s[p + i] \notin LineEnds
      BY <2>3, <2>4
    <2> QED
      BY <2>3, <2>5
  <1>3. Run(s, n).state = "RESET"
    <2>1. p - 1 = n
      BY <1>2
    <2> QED
      BY <1>1, <2>1 DEF Whole
  <1>4. c \in Bytes /\ c # "IAC"
    <2>1. n + 1 \in 1..Len(s)
      OBVIOUS
    <2> QED
      BY <2>1 DEF LineEnds
  <1>5. /\ Run(s, n + 1).state = DecodeByte("RESET", c).state
        /\ Run(s, n + 1).out = Run(s, n).out \o DecodeByte("RESET", c).out
        /\ Run(s, n).out \in Seq(Bytes)
    <2>1. /\ Run(s, n + 1).state = DecodeByte(Run(s, n).state, s[n + 1]).state
          /\ Run(s, n + 1).out = Run(s, n).out \o DecodeByte(Run(s, n).state, s[n + 1]).out
          /\ Run(s, n).out \in Seq(Bytes)
      BY RunByte
    <2> QED
      BY <1>3, <2>1, Zenon
  <1>6. Run(s, n + 1).state = "RESET" /\ Run(s, n + 1).out = Run(s, n).out \o <<c>>
    BY <1>4, <1>5, ByteFacts
  <1>7. Run(s, n).out \o <<c>> = Append(Run(s, n).out, c)
    BY <1>4, <1>5, AppendIsConcat
  <1> QED
    BY <1>3, <1>4, <1>5, <1>6, <1>7, TextAppend

\* The end of a line, which the decoder does not see, changes nothing.
LEMMA EndsAreSkipped ==
    ASSUME NEW s \in Seq(Bytes), Session(s), NEW a \in 0..Len(s), NEW b \in a..Len(s),
           \A i \in a + 1..b : s[i] \in LineEnds
    PROVE  Run(s, b).state = Run(s, a).state /\ Text(Run(s, b).out) = Text(Run(s, a).out)
  <1> DEFINE n == b - a
             Same(k) == /\ Run(s, a + k).state = Run(s, a).state
                        /\ Text(Run(s, a + k).out) = Text(Run(s, a).out)
             U == {k \in 0..n : Same(k)}
  <1>0. n \in Nat /\ a \in Nat /\ b \in Nat /\ Len(s) \in Nat /\ b <= Len(s) /\ a + n = b /\ a + 0 = a
    OBVIOUS
  <1>1. 0 \in U
    BY <1>0
  <1>2. \A k \in 0..n : k \in U /\ k < n => k + 1 \in U
    <2> SUFFICES ASSUME NEW k \in 0..n, k \in U, k < n PROVE k + 1 \in U
      OBVIOUS
    <2> DEFINE m == a + k
    <2>1. m \in 0..Len(s) /\ m < Len(s) /\ m + 1 \in a + 1..b /\ a + (k + 1) = m + 1 /\ k + 1 \in 0..n
      BY <1>0
    <2>2. s[m + 1] \in LineEnds
      BY <2>1
    <2>3. Same(k) /\ m = a + k
      OBVIOUS
    <2> HIDE DEF m, n
    <2>4. Run(s, m + 1).state = Run(s, m).state /\ Text(Run(s, m + 1).out) = Text(Run(s, m).out)
      BY <2>1, <2>2, EndIsOutside
    <2>5. Same(k + 1)
      BY <2>1, <2>3, <2>4, Zenon
    <2> QED
      BY <2>1, <2>5
  <1>3. n \in U
    <2> HIDE DEF U
    <2>1. \A k \in 0..n : k \in U
      BY <1>0, <1>1, <1>2, AllPlaces, Zenon
    <2> QED
      BY <1>0, <2>1
  <1>4. Same(n)
    BY <1>3
  <1> HIDE DEF n
  <1> QED
    BY <1>0, <1>4, Zenon
-----------------------------------------------------------------------------
\* A part of the text, and the text in two parts.
LEMMA Rest ==
    ASSUME NEW S, NEW b \in Seq(S), NEW m \in 0..Len(b), NEW n \in m..Len(b)
    PROVE  /\ SubSeq(b, m + 1, n) \in Seq(S) /\ Len(SubSeq(b, m + 1, n)) = n - m
           /\ \A i \in 1..n - m : SubSeq(b, m + 1, n)[i] = b[m + i]
  <1> DEFINE k == m + 1
             part == SubSeq(b, k, n)
  <1>0. m \in Nat /\ n \in Nat /\ m <= n /\ n <= Len(b) /\ Len(b) \in Nat /\ k \in Nat /\ k = m + 1
    OBVIOUS
  <1> HIDE DEF k
  <1>1. \A i \in k..n : b[i] \in S
    BY <1>0
  <1>2. /\ part \in Seq(S) /\ Len(part) = IF k <= n THEN n - k + 1 ELSE 0
        /\ \A i \in 1..n - k + 1 : part[i] = b[k + i - 1]
    BY <1>0, <1>1, SubSeqProperties
  <1> HIDE DEF part
  <1>3. Len(part) = n - m
    BY <1>0, <1>2
  <1>4. ASSUME NEW i \in 1..n - m
        PROVE  part[i] = b[m + i]
    <2>1. i \in 1..n - k + 1 /\ k + i - 1 = m + i
      BY <1>0
    <2> QED
      BY <1>2, <2>1
  <1> QED
    BY <1>2, <1>3, <1>4 DEF part, k

LEMMA Halves ==
    ASSUME NEW S, NEW b \in Seq(S), NEW m \in 0..Len(b), NEW n \in m..Len(b)
    PROVE  SubSeq(b, 1, n) = SubSeq(b, 1, m) \o SubSeq(b, m + 1, n)
  <1> DEFINE x == SubSeq(b, 1, m)
             y == SubSeq(b, m + 1, n)
             z == SubSeq(b, 1, n)
  <1>0. m \in Nat /\ n \in Nat /\ m <= n /\ n <= Len(b) /\ Len(b) \in Nat
    OBVIOUS
  <1>1. /\ x \in Seq(S) /\ Len(x) = m /\ \A i \in 1..m : x[i] = b[i]
        /\ z \in Seq(S) /\ Len(z) = n /\ \A i \in 1..n : z[i] = b[i]
    BY <1>0
  <1>2. y \in Seq(S) /\ Len(y) = n - m /\ \A i \in 1..n - m : y[i] = b[m + i]
    BY Rest
  <1> HIDE DEF x, y, z
  <1>3. /\ x \o y \in Seq(S) /\ Len(x \o y) = n
        /\ \A i \in 1..n : (x \o y)[i] = IF i <= m THEN x[i] ELSE y[i - m]
    BY <1>0, <1>1, <1>2
  <1>4. \A i \in 1..n : (x \o y)[i] = z[i]
    <2> SUFFICES ASSUME NEW i \in 1..n PROVE (x \o y)[i] = z[i]
      OBVIOUS
    <2>1. CASE i <= m
      BY <1>0, <1>1, <1>3, <2>1
    <2>2. CASE ~(i <= m)
      <3>1. i - m \in 1..n - m /\ m + (i - m) = i
        BY <1>0, <2>2
      <3> DEFINE j == i - m
      <3> HIDE DEF j
      <3>2. y[j] = b[i]
        BY <1>2, <3>1 DEF j
      <3> QED
        BY <1>1, <1>3, <2>2, <3>2 DEF j
    <2> QED
      BY <2>1, <2>2
  <1>5. x \o y = z
    BY <1>1, <1>3, <1>4, SeqEqual
  <1> QED
    BY <1>5 DEF x, y, z

\* Where a buffer has a CR LF, and where an LF.
CRLFs(b) == {k \in 1..Len(b) - 1 : b[k] = "CR" /\ b[k + 1] = "LF"}
LFs(b) == {k \in 1..Len(b) : b[k] = "LF"}

LEMMA LimitsOf ==
    ASSUME NEW b, NEW f \in Nat
    PROVE  /\ f \in CRLFs(b) /\ (\A k \in CRLFs(b) : f <= k) /\ CRLFs(b) \subseteq Nat
                => LineLimits(b) = [chars |-> f - 1, taken |-> f + 1]
           /\ f \in LFs(b) /\ (\A k \in LFs(b) : f <= k) /\ CRLFs(b) = {} /\ LFs(b) \subseteq Nat
                => LineLimits(b) = [chars |-> f - 1, taken |-> f]
           /\ CRLFs(b) = {} /\ LFs(b) = {} => LineLimits(b) = [chars |-> Len(b), taken |-> Len(b)]
  <1> DEFINE first(S) == CHOOSE k \in S : \A j \in S : k <= j
  <1>1. LineLimits(b) = IF CRLFs(b) # {} THEN [chars |-> first(CRLFs(b)) - 1, taken |-> first(CRLFs(b)) + 1]
                        ELSE IF LFs(b) # {} THEN [chars |-> first(LFs(b)) - 1, taken |-> first(LFs(b))]
                        ELSE [chars |-> Len(b), taken |-> Len(b)]
    BY DEF LineLimits, CRLFs, LFs
  <1>2. ASSUME NEW S, S \subseteq Nat, f \in S, \A k \in S : f <= k
        PROVE  S # {} /\ first(S) = f
    <2>1. first(S) \in S /\ first(S) <= f
      BY <1>2, LeastIsIn
    <2> DEFINE x == first(S)
    <2>2. x \in S /\ x <= f
      BY <2>1
    <2> HIDE DEF x
    <2>3. x \in Nat /\ f <= x
      BY <1>2, <2>2
    <2>4. x = f
      BY <2>2, <2>3
    <2> QED
      BY <1>2, <2>4 DEF x
  <1> HIDE DEF first
  <1> QED
    BY <1>1, <1>2

\* The line of a buffer and its end, and that the same line is found again
\* in what the buffer has of it.
LEMMA LineFacts ==
    ASSUME NEW b \in Seq(Bytes)
    PROVE  LET l == LineLimits(b)
           IN /\ l.taken \in 0..Len(b) /\ l.chars \in 0..l.taken
              /\ \A i \in l.chars + 1..l.taken : b[i] \in LineEnds
              /\ LineLimits(SubSeq(b, 1, l.taken)) = l
  <1>0. Len(b) \in Nat /\ CRLFs(b) \subseteq Nat /\ LFs(b) \subseteq Nat
    BY DEF CRLFs, LFs
  <1>1. \A n \in 0..Len(b) : /\ Len(SubSeq(b, 1, n)) = n
                             /\ \A i \in 1..n : SubSeq(b, 1, n)[i] = b[i]
    OBVIOUS
  <1>2. \A S : S \subseteq Nat /\ S # {} => \E f \in S : \A k \in S : f <= k
    <2> SUFFICES ASSUME NEW S, S \subseteq Nat, S # {} PROVE \E f \in S : \A k \in S : f <= k
      OBVIOUS
    <2> QED
      BY LeastIsIn
  <1>3. CASE CRLFs(b) # {}
    <2>1. PICK f \in CRLFs(b) : \A k \in CRLFs(b) : f <= k
      BY <1>0, <1>2, <1>3
    <2>2. f \in Nat /\ f >= 1 /\ f + 1 \in 0..Len(b) /\ b[f] = "CR" /\ b[f + 1] = "LF"
      BY <1>0, <2>1 DEF CRLFs
    <2>3. LineLimits(b) = [chars |-> f - 1, taken |-> f + 1]
      BY <1>0, <2>1, <2>2, LimitsOf
    <2> DEFINE part == SubSeq(b, 1, f + 1)
    <2>4. Len(part) = f + 1 /\ \A i \in 1..f + 1 : part[i] = b[i]
      BY <1>1, <2>2
    <2>5. LineLimits(SubSeq(b, 1, LineLimits(b).taken)) = LineLimits(part)
      BY <2>3
    <2> HIDE DEF part
    <2>6. f \in CRLFs(part) /\ CRLFs(part) \subseteq Nat
      BY <2>2, <2>4 DEF CRLFs
    <2>7. \A k \in CRLFs(part) : f <= k
      <3>1. CRLFs(part) \subseteq CRLFs(b)
        BY <1>0, <2>2, <2>4 DEF CRLFs
      <3> QED
        BY <2>1, <3>1
    <2>8. LineLimits(part) = LineLimits(b)
      BY <2>2, <2>3, <2>6, <2>7, LimitsOf
    <2>9. \A i \in f - 1 + 1..f + 1 : b[i] \in LineEnds
      <3>1. \A i \in f - 1 + 1..f + 1 : i = f \/ i = f + 1
        BY <2>2
      <3> QED
        BY <2>2, <3>1 DEF LineEnds
    <2>10. f + 1 \in 0..Len(b) /\ f - 1 \in 0..f + 1
      BY <2>2
    <2> QED
      BY <2>3, <2>5, <2>8, <2>9, <2>10
  <1>4. CASE CRLFs(b) = {} /\ LFs(b) # {}
    <2>1. PICK f \in LFs(b) : \A k \in LFs(b) : f <= k
      BY <1>0, <1>2, <1>4
    <2>2. f \in Nat /\ f >= 1 /\ f \in 0..Len(b) /\ b[f] = "LF"
      BY <1>0, <2>1 DEF LFs
    <2>3. LineLimits(b) = [chars |-> f - 1, taken |-> f]
      BY <1>0, <1>4, <2>1, <2>2, LimitsOf
    <2> DEFINE part == SubSeq(b, 1, f)
    <2>4. Len(part) = f /\ \A i \in 1..f : part[i] = b[i]
      BY <1>1, <2>2
    <2>5. LineLimits(SubSeq(b, 1, LineLimits(b).taken)) = LineLimits(part)
      BY <2>3
    <2> HIDE DEF part
    <2>6. f \in LFs(part) /\ LFs(part) \subseteq Nat
      BY <2>2, <2>4 DEF LFs
    <2>7. \A k \in LFs(part) : f <= k
      <3>1. LFs(part) \subseteq LFs(b)
        BY <1>0, <2>2, <2>4 DEF LFs
      <3> QED
        BY <2>1, <3>1
    <2>8. CRLFs(part) = {}
      <3>1. CRLFs(part) \subseteq CRLFs(b)
        BY <1>0, <2>2, <2>4 DEF CRLFs
      <3> QED
        BY <1>4, <3>1
    <2>9. LineLimits(part) = LineLimits(b)
      BY <2>2, <2>3, <2>6, <2>7, <2>8, LimitsOf
    <2>10. \A i \in f - 1 + 1..f : b[i] \in LineEnds
      <3>1. \A i \in f - 1 + 1..f : i = f
        BY <2>2
      <3> QED
        BY <2>2, <3>1 DEF LineEnds
    <2>11. f \in 0..Len(b) /\ f - 1 \in 0..f
      BY <2>2
    <2> QED
      BY <2>3, <2>5, <2>9, <2>10, <2>11
  <1>5. CASE CRLFs(b) = {} /\ LFs(b) = {}
    <2>1. LineLimits(b) = [chars |-> Len(b), taken |-> Len(b)]
      <3>1. 0 \in Nat
        OBVIOUS
      <3> QED
        BY <1>5, <3>1, LimitsOf
    <2>2. SubSeq(b, 1, LineLimits(b).taken) = b
      <3>1. SubSeq(b, 1, Len(b)) = b
        BY SubSeqFull
      <3> QED
        BY <2>1, <3>1
    <2>3. /\ LineLimits(b).taken \in 0..Len(b) /\ LineLimits(b).chars \in 0..LineLimits(b).taken
          /\ \A i \in LineLimits(b).chars + 1..LineLimits(b).taken : b[i] \in LineEnds
      BY <1>0, <2>1
    <2> QED
      BY <2>2, <2>3
  <1> QED
    BY <1>3, <1>4, <1>5

\* What the line leaves out of the bytes that it takes is no text.
LEMMA LineIsText ==
    ASSUME NEW b \in Seq(Bytes)
    PROVE  LET l == LineLimits(b)
           IN /\ SubSeq(b, 1, l.chars) \in Seq(Bytes)
              /\ Text(SubSeq(b, 1, l.taken)) = Text(SubSeq(b, 1, l.chars))
  <1> DEFINE m == LineLimits(b).chars
             n == LineLimits(b).taken
             line == SubSeq(b, 1, m)
             rest == SubSeq(b, m + 1, n)
  <1>1. n \in 0..Len(b) /\ m \in 0..n /\ \A i \in m + 1..n : b[i] \in LineEnds
    BY LineFacts
  <1> HIDE DEF m, n
  <1>2. m \in Nat /\ n \in Nat /\ Len(b) \in Nat /\ m <= n /\ n <= Len(b)
    BY <1>1
  <1>3. SubSeq(b, 1, n) = line \o rest
    BY <1>2, Halves
  <1>4. line \in Seq(Bytes)
    BY <1>2
  <1>5. /\ rest \in Seq(Bytes) /\ Len(rest) = n - m
        /\ \A i \in 1..Len(rest) : rest[i] = b[m + i]
    BY <1>2, Rest
  <1>6. \A i \in 1..Len(rest) : rest[i] \in LineEnds
    <2>1. \A i \in 1..Len(rest) : m + i \in m + 1..n
      BY <1>2, <1>5
    <2> QED
      BY <1>1, <1>5, <2>1
  <1> HIDE DEF line, rest
  <1>7. Text(rest) = <<>>
    BY <1>5, <1>6, TextOfEnds
  <1>8. Text(line) \in Seq(Bytes) /\ Text(line) \o <<>> = Text(line)
    BY <1>4, TextIsText, ConcatEmptySeq
  <1>9. Text(SubSeq(b, 1, n)) = Text(line)
    BY <1>3, <1>4, <1>5, <1>7, <1>8, TextConcat
  <1> QED
    BY <1>4, <1>9 DEF m, n, line

-----------------------------------------------------------------------------
(***************************************************************************)
(* The streams: the wait for a text and the wait for readiness.            *)
(***************************************************************************)
\* Pattern ends with the k-th byte of the stream.
Ending(k) == SubSeq(stSent, k - Len(Pattern) + 1, k)
EndsAt(k) == k >= Len(Pattern) /\ Ending(k) = Pattern

\* The window is the end of what was read, a byte shorter than the text, or
\* all of it when less was read; and the text has not been there yet.
WindowOK ==
    /\ stWindow \in Seq(Symbols)
    /\ Len(stWindow) = IF stRead < Len(Pattern) - 1 THEN stRead ELSE Len(Pattern) - 1
    /\ \A i \in 1..Len(stWindow) : stWindow[i] = stSent[stRead - Len(stWindow) + i]
    /\ \A k \in 1..stRead : ~EndsAt(k)

WaitInv ==
    /\ stSent \in Seq(Symbols)
    /\ stArrived \in 0..Len(stSent) /\ stRead \in 0..stArrived
    /\ stPeeked \in Nat /\ stRead + stPeeked <= stArrived
    /\ stFound \in BOOLEAN
    /\ stUse = "wait" =>
         /\ stPeeked = 0
         /\ ~stFound => WindowOK
         /\ stFound => EndsAt(stRead) /\ stRead >= 1 /\ \A k \in 1..stRead - 1 : ~EndsAt(k)

LEMMA PatternFacts == Pattern \in Seq(Symbols) /\ Len(Pattern) \in Nat /\ Len(Pattern) >= 1
  BY StreamAssumption

\* A byte is read: the window with it is the text exactly when the text ends
\* there.
LEMMA NextByte ==
    ASSUME WaitInv, stUse = "wait", ~stFound, Arrived # <<>>
    PROVE  LET window == Append(stWindow, Head(Arrived))
           IN /\ stRead + 1 \in 1..stArrived
              /\ window \in Seq(Symbols) /\ Len(window) = Len(stWindow) + 1
              /\ \A i \in 1..Len(window) : window[i] = stSent[stRead + 1 - Len(window) + i]
              /\ window = Pattern <=> EndsAt(stRead + 1)
  <1> DEFINE window == Append(stWindow, Head(Arrived))
  <1>0. /\ stSent \in Seq(Symbols) /\ stArrived \in Nat /\ stRead \in Nat /\ stRead <= stArrived
        /\ stArrived <= Len(stSent) /\ Len(stSent) \in Nat
        /\ \A i \in 1..Len(stSent) : stSent[i] \in Symbols
        /\ WindowOK
    BY DEF WaitInv
  <1>1. stRead < stArrived
    <2> SUFFICES ASSUME stArrived < stRead + 1 PROVE FALSE
      BY <1>0
    <2>1. Arrived = <<>>
      BY <1>0, SubSeqEmpty DEF Arrived
    <2> QED
      BY <2>1
  <1>2. Head(Arrived) = stSent[stRead + 1] /\ stRead + 1 \in 1..Len(stSent)
    <2>1. stRead + 1 \in 1..Len(stSent) /\ stArrived \in (stRead + 1)..Len(stSent)
      BY <1>0, <1>1
    <2> QED
      BY <1>0, <2>1, HeadTailOfSubSeq DEF Arrived
  <1>3. /\ stWindow \in Seq(Symbols) /\ Len(stWindow) \in Nat
        /\ Len(stWindow) = IF stRead < Len(Pattern) - 1 THEN stRead ELSE Len(Pattern) - 1
        /\ \A i \in 1..Len(stWindow) : stWindow[i] = stSent[stRead - Len(stWindow) + i]
    <2>1. /\ stWindow \in Seq(Symbols)
          /\ Len(stWindow) = IF stRead < Len(Pattern) - 1 THEN stRead ELSE Len(Pattern) - 1
          /\ \A i \in 1..Len(stWindow) : stWindow[i] = stSent[stRead - Len(stWindow) + i]
      BY <1>0, Zenon DEF WindowOK
    <2>2. Len(stWindow) \in Nat
      BY <2>1
    <2> QED
      BY <2>1, <2>2, Zenon
  <1>4. Head(Arrived) \in Symbols
    <2>1. stSent[stRead + 1] \in Symbols
      BY <1>0, <1>2
    <2> QED
      BY <1>2, <2>1
  <1>5. /\ window \in Seq(Symbols) /\ Len(window) = Len(stWindow) + 1
        /\ \A i \in 1..Len(stWindow) : window[i] = stWindow[i]
        /\ window[Len(stWindow) + 1] = stSent[stRead + 1]
    BY <1>2, <1>3, <1>4, AppendProperties
  <1> HIDE DEF window
  <1>6. ASSUME NEW i \in 1..Len(window)
        PROVE  window[i] = stSent[stRead + 1 - Len(window) + i]
    <2>1. CASE i \in 1..Len(stWindow)
      <3>1. stRead + 1 - Len(window) + i = stRead - Len(stWindow) + i
        BY <1>0, <1>3, <1>5, <2>1
      <3> QED
        BY <1>3, <1>5, <2>1, <3>1
    <2>2. CASE i = Len(stWindow) + 1
      <3>1. stRead + 1 - Len(window) + i = stRead + 1
        BY <1>0, <1>3, <1>5, <2>2
      <3> QED
        BY <1>5, <2>2, <3>1
    <2> QED
      BY <1>3, <1>5, <2>1, <2>2
  <1>7. window = Pattern <=> EndsAt(stRead + 1)
    <2>1. CASE stRead < Len(Pattern) - 1
      <3>1. Len(window) # Len(Pattern) /\ ~(stRead + 1 >= Len(Pattern))
        BY <1>0, <1>3, <1>5, <2>1, PatternFacts
      <3> QED
        BY <3>1 DEF EndsAt, Ending
    <2>2. CASE ~(stRead < Len(Pattern) - 1)
      <3> DEFINE there == Ending(stRead + 1)
      <3>1. Len(window) = Len(Pattern) /\ stRead + 1 >= Len(Pattern)
        BY <1>0, <1>3, <1>5, <2>2, PatternFacts
      <3>2. /\ there \in Seq(Symbols) /\ Len(there) = Len(Pattern)
            /\ \A i \in 1..Len(Pattern) : there[i] = stSent[stRead + 1 - Len(Pattern) + i]
        <4> DEFINE m == stRead + 1 - Len(Pattern) + 1
                   n == stRead + 1
        <4>1. m \in Int /\ n \in Int /\ n - m + 1 = Len(Pattern) /\ m <= n /\ m >= 1
          BY <1>0, <3>1, PatternFacts
        <4>2. \A i \in m..n : stSent[i] \in Symbols
          BY <1>0, <1>2, <4>1
        <4>3. \A i \in 1..Len(Pattern) : m + i - 1 = stRead + 1 - Len(Pattern) + i
          BY <1>0, PatternFacts
        <4> HIDE DEF m, n
        <4>4. /\ SubSeq(stSent, m, n) \in Seq(Symbols) /\ Len(SubSeq(stSent, m, n)) = Len(Pattern)
              /\ \A i \in 1..Len(Pattern) : SubSeq(stSent, m, n)[i] = stSent[m + i - 1]
          BY <4>1, <4>2, SubSeqProperties
        <4>5. there = SubSeq(stSent, m, n)
          <5>1. \A k \in Nat : Ending(k) = SubSeq(stSent, k - Len(Pattern) + 1, k)
            BY DEF Ending
          <5> QED
            BY <1>0, <5>1, PatternFacts DEF m, n
        <4> QED
          BY <4>3, <4>4, <4>5
      <3>3. window = there
        <4>1. \A i \in 1..Len(window) : window[i] = there[i]
          BY <1>6, <3>1, <3>2
        <4> QED
          BY <1>5, <3>1, <3>2, <4>1, SeqEqual
      <3> QED
        BY <3>1, <3>3 DEF EndsAt
    <2> QED
      BY <2>1, <2>2
  <1>8. stRead + 1 \in 1..stArrived
    BY <1>0, <1>1
  <1> QED
    BY <1>5, <1>6, <1>7, <1>8 DEF window

LEMMA ReadsOn ==
    ASSUME WaitInv, waitForBuffer
    PROVE  WaitInv'
  <1> DEFINE window == Append(stWindow, Head(Arrived))
  <1>1. /\ stUse = "wait" /\ ~stFound /\ Arrived # <<>>
        /\ stFound' = (window = Pattern)
        /\ stWindow' = IF window # Pattern /\ Len(window) >= Len(Pattern) THEN Tail(window) ELSE window
        /\ stRead' = stRead + 1
        /\ UNCHANGED <<stUse, stSent, stArrived, stPeeked>>
    BY DEF waitForBuffer, wireVars, lineVars
  <1>2. /\ stRead + 1 \in 1..stArrived
        /\ window \in Seq(Symbols) /\ Len(window) = Len(stWindow) + 1
        /\ \A i \in 1..Len(window) : window[i] = stSent[stRead + 1 - Len(window) + i]
        /\ window = Pattern <=> EndsAt(stRead + 1)
    BY <1>1, NextByte
  <1> HIDE DEF window
  <1>3. /\ stArrived \in Nat /\ stRead \in Nat /\ stArrived \in 0..Len(stSent) /\ stSent \in Seq(Symbols)
        /\ stPeeked = 0 /\ \A k \in 1..stRead : ~EndsAt(k)
        /\ Len(stWindow) = IF stRead < Len(Pattern) - 1 THEN stRead ELSE Len(Pattern) - 1
        /\ stWindow \in Seq(Symbols)
    BY <1>1 DEF WaitInv, WindowOK
  <1>4. \A k : EndsAt(k)' <=> EndsAt(k)
    BY <1>1 DEF EndsAt, Ending
  <1>5. /\ stSent' \in Seq(Symbols) /\ stArrived' \in 0..Len(stSent') /\ stRead' \in 0..stArrived'
        /\ stFound' \in BOOLEAN /\ stPeeked' = 0
    BY <1>1, <1>2, <1>3
  <1>6. ASSUME stFound'
        PROVE  EndsAt(stRead)' /\ stRead' >= 1 /\ \A k \in 1..stRead' - 1 : ~EndsAt(k)'
    <2>1. EndsAt(stRead)' <=> EndsAt(stRead + 1)
      BY <1>1 DEF EndsAt, Ending
    <2>2. stRead' - 1 = stRead /\ stRead' >= 1
      BY <1>1, <1>3
    <2> QED
      BY <1>1, <1>2, <1>3, <1>4, <1>6, <2>1, <2>2
  <1>7. ASSUME ~stFound'
        PROVE  WindowOK'
    <2>1. window # Pattern /\ ~EndsAt(stRead + 1)
      BY <1>1, <1>2, <1>7
    <2>2. \A k \in 1..stRead' : ~EndsAt(k)'
      <3>1. \A k \in 1..stRead' : k = stRead + 1 \/ k \in 1..stRead
        BY <1>1, <1>3
      <3> QED
        BY <1>3, <1>4, <2>1, <3>1
    <2>3. CASE Len(window) >= Len(Pattern)
      <3>1. stWindow' = Tail(window)
        BY <1>1, <2>1, <2>3
      <3>2. window # <<>>
        BY <1>2, <1>3
      <3>3. /\ Tail(window) \in Seq(Symbols) /\ Len(Tail(window)) = Len(window) - 1
            /\ \A i \in 1..Len(Tail(window)) : Tail(window)[i] = window[i + 1]
        BY <1>2, <3>2, HeadTailProperties
      <3>4. Len(window) = Len(Pattern) /\ ~(stRead' < Len(Pattern) - 1) /\ Len(stWindow') = Len(Pattern) - 1
        BY <1>1, <1>2, <1>3, <2>3, <3>1, <3>3, PatternFacts
      <3>5. ASSUME NEW i \in 1..Len(stWindow')
            PROVE  stWindow'[i] = stSent'[stRead' - Len(stWindow') + i]
        <4>1. i + 1 \in 1..Len(window) /\ stWindow'[i] = window[i + 1]
          BY <1>2, <1>3, <3>1, <3>3, <3>5
        <4>2. stRead + 1 - Len(window) + (i + 1) = stRead' - Len(stWindow') + i
          <5>1. /\ Len(stWindow') = Len(window) - 1 /\ stRead' = stRead + 1
                /\ Len(window) \in Nat /\ i \in Nat
            BY <1>1, <1>2, <1>3, <3>1, <3>3
          <5> QED
            BY <1>3, <5>1
        <4> QED
          BY <1>1, <1>2, <4>1, <4>2
      <3> QED
        BY <2>2, <3>1, <3>3, <3>4, <3>5 DEF WindowOK
    <2>4. CASE ~(Len(window) >= Len(Pattern))
      <3>1. stWindow' = window
        BY <1>1, <2>4
      <3>2. Len(stWindow') = IF stRead' < Len(Pattern) - 1 THEN stRead' ELSE Len(Pattern) - 1
        BY <1>1, <1>2, <1>3, <2>4, <3>1, PatternFacts
      <3>3. \A i \in 1..Len(stWindow') : stWindow'[i] = stSent'[stRead' - Len(stWindow') + i]
        <4>1. stSent' = stSent /\ stRead' = stRead + 1
          BY <1>1
        <4>2. ASSUME NEW i \in 1..Len(window)
              PROVE  window[i] = stSent'[stRead' - Len(window) + i]
          <5>1. window[i] = stSent[stRead + 1 - Len(window) + i]
            BY <1>2
          <5>2. stRead + 1 - Len(window) + i = stRead' - Len(window) + i
            <6>1. Len(window) \in Nat /\ i \in Nat
              BY <1>2
            <6> QED
              BY <1>3, <4>1, <6>1
          <5> QED
            BY <4>1, <5>1, <5>2, Zenon
        <4> QED
          BY <3>1, <4>2, Zenon
      <3>4. stWindow' \in Seq(Symbols)
        BY <1>2, <3>1
      <3> QED
        BY <2>2, <3>2, <3>3, <3>4 DEF WindowOK
    <2> QED
      BY <1>2, <2>3, <2>4
  <1>8. stPeeked' \in Nat /\ stRead' + stPeeked' <= stArrived'
    <2>1. stRead + 1 + 0 <= stArrived /\ 0 \in Nat
      BY <1>2, <1>3
    <2> QED
      BY <1>1, <1>5, <2>1, Zenon
  <1> QED
    BY <1>5, <1>6, <1>7, <1>8 DEF WaitInv

LEMMA PeekKeeps ==
    ASSUME WaitInv, PeekLine
    PROVE  WaitInv'
  <1> DEFINE limit == IF stArrived < stRead + BufferSize THEN stArrived ELSE stRead + BufferSize
             peek == SubSeq(stSent, stRead + 1, limit)
  <1>0. /\ stSent \in Seq(Symbols) /\ Len(stSent) \in Nat /\ stArrived \in Nat /\ stRead \in Nat
        /\ stRead <= stArrived /\ stArrived <= Len(stSent) /\ BufferSize \in Nat
        /\ \A i \in 1..Len(stSent) : stSent[i] \in Symbols
    BY StreamAssumption DEF WaitInv
  <1>1. limit \in Nat /\ stRead <= limit /\ limit <= stArrived
    BY <1>0
  <1>2. stPeeked' = LineLimits(peek).taken
    BY DEF PeekLine
  <1>3. /\ stUse # "wait"
        /\ UNCHANGED <<stUse, stSent, stArrived, stRead, stFound>>
    BY DEF PeekLine, wireVars, windowVars
  <1> HIDE DEF limit
  <1>4. peek \in Seq(Symbols) /\ Len(peek) = limit - stRead
    <2>1. \A i \in (stRead + 1)..limit : stSent[i] \in Symbols
      BY <1>0, <1>1
    <2>2. Len(peek) = IF stRead + 1 <= limit THEN limit - (stRead + 1) + 1 ELSE 0
      BY <1>0, <1>1, <2>1, SubSeqProperties
    <2>3. peek \in Seq(Symbols)
      BY <1>0, <1>1, <2>1, SubSeqProperties
    <2> QED
      BY <1>0, <1>1, <2>2, <2>3
  <1>5. LineLimits(peek).taken \in 0..(limit - stRead)
    <2>1. peek \in Seq(Bytes)
      BY <1>4, SymbolsAreBytes
    <2> QED
      BY <1>4, <2>1, LineFacts
  <1> HIDE DEF peek
  <1>6. stPeeked' \in Nat /\ stRead + stPeeked' <= stArrived
    BY <1>0, <1>1, <1>2, <1>5
  <1> QED
    BY <1>3, <1>6 DEF WaitInv

LEMMA WaitStep == WaitInv /\ [StreamNext]_streamVars => WaitInv'
  <1> SUFFICES ASSUME WaitInv, [StreamNext]_streamVars PROVE WaitInv'
    OBVIOUS
  <1>0. UNCHANGED <<stUse, stSent, stRead, stPeeked, stWindow, stFound>> /\ stArrived' \in stArrived..Len(stSent)
          => WaitInv'
    <2> SUFFICES ASSUME UNCHANGED <<stUse, stSent, stRead, stPeeked, stWindow, stFound>>,
                        stArrived' \in stArrived..Len(stSent)
                 PROVE  WaitInv'
      OBVIOUS
    <2>1. (\A k : EndsAt(k)' <=> EndsAt(k)) /\ EndsAt(stRead)' = EndsAt(stRead)
      BY DEF EndsAt, Ending
    <2>2. WindowOK' <=> WindowOK
      BY <2>1 DEF WindowOK
    <2>3. /\ stSent' = stSent /\ stFound' = stFound
          /\ stArrived' \in 0..Len(stSent') /\ stRead' \in 0..stArrived'
          /\ stPeeked' \in Nat /\ stRead' + stPeeked' <= stArrived'
      <3>1. /\ Len(stSent) \in Nat /\ stArrived \in Nat /\ stRead \in Nat /\ stPeeked \in Nat
            /\ stRead <= stArrived /\ stArrived <= Len(stSent) /\ stRead + stPeeked <= stArrived
        BY DEF WaitInv
      <3>2. stArrived' \in Nat /\ stArrived <= stArrived' /\ stArrived' <= Len(stSent)
        BY <3>1
      <3>3. stRead <= stArrived' /\ stRead + stPeeked <= stArrived'
        BY <3>1, <3>2
      <3>4. stRead' = stRead /\ stPeeked' = stPeeked /\ stSent' = stSent /\ stFound' = stFound
        OBVIOUS
      <3> QED
        BY <3>1, <3>2, <3>3, <3>4
    <2>4. \A k \in 1..stRead - 1 : EndsAt(k)' <=> EndsAt(k)
      BY <2>1
    <2>5. stSent' \in Seq(Symbols) /\ stFound' \in BOOLEAN
      BY <2>3 DEF WaitInv
    <2>6. ASSUME stUse = "wait"
          PROVE  /\ stPeeked' = 0
                 /\ ~stFound' => WindowOK'
                 /\ stFound' => EndsAt(stRead)' /\ stRead' >= 1 /\ \A k \in 1..stRead' - 1 : ~EndsAt(k)'
      BY <2>1, <2>2, <2>3, <2>4, <2>6 DEF WaitInv
    <2> QED
      BY <2>3, <2>5, <2>6 DEF WaitInv
  <1>1. CASE BytesArrive
    BY <1>0, <1>1 DEF BytesArrive, lineVars, windowVars, WaitInv
  <1>2. CASE PeekLine
    BY <1>2, PeekKeeps
  <1>3. CASE TakeLine
    <2>1. /\ stPeeked > 0 /\ stRead' = stRead + stPeeked /\ stPeeked' = 0
          /\ UNCHANGED <<stUse, stSent, stArrived, stFound>>
      BY <1>3 DEF TakeLine, wireVars, windowVars
    <2>2. stRead' \in 0..stArrived' /\ stPeeked' \in Nat /\ stRead' + stPeeked' <= stArrived' /\ stUse # "wait"
      BY <2>1 DEF WaitInv
    <2> QED
      BY <2>1, <2>2 DEF WaitInv
  <1>4. CASE waitForBuffer
    BY <1>4, ReadsOn
  <1>5. CASE write
    BY <1>0, <1>5 DEF write, wireVars, lineVars, windowVars, WaitInv
  <1>6. CASE WaitNext
    BY <1>0, <1>6 DEF WaitNext, wireVars, lineVars, windowVars, WaitInv
  <1>7. CASE UNCHANGED streamVars
    BY <1>0, <1>7 DEF streamVars, WaitInv
  <1> QED
    BY <1>1, <1>2, <1>3, <1>4, <1>5, <1>6, <1>7 DEF StreamNext

LEMMA WaitStart == StreamInit => WaitInv
  <1> SUFFICES ASSUME StreamInit PROVE WaitInv
    OBVIOUS
  <1>1. stSent \in Seq(Symbols)
    <2>1. CASE stUse \in DOMAIN Streams
      BY <2>1, StreamAssumption DEF StreamInit
    <2>2. CASE stUse \notin DOMAIN Streams
      <3>1. stSent = <<>>
        BY <2>2 DEF StreamInit
      <3> QED
        BY <3>1 DEF Symbols
    <2> QED
      BY <2>1, <2>2
  <1>2. stRead = 0 /\ stWindow = <<>> /\ stFound = FALSE /\ stArrived = 0 /\ stPeeked = 0
    BY DEF StreamInit
  <1>3. WindowOK
    <2>1. stWindow \in Seq(Symbols) /\ Len(stWindow) = 0
      BY <1>2
    <2>2. 0 = IF stRead < Len(Pattern) - 1 THEN stRead ELSE Len(Pattern) - 1
      <3> DEFINE n == Len(Pattern)
      <3>1. n \in Nat /\ n >= 1
        BY PatternFacts
      <3> HIDE DEF n
      <3>2. 0 = IF stRead < n - 1 THEN stRead ELSE n - 1
        BY <1>2, <3>1
      <3> QED
        BY <3>2 DEF n
    <2>3. 1..0 = {}
      OBVIOUS
    <2> QED
      BY <1>2, <2>1, <2>2, <2>3 DEF WindowOK
  <1>4. stArrived \in 0..Len(stSent) /\ stRead \in 0..stArrived /\ stPeeked \in Nat /\ stRead + stPeeked <= stArrived
    BY <1>1, <1>2
  <1> QED
    BY <1>1, <1>2, <1>3, <1>4 DEF WaitInv

(***************************************************************************)
(* waitForBuffer stops at the first occurrence of the text and nowhere     *)
(* else, however the bytes arrive.                                         *)
(***************************************************************************)
THEOREM TextFoundFirst == StreamSpec => []FindsFirstOccurrence
  <1>1. WaitInv => FindsFirstOccurrence
    <2> SUFFICES ASSUME WaitInv, stUse = "wait"
                 PROVE  /\ stFound => EndsAt(stRead)
                        /\ \A k \in 1..stRead - 1 : ~EndsAt(k)
                        /\ stRead > 0 /\ EndsAt(stRead) => stFound
      BY DEF FindsFirstOccurrence, EndsAt, Ending
    <2>1. stRead \in Nat
      BY DEF WaitInv
    <2>2. CASE stFound
      BY <2>2 DEF WaitInv
    <2>3. CASE ~stFound
      <3>1. \A k \in 1..stRead : ~EndsAt(k)
        BY <2>3 DEF WaitInv, WindowOK
      <3> QED
        BY <2>1, <2>3, <3>1
    <2> QED
      BY <2>2, <2>3 DEF WaitInv
  <1> QED
    BY <1>1, WaitStart, WaitStep, PTL DEF StreamSpec

Waits == [what : {"none", "reading", "writing", "exception"}, elapsed : Nat, called : Nat, left : Nat]

\* The wait that is left when poll is called again ends when the first one
\* was to end.
TimesOK ==
    /\ stWait \in Waits
    /\ stWait.called <= stWait.elapsed
    /\ stWait.elapsed <= stWait.called + stWait.left
    /\ stWait.called + stWait.left <= WaitTime

LEMMA NoWaitOK == stWait' = NoWait => TimesOK'
  BY StreamAssumption DEF NoWait, Waits, TimesOK

LEMMA InterruptedOK ==
    ASSUME TimesOK, WaitInterrupted
    PROVE  TimesOK'
  <1>1. CASE stWait.elapsed >= stWait.left
    BY <1>1, NoWaitOK DEF WaitInterrupted
  <1>2. CASE ~(stWait.elapsed >= stWait.left)
    <2>1. /\ stWait.elapsed \in Nat /\ stWait.called \in Nat /\ stWait.left \in Nat /\ WaitTime \in Nat
          /\ stWait.called <= stWait.elapsed /\ stWait.elapsed <= stWait.called + stWait.left
          /\ stWait.called + stWait.left <= WaitTime
      BY StreamAssumption DEF TimesOK, Waits
    <2>2. stWait.left - stWait.elapsed \in Nat
      BY <1>2, <2>1
    <2>3. stWait' = [stWait EXCEPT !.left = stWait.left - stWait.elapsed, !.called = stWait.elapsed]
      BY <1>2 DEF WaitInterrupted
    <2>4. stWait' \in Waits
      BY <2>1, <2>2, <2>3 DEF TimesOK, Waits
    <2>5. /\ stWait'.elapsed = stWait.elapsed /\ stWait'.called = stWait.elapsed
          /\ stWait'.left = stWait.left - stWait.elapsed
      BY <2>3 DEF TimesOK, Waits
    <2>6. /\ stWait'.called <= stWait'.elapsed
          /\ stWait'.elapsed <= stWait'.called + stWait'.left
          /\ stWait'.called + stWait'.left <= WaitTime
      BY <1>2, <2>1, <2>2, <2>5
    <2> QED
      BY <2>4, <2>6 DEF TimesOK
  <1> QED
    BY <1>1, <1>2

(***************************************************************************)
(* Interruptions do not make a wait longer than it was asked for: what is  *)
(* taken from the time left is never less than what has passed.            *)
(***************************************************************************)
THEOREM WaitsAsAsked == StreamSpec => []WaitNeverLonger
  <1>1. StreamInit => TimesOK
    BY StreamAssumption DEF StreamInit, NoWait, Waits, TimesOK
  <1>2. TimesOK /\ [StreamNext]_streamVars => TimesOK'
    <2> SUFFICES ASSUME TimesOK, [StreamNext]_streamVars PROVE TimesOK'
      OBVIOUS
    <2>0. UNCHANGED stWait => TimesOK'
      BY DEF TimesOK
    <2>1. CASE BytesArrive \/ PeekLine \/ TakeLine \/ waitForBuffer \/ write \/ UNCHANGED streamVars
      BY <2>0, <2>1 DEF BytesArrive, PeekLine, TakeLine, waitForBuffer, write, waitVars, streamVars
    <2>2. CASE WaitNext
      <3>1. ASSUME NEW what \in {"reading", "writing", "exception"}, BeginWait(what)
            PROVE  TimesOK'
        <4>1. stWait' = [what |-> what, elapsed |-> 0, called |-> 0, left |-> WaitTime]
          BY <3>1 DEF BeginWait, NoWait
        <4> QED
          BY <4>1, StreamAssumption DEF Waits, TimesOK
      <3>2. CASE WaitInterrupted
        BY <3>2, InterruptedOK
      <3>3. CASE WaitTicks
        BY <3>3 DEF WaitTicks, Waits, TimesOK
      <3>4. CASE WaitReturns
        BY <3>4, NoWaitOK DEF WaitReturns
      <3> QED
        BY <2>2, <3>1, <3>2, <3>3, <3>4 DEF WaitNext, isReadyForReading, isReadyForWriting, isThereException
    <2> QED
      BY <2>1, <2>2 DEF StreamNext
  <1>3. TimesOK => WaitNeverLonger
    BY StreamAssumption DEF TimesOK, Waits, WaitNeverLonger
  <1> QED
    BY <1>1, <1>2, <1>3, PTL DEF StreamSpec

-----------------------------------------------------------------------------
(***************************************************************************)
(* The streams: the lines and the telnet decoder.                          *)
(***************************************************************************)
\* The end of what was peeked at, and the bytes that were not taken yet.
NextPart == SubSeq(stSent, stRead + 1, stRead + stPeeked)

\* What is taken next is a line and its end, the lines have the text up to
\* there, and the decoder is where it would be if it had been given the whole
\* stream at once, line ends included.
StreamInv ==
    /\ stPeeked <= BufferSize
    /\ stPeeked > 0 => LineLimits(NextPart).taken = stPeeked
    /\ stIAC \in States /\ stWritten \in 0..Len(Reply)
    /\ stUse = "line" =>
         stLine \in Seq(Bytes) /\ Text(stLine) = Text(SubSeq(stSent, 1, stRead + stPeeked))
    /\ stUse = "telnet" =>
         /\ Session(stSent)
         /\ stIAC = Run(stSent, stRead).state
         /\ stDecoded \in Seq(Bytes) /\ Text(stDecoded) = Text(Run(stSent, stRead).out)

\* The beginning of a part.
LEMMA PartOfPart ==
    ASSUME NEW S, NEW b \in Seq(S), NEW m \in 0..Len(b), NEW n \in m..Len(b), NEW k \in 0..n - m
    PROVE  SubSeq(SubSeq(b, m + 1, n), 1, k) = SubSeq(b, m + 1, m + k)
  <1> DEFINE x == SubSeq(b, m + 1, n)
             q == m + k
             y == SubSeq(b, m + 1, q)
             z == SubSeq(x, 1, k)
  <1>0. /\ m \in Nat /\ n \in Nat /\ m <= n /\ n <= Len(b) /\ Len(b) \in Nat /\ k \in Nat
        /\ q \in m..Len(b) /\ q - m = k /\ k <= n - m
    OBVIOUS
  <1>1. x \in Seq(S) /\ Len(x) = n - m /\ \A i \in 1..n - m : x[i] = b[m + i]
    BY Rest
  <1> HIDE DEF q
  <1>2. y \in Seq(S) /\ Len(y) = q - m /\ \A i \in 1..q - m : y[i] = b[m + i]
    BY <1>0, Rest
  <1> HIDE DEF x, y
  <1>3. z \in Seq(S) /\ Len(z) = k /\ \A i \in 1..k : z[i] = x[i]
    BY <1>0, <1>1
  <1> HIDE DEF z
  <1>4. Len(y) = k /\ \A i \in 1..k : x[i] = b[m + i] /\ y[i] = b[m + i]
    <2>1. 1..q - m = 1..k /\ \A i \in 1..k : i \in 1..n - m
      BY <1>0
    <2> QED
      BY <1>0, <1>1, <1>2, <2>1
  <1>5. z = y
    <2>1. \A i \in 1..k : z[i] = y[i]
      BY <1>3, <1>4
    <2> QED
      BY <1>2, <1>3, <1>4, <2>1, SeqEqual
  <1> QED
    BY <1>5 DEF x, y, z, q

LEMMA PeekKeepsText ==
    ASSUME WaitInv, StreamInv, PeekLine
    PROVE  StreamInv'
  <1> DEFINE limit == IF stArrived < stRead + BufferSize THEN stArrived ELSE stRead + BufferSize
             peek == SubSeq(stSent, stRead + 1, limit)
             l == LineLimits(peek)
             line == SubSeq(peek, 1, l.chars)
  <1>0. /\ stSent \in Seq(Bytes) /\ Len(stSent) \in Nat /\ stArrived \in Nat /\ stRead \in Nat
        /\ stRead <= stArrived /\ stArrived <= Len(stSent) /\ BufferSize \in Nat
    BY StreamAssumption, SymbolsAreBytes DEF WaitInv
  <1>1. stRead \in 0..Len(stSent) /\ limit \in stRead..Len(stSent) /\ limit - stRead <= BufferSize
    BY <1>0
  <1>2. stPeeked' = l.taken /\ stLine' = stLine \o line /\ stPeeked = 0
    BY DEF PeekLine
  <1>3. UNCHANGED <<stUse, stSent, stRead, stIAC, stDecoded, stWritten>>
    BY DEF PeekLine, wireVars, telnetVars, waitVars
  <1> HIDE DEF limit
  <1>4. peek \in Seq(Bytes) /\ Len(peek) = limit - stRead
    BY <1>0, <1>1, Rest
  <1>5. \A k \in 0..limit - stRead : SubSeq(peek, 1, k) = SubSeq(stSent, stRead + 1, stRead + k)
    BY <1>0, <1>1, PartOfPart
  <1> HIDE DEF peek
  <1>6. /\ l.taken \in 0..Len(peek) /\ LineLimits(SubSeq(peek, 1, l.taken)) = l
    BY <1>4, LineFacts
  <1>7. line \in Seq(Bytes) /\ Text(SubSeq(peek, 1, l.taken)) = Text(line)
    BY <1>4, LineIsText
  <1> DEFINE n == l.taken
             part == SubSeq(stSent, stRead + 1, stRead + n)
  <1>8. n \in 0..limit - stRead /\ SubSeq(peek, 1, n) = part /\ LineLimits(part).taken = n /\ Text(part) = Text(line)
    BY <1>4, <1>5, <1>6, <1>7
  <1>9. stPeeked' = n
    BY <1>2
  <1> HIDE DEF n, line
  <1>10. stPeeked' <= BufferSize
    BY <1>0, <1>1, <1>8, <1>9
  <1>11. NextPart' = part
    BY <1>3, <1>9 DEF NextPart
  <1>12. ASSUME stUse = "line"
         PROVE  stLine' \in Seq(Bytes) /\ Text(stLine') = Text(SubSeq(stSent, 1, stRead + n))
    <2> DEFINE q == stRead + n
               before == SubSeq(stSent, 1, stRead)
    <2>1. q \in stRead..Len(stSent)
      BY <1>0, <1>1, <1>8
    <2> HIDE DEF q
    <2>2. SubSeq(stSent, 1, q) = before \o SubSeq(stSent, stRead + 1, q)
      BY <1>0, <1>1, <2>1, Halves
    <2>3. /\ before \in Seq(Bytes) /\ SubSeq(stSent, stRead + 1, q) \in Seq(Bytes)
      BY <1>0, <1>1, <2>1, Rest
    <2>4. SubSeq(stSent, stRead + 1, q) = part
      BY DEF q
    <2>5. stRead + stPeeked = stRead
      BY <1>0, <1>2
    <2>6. stLine \in Seq(Bytes) /\ Text(stLine) = Text(before)
      BY <1>12, <2>5 DEF StreamInv
    <2> HIDE DEF part, before
    <2>7. Text(before \o part) = Text(before) \o Text(part)
      BY <2>3, <2>4, TextConcat
    <2>8. Text(stLine \o line) = Text(stLine) \o Text(line) /\ stLine \o line \in Seq(Bytes)
      BY <1>7, <2>6, TextConcat, ConcatProperties
    <2>9. Text(stLine \o line) = Text(SubSeq(stSent, 1, q))
      BY <1>8, <2>2, <2>4, <2>6, <2>7, <2>8, Zenon
    <2> QED
      BY <1>2, <2>8, <2>9 DEF q
  <1>13. stUse' = "line" =>
           stLine' \in Seq(Bytes) /\ Text(stLine') = Text(SubSeq(stSent', 1, stRead' + stPeeked'))
    BY <1>3, <1>9, <1>12
  <1>14. stIAC' \in States /\ stWritten' \in 0..Len(Reply)
    BY <1>3 DEF StreamInv
  <1>15. stUse' = "telnet" =>
           /\ Session(stSent')
           /\ stIAC' = Run(stSent', stRead').state
           /\ stDecoded' \in Seq(Bytes) /\ Text(stDecoded') = Text(Run(stSent', stRead').out)
    BY <1>3 DEF StreamInv
  <1> HIDE DEF part
  <1>16. LineLimits(NextPart').taken = stPeeked'
    BY <1>8, <1>9, <1>11
  <1> QED
    BY <1>10, <1>13, <1>14, <1>15, <1>16 DEF StreamInv

\* The characters of the next line are decoded.
LEMMA LineIsDecoded ==
    ASSUME WaitInv, StreamInv, stPeeked > 0, stUse = "telnet"
    PROVE  LET d == DecodeFrom(Decoded(stIAC), SubSeq(NextPart, 1, LineLimits(NextPart).chars))
           IN /\ d.state = Run(stSent, stRead + stPeeked).state /\ d.state \in States
              /\ stDecoded \o d.out \in Seq(Bytes)
              /\ Text(stDecoded \o d.out) = Text(Run(stSent, stRead + stPeeked).out)
  <1> DEFINE m == LineLimits(NextPart).chars
             b == stRead + stPeeked
             a == stRead + m
             line == SubSeq(NextPart, 1, m)
             r == Run(stSent, stRead)
             d == DecodeFrom(Decoded(stIAC), line)
             before == SubSeq(stSent, 1, stRead)
  <1>0. /\ stSent \in Seq(Bytes) /\ Len(stSent) \in Nat /\ stRead \in Nat /\ stPeeked \in Nat
        /\ b \in Nat /\ b <= Len(stSent) /\ b - stRead = stPeeked
    BY SymbolsAreBytes DEF WaitInv
  <1>1. stRead \in 0..Len(stSent) /\ b \in stRead..Len(stSent)
    BY <1>0
  <1>2. /\ NextPart \in Seq(Bytes) /\ Len(NextPart) = stPeeked
        /\ \A i \in 1..stPeeked : NextPart[i] = stSent[stRead + i]
    <2>1. NextPart = SubSeq(stSent, stRead + 1, b)
      BY DEF NextPart
    <2> HIDE DEF b
    <2> QED
      BY <1>0, <1>1, <2>1, Rest
  <1>3. m \in 0..stPeeked /\ \A i \in m + 1..stPeeked : NextPart[i] \in LineEnds
    <2>1. LineLimits(NextPart).taken = stPeeked
      BY DEF StreamInv
    <2> QED
      BY <1>2, <2>1, LineFacts
  <1>4. /\ Session(stSent) /\ stIAC = r.state /\ stDecoded \in Seq(Bytes) /\ Text(stDecoded) = Text(r.out)
    BY DEF StreamInv
  <1>5. line = SubSeq(stSent, stRead + 1, a)
    <2>1. NextPart = SubSeq(stSent, stRead + 1, b)
      BY DEF NextPart
    <2> HIDE DEF b, m
    <2>2. m \in 0..b - stRead
      BY <1>0, <1>3
    <2> QED
      BY <1>0, <1>1, <2>1, <2>2, PartOfPart
  <1> HIDE DEF m
  <1>6. a \in stRead..Len(stSent) /\ a \in 0..Len(stSent) /\ b \in a..Len(stSent)
    BY <1>0, <1>1, <1>3
  <1>7. \A i \in a + 1..b : stSent[i] \in LineEnds
    <2> SUFFICES ASSUME NEW i \in a + 1..b PROVE stSent[i] \in LineEnds
      OBVIOUS
    <2> DEFINE j == i - stRead
    <2>1. j \in m + 1..stPeeked /\ stRead + j = i /\ j \in 1..stPeeked
      BY <1>0, <1>3
    <2> HIDE DEF j
    <2> QED
      BY <1>2, <1>3, <2>1
  <1> HIDE DEF a, b
  <1>8. before \in Seq(Bytes) /\ line \in Seq(Bytes) /\ SubSeq(stSent, 1, a) = before \o line
    <2>1. SubSeq(stSent, 1, a) = before \o SubSeq(stSent, stRead + 1, a)
      BY <1>0, <1>1, <1>6, Halves
    <2>2. SubSeq(stSent, stRead + 1, a) \in Seq(Bytes) /\ before \in Seq(Bytes)
      BY <1>0, <1>1, <1>6, Rest
    <2> QED
      BY <1>5, <2>1, <2>2
  <1>9. r = DecodeFrom(Decoded("RESET"), before) /\ r \in Results
    BY <1>0, <1>1, RunFacts DEF Run
  <1> HIDE DEF before, line, r
  <1>10. Run(stSent, a) = DecodeFrom(r, line)
    <2>1. Decoded("RESET") \in Results
      BY DEF Decoded, Results, States
    <2>2. DecodeFrom(Decoded("RESET"), before \o line) = DecodeFrom(DecodeFrom(Decoded("RESET"), before), line)
      BY <1>8, <2>1, DecodeConcat
    <2> QED
      BY <1>8, <1>9, <2>2, Zenon DEF Run
  <1>11. /\ d \in Results
         /\ Run(stSent, a).state = d.state /\ Run(stSent, a).out = r.out \o d.out
    <2> DEFINE e == DecodeFrom(Decoded(r.state), line)
    <2>1. e \in Results /\ DecodeFrom(r, line).state = e.state /\ DecodeFrom(r, line).out = r.out \o e.out
      BY <1>8, <1>9, DecodeOn
    <2>2. e = d
      BY <1>4
    <2> HIDE DEF d, e
    <2> QED
      BY <1>10, <2>1, <2>2, Zenon
  <1>12. Run(stSent, b).state = Run(stSent, a).state /\ Text(Run(stSent, b).out) = Text(Run(stSent, a).out)
    BY <1>0, <1>4, <1>6, <1>7, EndsAreSkipped
  <1> HIDE DEF d
  <1>13. d.state \in States /\ d.out \in Seq(Bytes) /\ r.out \in Seq(Bytes)
    BY <1>9, <1>11 DEF Results
  <1>14. /\ stDecoded \o d.out \in Seq(Bytes)
         /\ Text(stDecoded \o d.out) = Text(stDecoded) \o Text(d.out)
         /\ Text(r.out \o d.out) = Text(r.out) \o Text(d.out)
    BY <1>4, <1>13, TextConcat, ConcatProperties
  <1>15. Text(stDecoded \o d.out) = Text(Run(stSent, b).out) /\ d.state = Run(stSent, b).state
    BY <1>4, <1>11, <1>12, <1>14, Zenon
  <1> QED
    BY <1>13, <1>14, <1>15 DEF d, line, m, b

LEMMA TakeKeepsText ==
    ASSUME WaitInv, StreamInv, TakeLine
    PROVE  StreamInv'
  <1> DEFINE bytes == SubSeq(Arrived, 1, stPeeked)
             line == SubSeq(NextPart, 1, LineLimits(NextPart).chars)
             d == DecodeFrom(Decoded(stIAC), line)
             b == stRead + stPeeked
  <1>0. /\ stSent \in Seq(Bytes) /\ Len(stSent) \in Nat /\ stArrived \in Nat /\ stRead \in Nat /\ stPeeked \in Nat
        /\ stRead + stPeeked <= stArrived /\ stArrived <= Len(stSent) /\ BufferSize \in Nat
    BY StreamAssumption, SymbolsAreBytes DEF WaitInv
  <1>1. bytes = NextPart
    <2>1. /\ stRead \in 0..Len(stSent) /\ stArrived \in stRead..Len(stSent)
          /\ stPeeked \in 0..stArrived - stRead
      BY <1>0
    <2> QED
      BY <1>0, <2>1, PartOfPart DEF Arrived, NextPart
  <1>2. /\ stPeeked > 0 /\ stRead' = b /\ stPeeked' = 0
        /\ UNCHANGED <<stUse, stSent, stLine, stWritten>>
    BY DEF TakeLine, wireVars, waitVars
  <1>3. stUse = "telnet" => stIAC' = d.state /\ stDecoded' = stDecoded \o d.out
    <2> SUFFICES ASSUME stUse = "telnet" PROVE stIAC' = d.state /\ stDecoded' = stDecoded \o d.out
      OBVIOUS
    <2> DEFINE e == telnetDecoder(stIAC, SubSeq(bytes, 1, LineLimits(bytes).chars))
    <2>1. stIAC' = e.state /\ stDecoded' = stDecoded \o e.out
      BY DEF TakeLine
    <2> HIDE DEF bytes
    <2>2. e = d
      BY <1>1 DEF telnetDecoder
    <2> HIDE DEF e, d
    <2> QED
      BY <2>1, <2>2
  <1>4. stUse # "telnet" => stIAC' = stIAC
    BY DEF TakeLine, telnetVars
  <1>5. stUse = "telnet" =>
          /\ d.state = Run(stSent, b).state /\ d.state \in States
          /\ stDecoded \o d.out \in Seq(Bytes)
          /\ Text(stDecoded \o d.out) = Text(Run(stSent, b).out)
    BY <1>2, LineIsDecoded
  <1> HIDE DEF d, b
  <1>6. stUse' = "telnet" =>
          /\ Session(stSent')
          /\ stIAC' = Run(stSent', stRead').state
          /\ stDecoded' \in Seq(Bytes) /\ Text(stDecoded') = Text(Run(stSent', stRead').out)
    <2> SUFFICES ASSUME stUse = "telnet"
                 PROVE  /\ Session(stSent)
                        /\ stIAC' = Run(stSent, b).state
                        /\ stDecoded' \in Seq(Bytes) /\ Text(stDecoded') = Text(Run(stSent, b).out)
      BY <1>2
    <2>1. Session(stSent)
      BY DEF StreamInv
    <2> QED
      BY <1>3, <1>5, <2>1, Zenon
  <1>7. stUse' = "line" =>
          stLine' \in Seq(Bytes) /\ Text(stLine') = Text(SubSeq(stSent', 1, stRead' + stPeeked'))
    <2> SUFFICES ASSUME stUse = "line"
                 PROVE  stLine' \in Seq(Bytes) /\ Text(stLine') = Text(SubSeq(stSent', 1, stRead' + stPeeked'))
      BY <1>2
    <2>1. stLine \in Seq(Bytes) /\ Text(stLine) = Text(SubSeq(stSent, 1, b))
      BY DEF StreamInv, b
    <2>2. stRead' + stPeeked' = b
      BY <1>0, <1>2 DEF b
    <2> QED
      BY <1>2, <2>1, <2>2, Zenon
  <1>8. stIAC' \in States /\ stWritten' \in 0..Len(Reply)
    <2>1. CASE stUse = "telnet"
      BY <1>2, <1>3, <1>5, <2>1 DEF StreamInv
    <2>2. CASE stUse # "telnet"
      BY <1>2, <1>4, <2>2 DEF StreamInv
    <2> QED
      BY <2>1, <2>2
  <1>9. stPeeked' <= BufferSize /\ ~(stPeeked' > 0)
    BY <1>0, <1>2
  <1> QED
    BY <1>6, <1>7, <1>8, <1>9 DEF StreamInv

LEMMA TextStep == WaitInv /\ StreamInv /\ [StreamNext]_streamVars => StreamInv'
  <1> SUFFICES ASSUME WaitInv, StreamInv, [StreamNext]_streamVars PROVE StreamInv'
    OBVIOUS
  <1>0. UNCHANGED <<stUse, stSent, stRead, stPeeked, stLine, stIAC, stDecoded>> /\ stWritten' \in 0..Len(Reply)
          => StreamInv'
    BY DEF StreamInv, NextPart
  <1>1. CASE BytesArrive
    BY <1>0, <1>1 DEF BytesArrive, lineVars, telnetVars, waitVars, StreamInv
  <1>2. CASE PeekLine
    BY <1>2, PeekKeepsText
  <1>3. CASE TakeLine
    BY <1>3, TakeKeepsText
  <1>4. CASE waitForBuffer
    <2>1. UNCHANGED <<stUse, stSent, stPeeked, stLine, stIAC, stDecoded, stWritten>> /\ stUse = "wait"
      BY <1>4 DEF waitForBuffer, wireVars, lineVars, telnetVars, waitVars
    <2>2. stPeeked = 0 /\ BufferSize \in Nat
      BY <2>1, StreamAssumption DEF WaitInv
    <2> QED
      BY <2>1, <2>2 DEF StreamInv
  <1>5. CASE write
    <2>1. stWritten' \in 0..Len(Reply)
      <3>1. stWritten \in Nat /\ \E n \in stWritten + 1..Len(Reply) : stWritten' = n
        BY <1>5 DEF write, StreamInv
      <3> QED
        BY <3>1
    <2> QED
      BY <1>0, <1>5, <2>1 DEF write, wireVars, lineVars, telnetVars
  <1>6. CASE WaitNext
    BY <1>0, <1>6 DEF WaitNext, wireVars, lineVars, telnetVars, StreamInv
  <1>7. CASE UNCHANGED streamVars
    BY <1>0, <1>7 DEF streamVars, StreamInv
  <1> QED
    BY <1>1, <1>2, <1>3, <1>4, <1>5, <1>6, <1>7 DEF StreamNext

LEMMA TextStart == StreamInit => StreamInv
  <1> SUFFICES ASSUME StreamInit PROVE StreamInv
    OBVIOUS
  <1>1. /\ stRead = 0 /\ stPeeked = 0 /\ stLine = <<>> /\ stIAC = "RESET" /\ stDecoded = <<>> /\ stWritten = 0
        /\ stSent \in Seq(Bytes)
    BY WaitStart, SymbolsAreBytes DEF StreamInit, WaitInv
  <1>2. BufferSize \in Nat /\ Len(Reply) \in Nat
    BY StreamAssumption
  <1>3. stLine \in Seq(Bytes) /\ Text(stLine) = Text(SubSeq(stSent, 1, stRead + stPeeked))
    <2>1. stRead + stPeeked = 0
      BY <1>1
    <2>2. SubSeq(stSent, 1, stRead + stPeeked) = <<>>
      BY <2>1, SubSeqEmpty
    <2>3. <<>> \in Seq(Bytes)
      OBVIOUS
    <2> QED
      BY <1>1, <2>2, <2>3, Zenon
  <1>4. ASSUME stUse = "telnet"
        PROVE  /\ Session(stSent)
               /\ stIAC = Run(stSent, stRead).state
               /\ stDecoded \in Seq(Bytes) /\ Text(stDecoded) = Text(Run(stSent, stRead).out)
    <2>1. Session(stSent)
      <3>1. CASE stUse \in DOMAIN Streams
        BY <1>4, <3>1, TelnetAssumption DEF StreamInit
      <3>2. CASE stUse \notin DOMAIN Streams
        <4>1. stSent = <<>>
          BY <3>2 DEF StreamInit
        <4> QED
          BY <4>1 DEF Session
      <3> QED
        BY <3>1, <3>2
    <2>2. Run(stSent, 0) = Decoded("RESET")
      BY <1>1, RunFacts
    <2>3. Run(stSent, stRead).state = "RESET" /\ Run(stSent, stRead).out = <<>>
      BY <1>1, <2>2 DEF Decoded
    <2>4. stDecoded \in Seq(Bytes)
      BY <1>1
    <2> QED
      BY <1>1, <2>1, <2>3, <2>4
  <1> QED
    BY <1>1, <1>2, <1>3, <1>4 DEF StreamInv, States

(***************************************************************************)
(* The text of a stream is kept by whatever SocketImpl reads it with: the  *)
(* lines of readLine and the output of telnetDecoder have it, however the  *)
(* network cuts the stream, waitForBuffer finds the text it waits for, and *)
(* no wait for readiness lasts longer than it was asked for.               *)
(***************************************************************************)
THEOREM TextIsKept == StreamSpec => []TextKept
  <1>1. WaitInv /\ StreamInv => StreamTypeOK
    <2> SUFFICES ASSUME WaitInv, StreamInv PROVE StreamTypeOK
      OBVIOUS
    <2>1. stPeeked \in 0..BufferSize
      BY StreamAssumption DEF WaitInv, StreamInv
    <2> QED
      BY <2>1 DEF WaitInv, StreamInv, StreamTypeOK, States
  <1>2. WaitInv /\ StreamInv => LinesKeepText
    <2> SUFFICES ASSUME WaitInv, StreamInv, stUse = "line", stPeeked = 0
                 PROVE  Text(stLine) = Text(SubSeq(stSent, 1, stRead))
      BY DEF LinesKeepText
    <2>1. stRead + stPeeked = stRead
      BY DEF WaitInv
    <2> QED
      BY <2>1 DEF StreamInv
  <1>3. WaitInv /\ StreamInv => TelnetTextIsPlain
    <2> SUFFICES ASSUME WaitInv, StreamInv, stUse = "telnet", stIAC = "RESET"
                 PROVE  Text(stDecoded) = Text(Plain(stSent)[stRead].text)
      BY DEF TelnetTextIsPlain
    <2>1. stSent \in Seq(Bytes) /\ stRead \in 0..Len(stSent)
      BY SymbolsAreBytes DEF WaitInv
    <2>2. /\ Session(stSent) /\ Run(stSent, stRead).state = "RESET"
          /\ Text(stDecoded) = Text(Run(stSent, stRead).out)
      BY DEF StreamInv
    <2>3. Run(stSent, stRead).out = Plain(stSent)[stRead].text
      BY <2>1, <2>2, OutsideIsPlain
    <2> QED
      BY <2>2, <2>3, Zenon
  <1>4. StreamSpec => [](WaitInv /\ StreamInv)
    BY WaitStart, TextStart, WaitStep, TextStep, PTL DEF StreamSpec
  <1>5. StreamSpec => [](StreamTypeOK /\ LinesKeepText /\ TelnetTextIsPlain)
    BY <1>1, <1>2, <1>3, <1>4, PTL
  <1> QED
    BY <1>5, TextFoundFirst, WaitsAsAsked, PTL DEF TextKept
=============================================================================
