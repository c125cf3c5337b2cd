------------------------- MODULE EventsMultiMapProofs -------------------------
(***************************************************************************)
(* What insert and erase do to the multimap of a destination, for every    *)
(* number of events.                                                       *)
(***************************************************************************)
EXTENDS EventsMultiMap, WellFoundedInduction, TLAPS

\* No event is in the multimap twice.
Distinct(s) == \A i, j \in 1..Len(s) : s[i] = s[j] => i = j

\* begin() has the lowest key, and so on to the end.
Sorted(s, key) == \A i, j \in 1..Len(s) : i < j => key[s[i]] <= key[s[j]]

(***************************************************************************)
(* A non-empty set of naturals has a least element.                        *)
(***************************************************************************)
LEMMA LeastNat ==
    ASSUME NEW T, T \subseteq Nat, T # {}
    PROVE  \E x \in T : \A y \in T : x <= y
  <1>1. PICK x \in T : \A y \in T : ~ (<<y, x>> \in OpToRel(<, Nat))
    BY NatLessThanWellFounded, WFMin
  <1>2. \A y \in T : ~ (y < x)
    BY <1>1 DEF OpToRel
  <1> QED
    BY <1>2

(***************************************************************************)
(* insert finds a position for every key: behind the events whose key is   *)
(* not higher and before the first whose key is.                           *)
(***************************************************************************)
LEMMA UpperBoundFacts ==
    ASSUME NEW S, NEW s \in Seq(S), NEW key \in [S -> Int], NEW x \in Int
    PROVE  /\ UpperBound(s, key, x) \in 1..Len(s) + 1
           /\ \A j \in 1..UpperBound(s, key, x) - 1 : key[s[j]] <= x
           /\ UpperBound(s, key, x) <= Len(s) =>
                    key[s[UpperBound(s, key, x)]] > x
  <1> DEFINE Fits(i) == /\ \A j \in 1..i - 1 : key[s[j]] <= x
                        /\ i <= Len(s) => key[s[i]] > x
             Higher == {i \in 1..Len(s) : key[s[i]] > x}
  <1>1. Len(s) \in Nat /\ \A i \in 1..Len(s) : key[s[i]] \in Int
    OBVIOUS
  <1>2. \E i \in 1..Len(s) + 1 : Fits(i)
    <2>1. CASE Higher = {}
      <3>1. \A j \in 1..Len(s) : key[s[j]] <= x
        BY <1>1, <2>1
      <3> QED
        BY <1>1, <3>1
    <2>2. CASE Higher # {}
      <3> Higher \subseteq Nat
        BY <1>1
      <3> HIDE DEF Higher
      <3>1. PICK i \in Higher : \A j \in Higher : i <= j
        BY <2>2, LeastNat
      <3> USE DEF Higher
      <3>2. \A j \in 1..i - 1 : key[s[j]] <= x
        BY <1>1, <3>1
      <3> QED
        BY <1>1, <3>1, <3>2
    <2> QED
      BY <2>1, <2>2
  <1>3. UpperBound(s, key, x) = CHOOSE i \in 1..Len(s) + 1 : Fits(i)
    BY DEF UpperBound
  <1> HIDE DEF Fits
  <1>4. /\ UpperBound(s, key, x) \in 1..Len(s) + 1
        /\ Fits(UpperBound(s, key, x))
    BY <1>2, <1>3
  <1> QED
    BY <1>4 DEF Fits

(***************************************************************************)
(* insert adds the event it is given and moves the others.                 *)
(***************************************************************************)
LEMMA InsertFacts ==
    ASSUME NEW S, NEW s \in Seq(S), NEW i \in 1..Len(s) + 1, NEW e \in S,
           NEW r, r = InsertAtPosition(s, i, e)
    PROVE  /\ r \in Seq(S)
           /\ Len(r) = Len(s) + 1
           /\ \A j \in 1..Len(r) : r[j] = IF j < i THEN s[j]
                                          ELSE IF j = i THEN e ELSE s[j - 1]
           /\ IsIn(e, r)
           /\ \A f : IsIn(f, s) => IsIn(f, r)
           /\ \A f : IsIn(f, r) => f = e \/ IsIn(f, s)
           /\ Distinct(s) /\ ~IsIn(e, s) => Distinct(r)
  <1>1. Len(s) \in Nat /\ \A j \in 1..Len(s) : s[j] \in S
    OBVIOUS
  <1>2. r \in [1..Len(s) + 1 -> S]
    BY <1>1 DEF InsertAtPosition
  <1>3. /\ r \in Seq(S)
        /\ Len(r) = Len(s) + 1
    BY <1>1, <1>2
  <1>4. \A j \in 1..Len(r) : r[j] = IF j < i THEN s[j]
                                    ELSE IF j = i THEN e ELSE s[j - 1]
    BY <1>3 DEF InsertAtPosition
  <1>5. IsIn(e, r)
    BY <1>1, <1>3, <1>4 DEF IsIn
  <1>6. ASSUME NEW f, IsIn(f, s)
        PROVE  IsIn(f, r)
    <2>1. PICK j \in 1..Len(s) : s[j] = f
      BY <1>6 DEF IsIn
    <2>2. CASE j < i
      BY <1>1, <1>3, <1>4, <2>1, <2>2 DEF IsIn
    <2>3. CASE j >= i
      <3>1. j + 1 \in 1..Len(r) /\ r[j + 1] = f
        BY <1>1, <1>3, <1>4, <2>1, <2>3
      <3> QED
        BY <3>1 DEF IsIn
    <2> QED
      BY <2>2, <2>3
  <1>7. ASSUME NEW f, IsIn(f, r), f # e
        PROVE  IsIn(f, s)
    <2>1. PICK j \in 1..Len(r) : r[j] = f
      BY <1>7 DEF IsIn
    <2>2. j # i
      BY <1>4, <1>7, <2>1
    <2>3. CASE j < i
      BY <1>1, <1>3, <1>4, <2>1, <2>3 DEF IsIn
    <2>4. CASE j > i
      <3>1. j - 1 \in 1..Len(s) /\ s[j - 1] = f
        BY <1>1, <1>3, <1>4, <2>1, <2>4
      <3> QED
        BY <3>1 DEF IsIn
    <2> QED
      BY <2>2, <2>3, <2>4
  <1>8. ASSUME Distinct(s), ~IsIn(e, s)
        PROVE  Distinct(r)
    <2>1. \A j \in 1..Len(s) : s[j] # e
      BY <1>8 DEF IsIn
    <2>2. \A j, k \in 1..Len(s) : s[j] = s[k] => j = k
      BY <1>8 DEF Distinct
    <2>3. SUFFICES ASSUME NEW j \in 1..Len(r), NEW k \in 1..Len(r), r[j] = r[k]
                   PROVE  j = k
      BY DEF Distinct
    <2> DEFINE Source(n) == IF n < i THEN n ELSE n - 1
    <2>4. \A n \in 1..Len(r) : n # i =>
                Source(n) \in 1..Len(s) /\ r[n] = s[Source(n)]
      BY <1>1, <1>3, <1>4
    <2>5. r[i] = e
      BY <1>1, <1>3, <1>4
    <2>6. CASE j = i \/ k = i
      BY <2>1, <2>3, <2>4, <2>5, <2>6
    <2>7. CASE j # i /\ k # i
      <3>1. Source(j) = Source(k)
        <4>1. /\ Source(j) \in 1..Len(s) /\ r[j] = s[Source(j)]
              /\ Source(k) \in 1..Len(s) /\ r[k] = s[Source(k)]
          BY <2>4, <2>7
        <4>2. s[Source(j)] = s[Source(k)]
          BY <2>3, <4>1
        <4> HIDE DEF Source
        <4> QED
          BY <2>2, <4>1, <4>2
      <3> QED
        BY <1>1, <1>3, <2>7, <3>1
    <2> QED
      BY <2>6, <2>7
  <1> QED
    BY <1>3, <1>4, <1>5, <1>6, <1>7, <1>8

(***************************************************************************)
(* insert keeps the multimap sorted when the position is the upper bound   *)
(* of the key of the new event.                                            *)
(***************************************************************************)
LEMMA InsertSorted ==
    ASSUME NEW S, NEW s \in Seq(S), NEW key \in [S -> Int], NEW e \in S,
           Sorted(s, key),
           NEW i \in 1..Len(s) + 1,
           \A j \in 1..i - 1 : key[s[j]] <= key[e],
           i <= Len(s) => key[s[i]] > key[e]
    PROVE  Sorted(InsertAtPosition(s, i, e), key)
  <1> DEFINE r == InsertAtPosition(s, i, e)
  <1>1. Len(s) \in Nat /\ \A j \in 1..Len(s) : s[j] \in S /\ key[s[j]] \in Int
    OBVIOUS
  <1>2. key[e] \in Int
    OBVIOUS
  <1>3. /\ i \in 1..Len(s) + 1
        /\ \A j \in 1..i - 1 : key[s[j]] <= key[e]
        /\ i <= Len(s) => key[s[i]] > key[e]
    OBVIOUS
  <1>4. /\ Len(r) = Len(s) + 1
        /\ \A j \in 1..Len(r) : r[j] = IF j < i THEN s[j]
                                       ELSE IF j = i THEN e ELSE s[j - 1]
    BY <1>3, InsertFacts
  <1> HIDE DEF r
  <1>5. \A j, k \in 1..Len(s) : j < k => key[s[j]] <= key[s[k]]
    BY DEF Sorted
  <1>6. \A j \in 1..Len(s) : j >= i => key[s[j]] > key[e]
    BY <1>1, <1>2, <1>3, <1>5
  <1> DEFINE Source(n) == IF n < i THEN n ELSE n - 1
  <1>7. /\ r[i] = e
        /\ \A n \in 1..Len(r) : n # i =>
                /\ Source(n) \in 1..Len(s)
                /\ r[n] = s[Source(n)]
                /\ Source(n) < i <=> n < i
    <2>1. r[i] = e
      BY <1>1, <1>3, <1>4
    <2>2. ASSUME NEW n \in 1..Len(r), n < i
          PROVE  Source(n) = n /\ n \in 1..Len(s) /\ r[n] = s[n]
      BY <1>1, <1>3, <1>4, <2>2
    <2>3. ASSUME NEW n \in 1..Len(r), n > i
          PROVE  /\ Source(n) = n - 1 /\ n - 1 \in 1..Len(s) /\ r[n] = s[n - 1]
                 /\ ~(n - 1 < i) /\ ~(n < i)
      BY <1>1, <1>3, <1>4, <2>3
    <2> HIDE DEF Source
    <2>4. ASSUME NEW n \in 1..Len(r), n # i
          PROVE  n < i \/ n > i
      BY <1>1, <1>3, <1>4, <2>4
    <2> QED
      BY <2>1, <2>2, <2>3, <2>4
  <1>8. ASSUME NEW j \in 1..Len(r), NEW k \in 1..Len(r), j < k
        PROVE  key[r[j]] <= key[r[k]]
    <2>1. CASE k = i
      <3>1. j \in 1..i - 1 /\ r[j] = s[j]
        BY <1>1, <1>3, <1>4, <1>8, <2>1
      <3> QED
        BY <1>3, <1>7, <2>1, <3>1
    <2>2. CASE j = i
      <3>1. Source(k) >= i /\ Source(k) \in 1..Len(s) /\ r[k] = s[Source(k)]
        BY <1>1, <1>3, <1>4, <1>7, <1>8, <2>2
      <3>2. key[s[Source(k)]] > key[e] /\ key[s[Source(k)]] \in Int
        BY <1>1, <1>6, <3>1
      <3> QED
        BY <1>2, <1>7, <2>2, <3>1, <3>2
    <2>3. CASE j # i /\ k # i
      <3>1. Source(j) <= Source(k)
        BY <1>1, <1>3, <1>4, <1>8, <2>3
      <3>2. /\ Source(j) \in 1..Len(s) /\ Source(k) \in 1..Len(s)
            /\ r[j] = s[Source(j)] /\ r[k] = s[Source(k)]
        BY <1>7, <2>3
      <3> HIDE DEF Source
      <3>3. key[s[Source(j)]] <= key[s[Source(k)]]
        <4>1. CASE Source(j) < Source(k)
          BY <1>5, <3>2, <4>1
        <4>2. CASE Source(j) = Source(k)
          BY <1>1, <3>2, <4>2
        <4> QED
          BY <3>1, <3>2, <4>1, <4>2
      <3> QED
        BY <3>2, <3>3
    <2> QED
      BY <2>1, <2>2, <2>3
  <1> QED
    BY <1>8 DEF Sorted, r

(***************************************************************************)
(* insert puts an event that is not in the multimap yet at the upper bound *)
(* of its new key: the multimap stays sorted and has that event besides    *)
(* the ones it had, each once.                                             *)
(***************************************************************************)
LEMMA InsertNew ==
    ASSUME NEW S, NEW s \in Seq(S), NEW key \in [S -> Int], NEW e \in S,
           NEW x \in Int, Sorted(s, key), Distinct(s), ~IsIn(e, s)
    PROVE  /\ InsertAtPosition(s, UpperBound(s, key, x), e) \in Seq(S)
           /\ Sorted(InsertAtPosition(s, UpperBound(s, key, x), e),
                     [key EXCEPT ![e] = x])
           /\ Distinct(InsertAtPosition(s, UpperBound(s, key, x), e))
           /\ \A f : IsIn(f, InsertAtPosition(s, UpperBound(s, key, x), e)) <=>
                        f = e \/ IsIn(f, s)
  <1> DEFINE i == UpperBound(s, key, x)
             r == InsertAtPosition(s, i, e)
             new == [key EXCEPT ![e] = x]
  <1>1. /\ new \in [S -> Int]
        /\ new[e] = x
        /\ \A f \in S : f # e => new[f] = key[f]
    OBVIOUS
  <1>2. /\ i \in 1..Len(s) + 1
        /\ \A j \in 1..i - 1 : key[s[j]] <= x
        /\ i <= Len(s) => key[s[i]] > x
    BY UpperBoundFacts
  <1> HIDE DEF i, new
  <1>3. Len(s) \in Nat /\ \A j \in 1..Len(s) : s[j] \in S /\ s[j] # e
    BY DEF IsIn
  <1>4. \A j \in 1..Len(s) : new[s[j]] = key[s[j]]
    BY <1>1, <1>3
  <1>5. Sorted(s, new)
    BY <1>4 DEF Sorted
  <1>6. /\ \A j \in 1..i - 1 : new[s[j]] <= new[e]
        /\ i <= Len(s) => new[s[i]] > new[e]
    <2>1. ASSUME NEW j \in 1..i - 1
          PROVE  new[s[j]] <= new[e]
      BY <1>1, <1>2, <1>3, <1>4
    <2> QED
      BY <1>1, <1>2, <1>3, <1>4, <2>1
  <1>7. Sorted(r, new)
    BY <1>1, <1>2, <1>5, <1>6, InsertSorted
  <1>8. /\ r \in Seq(S)
        /\ Distinct(r)
        /\ \A f : IsIn(f, r) <=> f = e \/ IsIn(f, s)
    BY <1>2, InsertFacts
  <1> QED
    BY <1>7, <1>8 DEF new, i

(***************************************************************************)
(* insert and erase give a multimap of the same events, whatever its order.*)
(***************************************************************************)
LEMMA MultiMapTypes ==
    ASSUME NEW S, NEW s \in Seq(S)
    PROVE  /\ \A key \in [S -> Int], x \in Int, e \in S :
                    InsertAtPosition(s, UpperBound(s, key, x), e) \in Seq(S)
           /\ \A i \in 1..Len(s) : EraseAtPosition(s, i) \in Seq(S)
  <1>1. Len(s) \in Nat /\ \A j \in 1..Len(s) : s[j] \in S
    OBVIOUS
  <1>2. ASSUME NEW key \in [S -> Int], NEW x \in Int, NEW e \in S
        PROVE  InsertAtPosition(s, UpperBound(s, key, x), e) \in Seq(S)
    <2>1. UpperBound(s, key, x) \in 1..Len(s) + 1
      BY UpperBoundFacts
    <2> QED
      BY <2>1, InsertFacts
  <1>3. ASSUME NEW i \in 1..Len(s)
        PROVE  EraseAtPosition(s, i) \in Seq(S)
    <2>1. EraseAtPosition(s, i) \in [1..Len(s) - 1 -> S]
      BY <1>1 DEF EraseAtPosition
    <2> QED
      BY <1>1, <2>1
  <1> QED
    BY <1>2, <1>3

(***************************************************************************)
(* erase takes out one event and keeps the others, in their order.         *)
(***************************************************************************)
LEMMA EraseFacts ==
    ASSUME NEW S, NEW s \in Seq(S), NEW i \in 1..Len(s), NEW r,
           r = EraseAtPosition(s, i), Distinct(s)
    PROVE  /\ r \in Seq(S)
           /\ Len(r) = Len(s) - 1
           /\ Distinct(r)
           /\ ~IsIn(s[i], r)
           /\ \A f : IsIn(f, s) /\ f # s[i] => IsIn(f, r)
           /\ \A f : IsIn(f, r) => IsIn(f, s)
           /\ \A key \in [S -> Int] : Sorted(s, key) => Sorted(r, key)
  <1>1. Len(s) \in Nat /\ \A j \in 1..Len(s) : s[j] \in S
    OBVIOUS
  <1>2. r \in [1..Len(s) - 1 -> S]
    BY <1>1 DEF EraseAtPosition
  <1>3. /\ r \in Seq(S)
        /\ Len(r) = Len(s) - 1
    BY <1>1, <1>2
  <1>4. \A j \in 1..Len(r) : r[j] = IF j < i THEN s[j] ELSE s[j + 1]
    BY <1>3 DEF EraseAtPosition
  <1>5. \A j, k \in 1..Len(s) : s[j] = s[k] => j = k
    BY DEF Distinct
  <1>6. ASSUME NEW j \in 1..Len(r)
        PROVE  r[j] # s[i] /\ \E k \in 1..Len(s) : s[k] = r[j]
    <2>1. CASE j < i
      BY <1>1, <1>3, <1>4, <1>5, <2>1
    <2>2. CASE j >= i
      <3>1. j + 1 \in 1..Len(s) /\ j + 1 # i /\ r[j] = s[j + 1]
        BY <1>1, <1>3, <1>4, <2>2
      <3> QED
        BY <1>5, <3>1
    <2> QED
      BY <1>1, <2>1, <2>2
  <1>7. Distinct(r)
    BY <1>1, <1>3, <1>4, <1>5 DEF Distinct
  <1>8. ASSUME NEW f, IsIn(f, s), f # s[i]
        PROVE  IsIn(f, r)
    <2>1. PICK j \in 1..Len(s) : s[j] = f
      BY <1>8 DEF IsIn
    <2>2. CASE j < i
      BY <1>1, <1>3, <1>4, <2>1, <2>2 DEF IsIn
    <2>3. CASE j > i
      <3>1. j - 1 \in 1..Len(r) /\ r[j - 1] = f
        BY <1>1, <1>3, <1>4, <2>1, <2>3
      <3> QED
        BY <3>1 DEF IsIn
    <2> QED
      BY <1>8, <2>1, <2>2, <2>3
  <1>9. ASSUME NEW key \in [S -> Int], Sorted(s, key)
        PROVE  Sorted(r, key)
    <2>1. \A j, k \in 1..Len(s) : j < k => key[s[j]] <= key[s[k]]
      BY <1>9 DEF Sorted
    <2>2. SUFFICES ASSUME NEW j \in 1..Len(r), NEW k \in 1..Len(r), j < k
                   PROVE  key[r[j]] <= key[r[k]]
      BY DEF Sorted
    <2> DEFINE Source(n) == IF n < i THEN n ELSE n + 1
    <2>3. ASSUME NEW n \in 1..Len(r)
          PROVE  Source(n) \in 1..Len(s) /\ r[n] = s[Source(n)]
      <3>1. CASE n < i
        <4>1. Source(n) = n /\ n \in 1..Len(s)
          BY <1>1, <1>3, <3>1
        <4>2. r[n] = s[n]
          BY <1>4, <3>1
        <4> QED
          BY <4>1, <4>2
      <3>2. CASE ~(n < i)
        <4>1. Source(n) = n + 1 /\ n + 1 \in 1..Len(s)
          BY <1>1, <1>3, <3>2
        <4>2. r[n] = s[n + 1]
          BY <1>4, <3>2
        <4> QED
          BY <4>1, <4>2
      <3> QED
        BY <3>1, <3>2
    <2>4. Source(j) < Source(k)
      BY <1>1, <1>3, <2>2
    <2> QED
      BY <2>1, <2>3, <2>4
  <1> QED
    BY <1>3, <1>6, <1>7, <1>8, <1>9 DEF IsIn
=============================================================================
