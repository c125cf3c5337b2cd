------------------------------ MODULE WebProofs ------------------------------
(***************************************************************************)
(* What the parts around HTTP keep, whatever the number of URLs, keys,     *)
(* clients, groups, modules and threads: the cache its request records,    *)
(* its downloads and its two tables of keys, the balancer its modules and  *)
(* the turns they take, a download its buffers, its file and its marker,   *)
(* the server its threads, a post its socket, a message its end and a      *)
(* value of a URL its characters.                                          *)
(***************************************************************************)
EXTENDS HTTPCacheManager, WebResources, FiniteSetTheorems, SequenceTheorems, WellFoundedInduction, TLAPS

\* No element is in the list twice.
Once(s) == \A i, j \in 1..Len(s) : s[i] = s[j] => i = j

\* A record of a request is free or waits.
RecordsOK ==
    /\ cmFree \in Seq(CmRequests) /\ Once(cmFree)
    /\ cmWaiting \in Seq(CmRequests) /\ Once(cmWaiting)
    /\ \A i \in 1..Len(cmFree), j \in 1..Len(cmWaiting) : cmFree[i] # cmWaiting[j]
    /\ RequestsConserved

SlotTypes ==
    /\ cmUri \in [CmRequests -> CmUris \cup {NoUri}]
    /\ cmSlot \in [1..CmSlots -> [uri : CmUris \cup {NoUri}, running : BOOLEAN]]

\* The multimap holds every key of the hash map once, the oldest first.
KeysOK ==
    /\ cmNow \in Nat
    /\ cmByTime \in Seq(DOMAIN cmMap) /\ Once(cmByTime)
    /\ \A k \in DOMAIN cmMap : \E i \in 1..Len(cmByTime) : cmByTime[i] = k
    /\ cmMap \in [DOMAIN cmMap -> [uri : CmUris \cup {NoUri}, success : BOOLEAN, at : Nat]]
    /\ \A k \in DOMAIN cmMap : /\ cmMap[k].at <= cmNow
                               /\ cmMap[k].success => cmMap[k].uri \in CmUris
    /\ \A i, j \in 1..Len(cmByTime) : i < j => cmMap[cmByTime[i]].at <= cmMap[cmByTime[j]].at

ClientsOK ==
    /\ cmClient \in [CmClients -> [at : {"none", "lock", "accepted"},
                                   uri : CmUris \cup {NoUri}, key : CmKeys \cup {NoKey}]]
    /\ \A c \in CmClients : cmClient[c].at = "lock" => cmClient[c].uri \in CmUris

IInv == RecordsOK /\ SlotTypes /\ OneDownloadPerUri /\ KeysOK /\ ClientsOK

-----------------------------------------------------------------------------
(***************************************************************************)
(* Lists.                                                                  *)
(***************************************************************************)
LEMMA ToSetFacts ==
    ASSUME NEW S, NEW s \in Seq(S)
    PROVE  List!ToSet(s) = {s[i] : i \in 1..Len(s)}
  BY DEF List!ToSet

LEMMA AppendFacts ==
    ASSUME NEW S, NEW s \in Seq(S), NEW x \in S
    PROVE  /\ Append(s, x) \in Seq(S)
           /\ Len(Append(s, x)) = Len(s) + 1
           /\ \A i \in 1..Len(s) : Append(s, x)[i] = s[i]
           /\ Append(s, x)[Len(s) + 1] = x
           /\ Len(s) \in Nat
  OBVIOUS

LEMMA SubSeqFacts ==
    ASSUME NEW S, NEW s \in Seq(S), NEW n \in 0..Len(s)
    PROVE  /\ SubSeq(s, n + 1, Len(s)) \in Seq(S)
           /\ Len(SubSeq(s, n + 1, Len(s))) = Len(s) - n
           /\ \A i \in 1..Len(s) - n : SubSeq(s, n + 1, Len(s))[i] = s[n + i]
           /\ SubSeq(s, 1, n) \in Seq(S)
           /\ Len(SubSeq(s, 1, n)) = n
           /\ \A i \in 1..n : SubSeq(s, 1, n)[i] = s[i]
           /\ Len(s) \in Nat
  <1>1. Len(s) \in Nat /\ n \in 0..Len(s) /\ \A i \in 1..Len(s) : s[i] \in S
    OBVIOUS
  <1>2. /\ SubSeq(s, n + 1, Len(s)) \in Seq(S)
        /\ Len(SubSeq(s, n + 1, Len(s))) = Len(s) - n
        /\ \A i \in 1..Len(s) - n : SubSeq(s, n + 1, Len(s))[i] = s[n + i]
    BY <1>1
  <1>3. /\ SubSeq(s, 1, n) \in Seq(S)
        /\ Len(SubSeq(s, 1, n)) = n
        /\ \A i \in 1..n : SubSeq(s, 1, n)[i] = s[i]
    BY <1>1
  <1> QED
    BY <1>1, <1>2, <1>3

LEMMA ConcatFacts ==
    ASSUME NEW S, NEW s \in Seq(S), NEW t \in Seq(S)
    PROVE  /\ s \o t \in Seq(S)
           /\ Len(s \o t) = Len(s) + Len(t)
           /\ \A i \in 1..Len(s) + Len(t) :
                (s \o t)[i] = IF i <= Len(s) THEN s[i] ELSE t[i - Len(s)]
           /\ Len(s) \in Nat /\ Len(t) \in Nat
  <1>1. Len(s) \in Nat /\ Len(t) \in Nat
    OBVIOUS
  <1>2. /\ s \o t \in Seq(S)
        /\ Len(s \o t) = Len(s) + Len(t)
        /\ \A i \in 1..Len(s) + Len(t) :
                (s \o t)[i] = IF i <= Len(s) THEN s[i] ELSE t[i - Len(s)]
    BY ConcatProperties, Zenon
  <1> QED
    BY <1>1, <1>2

\* A list without repetitions is as long as the set of its elements.
LEMMA OnceCounts ==
    ASSUME NEW S, NEW s \in Seq(S), Once(s), \A x \in S : \E i \in 1..Len(s) : s[i] = x
    PROVE  Cardinality(S) = Len(s)
  <1>1. Len(s) \in Nat /\ s \in [1..Len(s) -> S]
    OBVIOUS
  <1>2. s \in Bijection(1..Len(s), S)
    BY <1>1 DEF Once, Bijection, Injection, Surjection, IsInjective
  <1>3. ExistsBijection(1..Len(s), S)
    BY <1>2 DEF ExistsBijection
  <1> QED
    BY <1>1, <1>3, FS_CountingElements

-----------------------------------------------------------------------------
(***************************************************************************)
(* The records of the requests.                                            *)
(***************************************************************************)
LEMMA RecordsInit == CmInit => RecordsOK
  <1> SUFFICES ASSUME CmInit PROVE RecordsOK
    OBVIOUS
  <1> DEFINE n == Cardinality(CmRequests)
  <1>1. IsFiniteSet(CmRequests) /\ n \in Nat /\ ExistsBijection(1..n, CmRequests)
    BY CmAssumption, FS_CardinalityType
  <1>2. PICK f \in Bijection(1..n, CmRequests) : TRUE
    BY <1>1 DEF ExistsBijection
  <1>3. f \in [1..n -> CmRequests] /\ List!ToSet(f) = CmRequests
    BY <1>1, <1>2 DEF Bijection, Surjection, List!ToSet
  <1> HIDE DEF n
  <1>4. Sorted \in [1..n -> CmRequests] /\ List!ToSet(Sorted) = CmRequests
    BY <1>3 DEF Sorted, n
  <1>5. Sorted \in Surjection(1..n, CmRequests)
    BY <1>1, <1>4 DEF List!ToSet, Surjection
  <1>6. IsFiniteSet(1..n) /\ Cardinality(1..n) = n
    <2>1. 1 \in Int /\ n \in Int
      BY <1>1
    <2> QED
      BY <1>1, <2>1, FS_Interval
  <1>7. Sorted \in Injection(1..n, CmRequests)
    BY <1>5, <1>6, FS_SurjSameCardinalityImpliesInj DEF n
  <1>8. Sorted \in Seq(CmRequests) /\ Len(Sorted) = n
    BY <1>1, <1>4
  <1>9. Once(Sorted)
    BY <1>7, <1>8 DEF Injection, IsInjective, Once
  <1> QED
    BY <1>1, <1>8, <1>9 DEF CmInit, RecordsOK, RequestsConserved, Once, n

\* A client takes the first free record and puts it behind those that wait.
LEMMA RecordsEnqueue ==
    ASSUME RecordsOK, cmFree # <<>>,
           cmFree' = Tail(cmFree), cmWaiting' = Append(cmWaiting, Head(cmFree))
    PROVE  RecordsOK'
  <1> DEFINE f == Tail(cmFree)
             w == Append(cmWaiting, Head(cmFree))
  <1>1. /\ f \in Seq(CmRequests) /\ Len(f) = Len(cmFree) - 1
        /\ Head(cmFree) = cmFree[1] /\ cmFree[1] \in CmRequests
        /\ \A i \in 1..Len(cmFree) - 1 : f[i] = cmFree[i + 1]
        /\ Len(cmFree) \in Nat /\ Len(cmFree) >= 1
    BY DEF RecordsOK
  <1>2. /\ w \in Seq(CmRequests) /\ Len(w) = Len(cmWaiting) + 1
        /\ \A i \in 1..Len(cmWaiting) : w[i] = cmWaiting[i]
        /\ w[Len(cmWaiting) + 1] = cmFree[1]
        /\ Len(cmWaiting) \in Nat
    BY <1>1, AppendFacts DEF RecordsOK
  <1> HIDE DEF f, w
  <1>o. /\ \A i, j \in 1..Len(cmFree) : cmFree[i] = cmFree[j] => i = j
        /\ \A i, j \in 1..Len(cmWaiting) : cmWaiting[i] = cmWaiting[j] => i = j
        /\ \A i \in 1..Len(cmFree), j \in 1..Len(cmWaiting) : cmFree[i] # cmWaiting[j]
    BY DEF RecordsOK, Once
  <1>3. Once(f)
    <2> SUFFICES ASSUME NEW i \in 1..Len(f), NEW j \in 1..Len(f), f[i] = f[j]
                 PROVE  i = j
      BY DEF Once
    <2>1. /\ i + 1 \in 1..Len(cmFree) /\ j + 1 \in 1..Len(cmFree)
          /\ cmFree[i + 1] = cmFree[j + 1]
      BY <1>1
    <2> QED
      BY <1>o, <2>1
  <1>4. Once(w)
    <2> SUFFICES ASSUME NEW i \in 1..Len(w), NEW j \in 1..Len(w), w[i] = w[j]
                 PROVE  i = j
      BY DEF Once
    <2>1. 1 \in 1..Len(cmFree)
      BY <1>1
    <2>2. \A k \in 1..Len(w) : \/ k = Len(cmWaiting) + 1
                               \/ k \in 1..Len(cmWaiting) /\ w[k] = cmWaiting[k]
      BY <1>2
    <2> QED
      BY <1>2, <1>o, <2>1, <2>2
  <1>5. \A i \in 1..Len(f), j \in 1..Len(w) : f[i] # w[j]
    <2> SUFFICES ASSUME NEW i \in 1..Len(f), NEW j \in 1..Len(w), f[i] = w[j]
                 PROVE  FALSE
      OBVIOUS
    <2>1. i + 1 \in 1..Len(cmFree) /\ f[i] = cmFree[i + 1] /\ i + 1 # 1 /\ 1 \in 1..Len(cmFree)
      BY <1>1
    <2>2. CASE j = Len(cmWaiting) + 1
      BY <1>2, <1>o, <2>1, <2>2
    <2>3. CASE j # Len(cmWaiting) + 1
      <3>1. j \in 1..Len(cmWaiting) /\ w[j] = cmWaiting[j]
        BY <1>2, <2>3
      <3> QED
        BY <1>o, <2>1, <3>1
    <2> QED
      BY <2>2, <2>3
  <1>6. Len(f) + Len(w) = Cardinality(CmRequests)
    BY <1>1, <1>2 DEF RecordsOK, RequestsConserved
  <1> QED
    BY <1>1, <1>2, <1>3, <1>4, <1>5, <1>6 DEF RecordsOK, RequestsConserved, f, w

\* The manager takes those it has started off the queue and frees them.
LEMMA RecordsAssign ==
    ASSUME RecordsOK, NEW n \in 0..Len(cmWaiting),
           cmWaiting' = SubSeq(cmWaiting, n + 1, Len(cmWaiting)),
           cmFree' = cmFree \o SubSeq(cmWaiting, 1, n)
    PROVE  RecordsOK'
  <1> DEFINE w == SubSeq(cmWaiting, n + 1, Len(cmWaiting))
             g == SubSeq(cmWaiting, 1, n)
             f == cmFree \o g
  <1>1. /\ cmFree \in Seq(CmRequests) /\ cmWaiting \in Seq(CmRequests)
        /\ Len(cmFree) \in Nat /\ Len(cmWaiting) \in Nat
    BY DEF RecordsOK
  <1>2. /\ w \in Seq(CmRequests) /\ Len(w) = Len(cmWaiting) - n
        /\ \A i \in 1..Len(cmWaiting) - n : w[i] = cmWaiting[n + i]
        /\ g \in Seq(CmRequests) /\ Len(g) = n
        /\ \A i \in 1..n : g[i] = cmWaiting[i]
    BY <1>1, SubSeqFacts
  <1> HIDE DEF w, g
  <1>3. /\ f \in Seq(CmRequests) /\ Len(f) = Len(cmFree) + n
        /\ \A i \in 1..Len(cmFree) + n :
                f[i] = IF i <= Len(cmFree) THEN cmFree[i] ELSE g[i - Len(cmFree)]
    BY <1>1, <1>2, ConcatFacts
  <1> HIDE DEF f
  <1>4. \A i \in 1..Len(f) :
            \/ i <= Len(cmFree) /\ f[i] = cmFree[i]
            \/ /\ i - Len(cmFree) \in 1..n
               /\ f[i] = cmWaiting[i - Len(cmFree)]
    <2> TAKE i \in 1..Len(f)
    <2>1. /\ i \in 1..Len(cmFree) + n
          /\ f[i] = IF i <= Len(cmFree) THEN cmFree[i] ELSE g[i - Len(cmFree)]
      BY <1>3
    <2>2. CASE i <= Len(cmFree)
      BY <2>1, <2>2
    <2>3. CASE ~(i <= Len(cmFree))
      <3>1. i - Len(cmFree) \in 1..n
        BY <1>1, <2>1, <2>3
      <3> QED
        BY <1>2, <2>1, <2>3, <3>1
    <2> QED
      BY <2>2, <2>3
  <1>o. /\ \A i, j \in 1..Len(cmFree) : cmFree[i] = cmFree[j] => i = j
        /\ \A i, j \in 1..Len(cmWaiting) : cmWaiting[i] = cmWaiting[j] => i = j
        /\ \A i \in 1..Len(cmFree), j \in 1..Len(cmWaiting) : cmFree[i] # cmWaiting[j]
    BY DEF RecordsOK, Once
  <1>5. Once(w)
    <2> SUFFICES ASSUME NEW i \in 1..Len(w), NEW j \in 1..Len(w), w[i] = w[j]
                 PROVE  i = j
      BY DEF Once
    <2>1. /\ n \in Nat /\ n <= Len(cmWaiting) /\ i \in Nat /\ j \in Nat
          /\ n + i \in 1..Len(cmWaiting) /\ n + j \in 1..Len(cmWaiting)
      BY <1>1, <1>2
    <2>2. cmWaiting[n + i] = cmWaiting[n + j]
      BY <1>1, <1>2, <2>1
    <2>3. n + i = n + j
      BY <1>o, <2>1, <2>2
    <2> QED
      BY <2>1, <2>3
  <1>6. Once(f)
    <2> SUFFICES ASSUME NEW i \in 1..Len(f), NEW j \in 1..Len(f), f[i] = f[j]
                 PROVE  i = j
      BY DEF Once
    <2>1. \A k \in 1..Len(f) :
            \/ k \in 1..Len(cmFree) /\ f[k] = cmFree[k]
            \/ k - Len(cmFree) \in 1..Len(cmWaiting) /\ f[k] = cmWaiting[k - Len(cmFree)]
      BY <1>1, <1>3, <1>4
    <2>2. CASE i \in 1..Len(cmFree) /\ f[i] = cmFree[i]
      BY <1>o, <2>1, <2>2
    <2>3. CASE i - Len(cmFree) \in 1..Len(cmWaiting) /\ f[i] = cmWaiting[i - Len(cmFree)]
      <3>1. CASE j \in 1..Len(cmFree) /\ f[j] = cmFree[j]
        BY <1>o, <2>3, <3>1
      <3>2. CASE j - Len(cmFree) \in 1..Len(cmWaiting) /\ f[j] = cmWaiting[j - Len(cmFree)]
        <4>1. i - Len(cmFree) = j - Len(cmFree)
          BY <1>o, <2>3, <3>2
        <4> QED
          BY <1>1, <1>3, <4>1
      <3> QED
        BY <2>1, <3>1, <3>2
    <2> QED
      BY <2>1, <2>2, <2>3
  <1>7. \A i \in 1..Len(f), j \in 1..Len(w) : f[i] # w[j]
    <2> SUFFICES ASSUME NEW i \in 1..Len(f), NEW j \in 1..Len(w), f[i] = w[j]
                 PROVE  FALSE
      OBVIOUS
    <2>1. n + j \in 1..Len(cmWaiting) /\ w[j] = cmWaiting[n + j] /\ n + j > n
      BY <1>1, <1>2
    <2>2. CASE i <= Len(cmFree) /\ f[i] = cmFree[i]
      <3>1. i \in 1..Len(cmFree)
        BY <1>1, <1>3, <2>2
      <3> QED
        BY <1>o, <2>1, <2>2, <3>1
    <2>3. CASE i - Len(cmFree) \in 1..n /\ f[i] = cmWaiting[i - Len(cmFree)]
      <3>1. i - Len(cmFree) \in 1..Len(cmWaiting) /\ i - Len(cmFree) <= n
        BY <1>1, <2>3
      <3>2. i - Len(cmFree) = n + j
        BY <1>o, <2>1, <2>3, <3>1
      <3> QED
        BY <2>1, <3>1, <3>2
    <2> QED
      BY <1>4, <2>2, <2>3
  <1>8. Len(f) + Len(w) = Cardinality(CmRequests)
    BY <1>1, <1>2, <1>3 DEF RecordsOK, RequestsConserved
  <1> QED
    BY <1>2, <1>3, <1>5, <1>6, <1>7, <1>8 DEF RecordsOK, RequestsConserved, f, g, w

-----------------------------------------------------------------------------
(***************************************************************************)
(* The keys.                                                               *)
(***************************************************************************)
KeyRecord == [uri : CmUris \cup {NoUri}, success : BOOLEAN, at : Nat]

LEMMA KeysInit == CmInit => KeysOK
  <1> SUFFICES ASSUME CmInit PROVE KeysOK
    OBVIOUS
  <1>1. cmNow = 0 /\ cmMap = <<>> /\ cmByTime = <<>>
    BY DEF CmInit
  <1>2. DOMAIN cmMap = {} /\ Len(cmByTime) = 0 /\ cmByTime \in Seq(DOMAIN cmMap)
    BY <1>1
  <1>3. cmMap \in [DOMAIN cmMap -> [uri : CmUris \cup {NoUri}, success : BOOLEAN, at : Nat]]
    BY <1>1, <1>2
  <1> QED
    BY <1>1, <1>2, <1>3 DEF KeysOK, Once

\* A key that is new goes to the end of the multimap with the time.
LEMMA KeysSave ==
    ASSUME KeysOK, UNCHANGED cmNow, NEW key,
           NEW uri \in CmUris \cup {NoUri}, NEW success \in BOOLEAN,
           success => uri \in CmUris,
           saveHTTPRequestKey(key, uri, success)
    PROVE  KeysOK'
  <1>1. CASE UNCHANGED <<cmMap, cmByTime>>
    BY <1>1 DEF KeysOK, Once
  <1>2. CASE ~UNCHANGED <<cmMap, cmByTime>>
    <2> DEFINE D == DOMAIN cmMap
               r == [uri |-> uri, success |-> success, at |-> cmNow]
               m == [k \in D \cup {key} |-> IF k = key THEN r ELSE cmMap[k]]
               b == Append(cmByTime, key)
    <2>1. key \notin D /\ cmMap' = m /\ cmByTime' = b
      BY <1>2 DEF saveHTTPRequestKey
    <2>2. /\ cmNow \in Nat
          /\ cmByTime \in Seq(D) /\ Once(cmByTime)
          /\ \A k \in D : \E i \in 1..Len(cmByTime) : cmByTime[i] = k
          /\ cmMap \in [D -> KeyRecord]
          /\ \A k \in D : cmMap[k].at <= cmNow /\ (cmMap[k].success => cmMap[k].uri \in CmUris)
          /\ \A i, j \in 1..Len(cmByTime) : i < j => cmMap[cmByTime[i]].at <= cmMap[cmByTime[j]].at
      BY DEF KeysOK, KeyRecord
    <2> HIDE DEF D
    <2>3. r \in KeyRecord /\ r.at = cmNow /\ (r.success => r.uri \in CmUris)
      BY <2>2 DEF KeyRecord
    <2> HIDE DEF r
    <2>4. /\ DOMAIN m = D \cup {key} /\ m \in [D \cup {key} -> KeyRecord]
          /\ m[key] = r /\ \A k \in D : m[k] = cmMap[k]
      BY <2>1, <2>2, <2>3
    <2>5. /\ Len(cmByTime) \in Nat
          /\ \A i \in 1..Len(cmByTime) : cmByTime[i] \in D
          /\ cmByTime \in Seq(D \cup {key})
      BY <2>2
    <2>6. /\ b \in Seq(D \cup {key}) /\ Len(b) = Len(cmByTime) + 1
          /\ \A i \in 1..Len(cmByTime) : b[i] = cmByTime[i]
          /\ b[Len(cmByTime) + 1] = key
      BY <2>5, AppendFacts
    <2> HIDE DEF m, b
    <2>7. \A i \in 1..Len(b) : \/ i = Len(cmByTime) + 1 /\ b[i] = key
                               \/ i \in 1..Len(cmByTime) /\ b[i] = cmByTime[i] /\ b[i] \in D
      BY <2>5, <2>6
    <2>8. Once(b)
      <3>1. \A i, j \in 1..Len(cmByTime) : cmByTime[i] = cmByTime[j] => i = j
        BY <2>2 DEF Once
      <3> SUFFICES ASSUME NEW i \in 1..Len(b), NEW j \in 1..Len(b), b[i] = b[j]
                   PROVE  i = j
        BY DEF Once
      <3>2. CASE i = Len(cmByTime) + 1 /\ b[i] = key
        BY <2>1, <2>7, <3>2
      <3>3. CASE i \in 1..Len(cmByTime) /\ b[i] = cmByTime[i] /\ b[i] \in D
        BY <2>1, <2>7, <3>1, <3>3
      <3> QED
        BY <2>7, <3>2, <3>3
    <2>9. \A k \in D \cup {key} : \E i \in 1..Len(b) : b[i] = k
      <3> SUFFICES ASSUME NEW k \in D \cup {key}
                   PROVE  \E i \in 1..Len(b) : b[i] = k
        OBVIOUS
      <3>1. CASE k = key
        BY <2>5, <2>6, <3>1
      <3>2. CASE k \in D
        <4>1. PICK i \in 1..Len(cmByTime) : cmByTime[i] = k
          BY <2>2, <3>2
        <4>2. i \in 1..Len(b) /\ b[i] = k
          BY <2>5, <2>6, <4>1
        <4> QED
          BY <4>2
      <3> QED
        BY <3>1, <3>2
    <2>10. \A k \in D \cup {key} : m[k].at <= cmNow /\ (m[k].success => m[k].uri \in CmUris)
      BY <2>2, <2>3, <2>4
    <2>11. \A i, j \in 1..Len(b) : i < j => m[b[i]].at <= m[b[j]].at
      <3> SUFFICES ASSUME NEW i \in 1..Len(b), NEW j \in 1..Len(b), i < j
                   PROVE  m[b[i]].at <= m[b[j]].at
        OBVIOUS
      <3>1. i \in 1..Len(cmByTime) /\ b[i] = cmByTime[i] /\ b[i] \in D
        BY <2>5, <2>6, <2>7
      <3>2. CASE j = Len(cmByTime) + 1 /\ b[j] = key
        BY <2>3, <2>4, <2>10, <3>1, <3>2
      <3>3. CASE j \in 1..Len(cmByTime) /\ b[j] = cmByTime[j] /\ b[j] \in D
        BY <2>2, <2>4, <3>1, <3>3
      <3> QED
        BY <2>7, <3>2, <3>3
    <2>12. DOMAIN cmMap' = D \cup {key}
      BY <2>1, <2>4
    <2> QED
      BY <2>1, <2>2, <2>4, <2>6, <2>8, <2>9, <2>10, <2>11, <2>12 DEF KeysOK, KeyRecord
  <1> QED
    BY <1>1, <1>2

LEMMA GreatestNat ==
    ASSUME NEW m \in Nat, NEW T, T \subseteq 0..m, T # {}
    PROVE  \E x \in T : \A y \in T : y <= x
  <1> DEFINE U == {u \in Nat : m - u \in T}
  <1>1. U \subseteq Nat /\ \A y \in T : y \in Int /\ m - y \in U
    <2>1. ASSUME NEW y \in T
          PROVE  y \in Int /\ m - y \in U
      <3>1. y \in 0..m
        OBVIOUS
      <3>2. m - y \in Nat /\ m - (m - y) = y
        BY <3>1
      <3> QED
        BY <3>1, <3>2
    <2> QED
      BY <2>1
  <1>2. PICK u \in U : \A v \in U : ~ (<<v, u>> \in OpToRel(<, Nat))
    BY <1>1, NatLessThanWellFounded, WFMin
  <1>3. \A v \in U : ~ (v < u)
    BY <1>1, <1>2 DEF OpToRel
  <1>4. m - u \in T /\ u \in Nat
    OBVIOUS
  <1> HIDE DEF U
  <1>5. \A y \in T : y <= m - u
    BY <1>1, <1>3, <1>4
  <1> QED
    BY <1>4, <1>5

\* The keys that are too old are at the head of the multimap.
LEMMA KeysExpire ==
    ASSUME KeysOK, UNCHANGED cmNow, HTTPRequestKeysRetention
    PROVE  KeysOK'
  <1> DEFINE L == Len(cmByTime)
             old == {i \in 0..L : TooOld(i)}
             n == CHOOSE i \in old : \A j \in old : j <= i
             kept == SubSeq(cmByTime, n + 1, L)
             D == List!ToSet(kept)
             m == [k \in D |-> cmMap[k]]
  <1>1. cmByTime' = kept /\ cmMap' = m
    BY DEF HTTPRequestKeysRetention
  <1>2. L \in Nat /\ cmByTime \in Seq(DOMAIN cmMap)
    BY DEF KeysOK
  <1>3. n \in 0..L
    <2> HIDE DEF L
    <2>1. 0 \in old /\ old \subseteq 0..L
      BY <1>2 DEF TooOld
    <2> HIDE DEF old
    <2>2. \E i \in old : \A j \in old : j <= i
      BY <1>2, <2>1, GreatestNat
    <2> QED
      BY <2>1, <2>2
  <1> HIDE DEF n
  <1>4. /\ kept \in Seq(DOMAIN cmMap) /\ Len(kept) = L - n
        /\ \A i \in 1..L - n : kept[i] = cmByTime[n + i]
    BY <1>2, <1>3, SubSeqFacts
  <1> HIDE DEF kept, L
  <1>5. D = {kept[i] : i \in 1..Len(kept)}
    BY <1>4, ToSetFacts
  <1> HIDE DEF D
  <1>6. D \subseteq DOMAIN cmMap /\ \A i \in 1..Len(kept) : kept[i] \in D
    BY <1>4, <1>5
  <1>7. kept \in Seq(D)
    BY <1>4, <1>6
  <1>8. \A i \in 1..Len(kept) : n + i \in 1..L /\ kept[i] = cmByTime[n + i]
    BY <1>2, <1>3, <1>4
  <1>9. /\ cmMap \in [DOMAIN cmMap -> KeyRecord]
        /\ \A i, j \in 1..L : cmByTime[i] = cmByTime[j] => i = j
        /\ \A i, j \in 1..L : i < j => cmMap[cmByTime[i]].at <= cmMap[cmByTime[j]].at
    BY DEF KeysOK, KeyRecord, Once, L
  <1>10. DOMAIN m = D /\ m \in [D -> KeyRecord] /\ \A k \in D : m[k] = cmMap[k]
    BY <1>6, <1>9
  <1> HIDE DEF m
  <1>11. Once(kept)
    <2> SUFFICES ASSUME NEW i \in 1..Len(kept), NEW j \in 1..Len(kept), kept[i] = kept[j]
                 PROVE  i = j
      BY DEF Once
    <2>1. n + i = n + j
      BY <1>8, <1>9
    <2> QED
      BY <1>3, <1>4, <2>1
  <1>12. \A k \in D : m[k].at <= cmNow /\ (m[k].success => m[k].uri \in CmUris)
    BY <1>6, <1>10 DEF KeysOK
  <1>13. \A i, j \in 1..Len(kept) : i < j => m[kept[i]].at <= m[kept[j]].at
    <2> SUFFICES ASSUME NEW i \in 1..Len(kept), NEW j \in 1..Len(kept), i < j
                 PROVE  m[kept[i]].at <= m[kept[j]].at
      OBVIOUS
    <2>1. n + i < n + j
      BY <1>3, <1>4
    <2>2. cmMap[kept[i]].at <= cmMap[kept[j]].at
      BY <1>8, <1>9, <2>1
    <2> QED
      BY <1>6, <1>10, <2>2
  <1>14. cmNow \in Nat
    BY DEF KeysOK
  <1>15. \A k \in D : \E i \in 1..Len(kept) : kept[i] = k
    BY <1>5
  <1>16. DOMAIN cmMap' = D
    BY <1>1, <1>10
  <1> QED
    BY <1>1, <1>7, <1>10, <1>11, <1>12, <1>13, <1>14, <1>15, <1>16 DEF KeysOK, KeyRecord

LEMMA KeysTwoTables == KeysOK => KeysConsistent
  <1> SUFFICES ASSUME KeysOK PROVE KeysConsistent
    OBVIOUS
  <1>1. cmByTime \in Seq(DOMAIN cmMap)
    BY DEF KeysOK
  <1>2. List!ToSet(cmByTime) = {cmByTime[i] : i \in 1..Len(cmByTime)}
    BY <1>1, ToSetFacts
  <1>3. List!ToSet(cmByTime) = DOMAIN cmMap
    <2>1. \A i \in 1..Len(cmByTime) : cmByTime[i] \in DOMAIN cmMap
      BY <1>1
    <2>2. \A k \in DOMAIN cmMap : \E i \in 1..Len(cmByTime) : cmByTime[i] = k
      BY DEF KeysOK
    <2> QED
      BY <1>2, <2>1, <2>2
  <1>4. Cardinality(DOMAIN cmMap) = Len(cmByTime)
    BY <1>1, OnceCounts DEF KeysOK
  <1> QED
    BY <1>3, <1>4 DEF KeysOK, KeysConsistent

-----------------------------------------------------------------------------
(***************************************************************************)
(* The downloads.                                                          *)
(***************************************************************************)
WaitingUri(i) == cmUri[cmWaiting[i]]

Apart ==
    /\ \A i, j \in 1..CmSlots : cmSlot[i].running /\ cmSlot[j].running /\ i # j =>
            cmSlot[i].uri # cmSlot[j].uri
    /\ \A i \in 1..CmSlots, j \in 1..Len(cmWaiting) :
            cmSlot[i].running => cmSlot[i].uri # WaitingUri(j)
    /\ \A i, j \in 1..Len(cmWaiting) : i # j => WaitingUri(i) # WaitingUri(j)

LEMMA ApartIsOneDownload == Apart <=> OneDownloadPerUri
  BY DEF Apart, WaitingUri, OneDownloadPerUri, Waits

LEMMA DownloadsInit == CmInit => SlotTypes /\ OneDownloadPerUri
  <1> SUFFICES ASSUME CmInit PROVE SlotTypes /\ OneDownloadPerUri
    OBVIOUS
  <1>1. SlotTypes
    BY DEF CmInit, SlotTypes
  <1>2. Len(cmWaiting) = 0 /\ \A i \in 1..CmSlots : ~cmSlot[i].running
    BY DEF CmInit
  <1>3. Apart
    BY <1>2 DEF Apart
  <1> QED
    BY <1>1, <1>3, ApartIsOneDownload

\* A URI that no thread has and that does not wait joins the queue.
LEMMA DownloadsEnqueue ==
    ASSUME RecordsOK, SlotTypes, OneDownloadPerUri, UNCHANGED cmSlot,
           NEW uri \in CmUris, uri \notin Named \cup Waits, cmFree # <<>>,
           cmUri' = [cmUri EXCEPT ![Head(cmFree)] = uri],
           cmWaiting' = Append(cmWaiting, Head(cmFree))
    PROVE  SlotTypes' /\ OneDownloadPerUri'
  <1> DEFINE r == Head(cmFree)
  <1>1. r \in CmRequests /\ r = cmFree[1] /\ 1 \in 1..Len(cmFree)
    BY DEF RecordsOK
  <1>2. \A i \in 1..Len(cmWaiting) : cmWaiting[i] \in CmRequests /\ cmWaiting[i] # r
    BY <1>1 DEF RecordsOK
  <1>3. /\ cmWaiting' \in Seq(CmRequests) /\ Len(cmWaiting') = Len(cmWaiting) + 1
        /\ \A i \in 1..Len(cmWaiting) : cmWaiting'[i] = cmWaiting[i]
        /\ cmWaiting'[Len(cmWaiting) + 1] = r
        /\ Len(cmWaiting) \in Nat
    BY <1>1, AppendFacts DEF RecordsOK
  <1>4. SlotTypes'
    BY DEF SlotTypes
  <1> HIDE DEF r
  <1>5. \A i \in 1..Len(cmWaiting') :
            \/ i = Len(cmWaiting) + 1 /\ WaitingUri(i)' = uri
            \/ i \in 1..Len(cmWaiting) /\ WaitingUri(i)' = WaitingUri(i)
    <2> SUFFICES ASSUME NEW i \in 1..Len(cmWaiting')
                 PROVE  \/ i = Len(cmWaiting) + 1 /\ WaitingUri(i)' = uri
                        \/ i \in 1..Len(cmWaiting) /\ WaitingUri(i)' = WaitingUri(i)
      OBVIOUS
    <2>1. /\ cmUri'[r] = uri
          /\ \A q \in CmRequests : q # r => cmUri'[q] = cmUri[q]
      BY <1>1 DEF SlotTypes, r
    <2>2. CASE i = Len(cmWaiting) + 1
      BY <1>3, <2>1, <2>2 DEF WaitingUri
    <2>3. CASE i # Len(cmWaiting) + 1
      <3>1. i \in 1..Len(cmWaiting)
        BY <1>3, <2>3
      <3> QED
        BY <1>2, <1>3, <2>1, <3>1 DEF WaitingUri
    <2> QED
      BY <2>2, <2>3
  <1>6. /\ \A i \in 1..CmSlots : cmSlot[i].uri # uri
        /\ \A i \in 1..Len(cmWaiting) : WaitingUri(i) # uri
    BY DEF Named, Waits, WaitingUri
  <1>7. Apart
    BY ApartIsOneDownload
  <1>8. \A i \in 1..CmSlots, j \in 1..Len(cmWaiting') :
            cmSlot[i].running => cmSlot[i].uri # WaitingUri(j)'
    BY <1>5, <1>6, <1>7 DEF Apart
  <1>9. \A i, j \in 1..Len(cmWaiting') : i # j => WaitingUri(i)' # WaitingUri(j)'
    BY <1>5, <1>6, <1>7 DEF Apart
  <1>10. Apart'
    BY <1>7, <1>8, <1>9 DEF Apart
  <1>11. OneDownloadPerUri'
    BY <1>10, ApartIsOneDownload DEF Apart, OneDownloadPerUri, Waits, WaitingUri
  <1> QED
    BY <1>4, <1>11

\* Two idle threads have different turns, and no turn is beyond their number.
LEMMA TurnFacts ==
    ASSUME NEW i \in IdleSlots
    PROVE  /\ Turn(i) \in 1..Cardinality(IdleSlots) /\ Cardinality(IdleSlots) \in Nat
           /\ \A j \in IdleSlots : i # j => Turn(i) # Turn(j)
  <1> DEFINE Upto(k) == {j \in IdleSlots : j <= k}
  <1>1. CmSlots \in Nat /\ IdleSlots \subseteq 1..CmSlots
    BY CmAssumption DEF IdleSlots
  <1>2. IsFiniteSet(IdleSlots)
    <2>1. IsFiniteSet(1..CmSlots)
      BY <1>1, FS_Interval
    <2> QED
      BY <1>1, <2>1, FS_Subset
  <1>3. ASSUME NEW k \in IdleSlots
        PROVE  /\ IsFiniteSet(Upto(k)) /\ k \in Upto(k) /\ Upto(k) \subseteq IdleSlots
               /\ Turn(k) = Cardinality(Upto(k))
               /\ Turn(k) \in 1..Cardinality(IdleSlots)
    <2>1. Upto(k) \in SUBSET IdleSlots /\ k \in Upto(k)
      BY <1>1
    <2>2. IsFiniteSet(Upto(k)) /\ Cardinality(Upto(k)) <= Cardinality(IdleSlots)
      BY <1>2, <2>1, FS_Subset
    <2>3. Cardinality(Upto(k)) # 0
      BY <2>1, <2>2, FS_EmptySet
    <2>4. Cardinality(Upto(k)) \in Nat /\ Cardinality(IdleSlots) \in Nat
      BY <1>2, <2>2, FS_CardinalityType
    <2>5. Turn(k) = Cardinality(Upto(k))
      BY DEF Turn
    <2> HIDE DEF Upto
    <2> QED
      BY <2>1, <2>2, <2>3, <2>4, <2>5
  <1>4. Cardinality(IdleSlots) \in Nat
    BY <1>2, FS_CardinalityType
  <1>5. ASSUME NEW k \in IdleSlots, NEW j \in IdleSlots, k < j
        PROVE  Turn(k) # Turn(j)
    <2>0. \A x \in IdleSlots : x \in Int
      BY <1>1
    <2>1. Upto(k) \in SUBSET Upto(j) /\ j \notin Upto(k)
      BY <1>5, <2>0
    <2>2. Upto(k) # Upto(j)
      BY <1>3, <2>1
    <2> HIDE DEF Upto
    <2> QED
      BY <1>3, <2>1, <2>2, FS_Subset
  <1>6. \A j \in IdleSlots : i # j => i < j \/ j < i
    BY <1>1
  <1> QED
    BY <1>3, <1>4, <1>5, <1>6

\* The manager gives the URIs at the head of the queue to idle threads.
LEMMA DownloadsAssign ==
    ASSUME RecordsOK, SlotTypes, OneDownloadPerUri, UNCHANGED cmUri, Assign
    PROVE  RecordsOK' /\ SlotTypes' /\ OneDownloadPerUri'
  <1>1. /\ CmSlots \in Nat
        /\ cmWaiting \in Seq(CmRequests) /\ Len(cmWaiting) \in Nat
        /\ \A i \in 1..Len(cmWaiting) : WaitingUri(i) \in CmUris \cup {NoUri}
    BY CmAssumption DEF RecordsOK, SlotTypes, WaitingUri
  <1>2. Cardinality(IdleSlots) \in Nat
    <2>1. IsFiniteSet(1..CmSlots)
      BY <1>1, FS_Interval
    <2>2. IsFiniteSet(IdleSlots)
      BY <2>1, FS_Subset DEF IdleSlots
    <2> QED
      BY <2>2, FS_CardinalityType
  <1> DEFINE most == IF Cardinality(IdleSlots) <= Len(cmWaiting)
                     THEN Cardinality(IdleSlots) ELSE Len(cmWaiting)
  <1>3. PICK n \in 0..most, failed \in {"no", "init", "start"} :
          /\ failed # "no" => n < most
          /\ cmSlot' = [i \in 1..CmSlots |->
                CASE i \in IdleSlots /\ Turn(i) <= n ->
                        [uri |-> cmUri[cmWaiting[Turn(i)]], running |-> TRUE]
                  [] i \in IdleSlots /\ Turn(i) = n + 1 /\ failed # "no" ->
                        [uri |-> IF failed = "start" THEN cmUri[cmWaiting[n + 1]] ELSE NoUri,
                         running |-> FALSE]
                  [] OTHER -> cmSlot[i]]
          /\ cmWaiting' = SubSeq(cmWaiting, n + 1, Len(cmWaiting))
          /\ cmFree' = cmFree \o SubSeq(cmWaiting, 1, n)
    BY DEF Assign
  <1> DEFINE Given == {i \in IdleSlots : Turn(i) <= n}
  <1>4. n \in 0..Len(cmWaiting) /\ (failed # "no" => n + 1 \in 1..Len(cmWaiting))
    BY <1>1, <1>2, <1>3
  <1>5. RecordsOK'
    BY <1>3, <1>4, RecordsAssign
  <1>6. \A i \in Given : Turn(i) \in 1..Len(cmWaiting) /\ Turn(i) <= n
    BY <1>1, <1>2, <1>4, TurnFacts
  <1>7. ASSUME NEW i \in 1..CmSlots
        PROVE  \/ /\ i \in Given
                  /\ cmSlot'[i] = [uri |-> WaitingUri(Turn(i)), running |-> TRUE]
               \/ i \notin Given /\ cmSlot'[i] = cmSlot[i]
               \/ /\ i \notin Given
                  /\ \E u \in CmUris \cup {NoUri} : cmSlot'[i] = [uri |-> u, running |-> FALSE]
    <2>1. CASE i \in Given
      BY <1>3, <2>1 DEF WaitingUri
    <2>2. CASE i \in IdleSlots /\ Turn(i) = n + 1 /\ failed # "no"
      <3> DEFINE u == IF failed = "start" THEN WaitingUri(n + 1) ELSE NoUri
      <3>1. u \in CmUris \cup {NoUri} /\ ~(Turn(i) <= n)
        BY <1>1, <1>4, <2>2
      <3>2. cmSlot'[i] = [uri |-> u, running |-> FALSE]
        BY <1>3, <2>2, <3>1 DEF WaitingUri
      <3> HIDE DEF u
      <3> QED
        BY <3>1, <3>2
    <2>3. CASE i \notin Given /\ ~(i \in IdleSlots /\ Turn(i) = n + 1 /\ failed # "no")
      BY <1>3, <2>3
    <2> QED
      BY <2>1, <2>2, <2>3
  <1>w. /\ Len(cmWaiting') = Len(cmWaiting) - n
        /\ \A i \in 1..Len(cmWaiting') : /\ n + i \in 1..Len(cmWaiting)
                                         /\ WaitingUri(i)' = WaitingUri(n + i)
    <2> DEFINE w == SubSeq(cmWaiting, n + 1, Len(cmWaiting))
    <2>1. Len(w) = Len(cmWaiting) - n /\ \A i \in 1..Len(cmWaiting) - n : w[i] = cmWaiting[n + i]
      BY <1>1, <1>4, SubSeqFacts
    <2>2. cmWaiting' = w
      BY <1>3
    <2> HIDE DEF w
    <2>3. \A i \in 1..Len(cmWaiting) - n : n + i \in 1..Len(cmWaiting)
      BY <1>1, <1>4
    <2> QED
      BY <2>1, <2>2, <2>3 DEF WaitingUri
  <1>g. \A i \in Given : i \in IdleSlots
    OBVIOUS
  <1>s. cmSlot' = [i \in 1..CmSlots |-> cmSlot'[i]]
    BY <1>3
  <1> HIDE DEF Given, most
  <1>8. \A i, j \in Given : i # j => Turn(i) # Turn(j)
    BY <1>g, TurnFacts
  <1>9. Apart
    BY ApartIsOneDownload
  <1>10. SlotTypes'
    <2>1. ASSUME NEW i \in 1..CmSlots
          PROVE  cmSlot'[i] \in [uri : CmUris \cup {NoUri}, running : BOOLEAN]
      <3>1. CASE i \in Given /\ cmSlot'[i] = [uri |-> WaitingUri(Turn(i)), running |-> TRUE]
        BY <1>1, <1>6, <3>1
      <3>2. CASE cmSlot'[i] = cmSlot[i]
        BY <3>2 DEF SlotTypes
      <3>3. CASE \E u \in CmUris \cup {NoUri} : cmSlot'[i] = [uri |-> u, running |-> FALSE]
        BY <3>3
      <3> QED
        BY <1>7, <3>1, <3>2, <3>3
    <2> QED
      BY <1>s, <2>1 DEF SlotTypes
  <1>11. ASSUME NEW i \in 1..CmSlots, cmSlot'[i].running
         PROVE  \/ i \in Given /\ cmSlot'[i].uri = WaitingUri(Turn(i))
                \/ i \notin Given /\ cmSlot[i].running /\ cmSlot'[i].uri = cmSlot[i].uri
    <2>1. ~\E u \in CmUris \cup {NoUri} : cmSlot'[i] = [uri |-> u, running |-> FALSE]
      <3> SUFFICES ASSUME NEW u, cmSlot'[i] = [uri |-> u, running |-> FALSE]
                   PROVE  FALSE
        OBVIOUS
      <3>1. cmSlot'[i].running = FALSE
        OBVIOUS
      <3> QED
        BY <1>11, <3>1, Zenon
    <2>2. CASE i \in Given /\ cmSlot'[i] = [uri |-> WaitingUri(Turn(i)), running |-> TRUE]
      BY <2>2
    <2>3. CASE i \notin Given /\ cmSlot'[i] = cmSlot[i]
      BY <1>11, <2>3
    <2> QED
      BY <1>7, <2>1, <2>2, <2>3
  <1>12. \A i, j \in 1..CmSlots : cmSlot'[i].running /\ cmSlot'[j].running /\ i # j =>
            cmSlot'[i].uri # cmSlot'[j].uri
    <2> SUFFICES ASSUME NEW i \in 1..CmSlots, NEW j \in 1..CmSlots,
                        cmSlot'[i].running, cmSlot'[j].running, i # j
                 PROVE  cmSlot'[i].uri # cmSlot'[j].uri
      OBVIOUS
    <2>1. /\ i \in Given => cmSlot'[i].uri = WaitingUri(Turn(i)) /\ Turn(i) \in 1..Len(cmWaiting)
          /\ j \in Given => cmSlot'[j].uri = WaitingUri(Turn(j)) /\ Turn(j) \in 1..Len(cmWaiting)
          /\ i \notin Given => cmSlot[i].running /\ cmSlot'[i].uri = cmSlot[i].uri
          /\ j \notin Given => cmSlot[j].running /\ cmSlot'[j].uri = cmSlot[j].uri
          /\ i \in Given /\ j \in Given => Turn(i) # Turn(j)
      BY <1>6, <1>8, <1>11
    <2> QED
      BY <1>9, <2>1 DEF Apart
  <1>13. \A i \in 1..CmSlots, j \in 1..Len(cmWaiting') :
            cmSlot'[i].running => cmSlot'[i].uri # WaitingUri(j)'
    <2> SUFFICES ASSUME NEW i \in 1..CmSlots, NEW j \in 1..Len(cmWaiting'), cmSlot'[i].running
                 PROVE  cmSlot'[i].uri # WaitingUri(n + j)
      BY <1>w
    <2>1. n + j \in 1..Len(cmWaiting) /\ n + j > n
      BY <1>1, <1>4, <1>w
    <2>2. CASE i \in Given /\ cmSlot'[i].uri = WaitingUri(Turn(i))
      <3>1. Turn(i) \in 1..Len(cmWaiting) /\ Turn(i) # n + j
        BY <1>1, <1>4, <1>6, <2>1, <2>2
      <3> QED
        BY <1>9, <2>1, <2>2, <3>1 DEF Apart
    <2>3. CASE cmSlot[i].running /\ cmSlot'[i].uri = cmSlot[i].uri
      BY <1>9, <2>1, <2>3 DEF Apart
    <2> QED
      BY <1>11, <2>2, <2>3
  <1>14. \A i, j \in 1..Len(cmWaiting') : i # j => WaitingUri(i)' # WaitingUri(j)'
    BY <1>1, <1>4, <1>9, <1>w DEF Apart
  <1>15. OneDownloadPerUri'
    BY <1>12, <1>13, <1>14 DEF OneDownloadPerUri, Waits, WaitingUri
  <1> QED
    BY <1>5, <1>10, <1>15

-----------------------------------------------------------------------------
(***************************************************************************)
(* The steps.                                                              *)
(***************************************************************************)
LEMMA EnqueueKeeps ==
    ASSUME RecordsOK, SlotTypes, OneDownloadPerUri, KeysOK, UNCHANGED <<cmSlot, cmNow>>,
           NEW uri \in CmUris, NEW key, Enqueue(uri, key)
    PROVE  RecordsOK' /\ SlotTypes' /\ OneDownloadPerUri' /\ KeysOK'
  <1>1. KeysOK'
    <2>1. CASE saveHTTPRequestKey(key, uri, TRUE)
      BY <2>1, KeysSave
    <2>2. CASE UNCHANGED <<cmMap, cmByTime>>
      BY <2>2 DEF KeysOK, Once
    <2> QED
      BY <2>1, <2>2 DEF Enqueue
  <1>2. CASE UNCHANGED <<cmFree, cmWaiting, cmUri>>
    <2>1. RecordsOK' /\ SlotTypes'
      BY <1>2 DEF RecordsOK, RequestsConserved, Once, SlotTypes
    <2>2. OneDownloadPerUri'
      BY <1>2 DEF OneDownloadPerUri, Waits
    <2> QED
      BY <1>1, <2>1, <2>2
  <1>3. CASE /\ uri \notin Named \cup Waits /\ cmFree # <<>>
             /\ cmUri' = [cmUri EXCEPT ![Head(cmFree)] = uri]
             /\ cmFree' = Tail(cmFree)
             /\ cmWaiting' = Append(cmWaiting, Head(cmFree))
    BY <1>1, <1>3, RecordsEnqueue, DownloadsEnqueue
  <1> QED
    BY <1>2, <1>3 DEF Enqueue

LEMMA CacheInit == CmInit => IInv
  <1> SUFFICES ASSUME CmInit PROVE IInv
    OBVIOUS
  <1>1. ClientsOK
    BY DEF CmInit, ClientsOK, Resting
  <1> QED
    BY <1>1, RecordsInit, DownloadsInit, KeysInit DEF IInv

LEMMA CacheStep == IInv /\ [CmNext]_cmVars => IInv'
  <1> SUFFICES ASSUME IInv, [CmNext]_cmVars PROVE IInv'
    OBVIOUS
  <1> DEFINE Queues == RecordsOK /\ SlotTypes /\ OneDownloadPerUri
             Frame == UNCHANGED <<cmFree, cmWaiting, cmUri, cmSlot>>
             Call == [at : {"none", "lock", "accepted"},
                      uri : CmUris \cup {NoUri}, key : CmKeys \cup {NoKey}]
  <1>0. /\ Queues /\ KeysOK /\ ClientsOK
        /\ cmClient \in [CmClients -> Call]
    BY DEF IInv, ClientsOK
  <1>q. Frame => Queues'
    <2> SUFFICES ASSUME Frame PROVE Queues'
      OBVIOUS
    <2>1. RecordsOK'
      BY <1>0 DEF RecordsOK, RequestsConserved, Once
    <2>2. SlotTypes' /\ OneDownloadPerUri'
      BY <1>0 DEF SlotTypes, OneDownloadPerUri, Waits
    <2> QED
      BY <2>1, <2>2
  <1>k. UNCHANGED <<cmMap, cmByTime, cmNow>> => KeysOK'
    BY <1>0 DEF KeysOK, Once
  <1>c. UNCHANGED cmClient => ClientsOK'
    BY <1>0 DEF ClientsOK
  <1>d. ASSUME NEW c \in CmClients, NEW r \in Call, r.at = "lock" => r.uri \in CmUris,
               cmClient' = [cmClient EXCEPT ![c] = r]
        PROVE  ClientsOK'
    BY <1>0, <1>d DEF ClientsOK
  <1>i. IInv' <=> Queues' /\ KeysOK' /\ ClientsOK'
    BY DEF IInv
  <1>r. Resting \in [at : {"none", "lock", "accepted"},
                     uri : CmUris \cup {NoUri}, key : CmKeys \cup {NoKey}]
        /\ Resting.at = "none"
    BY DEF Resting
  <1> HIDE DEF Queues, Call
  <1>1. ASSUME NEW c \in CmClients, NEW u \in CmUris, NEW k \in CmKeys \cup {NoKey},
               LookInCache(c, u, k)
        PROVE  IInv'
    <2>1. Frame /\ UNCHANGED cmNow
      BY <1>1 DEF LookInCache, Control
    <2>2. CASE u \in cmDone
      <3>1. saveHTTPRequestKey(k, u, TRUE) /\ UNCHANGED cmClient
        BY <1>1, <2>2 DEF LookInCache
      <3>2. KeysOK'
        BY <1>0, <2>1, <3>1, KeysSave
      <3> QED
        BY <1>c, <1>i, <1>q, <2>1, <3>1, <3>2
    <2>3. CASE u \notin cmDone
      <3> DEFINE r == [at |-> "lock", uri |-> u, key |-> k]
      <3>1. cmClient' = [cmClient EXCEPT ![c] = r] /\ UNCHANGED <<cmMap, cmByTime>>
        BY <1>1, <2>3 DEF LookInCache
      <3>2. r \in Call /\ r.uri \in CmUris
        BY DEF Call
      <3> HIDE DEF r
      <3>3. ClientsOK'
        BY <1>d, <3>1, <3>2
      <3> QED
        BY <1>i, <1>k, <1>q, <2>1, <3>1, <3>3
    <2> QED
      BY <2>2, <2>3
  <1>2. ASSUME NEW c \in CmClients, CacheContent(c)
        PROVE  IInv'
    <2> DEFINE r == IF Answered(cmClient[c].uri) THEN [cmClient[c] EXCEPT !.at = "accepted"]
                    ELSE Resting
    <2>1. cmClient[c] \in Call /\ cmClient[c].uri \in CmUris
      BY <1>0, <1>2 DEF CacheContent, ClientsOK
    <2>2. r \in Call /\ r.at # "lock"
      BY <1>r, <2>1 DEF Call
    <2>3. cmClient' = [cmClient EXCEPT ![c] = r]
      BY <1>0, <1>2 DEF CacheContent
    <2> HIDE DEF r
    <2>4. ClientsOK'
      BY <1>d, <2>2, <2>3
    <2>5. Enqueue(cmClient[c].uri, cmClient[c].key) /\ UNCHANGED <<cmSlot, cmNow>>
      BY <1>2 DEF CacheContent, Control
    <2>6. Queues' /\ KeysOK'
      BY <1>0, <2>1, <2>5, EnqueueKeeps DEF Queues
    <2> QED
      BY <1>i, <2>4, <2>6
  <1>3. ASSUME NEW c \in CmClients, ClientGoes(c)
        PROVE  IInv'
    <2>1. Frame /\ UNCHANGED <<cmMap, cmByTime, cmNow>>
      BY <1>3 DEF ClientGoes, Control
    <2>2. ClientsOK'
      BY <1>3, <1>d, <1>r DEF ClientGoes, Call
    <2> QED
      BY <1>i, <1>k, <1>q, <2>1, <2>2
  <1>4. ASSUME NEW c \in CmClients, NEW k \in CmKeys, UseKey(c, k)
        PROVE  IInv'
    <2> DEFINE u == cmMap[k].uri
               r == IF Answered(u) THEN [at |-> "accepted", uri |-> u, key |-> k] ELSE Resting
    <2>1. u \in CmUris
      BY <1>0, <1>4 DEF UseKey, KeysOK
    <2>2. UNCHANGED <<cmSlot, cmNow>>
      BY <1>4 DEF UseKey, Control
    <2>3. CASE u \in cmDone
      <3>1. Frame /\ UNCHANGED <<cmMap, cmByTime, cmNow, cmClient>>
        BY <1>4, <2>2, <2>3 DEF UseKey
      <3> QED
        BY <1>c, <1>i, <1>k, <1>q, <3>1
    <2>4. CASE u \notin cmDone
      <3>1. Enqueue(u, k) /\ cmClient' = [cmClient EXCEPT ![c] = r]
        BY <1>4, <2>4 DEF UseKey
      <3> HIDE DEF u
      <3>2. r \in Call /\ r.at # "lock"
        BY <1>r, <2>1 DEF Call
      <3> HIDE DEF r
      <3>3. ClientsOK'
        BY <1>d, <3>1, <3>2
      <3>4. Queues' /\ KeysOK'
        BY <1>0, <2>1, <2>2, <3>1, EnqueueKeeps DEF Queues
      <3> QED
        BY <1>i, <3>3, <3>4
    <2> QED
      BY <2>3, <2>4
  <1>5. ASSUME NEW c \in CmClients, NEW k \in CmKeys, markHTTPRequestKeyAsFailed(c, k)
        PROVE  IInv'
    <2>1. Frame /\ UNCHANGED <<cmNow, cmClient>>
      BY <1>5 DEF markHTTPRequestKeyAsFailed, Control
    <2>2. saveHTTPRequestKey(k, NoUri, FALSE)
      BY <1>5 DEF markHTTPRequestKeyAsFailed
    <2>3. KeysOK'
      BY <1>0, <2>1, <2>2, KeysSave
    <2> QED
      BY <1>c, <1>i, <1>q, <2>1, <2>3
  <1>6. CASE ManagerPass
    <2>1. UNCHANGED <<cmUri, cmClient, cmNow>> /\ HTTPRequestKeysRetention
      BY <1>6 DEF ManagerPass
    <2>2. KeysOK'
      BY <1>0, <2>1, KeysExpire
    <2>3. Queues'
      <3>1. CASE Frame
        BY <1>q, <3>1
      <3>2. CASE Assign
        BY <1>0, <2>1, <3>2, DownloadsAssign DEF Queues
      <3> QED
        BY <1>6, <3>1, <3>2 DEF ManagerPass
    <2> QED
      BY <1>c, <1>i, <2>1, <2>2, <2>3
  <1>7. ASSUME NEW i \in 1..CmSlots, DownloadEnds(i)
        PROVE  IInv'
    <2>1. /\ UNCHANGED <<cmFree, cmWaiting, cmUri, cmMap, cmByTime, cmNow, cmClient>>
          /\ cmSlot' = [cmSlot EXCEPT ![i].running = FALSE]
      BY <1>7 DEF DownloadEnds, Control
    <2>2. SlotTypes /\ RecordsOK /\ OneDownloadPerUri
      BY <1>0 DEF Queues
    <2>3. RecordsOK'
      BY <2>1, <2>2 DEF RecordsOK, RequestsConserved, Once
    <2>4. SlotTypes'
      BY <2>1, <2>2 DEF SlotTypes
    <2>5. \A j \in 1..CmSlots : cmSlot'[j].running =>
                cmSlot[j].running /\ cmSlot'[j].uri = cmSlot[j].uri
      BY <2>1, <2>2 DEF SlotTypes
    <2>6. OneDownloadPerUri'
      BY <2>1, <2>2, <2>5 DEF OneDownloadPerUri, Waits
    <2> QED
      BY <1>c, <1>i, <1>k, <2>1, <2>3, <2>4, <2>6 DEF Queues
  <1>8. CASE CmTick
    <2>1. Frame /\ UNCHANGED cmClient
      BY <1>8 DEF CmTick
    <2>2. KeysOK'
      <3>1. UNCHANGED <<cmMap, cmByTime>> /\ cmNow \in Nat /\ cmNow' = cmNow + 1
        BY <1>0, <1>8 DEF CmTick, KeysOK
      <3>2. \A k \in DOMAIN cmMap : cmMap[k].at \in Nat
        BY <1>0 DEF KeysOK
      <3>3. \A k \in DOMAIN cmMap : cmMap[k].at <= cmNow'
        BY <1>0, <3>1, <3>2 DEF KeysOK
      <3> QED
        BY <1>0, <3>1, <3>3 DEF KeysOK, Once
    <2> QED
      BY <1>c, <1>i, <1>q, <2>1, <2>2
  <1>9. CASE \/ StartManager \/ ManagerBegins \/ ManagerAsks \/ CancelManager
             \/ ManagerCancelled \/ UNCHANGED cmVars
    <2>1. Frame /\ UNCHANGED <<cmMap, cmByTime, cmNow, cmClient>>
      BY <1>9 DEF StartManager, ManagerBegins, ManagerAsks, CancelManager,
                  ManagerCancelled, cmVars
    <2> QED
      BY <1>c, <1>i, <1>k, <1>q, <2>1
  <1> QED
    BY <1>1, <1>2, <1>3, <1>4, <1>5, <1>6, <1>7, <1>8, <1>9 DEF CmNext

(***************************************************************************)
(* The inductive invariant: the records, the queue, the downloads and the  *)
(* two tables of keys.                                                     *)
(***************************************************************************)
THEOREM CacheInvariant == CmSpec => []IInv
  BY CacheInit, CacheStep, PTL DEF CmSpec

(***************************************************************************)
(* The records that are free and those that wait are all of them.          *)
(***************************************************************************)
LEMMA RecordsAreAll ==
    ASSUME RecordsOK
    PROVE  List!ToSet(cmFree) \cup List!ToSet(cmWaiting) = CmRequests
  <1> DEFINE m == Len(cmFree)
             n == Len(cmWaiting)
             s == cmFree \o cmWaiting
  <1>1. /\ cmFree \in Seq(CmRequests) /\ cmWaiting \in Seq(CmRequests)
        /\ m \in Nat /\ n \in Nat /\ m + n = Cardinality(CmRequests)
        /\ List!ToSet(cmFree) = {cmFree[i] : i \in 1..m}
        /\ List!ToSet(cmWaiting) = {cmWaiting[i] : i \in 1..n}
    BY ToSetFacts DEF RecordsOK, RequestsConserved
  <1>2. /\ s \in Seq(CmRequests) /\ Len(s) = m + n
        /\ \A i \in 1..m + n : s[i] = IF i <= m THEN cmFree[i] ELSE cmWaiting[i - m]
    BY <1>1, ConcatFacts
  <1>3. /\ \A i, j \in 1..m : cmFree[i] = cmFree[j] => i = j
        /\ \A i, j \in 1..n : cmWaiting[i] = cmWaiting[j] => i = j
        /\ \A i \in 1..m, j \in 1..n : cmFree[i] # cmWaiting[j]
    BY DEF RecordsOK, Once
  <1> HIDE DEF s
  <1>4. s \in [1..m + n -> CmRequests]
    BY <1>1, <1>2
  <1> HIDE DEF m, n
  <1>5. \A i \in 1..m + n : \/ i \in 1..m /\ s[i] = cmFree[i]
                            \/ i - m \in 1..n /\ s[i] = cmWaiting[i - m]
    BY <1>1, <1>2
  <1>6. ASSUME NEW i \in 1..m + n, NEW j \in 1..m + n, s[i] = s[j]
        PROVE  i = j
    <2>1. CASE i \in 1..m /\ s[i] = cmFree[i]
      BY <1>3, <1>5, <1>6, <2>1
    <2>2. CASE i - m \in 1..n /\ s[i] = cmWaiting[i - m]
      <3>1. CASE j \in 1..m /\ s[j] = cmFree[j]
        BY <1>3, <1>6, <2>2, <3>1
      <3>2. CASE j - m \in 1..n /\ s[j] = cmWaiting[j - m]
        <4>1. i - m = j - m
          BY <1>3, <1>6, <2>2, <3>2
        <4> QED
          BY <1>1, <4>1
      <3> QED
        BY <1>5, <3>1, <3>2
    <2> QED
      BY <1>5, <2>1, <2>2
  <1>7. s \in Injection(1..m + n, CmRequests)
    BY <1>4, <1>6 DEF Injection, IsInjective
  <1>8. IsFiniteSet(1..m + n) /\ Cardinality(1..m + n) = m + n
    <2>1. 1 \in Int /\ m + n \in Int /\ m + n - 1 + 1 = m + n /\ m + n >= 0
      BY <1>1
    <2> QED
      BY <2>1, FS_Interval
  <1>9. s \in Surjection(1..m + n, CmRequests)
    BY <1>1, <1>7, <1>8, CmAssumption, FS_Injection
  <1>10. \A r \in CmRequests : \E i \in 1..m + n : s[i] = r
    BY <1>9 DEF Surjection
  <1>11. \A i \in 1..m : cmFree[i] \in CmRequests
    BY <1>1 DEF m
  <1>12. \A i \in 1..n : cmWaiting[i] \in CmRequests
    BY <1>1 DEF n
  <1> QED
    BY <1>1, <1>5, <1>10, <1>11, <1>12

(***************************************************************************)
(* The thread of the manager is where the code takes it.                   *)
(***************************************************************************)
ManagerOK == cmThread \in {"none", "begin", "loop", "ask", "ended", "cancelled"}

LEMMA ManagerInvariant == CmSpec => []ManagerOK
  <1>1. CmInit => ManagerOK
    BY DEF CmInit, ManagerOK
  <1>2. ManagerOK /\ [CmNext]_cmVars => ManagerOK'
    BY DEF ManagerOK, CmNext, cmVars, Control, LookInCache, CacheContent, ClientGoes, UseKey,
           markHTTPRequestKeyAsFailed, StartManager, ManagerBegins, ManagerPass, ManagerAsks,
           DownloadEnds, CancelManager, ManagerCancelled, CmTick
  <1> QED
    BY <1>1, <1>2, PTL DEF CmSpec

(***************************************************************************)
(* No request record is lost, no URL is downloaded twice at a time, and    *)
(* the hash map and the multimap hold the same keys, the oldest first.     *)
(***************************************************************************)
THEOREM CacheIsConsistent == CmSpec => []CacheConsistent
  <1>1. IInv /\ ManagerOK => CacheConsistent
    BY KeysTwoTables, RecordsAreAll
    DEF IInv, RecordsOK, SlotTypes, ManagerOK, CmTypeOK, CacheConsistent
  <1> QED
    BY <1>1, CacheInvariant, ManagerInvariant, PTL

-----------------------------------------------------------------------------
(***************************************************************************)
(* The load balancer.  Every module is in one heap and once in the list of *)
(* its group, and the place that is selected goes around the group.        *)
(***************************************************************************)
GroupRecord == [name : {lbConfig[i].group : i \in 1..Len(lbConfig)}, modules : Seq(LbModules)]

\* The modules are allocated once, and an iterator is on a module of its group.
ListsOK ==
    /\ lbAll \in Seq(LbModules) /\ Once(lbAll)
    /\ lbHeap = Vector!ToSet(lbAll)
    /\ lbGroups \in Seq(GroupRecord)
    /\ \A g \in 1..Len(lbGroups) : Vector!ToSet(lbGroups[g].modules) \subseteq lbHeap
    /\ lbLast \in Seq(Nat) /\ Len(lbLast) = Len(lbGroups)
    /\ \A g \in 1..Len(lbGroups) : lbLast[g] = 1 \/ lbLast[g] \in 1..Len(lbGroups[g].modules)

Reading == {"privateHost", "privatePort", "publicHost", "publicPort", "url", "maxRequests", "insert"}
Built == {"check", "ready", "cancel"}

\* init is at an item that describes one more module.
PlaceOK ==
    /\ lbConfig \in LbConfigs
    /\ lbPc \in {"start", "count", "item", "values", "groupMutex", "itemFinish", "section",
                 "mutex", "finished", "failed", "noGroups"} \cup Reading \cup Built
    /\ lbItem \in Nat
    /\ lbPc = "item" => lbItem >= 1
    /\ lbPc \in Reading \cup {"values"} => lbItem \in 1..Len(lbConfig) /\ IsGroup(lbConfig[lbItem])
    /\ lbPc \in Reading => /\ lbGroups # <<>>
                           /\ lbConfig[lbItem].values % 6 = 0
                           /\ 6 * Len(lbGroups[Group].modules) < lbConfig[lbItem].values

\* A client is inside only while the groups are there.
WorkOK ==
    /\ lbStatus \in [LbModules -> [ok : BOOLEAN, timeout : BOOLEAN, at : Nat]]
    /\ lbHeld \in [LbModules -> {"free", "check", "probe"}]
    /\ lbThread \in {"none", "begin", "sleep", "check", "ended", "cancelled"}
    /\ lbNow \in 0..LbMaxTime
    /\ \/ lbClient = NoCall
       \/ /\ lbPc \in {"ready", "cancel"}
          /\ lbClient \in [at : {"scan", "return"}, group : 1..Len(lbGroups), tried : Nat, place : Nat]
          /\ lbClient.at = "scan" => lbClient.place = 0

\* The way from one place of n to another, all around for the place itself.
Ahead(p, q, n) == IF p < q THEN q - p ELSE q - p + n

\* Since a place was selected, the places the iterator has passed and those
\* that are down were selected or found down.
TurnsOf(since, modules, last, status) ==
    /\ since \in [1..Len(modules) -> SUBSET (1..Len(modules))]
    /\ \A p, q \in 1..Len(modules) : ~status[modules[q]].ok => q \in since[p]
    /\ \A p, q \in 1..Len(modules) :
          Ahead(p, q, Len(modules)) < Ahead(p, last, Len(modules)) => q \in since[p]

TurnsOK ==
    lbPc \in Built =>
        /\ lbSince = [g \in 1..Len(lbGroups) |-> lbSince[g]]
        /\ \A g \in 1..Len(lbGroups) :
              TurnsOf(lbSince[g], lbGroups[g].modules, lbLast[g], lbStatus)

LbInv == ListsOK /\ PlaceOK /\ WorkOK /\ TurnsOK

LEMMA VectorFacts ==
    ASSUME NEW S, NEW s \in Seq(S)
    PROVE  /\ Vector!ToSet(s) = {s[i] : i \in 1..Len(s)}
           /\ Len(s) \in Nat /\ \A i \in 1..Len(s) : s[i] \in S
  BY DEF Vector!ToSet

LEMMA NoVector == Vector!ToSet(<<>>) = {}
  BY DEF Vector!ToSet

-----------------------------------------------------------------------------
(***************************************************************************)
(* init: what a step leaves alone.                                         *)
(***************************************************************************)
LEMMA SameLists ==
    ASSUME ListsOK, UNCHANGED <<lbConfig, lbAll, lbHeap, lbGroups, lbLast>>
    PROVE  ListsOK'
  <1>1. GroupRecord' = GroupRecord
    BY DEF GroupRecord
  <1>2. Once(lbAll)'
    BY DEF ListsOK, Once
  <1> QED
    BY <1>1, <1>2 DEF ListsOK

\* A failing call of init and finish give every module back.
LEMMA ListsUndone ==
    ASSUME ListsOK, UNCHANGED lbConfig, lbAll' = <<>>, lbGroups' = <<>>, lbLast' = <<>>,
           lbHeap' = lbHeap \ Vector!ToSet(lbAll)
    PROVE  ListsOK'
  <1>1. lbHeap' = {}
    BY DEF ListsOK
  <1>2. Len(lbAll') = 0 /\ Len(lbGroups') = 0 /\ Len(lbLast') = 0
    OBVIOUS
  <1>3. lbAll' \in Seq(LbModules) /\ lbGroups' \in Seq(GroupRecord') /\ lbLast' \in Seq(Nat)
    OBVIOUS
  <1> QED
    BY <1>1, <1>2, <1>3, NoVector DEF ListsOK, Once

LEMMA SameWork ==
    ASSUME WorkOK, lbPc \notin {"ready", "cancel"},
           UNCHANGED <<lbStatus, lbHeld, lbThread, lbNow, lbClient>>
    PROVE  WorkOK'
  BY DEF WorkOK

LEMMA NotBuilt ==
    ASSUME lbPc' \notin Built
    PROVE  TurnsOK'
  BY DEF TurnsOK

LEMMA UndoKeeps ==
    ASSUME LbInv, lbPc \notin {"ready", "cancel"}, UndoInit
    PROVE  LbInv'
  <1>1. ListsOK'
    BY ListsUndone DEF LbInv, UndoInit
  <1>2. PlaceOK'
    BY DEF LbInv, UndoInit, PlaceOK, Reading
  <1>3. WorkOK'
    BY SameWork DEF LbInv, UndoInit, lbWorkVars
  <1>4. TurnsOK'
    BY NotBuilt DEF UndoInit, Built
  <1> QED
    BY <1>1, <1>2, <1>3, <1>4 DEF LbInv

\* A step of init that leaves the lists as they are and what the threads use.
LEMMA InitStepKeeps ==
    ASSUME LbInv, lbPc \notin {"ready", "cancel"}, lbPc' \notin Built, PlaceOK',
           UNCHANGED <<lbConfig, lbAll, lbHeap, lbGroups, lbLast, lbWorkVars>>
    PROVE  LbInv'
  <1>1. ListsOK'
    BY SameLists DEF LbInv
  <1>2. WorkOK'
    BY SameWork DEF LbInv, lbWorkVars
  <1> QED
    BY <1>1, <1>2, NotBuilt DEF LbInv

LEMMA ReadsKeeps ==
    ASSUME LbInv, NEW from \in Reading \cup {"section"}, NEW to,
           to \in Reading \/ to = "mutex", from \in Reading <=> to \in Reading,
           Reads(from, to)
    PROVE  LbInv'
  <1>1. lbPc = from /\ lbPc \notin {"ready", "cancel"}
    BY DEF Reads, At, Fails, Reading
  <1>2. CASE UndoInit
    BY <1>1, <1>2, UndoKeeps
  <1>3. CASE At(from) /\ lbPc' = to /\ UNCHANGED <<lbItem, lbAll, lbGroups, lbLast, lbHeap, lbLocks>>
    <2>1. PlaceOK'
      BY <1>1, <1>3 DEF LbInv, PlaceOK, At, Reading, Group
    <2>2. lbPc' \notin Built
      BY <1>3 DEF Reading, Built
    <2> QED
      BY <1>1, <1>3, <2>1, <2>2, InitStepKeeps DEF At
  <1> QED
    BY <1>2, <1>3 DEF Reads, Fails

\* The element of a set of numbers that CHOOSE names is its first.
LEMMA LeastIsIn ==
    ASSUME NEW S, S \subseteq Nat, S # {}
    PROVE  /\ (CHOOSE i \in S : \A j \in S : i <= j) \in S
           /\ \A k \in S : (CHOOSE i \in S : \A j \in S : i <= j) <= k
  <1>1. PICK i \in S : \A j \in S : ~ (<<j, i>> \in OpToRel(<, Nat))
    BY NatLessThanWellFounded, WFMin
  <1>2. \A j \in S : j \in Nat /\ i \in Nat /\ ~ (j < i)
    BY <1>1 DEF OpToRel
  <1>3. \A j \in S : i <= j
    BY <1>2
  <1> QED
    BY <1>3

LEMMA ItemsKeep ==
    ASSUME LbInv, InitParameters \/ CountGroups \/ NextGroupItem \/ ItemFinish
    PROVE  LbInv'
  <1>1. lbPc \in {"start", "count", "item", "itemFinish"} /\ lbPc \notin {"ready", "cancel"}
    BY DEF InitParameters, CountGroups, NextGroupItem, ItemFinish, At, Fails
  <1>2. CASE UndoInit
    BY <1>1, <1>2, UndoKeeps
  <1>3. CASE InitParameters /\ ~UndoInit
    <2>1. PlaceOK' /\ lbPc' \notin Built
      BY <1>3 DEF InitParameters, Fails, At, LbInv, PlaceOK, Reading, Built
    <2> QED
      BY <1>1, <1>3, <2>1, InitStepKeeps DEF InitParameters, Fails, At
  <1>4. CASE CountGroups /\ ~UndoInit
    <2>1. PlaceOK' /\ lbPc' \notin Built
      BY <1>4 DEF CountGroups, Fails, At, LbInv, PlaceOK, Reading, Built
    <2> QED
      BY <1>1, <1>4, <2>1, InitStepKeeps DEF CountGroups, Fails, At
  <1>5. CASE ItemFinish /\ ~UndoInit
    <2>1. PlaceOK' /\ lbPc' \notin Built
      BY <1>5 DEF ItemFinish, Fails, At, LbInv, PlaceOK, Reading, Built
    <2> QED
      BY <1>1, <1>5, <2>1, InitStepKeeps DEF ItemFinish, Fails, At
  <1>6. CASE NextGroupItem /\ ~UndoInit
    <2> DEFINE later == {i \in lbItem..Len(lbConfig) : IsGroup(lbConfig[i])}
    <2>1. /\ At("item") /\ UNCHANGED <<lbAll, lbGroups, lbLast, lbHeap, lbLocks>>
          /\ \/ later = {} /\ lbPc' = "section" /\ UNCHANGED lbItem
             \/ /\ later # {}
                /\ lbItem' = CHOOSE i \in later : \A j \in later : i <= j
                /\ lbPc' = "values"
      BY <1>6 DEF NextGroupItem, Fails
    <2>2. lbItem \in Nat /\ lbItem >= 1 /\ Len(lbConfig) \in Nat /\ lbConfig' = lbConfig
      BY <2>1, LbAssumption DEF At, LbInv, PlaceOK
    <2>3. later \subseteq Nat
      BY <2>2
    <2>4. ASSUME later # {}, lbPc' = "values" PROVE PlaceOK'
      <3>1. lbItem' \in later
        BY <2>1, <2>3, <2>4, LeastIsIn
      <3>2. lbItem' \in 1..Len(lbConfig) /\ IsGroup(lbConfig[lbItem'])
        BY <2>2, <3>1
      <3> QED
        BY <2>2, <2>4, <3>2 DEF LbInv, PlaceOK, Reading, Built
    <2>5. ASSUME lbPc' = "section", UNCHANGED lbItem PROVE PlaceOK'
      BY <2>2, <2>5 DEF LbInv, PlaceOK, Reading, Built
    <2>6. PlaceOK'
      BY <2>1, <2>4, <2>5
    <2>7. PlaceOK' /\ lbPc' \notin Built
      BY <2>1, <2>6 DEF Built
    <2> QED
      BY <1>1, <2>1, <2>7, InitStepKeeps DEF At
  <1> QED
    BY <1>2, <1>3, <1>4, <1>5, <1>6

LEMMA ItemValuesKeeps ==
    ASSUME LbInv, ItemValues
    PROVE  LbInv'
  <1>1. lbPc = "values" /\ lbPc \notin {"ready", "cancel"}
    BY DEF ItemValues, At, Fails
  <1>2. CASE UndoInit
    BY <1>1, <1>2, UndoKeeps
  <1>3. CASE ~UndoInit
    <2> DEFINE item == lbConfig[lbItem]
               new == [name |-> item.group, modules |-> <<>>]
               n == Len(lbGroups)
    <2>1. /\ UNCHANGED <<lbConfig, lbWorkVars, lbItem, lbAll, lbHeap>> /\ item.values % 6 = 0
          /\ lbGroups' = Append(lbGroups, new) /\ lbLast' = Append(lbLast, 1)
          /\ lbPc' = IF item.values = 0 THEN "itemFinish" ELSE "privateHost"
      BY <1>3 DEF ItemValues, At, Fails
    <2>2. /\ lbItem \in 1..Len(lbConfig) /\ IsGroup(item) /\ lbConfig \in LbConfigs
          /\ IsItem(item)
      BY <1>1, LbAssumption DEF LbInv, PlaceOK
    <2>3. new \in GroupRecord /\ new.modules = <<>> /\ Len(new.modules) = 0
      BY <2>2 DEF GroupRecord
    <2> HIDE DEF new
    <2>4. /\ lbGroups' \in Seq(GroupRecord) /\ Len(lbGroups') = n + 1 /\ n \in Nat
          /\ \A g \in 1..n : lbGroups'[g] = lbGroups[g]
          /\ lbGroups'[n + 1] = new
      BY <2>1, <2>3, AppendFacts DEF LbInv, ListsOK
    <2>5. /\ lbLast' \in Seq(Nat) /\ Len(lbLast') = n + 1
          /\ \A g \in 1..n : lbLast'[g] = lbLast[g]
          /\ lbLast'[n + 1] = 1
      BY <2>1, AppendFacts DEF LbInv, ListsOK
    <2>6. \A g \in 1..(n + 1) : g \in 1..n \/ g = n + 1
      BY <2>4
    <2>7. ListsOK'
      <3>1. GroupRecord' = GroupRecord
        BY <2>1 DEF GroupRecord
      <3>2. \A g \in 1..(n + 1) : Vector!ToSet(lbGroups'[g].modules) \subseteq lbHeap
        BY <2>3, <2>4, <2>6, NoVector DEF LbInv, ListsOK
      <3>3. \A g \in 1..(n + 1) : lbLast'[g] = 1 \/ lbLast'[g] \in 1..Len(lbGroups'[g].modules)
        BY <2>4, <2>5, <2>6 DEF LbInv, ListsOK
      <3> QED
        BY <2>1, <2>4, <2>5, <3>1, <3>2, <3>3 DEF LbInv, ListsOK, Once
    <2>8. PlaceOK'
      <3>1. item.values \in Nat
        BY <2>2 DEF IsItem
      <3>2. lbGroups' # <<>> /\ Len(lbGroups'[Group'].modules) = 0
        BY <2>3, <2>4 DEF Group
      <3>3. CASE item.values = 0
        BY <2>1, <2>2, <3>3 DEF LbInv, PlaceOK, Reading, Built
      <3>4. CASE item.values # 0
        <4>1. lbPc' = "privateHost" /\ 6 * Len(lbGroups'[Group'].modules) < item.values
          BY <2>1, <3>1, <3>2, <3>4
        <4> QED
          BY <2>1, <2>2, <3>2, <4>1 DEF LbInv, PlaceOK, Reading, Built
      <3> QED
        BY <3>3, <3>4
    <2>9. WorkOK' /\ TurnsOK'
      BY <1>1, <2>1, SameWork, NotBuilt DEF LbInv, lbWorkVars, Built
    <2> QED
      BY <2>7, <2>8, <2>9 DEF LbInv
  <1> QED
    BY <1>2, <1>3

\* A module is put behind those of the group that is being read.
LEMMA IntoGroupFacts ==
    ASSUME ListsOK, lbGroups # <<>>, NEW m \in LbModules, IntoGroup(m)
    PROVE  /\ lbGroups' \in Seq(GroupRecord) /\ Len(lbGroups') = Len(lbGroups)
           /\ Group \in 1..Len(lbGroups)
           /\ lbGroups'[Group].modules = Append(lbGroups[Group].modules, m)
           /\ \A g \in 1..Len(lbGroups) : g # Group => lbGroups'[g] = lbGroups[g]
           /\ \A g \in 1..Len(lbGroups) : lbGroups[g].modules \in Seq(LbModules)
  <1>1. lbGroups \in Seq(GroupRecord) /\ Group \in 1..Len(lbGroups)
    BY DEF ListsOK, Group
  <1>2. \A g \in 1..Len(lbGroups) : lbGroups[g] \in GroupRecord
    BY <1>1
  <1> DEFINE r == [lbGroups[Group] EXCEPT !.modules = Append(@, m)]
  <1>a. lbGroups[Group] \in GroupRecord
    BY <1>1, <1>2
  <1>b. lbGroups[Group].modules \in Seq(LbModules)
    BY <1>a DEF GroupRecord
  <1>c. Append(lbGroups[Group].modules, m) \in Seq(LbModules)
    BY <1>b, AppendFacts
  <1>3. /\ r \in GroupRecord
        /\ r.modules = Append(lbGroups[Group].modules, m)
    BY <1>a, <1>c DEF GroupRecord
  <1>4. lbGroups' = [lbGroups EXCEPT ![Group] = r]
    BY DEF IntoGroup
  <1> HIDE DEF r
  <1>5. /\ lbGroups' \in Seq(GroupRecord) /\ Len(lbGroups') = Len(lbGroups)
        /\ lbGroups'[Group] = r
        /\ \A g \in 1..Len(lbGroups) : g # Group => lbGroups'[g] = lbGroups[g]
    BY <1>1, <1>3, <1>4
  <1> QED
    BY <1>1, <1>2, <1>3, <1>5 DEF GroupRecord

LEMMA ModuleKeeps ==
    ASSUME LbInv, FindModule \/ NewModule
    PROVE  LbInv'
  <1>1. lbPc = "insert" /\ lbPc \notin {"ready", "cancel"} /\ lbPc \in Reading
    BY DEF FindModule, NewModule, At, Fails, Reading
  <1>2. CASE UndoInit
    BY <1>1, <1>2, UndoKeeps
  <1>3. CASE ~UndoInit
    <2> DEFINE item == lbConfig[lbItem]
               n == Len(lbGroups[Group].modules)
    <2>1. /\ lbItem \in 1..Len(lbConfig) /\ IsGroup(item) /\ lbConfig \in LbConfigs
          /\ lbGroups # <<>> /\ item.values % 6 = 0 /\ 6 * n < item.values
      BY <1>1 DEF LbInv, PlaceOK
    <2>2. IsItem(item)
      BY <2>1, LbAssumption
    <2>3. item.values = 6 * Len(item.modules) /\ item.modules \in Seq(LbModules)
      BY <2>1, <2>2 DEF IsItem
    <2>4. Group \in 1..Len(lbGroups) /\ lbGroups[Group].modules \in Seq(LbModules) /\ n \in Nat
      <3>1. lbGroups \in Seq(GroupRecord) /\ Group \in 1..Len(lbGroups)
        BY <2>1 DEF LbInv, ListsOK, Group
      <3>2. lbGroups[Group] \in GroupRecord
        BY <3>1
      <3>3. lbGroups[Group].modules \in Seq(LbModules)
        BY <3>2 DEF GroupRecord
      <3> QED
        BY <3>1, <3>3
    <2>5. Described \in LbModules
      <3>1. Len(item.modules) \in Nat
        BY <2>3
      <3>2. n + 1 \in 1..Len(item.modules)
        BY <2>1, <2>3, <2>4, <3>1
      <3> QED
        BY <2>3, <3>2 DEF Described
    <2>6. /\ IntoGroup(Described) /\ AfterModule
          /\ UNCHANGED <<lbConfig, lbWorkVars, lbItem, lbLast>>
          /\ \/ Described \in Vector!ToSet(lbAll) /\ UNCHANGED <<lbAll, lbHeap>>
             \/ /\ Described \notin Vector!ToSet(lbAll)
                /\ lbHeap' = lbHeap \cup {Described}
                /\ lbAll' = Append(lbAll, Described)
      BY <1>3 DEF FindModule, NewModule, At, Fails
    <2>d. PICK m \in LbModules : m = Described
      BY <2>5
    <2>7. /\ lbGroups' \in Seq(GroupRecord) /\ Len(lbGroups') = Len(lbGroups)
          /\ lbGroups'[Group].modules = Append(lbGroups[Group].modules, m)
          /\ \A g \in 1..Len(lbGroups) : g # Group => lbGroups'[g] = lbGroups[g]
          /\ \A g \in 1..Len(lbGroups) : lbGroups[g].modules \in Seq(LbModules)
      BY <2>1, <2>6, <2>d, IntoGroupFacts DEF LbInv
    <2>8. /\ lbAll' \in Seq(LbModules) /\ Once(lbAll')
          /\ lbHeap' = Vector!ToSet(lbAll')
          /\ lbHeap \subseteq lbHeap' /\ m \in lbHeap'
      <3>0. /\ lbAll \in Seq(LbModules) /\ Once(lbAll) /\ lbHeap = Vector!ToSet(lbAll)
            /\ Len(lbAll) \in Nat
            /\ Vector!ToSet(lbAll) = {lbAll[i] : i \in 1..Len(lbAll)}
        BY VectorFacts DEF LbInv, ListsOK
      <3>1. CASE m \in Vector!ToSet(lbAll) /\ UNCHANGED <<lbAll, lbHeap>>
        BY <3>0, <3>1
      <3>2. CASE /\ m \notin Vector!ToSet(lbAll)
                 /\ lbHeap' = lbHeap \cup {m}
                 /\ lbAll' = Append(lbAll, m)
        <4>1. /\ lbAll' \in Seq(LbModules) /\ Len(lbAll') = Len(lbAll) + 1
              /\ \A i \in 1..Len(lbAll) : lbAll'[i] = lbAll[i]
              /\ lbAll'[Len(lbAll) + 1] = m
          BY <3>0, <3>2, AppendFacts
        <4>2. Vector!ToSet(lbAll') = {lbAll'[i] : i \in 1..Len(lbAll')}
          BY <4>1, VectorFacts
        <4>3. \A i \in 1..Len(lbAll') : i = Len(lbAll) + 1 \/ i \in 1..Len(lbAll)
          BY <3>0, <4>1
        <4>4. Vector!ToSet(lbAll') = lbHeap \cup {m}
          <5>1. \A x \in Vector!ToSet(lbAll') : x \in lbHeap \cup {m}
            BY <3>0, <4>1, <4>2, <4>3
          <5>2. \A x \in lbHeap \cup {m} : x \in Vector!ToSet(lbAll')
            <6>1. 1..Len(lbAll) \subseteq 1..Len(lbAll') /\ Len(lbAll) + 1 \in 1..Len(lbAll')
              BY <3>0, <4>1
            <6> QED
              BY <3>0, <4>1, <4>2, <6>1
          <5> QED
            BY <5>1, <5>2
        <4>5. Once(lbAll')
          <5> SUFFICES ASSUME NEW i \in 1..Len(lbAll'), NEW j \in 1..Len(lbAll'), lbAll'[i] = lbAll'[j]
                       PROVE  i = j
            BY DEF Once
          <5>1. \A k \in 1..Len(lbAll) : lbAll'[k] # m
            BY <3>0, <3>2, <4>1
          <5>2. CASE i \in 1..Len(lbAll) /\ j \in 1..Len(lbAll)
            BY <3>0, <4>1, <5>2 DEF Once
          <5>3. CASE ~(i \in 1..Len(lbAll) /\ j \in 1..Len(lbAll))
            BY <4>1, <4>3, <5>1, <5>3
          <5> QED
            BY <5>2, <5>3
        <4> QED
          BY <3>2, <4>1, <4>4, <4>5
      <3> QED
        BY <2>6, <2>d, <3>1, <3>2
    <2>9. /\ Len(lbGroups'[Group].modules) = n + 1
          /\ \A i \in 1..n : lbGroups'[Group].modules[i] = lbGroups[Group].modules[i]
          /\ lbGroups'[Group].modules[n + 1] = m
          /\ lbGroups'[Group].modules \in Seq(LbModules)
      BY <2>4, <2>7, AppendFacts
    <2>10. \A g \in 1..Len(lbGroups) : Vector!ToSet(lbGroups'[g].modules) \subseteq lbHeap'
      <3>0. \A g \in 1..Len(lbGroups) : Vector!ToSet(lbGroups[g].modules) \subseteq lbHeap
        BY DEF LbInv, ListsOK
      <3>1. Vector!ToSet(lbGroups'[Group].modules) \subseteq lbHeap'
        <4>1. /\ Vector!ToSet(lbGroups'[Group].modules)
                    = {lbGroups'[Group].modules[i] : i \in 1..Len(lbGroups'[Group].modules)}
              /\ Vector!ToSet(lbGroups[Group].modules) = {lbGroups[Group].modules[i] : i \in 1..n}
          BY <2>4, <2>9, VectorFacts
        <4>2. \A i \in 1..(n + 1) : i = n + 1 \/ i \in 1..n
          BY <2>4
        <4>3. \A i \in 1..(n + 1) : lbGroups'[Group].modules[i] \in lbHeap'
          BY <2>4, <2>8, <2>9, <3>0, <4>1, <4>2
        <4> QED
          BY <2>9, <4>1, <4>3
      <3>2. ASSUME NEW g \in 1..Len(lbGroups), g # Group
            PROVE  Vector!ToSet(lbGroups'[g].modules) \subseteq lbHeap'
        BY <2>7, <2>8, <3>0, <3>2
      <3> QED
        BY <3>1, <3>2
    <2>11. \A g \in 1..Len(lbGroups) : lbLast[g] = 1 \/ lbLast[g] \in 1..Len(lbGroups'[g].modules)
      <3>0. \A g \in 1..Len(lbGroups) : lbLast[g] = 1 \/ lbLast[g] \in 1..Len(lbGroups[g].modules)
        BY DEF LbInv, ListsOK
      <3>1. 1..n \subseteq 1..(n + 1)
        BY <2>4
      <3> QED
        BY <2>4, <2>7, <2>9, <3>0, <3>1
    <2>12. ListsOK'
      <3>1. GroupRecord' = GroupRecord
        BY <2>6 DEF GroupRecord
      <3> QED
        BY <2>6, <2>7, <2>8, <2>10, <2>11, <3>1 DEF LbInv, ListsOK
    <2>13. PlaceOK'
      <3>1. Group' = Group /\ lbGroups' # <<>>
        BY <2>4, <2>7 DEF Group
      <3>2. \/ lbPc' = "groupMutex"
            \/ lbPc' = "privateHost" /\ 6 * Len(lbGroups'[Group'].modules) < item.values
        BY <2>6, <2>9, <3>1 DEF AfterModule
      <3> QED
        BY <2>1, <2>6, <3>1, <3>2 DEF LbInv, PlaceOK, Reading, Built
    <2>14. WorkOK' /\ TurnsOK'
      <3>1. lbPc' \notin Built
        BY <2>6 DEF AfterModule, Built
      <3> QED
        BY <1>1, <2>6, <3>1, SameWork, NotBuilt DEF LbInv, lbWorkVars
    <2> QED
      BY <2>12, <2>13, <2>14 DEF LbInv
  <1> QED
    BY <1>2, <1>3

LEMMA EndOfInitKeeps ==
    ASSUME LbInv, GroupMutex \/ InitMutex \/ InitThread
    PROVE  LbInv'
  <1>1. lbPc \in {"groupMutex", "mutex", "check"} /\ lbPc \notin {"ready", "cancel"}
    BY DEF GroupMutex, InitMutex, InitThread, At, Fails
  <1>2. CASE UndoInit
    BY <1>1, <1>2, UndoKeeps
  <1>3. CASE GroupMutex /\ ~UndoInit
    <2>1. PlaceOK' /\ lbPc' \notin Built
      BY <1>3 DEF GroupMutex, Fails, At, LbInv, PlaceOK, Reading, Built
    <2> QED
      BY <1>1, <1>3, <2>1, InitStepKeeps DEF GroupMutex, Fails, At
  <1>4. CASE InitMutex /\ ~UndoInit
    <2>1. /\ lbPc' = "check"
          /\ lbSince' = [g \in 1..Len(lbGroups) |->
                  [p \in 1..Len(lbGroups[g].modules) |-> 1..Len(lbGroups[g].modules)]]
          /\ UNCHANGED <<lbConfig, lbItem, lbAll, lbGroups, lbLast, lbHeap, lbStatus, lbHeld,
                         lbThread, lbClient, lbNow>>
      BY <1>4 DEF InitMutex, Fails
    <2>2. ListsOK' /\ WorkOK'
      BY <1>1, <2>1, SameLists, SameWork DEF LbInv
    <2>3. PlaceOK'
      BY <2>1 DEF LbInv, PlaceOK, Reading, Built
    <2>4. ASSUME NEW g \in 1..Len(lbGroups)
          PROVE  TurnsOf(lbSince'[g], lbGroups[g].modules, lbLast[g], lbStatus)
      BY <2>1 DEF TurnsOf
    <2>5. TurnsOK'
      BY <2>1, <2>4 DEF TurnsOK
    <2> QED
      BY <2>2, <2>3, <2>5 DEF LbInv
  <1>5. CASE InitThread /\ ~UndoInit
    <2>1. /\ lbPc = "check" /\ lbPc' = "ready"
          /\ UNCHANGED <<lbConfig, lbItem, lbAll, lbGroups, lbLast, lbHeap, lbWorkVars>>
      BY <1>5 DEF InitThread, Fails, At
    <2>2. ListsOK' /\ WorkOK'
      BY <1>1, <2>1, SameLists, SameWork DEF LbInv, lbWorkVars
    <2>3. PlaceOK'
      BY <2>1 DEF LbInv, PlaceOK, Reading, Built
    <2>4. TurnsOK'
      BY <2>1 DEF LbInv, TurnsOK, Built, lbWorkVars
    <2> QED
      BY <2>2, <2>3, <2>4 DEF LbInv
  <1> QED
    BY <1>2, <1>3, <1>4, <1>5

LEMMA InitNextKeeps ==
    ASSUME LbInv, LbInitNext
    PROVE  LbInv'
  <1>1. CASE ReadPrivateHost
    BY <1>1, ReadsKeeps DEF ReadPrivateHost, Reading
  <1>2. CASE ReadPrivatePort
    BY <1>2, ReadsKeeps DEF ReadPrivatePort, Reading
  <1>3. CASE ReadPublicHost
    BY <1>3, ReadsKeeps DEF ReadPublicHost, Reading
  <1>4. CASE ReadPublicPort
    BY <1>4, ReadsKeeps DEF ReadPublicPort, Reading
  <1>5. CASE ReadURL
    BY <1>5, ReadsKeeps DEF ReadURL, Reading
  <1>6. CASE ReadMaxRequests
    BY <1>6, ReadsKeeps DEF ReadMaxRequests, Reading
  <1>7. CASE SectionFinish
    BY <1>7, ReadsKeeps DEF SectionFinish, Reading
  <1> QED
    BY <1>1, <1>2, <1>3, <1>4, <1>5, <1>6, <1>7, ItemsKeep, ItemValuesKeeps, ModuleKeeps,
       EndOfInitKeeps DEF LbInitNext

-----------------------------------------------------------------------------
(***************************************************************************)
(* The checks of the modules.                                              *)
(***************************************************************************)
Status == [ok : BOOLEAN, timeout : BOOLEAN, at : Nat]

LEMMA CheckedIsModule ==
    ASSUME LbInv, lbCheck \in 1..Len(lbAll)
    PROVE  Checked \in LbModules
  BY DEF LbInv, ListsOK, Checked

LEMMA SameInit ==
    ASSUME LbInv, UNCHANGED lbInitVars
    PROVE  ListsOK' /\ PlaceOK'
  <1>1. ListsOK'
    BY SameLists DEF LbInv, lbInitVars
  <1>2. PlaceOK'
    BY DEF LbInv, lbInitVars, PlaceOK, Group
  <1> QED
    BY <1>1, <1>2

\* The turns only depend on which modules are down.
LEMMA SameTurns ==
    ASSUME LbInv, UNCHANGED <<lbGroups, lbLast, lbSince>>, lbPc' \in Built => lbPc \in Built,
           \A m \in LbModules : lbStatus'[m].ok = lbStatus[m].ok
    PROVE  TurnsOK'
  <1> SUFFICES ASSUME lbPc' \in Built PROVE TurnsOK'
    BY DEF TurnsOK
  <1>1. TurnsOK /\ lbPc \in Built
    BY DEF LbInv
  <1>2. ASSUME NEW g \in 1..Len(lbGroups)
        PROVE  TurnsOf(lbSince[g], lbGroups[g].modules, lbLast[g], lbStatus')
    <2>1. TurnsOf(lbSince[g], lbGroups[g].modules, lbLast[g], lbStatus)
      BY <1>1 DEF TurnsOK
    <2>2. lbGroups[g].modules \in Seq(LbModules)
      <3>1. lbGroups[g] \in GroupRecord
        BY DEF LbInv, ListsOK
      <3> QED
        BY <3>1 DEF GroupRecord
    <2>3. \A q \in 1..Len(lbGroups[g].modules) :
                lbStatus'[lbGroups[g].modules[q]].ok = lbStatus[lbGroups[g].modules[q]].ok
      BY <2>2
    <2> QED
      BY <2>1, <2>3 DEF TurnsOf
  <1> QED
    BY <1>1, <1>2 DEF TurnsOK

\* The result of a check of a module, with what it tells the places that wait.
LEMMA CheckEndsKeeps ==
    ASSUME LbInv, lbCheck \in 1..Len(lbAll), CheckOther,
           NEW ok \in BOOLEAN, NEW timeout \in BOOLEAN, CheckEnds(ok, timeout)
    PROVE  LbInv'
  <1>1. ListsOK' /\ PlaceOK'
    BY SameInit DEF CheckOther
  <1>2. PICK m \in LbModules : m = Checked
    BY CheckedIsModule
  <1>3. /\ lbStatus' = [lbStatus EXCEPT ![m].ok = ok, ![m].timeout = timeout]
        /\ lbHeld' = [lbHeld EXCEPT ![m] = "free"]
        /\ lbSince' = IF ok THEN lbSince
                      ELSE [g \in DOMAIN lbSince |-> [p \in DOMAIN lbSince[g] |->
                              lbSince[g][p] \cup Places(m, g)]]
        /\ UNCHANGED <<lbPc, lbGroups, lbLast, lbThread, lbNow, lbClient>>
    BY <1>2 DEF CheckEnds, CheckOther, lbInitVars
  <1>4. lbStatus \in [LbModules -> Status] /\ lbHeld \in [LbModules -> {"free", "check", "probe"}]
    BY DEF LbInv, WorkOK, Status
  <1>5. /\ lbStatus' \in [LbModules -> Status] /\ lbStatus'[m].ok = ok
        /\ \A x \in LbModules : x # m => lbStatus'[x] = lbStatus[x]
    <2> DEFINE a == [lbStatus[m] EXCEPT !.ok = ok]
               b == [a EXCEPT !.timeout = timeout]
    <2>1. a \in Status
      BY <1>4 DEF Status
    <2>2. b \in Status /\ b.ok = ok
      BY <2>1 DEF Status
    <2>3. lbStatus' = [lbStatus EXCEPT ![m] = b]
      BY <1>3, <1>4 DEF Status
    <2> HIDE DEF a, b
    <2> QED
      BY <1>4, <2>2, <2>3
  <1>6. WorkOK'
    <2>1. lbHeld' \in [LbModules -> {"free", "check", "probe"}]
      BY <1>3, <1>4
    <2> QED
      BY <1>3, <1>5, <2>1 DEF LbInv, WorkOK, Status
  <1>7. ASSUME lbPc \in Built, NEW g \in 1..Len(lbGroups)
        PROVE  /\ g \in DOMAIN lbSince' /\ DOMAIN lbSince' = 1..Len(lbGroups)
               /\ TurnsOf(lbSince'[g], lbGroups[g].modules, lbLast[g], lbStatus')
    <2> DEFINE ms == lbGroups[g].modules
    <2>1. /\ lbSince = [h \in 1..Len(lbGroups) |-> lbSince[h]]
          /\ TurnsOf(lbSince[g], ms, lbLast[g], lbStatus)
      BY <1>7 DEF LbInv, TurnsOK
    <2>2. /\ lbSince[g] \in [1..Len(ms) -> SUBSET (1..Len(ms))]
          /\ \A p, q \in 1..Len(ms) : ~lbStatus[ms[q]].ok => q \in lbSince[g][p]
          /\ \A p, q \in 1..Len(ms) :
                Ahead(p, q, Len(ms)) < Ahead(p, lbLast[g], Len(ms)) => q \in lbSince[g][p]
      BY <2>1 DEF TurnsOf
    <2>3. \A q \in 1..Len(ms) : ms[q] \in LbModules
      <3>1. lbGroups[g] \in GroupRecord
        BY DEF LbInv, ListsOK
      <3> QED
        BY <3>1 DEF GroupRecord
    <2>4. Places(m, g) \subseteq 1..Len(ms) /\ \A q \in 1..Len(ms) : ms[q] = m => q \in Places(m, g)
      BY DEF Places
    <2>5. DOMAIN lbSince' = 1..Len(lbGroups)
      BY <1>3, <2>1
    <2>6. CASE ok
      <3>1. lbSince' = lbSince
        BY <1>3, <2>6
      <3>2. \A p, q \in 1..Len(ms) : ~lbStatus'[ms[q]].ok => q \in lbSince[g][p]
        BY <1>5, <2>2, <2>3, <2>6
      <3> QED
        BY <2>2, <2>5, <3>1, <3>2 DEF TurnsOf
    <2>7. CASE ~ok
      <3>1. lbSince'[g] = [p \in 1..Len(ms) |-> lbSince[g][p] \cup Places(m, g)]
        BY <1>3, <2>1, <2>2, <2>7
      <3>2. lbSince'[g] \in [1..Len(ms) -> SUBSET (1..Len(ms))]
        BY <2>2, <2>4, <3>1
      <3>3. \A p, q \in 1..Len(ms) : ~lbStatus'[ms[q]].ok => q \in lbSince'[g][p]
        <4> SUFFICES ASSUME NEW p \in 1..Len(ms), NEW q \in 1..Len(ms), ~lbStatus'[ms[q]].ok
                     PROVE  q \in lbSince[g][p] \cup Places(m, g)
          BY <3>1
        <4> QED
          BY <1>5, <2>2, <2>3, <2>4
      <3>4. \A p, q \in 1..Len(ms) :
                Ahead(p, q, Len(ms)) < Ahead(p, lbLast[g], Len(ms)) => q \in lbSince'[g][p]
        BY <2>2, <3>1
      <3> QED
        BY <2>5, <3>2, <3>3, <3>4 DEF TurnsOf
    <2> QED
      BY <2>6, <2>7
  <1>8. ASSUME lbPc \in Built
        PROVE  lbSince' = [g \in 1..Len(lbGroups) |-> lbSince'[g]]
    <2>1. lbSince = [h \in 1..Len(lbGroups) |-> lbSince[h]]
      BY <1>8 DEF LbInv, TurnsOK
    <2>2. CASE ok
      BY <1>3, <2>1, <2>2
    <2>3. CASE ~ok
      <3>1. DOMAIN lbSince = 1..Len(lbGroups)
        BY <2>1
      <3> QED
        BY <1>3, <2>3, <3>1
    <2> QED
      BY <2>2, <2>3
  <1>9. TurnsOK'
    BY <1>3, <1>7, <1>8 DEF TurnsOK
  <1> QED
    BY <1>1, <1>6, <1>9 DEF LbInv

LEMMA CheckKeeps ==
    ASSUME LbInv, checkAllDeliveryModules
    PROVE  LbInv'
  <1>1. CASE AskRequests
    <2>1. lbCheck \in 1..Len(lbAll) /\ CheckOther
      BY <1>1 DEF AskRequests, Probing
    <2>2. PICK answer \in {"failed", "late", "below", "full", "noNumber"} :
                CheckEnds(answer \in {"below", "noNumber"}, answer = "late")
      BY <1>1 DEF AskRequests
    <2> DEFINE ok == answer \in {"below", "noNumber"}
               timeout == answer = "late"
    <2>3. ok \in BOOLEAN /\ timeout \in BOOLEAN /\ CheckEnds(ok, timeout)
      BY <2>2
    <2> HIDE DEF ok, timeout
    <2> QED
      BY <2>1, <2>3, CheckEndsKeeps
  <1>2. CASE Ping
    <2>1. lbCheck \in 1..Len(lbAll) /\ CheckOther
      BY <1>2 DEF Ping, Probing
    <2>2. PICK answer \in {"failed", "late", "connected", "notClosed"} :
                CheckEnds(answer = "connected", answer = "late")
      BY <1>2 DEF Ping
    <2> QED
      BY <2>1, <2>2, CheckEndsKeeps
  <1>3. CASE CheckLocks \/ CheckRecent \/ CheckBegins
    <2>1. /\ lbCheck \in 1..Len(lbAll) /\ CheckOther /\ UNCHANGED lbSince
          /\ \/ UNCHANGED lbStatus
             \/ lbStatus' = [lbStatus EXCEPT ![Checked].at = lbNow]
          /\ \E h \in {"free", "check", "probe"} : lbHeld' = [lbHeld EXCEPT ![Checked] = h]
      BY <1>3 DEF CheckLocks, CheckRecent, CheckBegins, Locked
    <2>2. PICK m \in LbModules : m = Checked
      BY <2>1, CheckedIsModule
    <2>3. /\ lbStatus \in [LbModules -> Status]
          /\ lbHeld \in [LbModules -> {"free", "check", "probe"}]
          /\ lbNow \in Nat
      BY LbAssumption DEF LbInv, WorkOK, Status
    <2>4. /\ lbStatus' \in [LbModules -> Status]
          /\ \A x \in LbModules : lbStatus'[x].ok = lbStatus[x].ok
      <3>1. CASE UNCHANGED lbStatus
        BY <2>3, <3>1
      <3>2. CASE lbStatus' = [lbStatus EXCEPT ![m].at = lbNow]
        <4> DEFINE a == [lbStatus[m] EXCEPT !.at = lbNow]
        <4>1. a \in Status /\ a.ok = lbStatus[m].ok
          BY <2>3 DEF Status
        <4>2. lbStatus' = [lbStatus EXCEPT ![m] = a]
          BY <3>2
        <4> HIDE DEF a
        <4> QED
          BY <2>3, <4>1, <4>2
      <3> QED
        BY <2>1, <2>2, <3>1, <3>2
    <2>5. ListsOK' /\ PlaceOK'
      BY <2>1, SameInit DEF CheckOther
    <2>6. WorkOK'
      <3>1. lbHeld' \in [LbModules -> {"free", "check", "probe"}]
        BY <2>1, <2>3
      <3> QED
        BY <2>1, <2>4, <3>1 DEF CheckOther, lbInitVars, LbInv, WorkOK, Status
    <2>7. TurnsOK'
      BY <2>1, <2>4, SameTurns DEF CheckOther, lbInitVars
    <2> QED
      BY <2>5, <2>6, <2>7 DEF LbInv
  <1> QED
    BY <1>1, <1>2, <1>3 DEF checkAllDeliveryModules

-----------------------------------------------------------------------------
(***************************************************************************)
(* The clients.                                                            *)
(***************************************************************************)
\* The place after l is one step ahead for every place but l itself.
LEMMA AheadFacts ==
    ASSUME NEW n \in Nat, NEW p \in 1..n, NEW q \in 1..n, NEW l \in 1..n,
           NEW next \in 1..n, next = IF l = n THEN 1 ELSE l + 1
    PROVE  /\ p # l /\ Ahead(p, q, n) < Ahead(p, next, n) => q = l \/ Ahead(p, q, n) < Ahead(p, l, n)
           /\ ~(Ahead(l, q, n) < Ahead(l, next, n))
           /\ q # p => Ahead(p, q, n) < Ahead(p, p, n)
  BY DEF Ahead

CallRecord == [at : {"scan", "return"}, group : 1..Len(lbGroups), tried : Nat, place : Nat]

LEMMA ClientFacts ==
    ASSUME LbInv, Scanning
    PROVE  /\ lbClient \in CallRecord /\ lbClient.place = 0
           /\ lbPc \in {"ready", "cancel"}
           /\ lbClient.group \in 1..Len(lbGroups)
           /\ lbGroups[lbClient.group].modules \in Seq(LbModules)
           /\ lbLast[lbClient.group] \in 1..Len(lbGroups[lbClient.group].modules)
           /\ NextPlace \in 1..Len(lbGroups[lbClient.group].modules)
           /\ Candidate \in LbModules
  <1> DEFINE g == lbClient.group
             n == Len(lbGroups[g].modules)
  <1>1. /\ lbClient \in CallRecord /\ lbClient.place = 0 /\ lbPc \in {"ready", "cancel"}
        /\ lbClient.tried < n
    <2>1. lbClient.at = "scan" /\ lbClient.tried < n
      BY DEF Scanning
    <2>2. lbClient # NoCall
      BY <2>1 DEF NoCall
    <2> QED
      BY <2>1, <2>2 DEF LbInv, WorkOK, CallRecord
  <1>2. g \in 1..Len(lbGroups) /\ lbClient.tried \in Nat
    BY <1>1 DEF CallRecord
  <1>3. lbGroups[g].modules \in Seq(LbModules)
    <2>1. lbGroups[g] \in GroupRecord
      BY <1>2 DEF LbInv, ListsOK
    <2> QED
      BY <2>1 DEF GroupRecord
  <1>4. n \in Nat /\ n >= 1
    BY <1>1, <1>2, <1>3
  <1>5. lbLast[g] \in 1..n
    BY <1>2, <1>4 DEF LbInv, ListsOK
  <1>6. NextPlace \in 1..n
    BY <1>4, <1>5 DEF NextPlace
  <1>7. Candidate \in LbModules
    BY <1>3, <1>5 DEF Candidate
  <1> QED
    BY <1>1, <1>2, <1>3, <1>5, <1>6, <1>7

\* The iterator of a group is moved to a place of the group.
LEMMA MovedLists ==
    ASSUME ListsOK, NEW g \in 1..Len(lbGroups), NEW next \in 1..Len(lbGroups[g].modules),
           lbLast' = [lbLast EXCEPT ![g] = next],
           UNCHANGED <<lbConfig, lbAll, lbHeap, lbGroups>>
    PROVE  /\ ListsOK' /\ lbLast'[g] = next
           /\ \A h \in 1..Len(lbGroups) : h # g => lbLast'[h] = lbLast[h]
  <1>1. lbLast \in Seq(Nat) /\ Len(lbLast) = Len(lbGroups) /\ lbGroups \in Seq(GroupRecord)
    BY DEF ListsOK
  <1>2. next \in Nat
    <2>1. lbGroups[g] \in GroupRecord
      BY <1>1
    <2>2. lbGroups[g].modules \in Seq(LbModules)
      BY <2>1 DEF GroupRecord
    <2>3. Len(lbGroups[g].modules) \in Nat
      BY <2>2
    <2> QED
      BY <2>3
  <1>3. /\ lbLast' \in Seq(Nat) /\ Len(lbLast') = Len(lbGroups)
        /\ lbLast'[g] = next
        /\ \A h \in 1..Len(lbGroups) : h # g => lbLast'[h] = lbLast[h]
    BY <1>1, <1>2
  <1>4. \A h \in 1..Len(lbGroups) :
            lbLast'[h] = 1 \/ lbLast'[h] \in 1..Len(lbGroups[h].modules)
    BY <1>3 DEF ListsOK
  <1>5. GroupRecord' = GroupRecord
    BY DEF GroupRecord
  <1> QED
    BY <1>3, <1>4, <1>5 DEF ListsOK

LEMMA ClientWork ==
    ASSUME LbInv, ClientOther, lbPc \in {"ready", "cancel"},
           lbClient' = NoCall \/ /\ lbClient' \in CallRecord
                                 /\ lbClient'.at = "scan" => lbClient'.place = 0
    PROVE  WorkOK' /\ PlaceOK'
  <1>1. PlaceOK'
    BY DEF LbInv, ClientOther, PlaceOK, Group
  <1>2. CallRecord' = CallRecord
    BY DEF ClientOther, CallRecord
  <1>3. WorkOK'
    BY <1>2 DEF LbInv, ClientOther, WorkOK, CallRecord
  <1> QED
    BY <1>1, <1>3

\* A group that nobody moves in keeps its turns.
LEMMA OtherTurns ==
    ASSUME LbInv, lbPc \in Built, NEW g \in 1..Len(lbGroups),
           UNCHANGED <<lbPc, lbGroups, lbStatus>>,
           lbSince' = [h \in 1..Len(lbGroups) |-> lbSince'[h]],
           \A h \in 1..Len(lbGroups) : h # g => lbLast'[h] = lbLast[h] /\ lbSince'[h] = lbSince[h],
           TurnsOf(lbSince'[g], lbGroups[g].modules, lbLast'[g], lbStatus)
    PROVE  TurnsOK'
  <1>1. \A h \in 1..Len(lbGroups) :
            TurnsOf(lbSince[h], lbGroups[h].modules, lbLast[h], lbStatus)
    BY DEF LbInv, TurnsOK
  <1>2. ASSUME NEW h \in 1..Len(lbGroups)
        PROVE  TurnsOf(lbSince'[h], lbGroups[h].modules, lbLast'[h], lbStatus)
    BY <1>1
  <1> QED
    BY <1>2 DEF TurnsOK

LEMMA SelectKeeps ==
    ASSUME LbInv, Select
    PROVE  LbInv'
  <1> DEFINE g == lbClient.group
             ms == lbGroups[g].modules
             n == Len(ms)
             l == lbLast[g]
             next == NextPlace
             s == [q \in 1..n |-> IF q = l THEN Down ELSE lbSince[g][q] \cup {l}]
  <1>1. /\ Scanning /\ lbStatus[Candidate].ok
        /\ lbClient' = [lbClient EXCEPT !.at = "return", !.place = l]
        /\ lbLast' = [lbLast EXCEPT ![g] = next]
        /\ lbSince' = [lbSince EXCEPT ![g] =
                        [q \in DOMAIN @ |-> IF q = l THEN Down ELSE @[q] \cup {l}]]
        /\ ClientOther
    BY DEF Select, Selected
  <1>2. /\ lbClient \in CallRecord /\ lbPc \in {"ready", "cancel"}
        /\ g \in 1..Len(lbGroups) /\ ms \in Seq(LbModules)
        /\ l \in 1..n /\ next \in 1..n
    BY <1>1, ClientFacts
  <1>3. n \in Nat /\ next = IF l = n THEN 1 ELSE l + 1
    BY <1>2 DEF NextPlace
  <1>4. ListsOK' /\ lbLast'[g] = next /\ \A h \in 1..Len(lbGroups) : h # g => lbLast'[h] = lbLast[h]
    BY <1>1, <1>2, MovedLists DEF LbInv, ClientOther
  <1>5. lbClient' \in CallRecord /\ lbClient'.at = "return"
    <2>1. l \in Nat
      BY <1>2, <1>3
    <2>2. lbClient' = [lbClient EXCEPT !.at = "return", !.place = l]
      BY <1>1
    <2> HIDE DEF l
    <2> QED
      BY <1>2, <2>1, <2>2 DEF CallRecord
  <1>6. WorkOK' /\ PlaceOK'
    BY <1>1, <1>2, <1>5, ClientWork
  <1>7. lbPc \in Built /\ UNCHANGED <<lbPc, lbGroups, lbStatus>>
    BY <1>1, <1>2 DEF Built, ClientOther
  <1>8. /\ lbSince = [h \in 1..Len(lbGroups) |-> lbSince[h]]
        /\ TurnsOf(lbSince[g], ms, l, lbStatus)
    BY <1>2, <1>7 DEF LbInv, TurnsOK
  <1>9. /\ lbSince[g] \in [1..n -> SUBSET (1..n)]
        /\ \A p, q \in 1..n : ~lbStatus[ms[q]].ok => q \in lbSince[g][p]
        /\ \A p, q \in 1..n : Ahead(p, q, n) < Ahead(p, l, n) => q \in lbSince[g][p]
    BY <1>8 DEF TurnsOf
  <1>10. /\ lbSince' = [lbSince EXCEPT ![g] = s]
    BY <1>1, <1>9
  <1>11. /\ Down = {p \in 1..n : ~lbStatus[ms[p]].ok}
         /\ Candidate = ms[l]
    BY DEF Down, Candidate
  <1> HIDE DEF next, l, ms, n
  <1>12. TurnsOf(s, ms, next, lbStatus)
    <2>1. s \in [1..n -> SUBSET (1..n)]
      BY <1>2, <1>9, <1>11
    <2>2. \A p, q \in 1..n : ~lbStatus[ms[q]].ok => q \in s[p]
      BY <1>9, <1>11
    <2>3. \A p, q \in 1..n : Ahead(p, q, n) < Ahead(p, next, n) => q \in s[p]
      <3> SUFFICES ASSUME NEW p \in 1..n, NEW q \in 1..n, Ahead(p, q, n) < Ahead(p, next, n)
                   PROVE  q \in s[p]
        OBVIOUS
      <3>1. p # l
        BY <1>2, <1>3, AheadFacts
      <3>2. q = l \/ Ahead(p, q, n) < Ahead(p, l, n)
        BY <1>2, <1>3, <3>1, AheadFacts
      <3>3. s[p] = lbSince[g][p] \cup {l}
        BY <3>1
      <3> QED
        BY <1>9, <3>2, <3>3
    <2> HIDE DEF s
    <2>4. Len(ms) = n
      BY DEF n
    <2> QED
      BY <2>1, <2>2, <2>3, <2>4 DEF TurnsOf
  <1> HIDE DEF s
  <1>13. /\ lbSince' = [h \in 1..Len(lbGroups) |-> lbSince'[h]] /\ lbSince'[g] = s
         /\ \A h \in 1..Len(lbGroups) : h # g => lbSince'[h] = lbSince[h]
    BY <1>2, <1>8, <1>10
  <1>14. TurnsOK'
    BY <1>2, <1>4, <1>7, <1>12, <1>13, OtherTurns DEF ms
  <1> QED
    BY <1>4, <1>6, <1>14 DEF LbInv

LEMMA SkipKeeps ==
    ASSUME LbInv, Skip
    PROVE  LbInv'
  <1> DEFINE g == lbClient.group
             ms == lbGroups[g].modules
             n == Len(ms)
             l == lbLast[g]
             next == NextPlace
  <1>1. /\ Scanning /\ ~lbStatus[Candidate].ok
        /\ lbClient' = [lbClient EXCEPT !.tried = @ + 1]
        /\ lbLast' = [lbLast EXCEPT ![g] = next]
        /\ lbSince' = lbSince
        /\ ClientOther
    BY DEF Skip
  <1>2. /\ lbClient \in CallRecord /\ lbClient.place = 0 /\ lbPc \in {"ready", "cancel"}
        /\ g \in 1..Len(lbGroups) /\ ms \in Seq(LbModules)
        /\ l \in 1..n /\ next \in 1..n
    BY <1>1, ClientFacts
  <1>3. n \in Nat /\ next = IF l = n THEN 1 ELSE l + 1
    BY <1>2 DEF NextPlace
  <1>4. ListsOK' /\ lbLast'[g] = next /\ \A h \in 1..Len(lbGroups) : h # g => lbLast'[h] = lbLast[h]
    BY <1>1, <1>2, MovedLists DEF LbInv, ClientOther
  <1>5. lbClient' \in CallRecord /\ lbClient'.place = 0
    BY <1>1, <1>2 DEF CallRecord
  <1>6. WorkOK' /\ PlaceOK'
    BY <1>1, <1>2, <1>5, ClientWork
  <1>7. lbPc \in Built /\ UNCHANGED <<lbPc, lbGroups, lbStatus>>
    BY <1>1, <1>2 DEF Built, ClientOther
  <1>8. /\ lbSince = [h \in 1..Len(lbGroups) |-> lbSince[h]]
        /\ TurnsOf(lbSince[g], ms, l, lbStatus)
    BY <1>2, <1>7 DEF LbInv, TurnsOK
  <1>9. /\ lbSince[g] \in [1..n -> SUBSET (1..n)]
        /\ \A p, q \in 1..n : ~lbStatus[ms[q]].ok => q \in lbSince[g][p]
        /\ \A p, q \in 1..n : Ahead(p, q, n) < Ahead(p, l, n) => q \in lbSince[g][p]
    BY <1>8 DEF TurnsOf
  <1>10. ~lbStatus[ms[l]].ok
    BY <1>1 DEF Candidate
  <1> HIDE DEF next, l, ms, n
  <1>11. \A p, q \in 1..n : Ahead(p, q, n) < Ahead(p, next, n) => q \in lbSince[g][p]
    <2> SUFFICES ASSUME NEW p \in 1..n, NEW q \in 1..n, Ahead(p, q, n) < Ahead(p, next, n)
                 PROVE  q \in lbSince[g][p]
      OBVIOUS
    <2>1. p # l
      BY <1>2, <1>3, AheadFacts
    <2>2. q = l \/ Ahead(p, q, n) < Ahead(p, l, n)
      BY <1>2, <1>3, <2>1, AheadFacts
    <2> QED
      BY <1>9, <1>10, <2>2
  <1>12. TurnsOf(lbSince[g], ms, next, lbStatus)
    <2>1. Len(ms) = n
      BY DEF n
    <2> QED
      BY <1>9, <1>11, <2>1 DEF TurnsOf
  <1>13. /\ lbSince' = [h \in 1..Len(lbGroups) |-> lbSince'[h]] /\ lbSince'[g] = lbSince[g]
         /\ \A h \in 1..Len(lbGroups) : h # g => lbSince'[h] = lbSince[h]
    BY <1>1, <1>8
  <1>14. TurnsOK'
    BY <1>2, <1>4, <1>7, <1>12, <1>13, OtherTurns DEF ms
  <1> QED
    BY <1>4, <1>6, <1>14 DEF LbInv

LEMMA OtherCallsKeep ==
    ASSUME LbInv, (\E g \in 1..Len(lbGroups) : Ask(g)) \/ SelectTooLong \/ Answer
    PROVE  LbInv' /\ ~(lbClient.at = "scan" /\ lbClient'.at = "return" /\ lbClient'.place # 0)
  <1> DEFINE Fine == ~(lbClient.at = "scan" /\ lbClient'.at = "return" /\ lbClient'.place # 0)
  <1>1. ASSUME ClientOther, UNCHANGED <<lbLast, lbSince>>, WorkOK', PlaceOK', Fine
        PROVE  LbInv' /\ Fine
    <2>1. ListsOK'
      BY <1>1, SameLists DEF LbInv, ClientOther
    <2>2. TurnsOK'
      BY <1>1, SameTurns DEF ClientOther
    <2> QED
      BY <1>1, <2>1, <2>2 DEF LbInv
  <1>2. ASSUME NEW g \in 1..Len(lbGroups), Ask(g)
        PROVE  LbInv' /\ Fine
    <2>1. /\ ClientOther /\ UNCHANGED <<lbLast, lbSince>> /\ lbPc = "ready"
          /\ lbClient' = [at |-> "scan", group |-> g, tried |-> 0, place |-> 0]
      BY <1>2 DEF Ask
    <2>2. lbClient' \in CallRecord /\ lbClient'.place = 0 /\ Fine
      BY <2>1 DEF CallRecord
    <2> HIDE DEF Fine
    <2>3. WorkOK' /\ PlaceOK'
      BY <2>1, <2>2, ClientWork
    <2> QED
      BY <1>1, <2>1, <2>2, <2>3
  <1>3. CASE SelectTooLong
    <2>1. /\ ClientOther /\ UNCHANGED <<lbLast, lbSince>>
          /\ lbClient' = [lbClient EXCEPT !.at = "return"]
      BY <1>3 DEF SelectTooLong
    <2>2. lbClient \in CallRecord /\ lbClient.place = 0 /\ lbPc \in {"ready", "cancel"}
      BY <1>3, ClientFacts DEF SelectTooLong
    <2>3. lbClient' \in CallRecord /\ lbClient'.place = 0 /\ Fine
      BY <2>1, <2>2 DEF CallRecord
    <2> HIDE DEF Fine
    <2>4. WorkOK' /\ PlaceOK'
      BY <2>1, <2>2, <2>3, ClientWork
    <2> QED
      BY <1>1, <2>1, <2>3, <2>4 DEF Fine
  <1>4. CASE Answer
    <2>1. ClientOther /\ UNCHANGED <<lbLast, lbSince>> /\ lbClient' = NoCall
      BY <1>4 DEF Answer
    <2>2. Fine
      BY <2>1 DEF NoCall
    <2> HIDE DEF Fine
    <2>3. lbPc \in {"ready", "cancel"}
      <3>1. lbClient # NoCall
        BY <1>4 DEF Answer, NoCall
      <3> QED
        BY <3>1 DEF LbInv, WorkOK
    <2>4. WorkOK' /\ PlaceOK'
      BY <2>1, <2>3, ClientWork
    <2> QED
      BY <1>1, <2>1, <2>2, <2>4 DEF Fine
  <1> QED
    BY <1>2, <1>3, <1>4

-----------------------------------------------------------------------------
(***************************************************************************)
(* The thread and its end.                                                 *)
(***************************************************************************)
LEMMA ThreadKeeps ==
    ASSUME LbInv, StartLb \/ runLb \/ cancelLb \/ LbTick
    PROVE  LbInv' /\ UNCHANGED lbClient
  <1>1. /\ UNCHANGED <<lbConfig, lbItem, lbAll, lbGroups, lbLast, lbHeap, lbStatus, lbHeld,
                       lbClient, lbSince>>
        /\ lbPc' \in {lbPc, "ready", "cancel"}
        /\ lbPc' = lbPc \/ lbPc \in {"ready", "cancel"}
        /\ lbThread' \in {lbThread, "begin", "sleep", "check", "ended", "cancelled"}
        /\ lbNow' = lbNow \/ (lbNow < LbMaxTime /\ lbNow' = lbNow + 1)
    <2>1. CASE StartLb \/ runLb
      BY <2>1 DEF StartLb, runLb, RunBegins, RunSleeps, RunLoops, ThreadOther
    <2>2. CASE CancelAsks
      BY <2>2 DEF CancelAsks, ThreadOther
    <2>3. CASE CancelEnds
      BY <2>3 DEF CancelEnds, ThreadOther
    <2>4. CASE LbTick
      BY <2>4 DEF LbTick, lbInitVars
    <2> QED
      BY <2>1, <2>2, <2>3, <2>4 DEF cancelLb
  <1>2. ListsOK'
    BY <1>1, SameLists DEF LbInv
  <1>3. PlaceOK'
    <2>1. CASE lbPc' = lbPc
      BY <1>1, <2>1 DEF LbInv, PlaceOK, Group
    <2>2. CASE lbPc' # lbPc
      <3>1. lbPc' \in {"ready", "cancel"}
        BY <1>1, <2>2
      <3> QED
        BY <1>1, <3>1 DEF LbInv, PlaceOK, Reading, Built
    <2> QED
      BY <2>1, <2>2
  <1>4. WorkOK'
    <2>1. lbNow' \in 0..LbMaxTime
      BY <1>1, LbAssumption DEF LbInv, WorkOK
    <2>2. lbThread' \in {"none", "begin", "sleep", "check", "ended", "cancelled"}
      BY <1>1 DEF LbInv, WorkOK
    <2>3. \/ lbClient' = NoCall
          \/ /\ lbPc' \in {"ready", "cancel"}
             /\ lbClient' \in CallRecord'
             /\ lbClient'.at = "scan" => lbClient'.place = 0
      BY <1>1 DEF LbInv, WorkOK, CallRecord
    <2> QED
      BY <1>1, <2>1, <2>2, <2>3 DEF LbInv, WorkOK, CallRecord
  <1>5. TurnsOK'
    <2>1. lbPc' \in Built => lbPc \in Built
      BY <1>1 DEF Built
    <2> QED
      BY <1>1, <2>1, SameTurns
  <1> QED
    BY <1>1, <1>2, <1>3, <1>4, <1>5 DEF LbInv

LEMMA FinishKeeps ==
    ASSUME LbInv, finishLb
    PROVE  LbInv' /\ UNCHANGED lbClient
  <1>1. ListsOK'
    BY ListsUndone DEF LbInv, finishLb
  <1>2. PlaceOK'
    BY DEF LbInv, finishLb, PlaceOK, Reading
  <1>3. WorkOK'
    BY DEF LbInv, finishLb, WorkOK
  <1>4. TurnsOK'
    BY NotBuilt DEF finishLb, Built
  <1> QED
    BY <1>1, <1>2, <1>3, <1>4 DEF LbInv, finishLb

LEMMA LbStart == LbInit => LbInv
  <1> SUFFICES ASSUME LbInit PROVE LbInv
    OBVIOUS
  <1>1. ListsOK
    <2>1. Len(lbAll) = 0 /\ Len(lbGroups) = 0 /\ Len(lbLast) = 0
      BY DEF LbInit
    <2>2. lbAll \in Seq(LbModules) /\ lbGroups \in Seq(GroupRecord) /\ lbLast \in Seq(Nat)
      BY DEF LbInit
    <2> QED
      BY <2>1, <2>2, NoVector DEF LbInit, ListsOK, Once
  <1>2. PlaceOK
    BY DEF LbInit, PlaceOK, Reading
  <1>3. WorkOK
    BY LbAssumption DEF LbInit, WorkOK, Unknown
  <1>4. TurnsOK
    BY DEF LbInit, TurnsOK, Built
  <1> QED
    BY <1>1, <1>2, <1>3, <1>4 DEF LbInv

LEMMA LbStep == LbInv /\ [LbNext]_lbVars => LbInv'
  <1> SUFFICES ASSUME LbInv, [LbNext]_lbVars PROVE LbInv'
    OBVIOUS
  <1>1. CASE LbInitNext
    BY <1>1, InitNextKeeps
  <1>2. CASE checkAllDeliveryModules
    BY <1>2, CheckKeeps
  <1>3. CASE (\E g \in 1..Len(lbGroups) : Ask(g)) \/ getAvailableModule
    BY <1>3, SelectKeeps, SkipKeeps, OtherCallsKeep DEF getAvailableModule
  <1>4. CASE StartLb \/ runLb \/ cancelLb \/ LbTick \/ finishLb
    BY <1>4, ThreadKeeps, FinishKeeps
  <1>5. CASE UNCHANGED lbVars
    <2>1. ListsOK' /\ PlaceOK'
      BY <1>5, SameInit DEF lbVars
    <2>2. WorkOK'
      BY <1>5 DEF lbVars, lbInitVars, lbWorkVars, LbInv, WorkOK
    <2>3. TurnsOK'
      BY <1>5, SameTurns DEF lbVars, lbInitVars, lbWorkVars
    <2> QED
      BY <2>1, <2>2, <2>3 DEF LbInv
  <1> QED
    BY <1>1, <1>2, <1>3, <1>4, <1>5 DEF LbNext

(***************************************************************************)
(* The inductive invariant of the load balancer: the lists of the modules, *)
(* the place of init, the call of a client and the turns of the places.    *)
(***************************************************************************)
THEOREM BalancerInvariant == LbSpec => []LbInv
  BY LbStart, LbStep, PTL DEF LbSpec

LEMMA BalancerOwns == LbInv => LbTypeOK /\ ModulesOwned
  <1> SUFFICES ASSUME LbInv PROVE LbTypeOK /\ ModulesOwned
    OBVIOUS
  <1>1. /\ lbAll \in Seq(LbModules) /\ Once(lbAll) /\ Len(lbAll) \in Nat
        /\ lbHeap = Vector!ToSet(lbAll)
        /\ Vector!ToSet(lbAll) = {lbAll[i] : i \in 1..Len(lbAll)}
    BY VectorFacts DEF LbInv, ListsOK
  <1>2. lbHeap \subseteq LbModules
    BY <1>1
  <1>3. Cardinality(lbHeap) = Len(lbAll)
    <2>1. \A x \in lbHeap : \E i \in 1..Len(lbAll) : lbAll[i] = x
      BY <1>1
    <2>2. lbAll \in Seq(lbHeap)
      BY <1>1
    <2> QED
      BY <1>1, <2>1, <2>2, OnceCounts
  <1>4. \A g \in 1..Len(lbGroups) :
            lbGroups[g].modules # <<>> => lbLast[g] \in 1..Len(lbGroups[g].modules)
    <2> SUFFICES ASSUME NEW g \in 1..Len(lbGroups), lbGroups[g].modules # <<>>
                 PROVE  lbLast[g] \in 1..Len(lbGroups[g].modules)
      OBVIOUS
    <2>1. lbGroups[g] \in GroupRecord
      BY DEF LbInv, ListsOK
    <2>2. lbGroups[g].modules \in Seq(LbModules)
      BY <2>1 DEF GroupRecord
    <2>3. Len(lbGroups[g].modules) \in Nat \ {0}
      BY <2>2
    <2> QED
      BY <2>3 DEF LbInv, ListsOK
  <1>5. LbTypeOK
    BY <1>1, <1>2, <1>4 DEF LbInv, PlaceOK, WorkOK, Reading, Built, LbTypeOK
  <1>6. \A g \in 1..Len(lbGroups) : Vector!ToSet(lbGroups[g].modules) \subseteq lbHeap
    BY DEF LbInv, ListsOK
  <1> QED
    BY <1>1, <1>3, <1>5, <1>6 DEF ModulesOwned

\* The place that is selected is the last of its group to have its turn.
LEMMA SelectInTurn ==
    ASSUME LbInv, Select
    PROVE  LET g == lbClient.group IN
           DOMAIN lbSince[g] \subseteq lbSince[g][lbClient'.place] \cup {lbClient'.place}
  <1> DEFINE g == lbClient.group
             ms == lbGroups[g].modules
             n == Len(ms)
             l == lbLast[g]
  <1>1. Scanning /\ lbClient' = [lbClient EXCEPT !.at = "return", !.place = l]
    BY DEF Select, Selected
  <1>2. /\ lbClient \in CallRecord /\ lbPc \in Built /\ g \in 1..Len(lbGroups)
        /\ ms \in Seq(LbModules) /\ l \in 1..n /\ n \in Nat
    BY <1>1, ClientFacts DEF Built
  <1>3. lbClient'.place = l
    BY <1>1, <1>2 DEF CallRecord
  <1>4. TurnsOf(lbSince[g], ms, l, lbStatus)
    BY <1>2 DEF LbInv, TurnsOK
  <1>5. /\ lbSince[g] \in [1..n -> SUBSET (1..n)]
        /\ \A p, q \in 1..n : Ahead(p, q, n) < Ahead(p, l, n) => q \in lbSince[g][p]
    BY <1>4 DEF TurnsOf
  <1> HIDE DEF l, ms, n
  <1>6. ASSUME NEW q \in 1..n
        PROVE  q = l \/ q \in lbSince[g][l]
    <2>1. q # l => Ahead(l, q, n) < Ahead(l, l, n)
      BY <1>2 DEF Ahead
    <2> QED
      BY <1>2, <1>5, <2>1
  <1> QED
    BY <1>3, <1>5, <1>6

(***************************************************************************)
(* getAvailableModule gives every module of a group its turn: a place is   *)
(* selected again only when every other place was selected or found down   *)
(* since.                                                                  *)
(***************************************************************************)
THEOREM BalancerTakesTurns == LbSpec => RoundRobin
  <1> DEFINE Kept == DOMAIN lbSince[lbClient.group] \subseteq
                         lbSince[lbClient.group][lbClient'.place] \cup {lbClient'.place}
             Selects == lbClient.at = "scan" /\ lbClient'.at = "return" /\ lbClient'.place # 0
  <1>1. LbInv /\ [LbNext]_lbVars => (Selects => Kept)
    <2> SUFFICES ASSUME LbInv, LbNext \/ UNCHANGED lbVars, Selects
                 PROVE  Kept
      OBVIOUS
    <2>1. CASE Select
      BY <2>1, SelectInTurn
    <2>2. CASE Skip
      <3>1. lbClient' = [lbClient EXCEPT !.tried = @ + 1] /\ Scanning
        BY <2>2 DEF Skip
      <3>2. lbClient \in CallRecord /\ lbClient.at = "scan"
        BY <3>1, ClientFacts DEF Scanning
      <3>3. lbClient'.at = "scan"
        BY <3>1, <3>2 DEF CallRecord
      <3> QED
        BY <3>3
    <2>3. CASE (\E g \in 1..Len(lbGroups) : Ask(g)) \/ SelectTooLong \/ Answer
      BY <2>3, OtherCallsKeep
    <2>4. CASE UNCHANGED lbClient
      BY <2>4
    <2>5. LbInitNext => UNCHANGED lbClient
      BY DEF LbInitNext, InitParameters, CountGroups, NextGroupItem, ItemValues, ReadPrivateHost,
             ReadPrivatePort, ReadPublicHost, ReadPublicPort, ReadURL, ReadMaxRequests, Reads,
             FindModule, NewModule, GroupMutex, ItemFinish, SectionFinish, InitMutex, InitThread,
             At, Fails, UndoInit, lbWorkVars
    <2>6. checkAllDeliveryModules => UNCHANGED lbClient
      BY DEF checkAllDeliveryModules, CheckLocks, CheckRecent, CheckBegins, AskRequests, Ping,
             CheckOther
    <2>7. StartLb \/ runLb \/ cancelLb \/ LbTick \/ finishLb => UNCHANGED lbClient
      BY ThreadKeeps, FinishKeeps
    <2>8. UNCHANGED lbVars => UNCHANGED lbClient
      BY DEF lbVars, lbWorkVars
    <2> QED
      BY <2>1, <2>2, <2>3, <2>4, <2>5, <2>6, <2>7, <2>8 DEF LbNext, getAvailableModule
  <1>2. [LbNext]_lbVars /\ LbInv =>
          [lbClient.at = "scan" /\ lbClient'.at = "return" /\ lbClient'.place # 0 =>
             LET g == lbClient.group IN
             DOMAIN lbSince[g] \subseteq lbSince[g][lbClient'.place] \cup {lbClient'.place}]_lbVars
    BY <1>1
  <1> QED
    BY <1>2, BalancerInvariant, PTL DEF LbSpec, RoundRobin

-----------------------------------------------------------------------------
(***************************************************************************)
(* A get.                                                                  *)
(***************************************************************************)
\* The number of buffers where init is.
BuffersAt(pc) ==
    CASE pc = "Request" -> 1
      [] pc \in {"headers", "Header"} -> 2
      [] pc = "Body" -> 3
      [] pc = "Cookie" -> 4
      [] pc = "SetCookie" -> 5
      [] pc = "Location" -> 6
      [] pc = "thread" -> 7
      [] OTHER -> 0

InitPcs == {"URI", "Request", "headers", "Header", "Body", "Cookie", "SetCookie", "Location", "thread"}
RunPcs == {"ready", "options", "send", "request", "header", "body", "closing", "failing", "ended",
           "closingFailed"}

Names == {"URI", "Request", "Header", "Body", "Cookie", "SetCookie", "Location"}

\* init has the buffers up to the one it is at, run has them all.
BuffersOK ==
    /\ hgPc \in {"idle"} \cup InitPcs \cup RunPcs
    /\ hgThread \in BOOLEAN /\ hgSaving \in BOOLEAN
    /\ hgBuffers \in Seq(Names)
    /\ \A i \in 1..Len(hgBuffers) : hgBuffers[i] = Buffers[i]
    /\ hgPc \in InitPcs => ~hgThread /\ ~hgSaving /\ Len(hgBuffers) = BuffersAt(hgPc)
    /\ hgPc \in RunPcs => hgThread /\ hgSaving /\ Len(hgBuffers) = 7
    /\ hgPc = "idle" => /\ hgThread <=> hgSaving
                        /\ Len(hgBuffers) = IF hgSaving THEN 7 ELSE 0

\* The file has at most what was received, and is there when the body begins.
FileOK ==
    /\ hgSocket \in BOOLEAN /\ hgFd \in BOOLEAN
    /\ hgLength \in BodyLengths \cup {NoLength}
    /\ hgFile \in (0..MaxBody) \cup {NoFile}
    /\ hgReceived \in 0..MaxBody /\ hgSaved \in Nat
    /\ hgPc \in InitPcs \cup {"ready", "options", "send", "request", "header"} => hgReceived = 0
    /\ hgPc = "body" /\ hgReceived # 0 => hgFile \in 0..hgReceived
    /\ hgPc \in {"idle", "ready", "ended", "closingFailed"} \cup InitPcs => ~hgSocket /\ ~hgFd
    /\ hgPc = "failing" => ~hgSocket
    /\ hgPc = "closing" => ~hgSocket /\ hgReceived = hgLength
    /\ hgPc = "ended" /\ hgFile # NoFile => hgReceived = hgLength

GetInv == BuffersOK /\ FileOK

LEMMA BufferNames ==
    /\ Buffers[1] = "URI" /\ Buffers[2] = "Request" /\ Buffers[3] = "Header" /\ Buffers[4] = "Body"
    /\ Buffers[5] = "Cookie" /\ Buffers[6] = "SetCookie" /\ Buffers[7] = "Location"
  BY DEF Buffers

LEMMA BufferCounts ==
    /\ BuffersAt("URI") = 0 /\ BuffersAt("Request") = 1 /\ BuffersAt("headers") = 2
    /\ BuffersAt("Header") = 2 /\ BuffersAt("Body") = 3 /\ BuffersAt("Cookie") = 4
    /\ BuffersAt("SetCookie") = 5 /\ BuffersAt("Location") = 6 /\ BuffersAt("thread") = 7
  BY DEF BuffersAt

\* After finish, or an init that failed, there is no buffer.
LEMMA NoBuffers ==
    ASSUME hgBuffers' = <<>>, ~hgThread', ~hgSaving', hgThread' \in BOOLEAN, hgSaving' \in BOOLEAN,
           hgPc' \in {"idle", "URI"}
    PROVE  BuffersOK'
  <1>1. hgBuffers' \in Seq(Names) /\ Len(hgBuffers') = 0
    OBVIOUS
  <1>2. hgPc' \in InitPcs => Len(hgBuffers') = BuffersAt(hgPc')
    BY <1>1, BufferCounts DEF InitPcs
  <1> QED
    BY <1>1, <1>2 DEF BuffersOK, InitPcs, RunPcs

LEMMA GetStart == GetInit => GetInv
  <1> SUFFICES ASSUME GetInit PROVE GetInv
    OBVIOUS
  <1>1. BuffersOK
    <2>1. hgBuffers = <<>> /\ hgThread = FALSE /\ hgSaving = FALSE /\ hgPc = "idle"
      BY DEF GetInit
    <2>2. hgBuffers \in Seq(Names) /\ Len(hgBuffers) = 0
      BY <2>1
    <2>3. hgThread <=> hgSaving
      BY <2>1
    <2>4. hgThread \in BOOLEAN /\ hgSaving \in BOOLEAN
      BY <2>1
    <2>5. hgPc \notin InitPcs /\ hgPc \notin RunPcs
      BY <2>1 DEF InitPcs, RunPcs
    <2>6. \A i \in 1..Len(hgBuffers) : hgBuffers[i] = Buffers[i]
      BY <2>2
    <2>7. Len(hgBuffers) = IF hgSaving THEN 7 ELSE 0
      BY <2>1, <2>2
    <2> QED
      BY <2>1, <2>2, <2>3, <2>4, <2>5, <2>6, <2>7 DEF BuffersOK
  <1>2. FileOK
    <2>1. MaxBody \in Nat
      BY HttpGetAssumption
    <2>2. 0 \in 0..MaxBody
      BY <2>1
    <2> QED
      BY <2>2 DEF GetInit, FileOK, InitPcs
  <1> QED
    BY <1>1, <1>2 DEF GetInv

\* init goes from a buffer to the next one.
Follows(b, next) ==
    /\ b \in InitPcs /\ next \in InitPcs /\ b \in Names
    /\ BuffersAt(b) \in 0..6 /\ BuffersAt(next) = BuffersAt(b) + 1
    /\ Buffers[BuffersAt(b) + 1] = b

LEMMA BufferOrder ==
    /\ Follows("URI", "Request") /\ Follows("Request", "headers") /\ Follows("Header", "Body")
    /\ Follows("Body", "Cookie") /\ Follows("Cookie", "SetCookie")
    /\ Follows("SetCookie", "Location") /\ Follows("Location", "thread")
  <1>1. Follows("URI", "Request")
    BY BufferNames, BufferCounts DEF Follows, InitPcs, Names
  <1>2. Follows("Request", "headers")
    BY BufferNames, BufferCounts DEF Follows, InitPcs, Names
  <1>3. Follows("Header", "Body")
    BY BufferNames, BufferCounts DEF Follows, InitPcs, Names
  <1>4. Follows("Body", "Cookie")
    BY BufferNames, BufferCounts DEF Follows, InitPcs, Names
  <1>5. Follows("Cookie", "SetCookie")
    BY BufferNames, BufferCounts DEF Follows, InitPcs, Names
  <1>6. Follows("SetCookie", "Location")
    BY BufferNames, BufferCounts DEF Follows, InitPcs, Names
  <1>7. Follows("Location", "thread")
    BY BufferNames, BufferCounts DEF Follows, InitPcs, Names
  <1> QED
    BY <1>1, <1>2, <1>3, <1>4, <1>5, <1>6, <1>7

\* A buffer is initialized or those before it are finished.
LEMMA InitBufferKeeps ==
    ASSUME GetInv, NEW b, NEW next, Follows(b, next), InitBuffer(b, next)
    PROVE  GetInv'
  <1>0. /\ b \in InitPcs /\ next \in InitPcs /\ b \in Names
        /\ BuffersAt(b) \in 0..6 /\ BuffersAt(next) = BuffersAt(b) + 1
        /\ Buffers[BuffersAt(b) + 1] = b
    BY DEF Follows
  <1>1. /\ hgPc = b /\ UNCHANGED <<hgThread, hgSaving, hgSocket, hgFd, OnDisk>>
        /\ \/ hgBuffers' = Append(hgBuffers, b) /\ hgPc' = next
           \/ hgBuffers' = <<>> /\ hgPc' = "idle"
    BY DEF InitBuffer, UndoBuffers
  <1>2. /\ ~hgThread /\ ~hgSaving /\ Len(hgBuffers) = BuffersAt(b) /\ hgBuffers \in Seq(Names)
        /\ \A i \in 1..Len(hgBuffers) : hgBuffers[i] = Buffers[i]
        /\ hgThread \in BOOLEAN /\ hgSaving \in BOOLEAN
    BY <1>0, <1>1 DEF GetInv, BuffersOK
  <1>3. FileOK'
    <2>1. hgReceived = 0 /\ ~hgSocket /\ ~hgFd
      BY <1>0, <1>1 DEF GetInv, FileOK
    <2>2. hgPc' \in {"idle"} \cup InitPcs
      BY <1>0, <1>1
    <2> QED
      BY <1>1, <2>1, <2>2 DEF GetInv, FileOK, InitPcs, OnDisk
  <1>4. ASSUME hgBuffers' = Append(hgBuffers, b), hgPc' = next
        PROVE  BuffersOK'
    <2>1. /\ hgBuffers' \in Seq(Names) /\ Len(hgBuffers') = Len(hgBuffers) + 1
          /\ \A i \in 1..Len(hgBuffers) : hgBuffers'[i] = hgBuffers[i]
          /\ hgBuffers'[Len(hgBuffers) + 1] = b
          /\ Len(hgBuffers) \in Nat
      BY <1>0, <1>2, <1>4, AppendFacts
    <2>2. \A i \in 1..(Len(hgBuffers) + 1) : i = Len(hgBuffers) + 1 \/ i \in 1..Len(hgBuffers)
      BY <2>1
    <2>3. \A i \in 1..Len(hgBuffers') : hgBuffers'[i] = Buffers[i]
      BY <1>0, <1>2, <2>1, <2>2
    <2>4. hgPc' \in InitPcs /\ hgPc' \notin RunPcs /\ hgPc' # "idle"
      BY <1>0, <1>4 DEF InitPcs, RunPcs
    <2>5. Len(hgBuffers') = BuffersAt(hgPc')
      BY <1>0, <1>2, <1>4, <2>1
    <2> QED
      BY <1>1, <1>2, <2>1, <2>3, <2>4, <2>5 DEF BuffersOK
  <1>5. ASSUME hgBuffers' = <<>>, hgPc' = "idle"
        PROVE  BuffersOK'
    <2>1. hgBuffers' \in Seq(Names) /\ Len(hgBuffers') = 0
      BY <1>5
    <2> QED
      BY <1>1, <1>2, <1>5, <2>1 DEF BuffersOK, InitPcs, RunPcs
  <1> QED
    BY <1>1, <1>3, <1>4, <1>5 DEF GetInv

\* The steps of run leave the buffers and the thread.
LEMMA RunKeepsBuffers ==
    ASSUME BuffersOK, hgPc \in RunPcs, hgPc' \in RunPcs, RunOther
    PROVE  BuffersOK'
  BY DEF BuffersOK, RunOther, RunPcs, InitPcs

LEMMA FailKeeps ==
    ASSUME GetInv, hgPc \in RunPcs, RunFails
    PROVE  GetInv'
  <1>1. BuffersOK'
    BY RunKeepsBuffers DEF GetInv, RunFails, RunPcs
  <1>2. FileOK'
    BY DEF GetInv, FileOK, RunFails, OnDisk, InitPcs
  <1> QED
    BY <1>1, <1>2 DEF GetInv

LEMMA InitGetKeeps ==
    ASSUME GetInv,
           \/ BeginInit \/ InitURI \/ InitRequest \/ AppendHeaders \/ InitHeaderResponse
           \/ InitBodyResponse \/ InitCookieResponse \/ InitSetCookieResponse
           \/ InitLocationResponse \/ InitGetThread \/ FinishGet \/ LeaveGet
    PROVE  GetInv'
  <1>1. CASE BeginInit
    <2>1. BuffersOK'
      <3>1. /\ hgThread \in BOOLEAN /\ hgSaving \in BOOLEAN /\ hgBuffers \in Seq(Names)
            /\ hgThread <=> hgSaving
            /\ ~hgSaving => hgBuffers = <<>>
        BY <1>1 DEF BeginInit, GetInv, BuffersOK
      <3>2. hgBuffers' = <<>> /\ hgThread' = FALSE /\ hgSaving' = FALSE /\ hgPc' = "URI"
        BY <1>1, <3>1 DEF BeginInit
      <3> QED
        BY <3>2, NoBuffers
    <2>2. FileOK'
      BY <1>1, HttpGetAssumption DEF BeginInit, Destination, GetInv, FileOK, InitPcs
    <2> QED
      BY <2>1, <2>2 DEF GetInv
  <1>2. CASE InitURI
    BY <1>2, InitBufferKeeps, BufferOrder DEF InitURI
  <1>3. CASE InitRequest
    BY <1>3, InitBufferKeeps, BufferOrder DEF InitRequest
  <1>4. CASE InitHeaderResponse
    BY <1>4, InitBufferKeeps, BufferOrder DEF InitHeaderResponse
  <1>5. CASE InitBodyResponse
    BY <1>5, InitBufferKeeps, BufferOrder DEF InitBodyResponse
  <1>6. CASE InitCookieResponse
    BY <1>6, InitBufferKeeps, BufferOrder DEF InitCookieResponse
  <1>7. CASE InitSetCookieResponse
    BY <1>7, InitBufferKeeps, BufferOrder DEF InitSetCookieResponse
  <1>8. CASE InitLocationResponse
    BY <1>8, InitBufferKeeps, BufferOrder DEF InitLocationResponse
  <1>9. CASE AppendHeaders \/ InitGetThread \/ FinishGet \/ LeaveGet
    <2>1. FileOK'
      <3>1. /\ UNCHANGED <<hgSocket, hgFd, OnDisk>>
            /\ hgPc \in InitPcs \cup {"ready", "ended", "closingFailed"}
            /\ \/ hgPc' \in {"idle"}
               \/ hgPc' \in {"Header", "ready"} /\ hgPc \in InitPcs
        BY <1>9 DEF AppendHeaders, InitGetThread, FinishGet, LeaveGet, UndoBuffers, InitPcs
      <3> QED
        BY <3>1 DEF GetInv, FileOK, InitPcs, OnDisk
    <2>2. CASE FinishGet \/ (AppendHeaders /\ UndoBuffers) \/ (InitGetThread /\ UndoBuffers)
      <3>1. hgBuffers' = <<>> /\ hgPc' = "idle" /\ hgThread' = FALSE /\ hgSaving' = FALSE
        BY <2>2 DEF FinishGet, AppendHeaders, InitGetThread, UndoBuffers, GetInv, BuffersOK, InitPcs
      <3>3. BuffersOK'
        BY <3>1, NoBuffers
      <3> QED
        BY <2>1, <3>3 DEF GetInv
    <2>3. CASE LeaveGet \/ (AppendHeaders /\ ~UndoBuffers) \/ (InitGetThread /\ ~UndoBuffers)
      <3>1. BuffersOK'
        <4>1. CASE LeaveGet
          BY <4>1 DEF LeaveGet, GetInv, BuffersOK, InitPcs, RunPcs
        <4>2. CASE AppendHeaders /\ ~UndoBuffers
          BY <4>2 DEF AppendHeaders, GetInv, BuffersOK, InitPcs, RunPcs, BuffersAt
        <4>3. CASE InitGetThread /\ ~UndoBuffers
          BY <4>3 DEF InitGetThread, GetInv, BuffersOK, InitPcs, RunPcs, BuffersAt
        <4> QED
          BY <2>3, <4>1, <4>2, <4>3
      <3> QED
        BY <2>1, <3>1 DEF GetInv
    <2> QED
      BY <1>9, <2>2, <2>3
  <1> QED
    BY <1>1, <1>2, <1>3, <1>4, <1>5, <1>6, <1>7, <1>8, <1>9

LEMMA RunGetKeeps ==
    ASSUME GetInv,
           \/ Connect \/ SetOptions \/ SetBuffers \/ SendRequest \/ ReadHeader
           \/ ChunkRead \/ ChunkReadFails \/ BodyInterrupted \/ CloseSocket \/ Closing \/ ClosingFails
    PROVE  GetInv'
  <1>1. hgPc \in RunPcs
    BY DEF Connect, SetOptions, SetBuffers, SendRequest, ReadHeader, ChunkRead, ChunkReadFails,
           BodyInterrupted, CloseSocket, BodyEnds, Closing, ClosingFails, RunPcs
  <1>2. CASE RunFails
    BY <1>1, <1>2, FailKeeps
  <1>3. CASE ~RunFails
    <2>1. BuffersOK'
      <3>1. hgPc' \in RunPcs /\ RunOther
        BY <1>1, <1>3 DEF Connect, SetOptions, SetBuffers, SendRequest, ReadHeader, ChunkRead,
             ChunkReadFails, BodyInterrupted, CloseSocket, Closing, ClosingFails, RunPcs
      <3> QED
        BY <1>1, <3>1, RunKeepsBuffers DEF GetInv
    <2>2. FileOK'
      <3>1. CASE Connect \/ SetOptions \/ SetBuffers \/ SendRequest
        BY <1>3, <3>1 DEF Connect, SetOptions, SetBuffers, SendRequest, GetInv, FileOK, OnDisk, InitPcs
      <3>2. CASE ReadHeader
        BY <1>3, <3>2 DEF ReadHeader, GetInv, FileOK, InitPcs
      <3>3. CASE ChunkRead
        <4> DEFINE most == IF hgLength = NoLength THEN 1 ELSE hgLength - hgReceived
        <4>1. PICK n \in 1..most :
                /\ hgReceived + n <= MaxBody
                /\ hgReceived' = hgReceived + n
                /\ hgFd' = TRUE
                /\ \E written \in 0..n : hgFile' = (IF hgReceived = 0 THEN 0 ELSE hgFile) + written
                /\ hgSaved' = hgSaved + n
          BY <3>3 DEF ChunkRead
        <4>2. PICK written \in 0..n : hgFile' = (IF hgReceived = 0 THEN 0 ELSE hgFile) + written
          BY <4>1
        <4>3. hgPc = "body" /\ UNCHANGED <<hgPc, hgSocket, hgLength>>
          BY <3>3 DEF ChunkRead
        <4>4. /\ hgReceived \in Nat /\ MaxBody \in Nat /\ hgSaved \in Nat
              /\ hgReceived # 0 => hgFile \in 0..hgReceived
              /\ hgLength = NoLength \/ hgLength \in Nat
          BY <4>3, HttpGetAssumption DEF GetInv, FileOK
        <4>5. most \in Int
          BY <4>4
        <4> HIDE DEF most
        <4>6. n \in Nat /\ n >= 1 /\ written \in Nat /\ written <= n
          BY <4>5
        <4>7. /\ hgReceived' \in 0..MaxBody /\ hgReceived' \in Nat /\ hgSaved' \in Nat
              /\ hgFile' \in 0..hgReceived' /\ hgFile' \in 0..MaxBody
          BY <4>1, <4>2, <4>4, <4>6
        <4> QED
          BY <4>1, <4>3, <4>7 DEF GetInv, FileOK, InitPcs
      <3>4. CASE ChunkReadFails
        BY <3>4, HttpGetAssumption DEF ChunkReadFails, GetInv, FileOK, InitPcs, NoFile
      <3>5. CASE CloseSocket
        BY <1>3, <3>5 DEF CloseSocket, BodyEnds, GetInv, FileOK, OnDisk, InitPcs
      <3>6. CASE Closing
        BY <3>6 DEF Closing, GetInv, FileOK, InitPcs
      <3>7. CASE ClosingFails
        BY <3>7 DEF ClosingFails, GetInv, FileOK, OnDisk, InitPcs
      <3> QED
        BY <1>3, <3>1, <3>2, <3>3, <3>4, <3>5, <3>6, <3>7 DEF BodyInterrupted
    <2> QED
      BY <2>1, <2>2 DEF GetInv
  <1> QED
    BY <1>2, <1>3

LEMMA GetStep == GetInv /\ [GetNext]_getVars => GetInv'
  <1> SUFFICES ASSUME GetInv, [GetNext]_getVars PROVE GetInv'
    OBVIOUS
  <1>1. CASE GetNext
    BY <1>1, InitGetKeeps, RunGetKeeps DEF GetNext
  <1>2. CASE UNCHANGED getVars
    BY <1>2 DEF getVars, GetInv, BuffersOK, FileOK
  <1> QED
    BY <1>1, <1>2

(***************************************************************************)
(* The inductive invariant of a get: which buffers it has where it is, and *)
(* what its file has of the body.                                          *)
(***************************************************************************)
THEOREM GetInvariant == GetSpec => []GetInv
  BY GetStart, GetStep, PTL DEF GetSpec

LEMMA GetIsClean == GetInv => GetTypeOK /\ BuffersInitializedOnce /\ EndedGetIsClean
  <1> SUFFICES ASSUME GetInv PROVE GetTypeOK /\ BuffersInitializedOnce /\ EndedGetIsClean
    OBVIOUS
  <1>1. {Buffers[i] : i \in 1..7} = {"URI", "Request", "Header", "Body", "Cookie", "SetCookie", "Location"}
    <2>1. \A i \in 1..7 : i \in {1, 2, 3, 4, 5, 6, 7}
      OBVIOUS
    <2> QED
      BY <2>1, BufferNames
  <1>2. GetTypeOK
    BY <1>1 DEF GetInv, BuffersOK, FileOK, InitPcs, RunPcs, GetTypeOK
  <1>3. Len(hgBuffers) \in 0..7
    <2>1. \A pc \in InitPcs : BuffersAt(pc) \in 0..7
      BY BufferCounts DEF InitPcs
    <2>2. Len(hgBuffers) \in {0, 7} \/ (hgPc \in InitPcs /\ Len(hgBuffers) = BuffersAt(hgPc))
      <3>1. CASE hgPc = "idle"
        BY <3>1 DEF GetInv, BuffersOK
      <3>2. CASE hgPc \in InitPcs
        BY <3>2 DEF GetInv, BuffersOK
      <3>3. CASE hgPc \in RunPcs
        BY <3>3 DEF GetInv, BuffersOK
      <3> QED
        BY <3>1, <3>2, <3>3 DEF GetInv, BuffersOK
    <2>3. 0 \in 0..7 /\ 7 \in 0..7
      OBVIOUS
    <2> QED
      BY <2>1, <2>2, <2>3
  <1>4. BuffersInitializedOnce
    <2>1. Len(hgBuffers) <= 7 /\ \A i \in 1..Len(hgBuffers) : hgBuffers[i] = Buffers[i]
      BY <1>3 DEF GetInv, BuffersOK
    <2>2. ASSUME hgPc = "idle"
          PROVE  (hgThread <=> hgSaving) /\ (hgSaving <=> Len(hgBuffers) = 7)
      <3>1. CASE hgSaving
        BY <2>2, <3>1 DEF GetInv, BuffersOK
      <3>2. CASE ~hgSaving
        BY <2>2, <3>2 DEF GetInv, BuffersOK
      <3> QED
        BY <3>1, <3>2
    <2> QED
      BY <2>1, <2>2 DEF BuffersInitializedOnce
  <1>5. EndedGetIsClean
    BY DEF GetInv, FileOK, EndedGetIsClean
  <1> QED
    BY <1>2, <1>4, <1>5

(***************************************************************************)
(* The marker of a whole body.                                             *)
(***************************************************************************)
\* What the cache counts is what this get has received: both are reset by
\* init and both grow with a chunk, whatever of it was written.
CountedIsReceived ==
    /\ hgSaved \in Nat /\ hgSaved = hgReceived
    /\ hgLength \in BodyLengths \cup {NoLength}

LEMMA CountedStep == CountedIsReceived /\ [GetNext]_getVars => CountedIsReceived'
  <1> SUFFICES ASSUME CountedIsReceived, [GetNext]_getVars PROVE CountedIsReceived'
    OBVIOUS
  <1>1. CASE BeginInit
    BY <1>1 DEF BeginInit, CountedIsReceived
  <1>2. CASE InitURI \/ InitRequest \/ InitHeaderResponse \/ InitBodyResponse
             \/ InitCookieResponse \/ InitSetCookieResponse \/ InitLocationResponse
    BY <1>2 DEF InitURI, InitRequest, InitHeaderResponse, InitBodyResponse, InitCookieResponse,
         InitSetCookieResponse, InitLocationResponse, InitBuffer, UndoBuffers, OnDisk, CountedIsReceived
  <1>3. CASE AppendHeaders \/ InitGetThread \/ FinishGet \/ LeaveGet
    BY <1>3 DEF AppendHeaders, InitGetThread, FinishGet, LeaveGet, UndoBuffers, OnDisk, CountedIsReceived
  <1>4. CASE Connect \/ SetOptions \/ SetBuffers \/ SendRequest \/ BodyInterrupted \/ CloseSocket
    BY <1>4 DEF Connect, SetOptions, SetBuffers, SendRequest, BodyInterrupted, CloseSocket, RunFails,
         OnDisk, CountedIsReceived
  <1>5. CASE ReadHeader
    BY <1>5 DEF ReadHeader, RunFails, OnDisk, CountedIsReceived
  <1>6. CASE ChunkRead
    <2> DEFINE most == IF hgLength = NoLength THEN 1 ELSE hgLength - hgReceived
    <2>1. most \in Int
      BY HttpGetAssumption DEF CountedIsReceived
    <2>2. PICK n \in 1..most : hgReceived' = hgReceived + n /\ hgSaved' = hgSaved + n
      BY <1>6 DEF ChunkRead
    <2> HIDE DEF most
    <2>3. n \in Nat
      BY <2>1
    <2> QED
      BY <1>6, <2>2, <2>3 DEF ChunkRead, CountedIsReceived
  <1>7. CASE ChunkReadFails
    BY <1>7 DEF ChunkReadFails, CountedIsReceived
  <1>8. CASE Closing \/ ClosingFails
    BY <1>8 DEF Closing, ClosingFails, OnDisk, CountedIsReceived
  <1>9. CASE UNCHANGED getVars
    BY <1>9 DEF getVars, CountedIsReceived
  <1> QED
    BY <1>1, <1>2, <1>3, <1>4, <1>5, <1>6, <1>7, <1>8, <1>9 DEF GetNext

\* Only a chunk makes the marker.
LEMMA OnlyChunksMark ==
    ASSUME CountedIsReceived, [GetNext]_getVars, ~hgMarker, hgMarker'
    PROVE  hgReceived' = hgLength
  <1>1. ChunkRead
    <2>1. ~BeginInit
      BY DEF BeginInit, Destination
    <2>2. /\ ~InitURI /\ ~InitRequest /\ ~InitHeaderResponse /\ ~InitBodyResponse
          /\ ~InitCookieResponse /\ ~InitSetCookieResponse /\ ~InitLocationResponse
      BY DEF InitURI, InitRequest, InitHeaderResponse, InitBodyResponse, InitCookieResponse,
           InitSetCookieResponse, InitLocationResponse, InitBuffer, UndoBuffers, OnDisk
    <2>3. ~AppendHeaders /\ ~InitGetThread /\ ~FinishGet /\ ~LeaveGet
      BY DEF AppendHeaders, InitGetThread, FinishGet, LeaveGet, UndoBuffers, OnDisk
    <2>4. /\ ~Connect /\ ~SetOptions /\ ~SetBuffers /\ ~SendRequest /\ ~ReadHeader
          /\ ~BodyInterrupted /\ ~CloseSocket
      BY DEF Connect, SetOptions, SetBuffers, SendRequest, ReadHeader, BodyInterrupted, CloseSocket,
           RunFails, OnDisk
    <2>5. ~ChunkReadFails /\ ~Closing /\ ~ClosingFails
      BY DEF ChunkReadFails, Closing, ClosingFails, OnDisk
    <2>6. ~UNCHANGED getVars
      BY DEF getVars
    <2> QED
      BY <2>1, <2>2, <2>3, <2>4, <2>5, <2>6 DEF GetNext
  <1> DEFINE most == IF hgLength = NoLength THEN 1 ELSE hgLength - hgReceived
  <1>2. PICK n \in 1..most :
          /\ hgReceived' = hgReceived + n
          /\ hgMarker' = (hgMarker \/ hgSaved + n = hgLength)
    BY <1>1 DEF ChunkRead
  <1> HIDE DEF most
  <1> QED
    BY <1>2 DEF CountedIsReceived

(***************************************************************************)
(* The .complete file is made by the chunk that completes the              *)
(* Content-Length, for each get of an object.                              *)
(***************************************************************************)
THEOREM MarkedWhenWhole == GetSpec => MarkerAfterWholeBody
  <1>1. GetInit => CountedIsReceived
    BY DEF GetInit, CountedIsReceived
  <1>2. CountedIsReceived /\ [GetNext]_getVars => [~hgMarker /\ hgMarker' => hgReceived' = hgLength]_getVars
    BY OnlyChunksMark
  <1> QED
    BY <1>1, <1>2, CountedStep, PTL DEF GetSpec, MarkerAfterWholeBody

-----------------------------------------------------------------------------
(***************************************************************************)
(* The server and a post.                                                  *)
(***************************************************************************)
\* The client's socket is there only while a client is served, and a server
\* that does not run holds nothing.
ServerInv ==
    /\ hsHeld \subseteq {"server", "header", "body", "cookie", "client"}
    /\ hsOwner \in {"idle", "cancel", "cancelled"}
    /\ hsServed \in 0..MaxServed /\ hsNow \in 0..HsMaxTime
    /\ hsPc \in {"none", "listen", "header", "body", "cookie", "shutdown", "client", "accept",
                 "read", "answer", "close", "finish", "ended", "failed", "cancelled"}
    /\ hsPc \notin {"accept", "read", "answer", "close"} => "client" \notin hsHeld
    /\ hsPc \in {"none", "failed", "ended", "cancelled"} => hsHeld = {}

\* A post closes a socket when it has connected it.
PostInv ==
    /\ hpPc \in {"idle", "own", "given", "ready", "posted", "failed"}
    /\ hpInternal \in BOOLEAN /\ hpGiven = "open"
    /\ hpHeld = CASE hpPc = "own" -> {"socket"}
                  [] hpPc \in {"ready", "posted", "failed"} ->
                        PostBuffers \cup IF hpInternal THEN {"socket"} ELSE {}
                  [] OTHER -> {}

LEMMA WebStart == WebInit => ServerInv /\ PostInv
  <1> SUFFICES ASSUME WebInit PROVE ServerInv /\ PostInv
    OBVIOUS
  <1>1. ServerInv
    BY HttpServerAssumption DEF WebInit, ServerInv
  <1>2. PostInv
    BY DEF WebInit, PostInv
  <1> QED
    BY <1>1, <1>2

LEMMA ServerFailsKeeps ==
    ASSUME ServerInv, ServerFails
    PROVE  ServerInv'
  BY DEF ServerInv, ServerFails, ServerControl

LEMMA AcquireKeeps ==
    ASSUME ServerInv, NEW from, NEW what \in {"server", "header", "body", "cookie", "client"}, NEW to,
           to \in {"header", "body", "cookie", "shutdown", "accept"},
           what = "client" => to = "accept",
           from \notin {"accept", "read", "answer", "close"},
           Acquire(from, what, to)
    PROVE  ServerInv'
  <1>1. CASE ServerFails
    BY <1>1, ServerFailsKeeps
  <1>2. CASE ~ServerFails
    BY <1>2 DEF Acquire, ServerInv, ServerControl
  <1> QED
    BY <1>1, <1>2

LEMMA ServerRunKeeps ==
    ASSUME ServerInv, ServerRun
    PROVE  ServerInv'
  <1>1. CASE Listen \/ InitHeaderRequest \/ InitBodyRequest \/ InitCookie \/ InitClientSocket
    <2>1. CASE Listen
      BY <2>1, AcquireKeeps DEF Listen
    <2>2. CASE InitHeaderRequest
      BY <2>2, AcquireKeeps DEF InitHeaderRequest
    <2>3. CASE InitBodyRequest
      BY <2>3, AcquireKeeps DEF InitBodyRequest
    <2>4. CASE InitCookie
      BY <2>4, AcquireKeeps DEF InitCookie
    <2>5. CASE InitClientSocket
      BY <2>5, AcquireKeeps DEF InitClientSocket
    <2> QED
      BY <1>1, <2>1, <2>2, <2>3, <2>4, <2>5
  <1>2. CASE ServerFails
    BY <1>2, ServerFailsKeeps
  <1>3. CASE ServerBegins \/ FinishServerRun
    BY <1>3 DEF ServerBegins, FinishServerRun, ServerInv, ServerControl
  <1>4. CASE Accept
    BY <1>4, HttpServerAssumption DEF Accept, ServerInv, ServerControl
  <1>5. CASE (NothingToAccept \/ CloseClient) /\ ~ServerFails
    <2>1. /\ hsPc \in {"accept", "close"} /\ hsHeld' = hsHeld \ {"client"}
          /\ hsPc' \in {"finish", "client"}
          /\ UNCHANGED <<hsOwner, hsNow, hsServed>>
      BY <1>5 DEF NothingToAccept, CloseClient, ServerControl
    <2> QED
      BY <2>1 DEF ServerInv
  <1>6. CASE (ReadRequest \/ httpReceived) /\ ~ServerFails
    BY <1>6 DEF ReadRequest, httpReceived, ServerStep, ServerInv, ServerControl
  <1> QED
    BY <1>1, <1>2, <1>3, <1>4, <1>5, <1>6 DEF ServerRun

LEMMA ServerKeeps ==
    ASSUME ServerInv, StartServer \/ ServerRun \/ JoinServer \/ CancelServer \/ CancelServerEnds \/ HsTick
    PROVE  ServerInv'
  <1>1. CASE ServerRun
    BY <1>1, ServerRunKeeps
  <1>2. CASE StartServer
    BY <1>2 DEF StartServer, ServerInv, ServerControl
  <1>3. CASE JoinServer \/ CancelServer
    BY <1>3 DEF JoinServer, CancelServer, ServerInv
  <1>4. CASE CancelServerEnds
    <2>1. /\ UNCHANGED <<hsNow, hsServed>> /\ hsOwner' = "cancelled"
          /\ \/ hsPc' = "cancelled" /\ hsHeld' = {}
             \/ UNCHANGED <<hsPc, hsHeld>>
      BY <1>4 DEF CancelServerEnds
    <2> QED
      BY <2>1 DEF ServerInv
  <1>5. CASE HsTick
    BY <1>5, HttpServerAssumption DEF HsTick, ServerInv
  <1> QED
    BY <1>1, <1>2, <1>3, <1>4, <1>5

LEMMA ServerFrame ==
    StartServer \/ ServerRun \/ JoinServer \/ CancelServer \/ CancelServerEnds \/ HsTick
        => UNCHANGED postVars
  BY DEF StartServer, ServerRun, JoinServer, CancelServer, CancelServerEnds, HsTick,
         Listen, InitHeaderRequest, InitBodyRequest, InitCookie, InitClientSocket, Acquire,
         ServerFails, ServerBegins, NothingToAccept, Accept, ReadRequest, httpReceived,
         ServerStep, CloseClient, FinishServerRun

LEMMA PostKeeps ==
    ASSUME PostInv, InitPostOwn \/ InitPostGiven \/ InitPost \/ RunPost \/ FinishPost
    PROVE  PostInv' /\ UNCHANGED serverVars
  <1>s. "socket" \notin PostBuffers
    BY DEF PostBuffers
  <1>1. CASE InitPostOwn \/ InitPostGiven
    BY <1>1 DEF InitPostOwn, InitPostGiven, PostInv
  <1>2. CASE InitPost
    BY <1>2 DEF InitPost, PostInv
  <1>3. CASE RunPost
    BY <1>3 DEF RunPost, PostInv
  <1>4. CASE FinishPost
    BY <1>s, <1>4 DEF FinishPost, PostInv
  <1> QED
    BY <1>1, <1>2, <1>3, <1>4

LEMMA WebStep == (ServerInv /\ PostInv) /\ [WebNext]_webVars => (ServerInv /\ PostInv)'
  <1> SUFFICES ASSUME ServerInv, PostInv, [WebNext]_webVars PROVE ServerInv' /\ PostInv'
    OBVIOUS
  <1>p. UNCHANGED postVars => PostInv'
    BY DEF postVars, PostInv
  <1>s. UNCHANGED serverVars => ServerInv'
    BY DEF serverVars, ServerInv
  <1>1. CASE StartServer \/ ServerRun \/ JoinServer \/ CancelServer \/ CancelServerEnds \/ HsTick
    BY <1>p, <1>1, ServerKeeps, ServerFrame
  <1>2. CASE InitPostOwn \/ InitPostGiven \/ InitPost \/ RunPost \/ FinishPost
    BY <1>s, <1>2, PostKeeps
  <1>3. CASE UNCHANGED webVars
    BY <1>p, <1>s, <1>3 DEF webVars
  <1> QED
    BY <1>1, <1>2, <1>3 DEF WebNext

(***************************************************************************)
(* The inductive invariant of the server and of a post.                    *)
(***************************************************************************)
THEOREM WebInvariant == WebSpec => [](ServerInv /\ PostInv)
  BY WebStart, WebStep, PTL DEF WebSpec

LEMMA WebReleases == ServerInv /\ PostInv => WebTypeOK /\ ServerReleasesAll /\ PostSocketOwned
  <1> SUFFICES ASSUME ServerInv, PostInv PROVE WebTypeOK /\ ServerReleasesAll /\ PostSocketOwned
    OBVIOUS
  <1>1. hpHeld \subseteq PostBuffers \cup {"socket"}
    BY DEF PostInv
  <1>2. WebTypeOK
    BY <1>1 DEF ServerInv, WebTypeOK
  <1>3. ServerReleasesAll
    BY DEF ServerInv, ServerReleasesAll, Serving
  <1>4. PostSocketOwned
    BY DEF PostInv, PostSocketOwned
  <1> QED
    BY <1>2, <1>3, <1>4

(***************************************************************************)
(* Whatever call fails, the balancer, a get, the server and a post give    *)
(* back what they took, for every number of modules, gets and clients.     *)
(***************************************************************************)
THEOREM WebResourcesAreOwned == WebResourcesSpec => []WebResourcesOwned
  <1>1. LbInv /\ GetInv /\ (ServerInv /\ PostInv) => WebResourcesOwned
    BY BalancerOwns, GetIsClean, WebReleases DEF WebResourcesOwned
  <1> QED
    BY <1>1, BalancerInvariant, GetInvariant, WebInvariant, PTL DEF WebResourcesSpec
-----------------------------------------------------------------------------
(***************************************************************************)
(* A message that is read from a socket.                                   *)
(***************************************************************************)
Bytes == hmStream.bytes

\* Where a blank line of the stream begins.
BlankLines == EndsIn(Bytes)

\* As long as no peek ended inside a blank line, the header that was read has
\* none: what was taken ends before the first one begins.  Once a peek has, the
\* first blank line has begun in what was taken, and the one that will be found
\* begins later.
MessageInv ==
    /\ hmStream \in HmStreams
    /\ hmArrived \in 0..Len(Bytes) /\ hmTaken \in 0..hmArrived
    /\ hmHeader \in Nat /\ hmBody \in Nat /\ hmTaken = hmHeader + hmBody
    /\ hmPc \in {"url", "header", "body", "done", "timeout", "eof"}
    /\ hmPc = "header" =>
         /\ hmBody = 0
         /\ ~hmSplit => \A i \in BlankLines : hmTaken < i
         /\ hmSplit /\ BlankLines # {} => \E i \in BlankLines : i <= hmTaken
    /\ hmPc \in {"body", "done"} =>
         IF hmSplit THEN hmHeader > HeaderLength ELSE hmHeader = HeaderLength
    /\ hmPc = "done" => hmBody = hmStream.length

LEMMA StreamFacts ==
    ASSUME hmStream \in HmStreams
    PROVE  /\ Bytes \in Seq(STRING) /\ Len(Bytes) \in Nat
           /\ hmStream.length = HmNoLength \/ hmStream.length \in Nat
           /\ BlankLines \subseteq Nat /\ HmBuffer \in Nat /\ HmBuffer >= 1
  <1>1. hmStream \in [bytes : Seq(STRING), length : Nat \cup {HmNoLength}]
    BY HttpMessageAssumption
  <1>2. Bytes \in Seq(STRING) /\ Len(Bytes) \in Nat
    BY <1>1 DEF Bytes
  <1>3. BlankLines \subseteq Nat
    BY <1>2 DEF BlankLines, EndsIn
  <1> QED
    BY <1>1, <1>2, <1>3, HttpMessageAssumption

\* A peek sees what follows the bytes taken, and a blank line in it is one of
\* the stream.
LEMMA PeekFacts ==
    ASSUME MessageInv
    PROVE  /\ Len(Peeked) \in 0..(hmArrived - hmTaken)
           /\ EndsIn(Peeked) \subseteq Nat
           /\ \A i \in 1..(Len(Peeked) - 3) : i \in EndsIn(Peeked) <=> hmTaken + i \in BlankLines
  <1> DEFINE n == Least(hmArrived - hmTaken, HmBuffer)
  <1>0. /\ Bytes \in Seq(STRING) /\ Len(Bytes) \in Nat /\ HmBuffer \in Nat
        /\ hmTaken \in Nat /\ hmArrived \in Nat /\ hmTaken <= hmArrived /\ hmArrived <= Len(Bytes)
    BY StreamFacts DEF MessageInv
  <1>1. n \in 0..(hmArrived - hmTaken)
    BY <1>0 DEF Least
  <1> HIDE DEF n
  <1>2. Peeked = SubSeq(Bytes, hmTaken + 1, hmTaken + n)
    BY DEF Peeked, Bytes, n
  <1>3. Peeked \in Seq(STRING) /\ Len(Peeked) = n
    <2>1. \A i \in (hmTaken + 1)..(hmTaken + n) : Bytes[i] \in STRING
      BY <1>0, <1>1
    <2> QED
      BY <1>0, <1>1, <1>2, <2>1, SubSeqProperties
  <1>4. EndsIn(Peeked) \subseteq Nat
    BY <1>1, <1>3 DEF EndsIn
  <1>5. ASSUME NEW i \in 1..(Len(Peeked) - 3)
        PROVE  i \in EndsIn(Peeked) <=> hmTaken + i \in BlankLines
    <2>1. /\ hmTaken + 1 \in 1..Len(Bytes) /\ hmTaken + n \in 1..Len(Bytes)
          /\ i \in 1..n /\ i + 3 \in 1..n
          /\ (hmTaken + n) - (hmTaken + 1) + 1 = n
      BY <1>0, <1>1, <1>3
    <2>2. SubSeq(Peeked, i, i + 3) = SubSeq(Bytes, (hmTaken + 1) + i - 1, (hmTaken + 1) + (i + 3) - 1)
      BY <1>0, <1>2, <1>3, <2>1, SubSeqOfSubSeq
    <2>3. SubSeq(Peeked, i, i + 3) = SubSeq(Bytes, hmTaken + i, hmTaken + i + 3)
      <3>1. (hmTaken + 1) + i - 1 = hmTaken + i /\ (hmTaken + 1) + (i + 3) - 1 = hmTaken + i + 3
        BY <1>0, <2>1
      <3> QED
        BY <2>2, <3>1
    <2>4. hmTaken + i \in 1..(Len(Bytes) - 3)
      BY <1>0, <1>1, <1>3
    <2> QED
      BY <2>3, <2>4 DEF EndsIn, BlankLines
  <1> QED
    BY <1>1, <1>3, <1>4, <1>5

\* The blank line that ends the header is the first of the stream.
LEMMA FirstBlankLine ==
    ASSUME MessageInv, BlankLines # {}
    PROVE  \E m \in BlankLines : HeaderLength = m + 3 /\ \A i \in BlankLines : m <= i
  <1> DEFINE m == CHOOSE i \in BlankLines : \A j \in BlankLines : i <= j
  <1>1. m \in BlankLines /\ \A i \in BlankLines : m <= i
    BY StreamFacts, LeastIsIn DEF MessageInv
  <1>2. HeaderLength = m + 3
    BY DEF HeaderLength, BlankLines, Bytes
  <1> QED
    BY <1>1, <1>2

LEMMA EndHeaderKeeps ==
    ASSUME MessageInv, EndHeader
    PROVE  MessageInv'
  <1> DEFINE p == CHOOSE i \in EndsIn(Peeked) : \A j \in EndsIn(Peeked) : i <= j
  <1>1. p \in EndsIn(Peeked) /\ \A i \in EndsIn(Peeked) : p <= i
    BY PeekFacts, LeastIsIn DEF EndHeader
  <1>2. /\ hmPc = "header" /\ hmPc' = "body"
        /\ hmTaken' = hmTaken + (p + 3) /\ hmHeader' = hmHeader + (p + 3)
        /\ UNCHANGED <<hmStream, hmArrived, hmBody, hmSplit>>
    BY DEF EndHeader, HeaderFound
  <1> HIDE DEF p
  <1>3. /\ p \in 1..(Len(Peeked) - 3) /\ Len(Peeked) \in 0..(hmArrived - hmTaken)
        /\ hmTaken + p \in BlankLines
    BY <1>1, PeekFacts DEF EndsIn
  <1>4. /\ hmTaken \in Nat /\ hmArrived \in Nat /\ hmHeader \in Nat /\ hmBody = 0
        /\ hmTaken = hmHeader /\ hmTaken <= hmArrived
    BY <1>2, StreamFacts DEF MessageInv
  <1>5. hmTaken' \in 0..hmArrived' /\ hmHeader' \in Nat /\ hmTaken' = hmHeader' + hmBody'
    BY <1>2, <1>3, <1>4
  <1>6. ASSUME ~hmSplit
        PROVE  hmHeader' = HeaderLength
    <2>1. PICK m \in BlankLines : HeaderLength = m + 3 /\ \A i \in BlankLines : m <= i
      BY <1>3, FirstBlankLine
    <2>2. m \in Nat /\ hmTaken < m /\ m <= hmTaken + p
      BY <1>2, <1>3, <1>6, <2>1, StreamFacts DEF MessageInv
    <2>3. m - hmTaken \in 1..(Len(Peeked) - 3) /\ hmTaken + (m - hmTaken) = m
      BY <1>3, <1>4, <2>2
    <2>4. m - hmTaken \in EndsIn(Peeked)
      BY <2>1, <2>3, PeekFacts
    <2>5. p <= m - hmTaken
      BY <1>1, <2>4
    <2> QED
      BY <1>2, <1>3, <1>4, <2>1, <2>2, <2>5
  <1>7. ASSUME hmSplit
        PROVE  hmHeader' > HeaderLength
    <2>1. PICK m \in BlankLines : HeaderLength = m + 3 /\ \A i \in BlankLines : m <= i
      BY <1>3, FirstBlankLine
    <2>2. PICK i \in BlankLines : i <= hmTaken
      BY <1>2, <1>3, <1>7 DEF MessageInv
    <2>3. m \in Nat /\ i \in Nat /\ m <= i
      BY <2>1, StreamFacts DEF MessageInv
    <2> QED
      BY <1>2, <1>3, <1>4, <2>1, <2>2, <2>3
  <1>8. HeaderLength' = HeaderLength /\ BlankLines' = BlankLines /\ Bytes' = Bytes
    BY <1>2 DEF HeaderLength, BlankLines, Bytes, EndsIn
  <1> QED
    BY <1>2, <1>4, <1>5, <1>6, <1>7, <1>8 DEF MessageInv

LEMMA MoreHeaderKeeps ==
    ASSUME MessageInv, MoreHeader
    PROVE  MessageInv'
  <1> DEFINE k == Len(Peeked)
  <1>1. /\ hmPc = "header" /\ EndsIn(Peeked) = {}
        /\ hmTaken' = hmTaken + k /\ hmHeader' = hmHeader + k
        /\ hmSplit' = (hmSplit \/ hmTaken + k \in (HeaderLength - 3)..(HeaderLength - 1))
        /\ UNCHANGED <<hmStream, hmArrived, hmBody, hmPc>>
    BY DEF MoreHeader
  <1>2. /\ k \in 0..(hmArrived - hmTaken)
        /\ \A i \in 1..(k - 3) : hmTaken + i \notin BlankLines
    BY <1>1, PeekFacts
  <1> HIDE DEF k
  <1>3. /\ hmTaken \in Nat /\ hmArrived \in Nat /\ hmHeader \in Nat /\ hmBody = 0
        /\ hmTaken = hmHeader /\ hmTaken <= hmArrived
    BY <1>1, StreamFacts DEF MessageInv
  <1>4. hmTaken' \in 0..hmArrived' /\ hmHeader' \in Nat /\ hmTaken' = hmHeader' + hmBody'
    BY <1>1, <1>2, <1>3
  <1>5. ASSUME ~hmSplit', NEW i \in BlankLines
        PROVE  hmTaken' < i
    <2>1. PICK m \in BlankLines : HeaderLength = m + 3 /\ \A j \in BlankLines : m <= j
      BY FirstBlankLine
    <2>2. m \in Nat /\ i \in Nat /\ hmTaken < m /\ m <= i
      BY <1>1, <1>5, <2>1, StreamFacts DEF MessageInv
    <2>3. hmTaken + k \notin m..(m + 2)
      <3>1. (m + 3) - 3 = m /\ (m + 3) - 1 = m + 2
        BY <2>2
      <3> QED
        BY <1>1, <1>5, <2>1, <3>1
    <2>4. ~(m + 3 <= hmTaken + k)
      <3> SUFFICES ASSUME m + 3 <= hmTaken + k PROVE FALSE
        OBVIOUS
      <3>1. m - hmTaken \in 1..(k - 3) /\ hmTaken + (m - hmTaken) = m
        BY <1>2, <1>3, <2>2
      <3> QED
        BY <1>2, <2>1, <3>1
    <2> QED
      BY <1>1, <1>2, <1>3, <2>2, <2>3, <2>4
  <1>6. ASSUME hmSplit', BlankLines # {}
        PROVE  \E i \in BlankLines : i <= hmTaken'
    <2>1. CASE hmSplit
      <3>1. PICK i \in BlankLines : i <= hmTaken
        BY <1>1, <1>6, <2>1 DEF MessageInv
      <3>2. i \in Nat
        BY StreamFacts DEF MessageInv
      <3> QED
        BY <1>1, <1>2, <1>3, <3>1, <3>2
    <2>2. CASE ~hmSplit
      <3>1. PICK m \in BlankLines : HeaderLength = m + 3
        BY <1>6, FirstBlankLine
      <3>2. m \in Nat
        BY StreamFacts DEF MessageInv
      <3>3. hmTaken + k \in ((m + 3) - 3)..((m + 3) - 1)
        BY <1>1, <1>6, <2>2, <3>1
      <3> QED
        BY <1>1, <1>2, <1>3, <3>2, <3>3
    <2> QED
      BY <2>1, <2>2
  <1>7. HeaderLength' = HeaderLength /\ BlankLines' = BlankLines /\ Bytes' = Bytes
    BY <1>1 DEF HeaderLength, BlankLines, Bytes, EndsIn
  <1> QED
    BY <1>1, <1>3, <1>4, <1>5, <1>6, <1>7 DEF MessageInv

LEMMA MessageStep == MessageInv /\ [MessageNext]_messageVars => MessageInv'
  <1> SUFFICES ASSUME MessageInv, [MessageNext]_messageVars PROVE MessageInv'
    OBVIOUS
  <1>0. hmStream' = hmStream =>
          HeaderLength' = HeaderLength /\ BlankLines' = BlankLines /\ Bytes' = Bytes
    BY DEF HeaderLength, BlankLines, Bytes, EndsIn
  <1>1. CASE MessageArrives
    BY <1>0, <1>1, StreamFacts DEF MessageArrives, MessageInv, Bytes
  <1>2. CASE EndHeader
    BY <1>2, EndHeaderKeeps
  <1>3. CASE MoreHeader
    BY <1>3, MoreHeaderKeeps
  <1>4. CASE ReadGivesUp
    BY <1>0, <1>4 DEF ReadGivesUp, MessageInv
  <1>5. CASE ReadBody
    <2> DEFINE wanted == IF hmStream.length = HmNoLength THEN HmBuffer
                         ELSE Least(hmStream.length - hmBody, HmBuffer)
    <2>1. PICK n \in 1..Least(wanted, hmArrived - hmTaken) : hmTaken' = hmTaken + n /\ hmBody' = hmBody + n
      BY <1>5 DEF ReadBody
    <2>2. /\ hmTaken \in Nat /\ hmArrived \in Nat /\ hmHeader \in Nat /\ hmBody \in Nat
          /\ hmTaken <= hmArrived /\ hmTaken = hmHeader + hmBody
      BY StreamFacts DEF MessageInv
    <2>3. wanted \in Int
      BY <2>2, StreamFacts DEF MessageInv, Least
    <2> HIDE DEF wanted
    <2>4. n \in Nat /\ n <= hmArrived - hmTaken
      BY <2>2, <2>3 DEF Least
    <2>5. hmTaken' \in 0..hmArrived /\ hmBody' \in Nat /\ hmTaken' = hmHeader + hmBody'
      BY <2>1, <2>2, <2>4
    <2>6. /\ hmPc = "body"
          /\ UNCHANGED <<hmStream, hmArrived, hmHeader, hmPc, hmSplit>>
      BY <1>5 DEF ReadBody
    <2> QED
      BY <1>0, <2>5, <2>6 DEF MessageInv
  <1>6. CASE EndBody
    BY <1>0, <1>6 DEF EndBody, MessageInv
  <1>7. CASE UNCHANGED messageVars
    BY <1>0, <1>7 DEF messageVars, MessageInv
  <1> QED
    BY <1>1, <1>2, <1>3, <1>4, <1>5, <1>6, <1>7 DEF MessageNext

LEMMA MessageStart == MessageInit => MessageInv
  <1> SUFFICES ASSUME MessageInit PROVE MessageInv
    OBVIOUS
  <1>1. hmStream \in HmStreams /\ hmPc \in {"header", "url"}
    BY DEF MessageInit
  <1>2. \A i \in BlankLines : i \in Nat /\ 0 < i
    BY <1>1, StreamFacts DEF BlankLines, EndsIn
  <1>3. hmArrived \in 0..Len(Bytes) /\ hmTaken \in 0..hmArrived
    BY <1>1, StreamFacts DEF MessageInit
  <1> QED
    BY <1>1, <1>2, <1>3 DEF MessageInit, MessageInv

(***************************************************************************)
(* However the network cuts the stream, a message that is read completely  *)
(* has taken its header and its Content-Length and nothing of the next     *)
(* message if no peek ended inside the blank line, and more than its       *)
(* header if one did.                                                      *)
(***************************************************************************)
THEOREM MessageEndsRight == MessageSpec => [](MessageTypeOK /\ MessageBoundary)
  <1>1. MessageInv => MessageTypeOK /\ MessageBoundary
    BY DEF MessageInv, MessageTypeOK, MessageBoundary, Bytes
  <1> QED
    BY <1>1, MessageStart, MessageStep, PTL DEF MessageSpec
-----------------------------------------------------------------------------
(***************************************************************************)
(* The encoding of URLs: encodeURL and decodeURL, character by character.  *)
(***************************************************************************)
\* What holds before the first character of a text, and after each one if it
\* held before it, holds up to the last one.
LEMMA AllPlaces ==
    ASSUME NEW n \in Nat, NEW S, 0 \in S, \A k \in 0..n : k \in S /\ k < n => k + 1 \in S
    PROVE  \A k \in 0..n : k \in S
  <1> DEFINE T == {k \in 0..n : k \notin S}
  <1> SUFFICES ASSUME T # {} PROVE FALSE
    OBVIOUS
  <1>1. PICK m \in T : \A j \in T : m <= j
    <2>1. T \subseteq Nat
      OBVIOUS
    <2> QED
      BY <2>1, LeastIsIn
  <1>2. m \in Nat /\ m # 0 /\ m <= n /\ m \notin S
    OBVIOUS
  <1>3. m - 1 \in 0..n /\ m - 1 < n /\ m - 1 < m /\ m - 1 + 1 = m
    BY <1>2
  <1>4. m - 1 \in S
    BY <1>1, <1>3
  <1> QED
    BY <1>2, <1>3, <1>4

\* A function that is defined from one character to the next.
Steps(f, n, S, base, step) ==
    f \in [0..n -> S] /\ f[0] = base /\ \A k \in 1..n : f[k] = step[k][f[k - 1]]

LEMMA StepByStep ==
    ASSUME NEW n \in Nat, NEW S, NEW base \in S, NEW step \in [1..n -> [S -> S]]
    PROVE  \E f : Steps(f, n, S, base, step)
  <1> DEFINE Until(m, f) == Steps(f, m, S, base, step)
             T == {m \in 0..n : \E f : Until(m, f)}
  <1>1. 0 \in T
    <2>1. Until(0, [k \in 0..0 |-> base])
      BY DEF Steps
    <2> HIDE DEF Until
    <2> QED
      BY <2>1
  <1>2. ASSUME NEW m \in 0..n, m \in T, m < n
        PROVE  m + 1 \in T
    <2>1. PICK f : Steps(f, m, S, base, step)
      BY <1>2
    <2> DEFINE g == [k \in 0..(m + 1) |-> IF k <= m THEN f[k] ELSE step[m + 1][f[m]]]
    <2>2. step[m + 1][f[m]] \in S
      BY <1>2, <2>1 DEF Steps
    <2>3. g \in [0..(m + 1) -> S] /\ g[0] = base
      BY <2>1, <2>2 DEF Steps
    <2>4. ASSUME NEW k \in 1..(m + 1)
          PROVE  g[k] = step[k][g[k - 1]]
      <3>1. CASE k <= m
        BY <2>1, <3>1 DEF Steps
      <3>2. CASE k = m + 1
        BY <3>2
      <3> QED
        BY <3>1, <3>2
    <2>5. Until(m + 1, g)
      BY <2>3, <2>4 DEF Steps
    <2> HIDE DEF Until, g
    <2> QED
      BY <1>2, <2>5
  <1>3. n \in T
    <2>1. \A m \in 0..n : m \in T /\ m < n => m + 1 \in T
      BY <1>2
    <2> HIDE DEF T
    <2>2. \A m \in 0..n : m \in T
      BY <1>1, <2>1, AllPlaces, Zenon
    <2> QED
      BY <2>2
  <1> QED
    BY <1>3

LEMMA SameSteps ==
    ASSUME NEW n \in Nat, NEW f, NEW g, f[0] = g[0],
           \A k \in 1..n : f[k - 1] = g[k - 1] => f[k] = g[k]
    PROVE  f[n] = g[n]
  <1> DEFINE S == {k \in 0..n : f[k] = g[k]}
  <1>1. 0 \in S
    OBVIOUS
  <1>2. ASSUME NEW k \in 0..n, k \in S, k < n
        PROVE  k + 1 \in S
    <2>1. k + 1 \in 1..n /\ k + 1 \in 0..n /\ k + 1 - 1 = k
      BY <1>2
    <2>2. f[k] = g[k]
      BY <1>2
    <2>3. f[k + 1] = g[k + 1]
      BY <2>1, <2>2
    <2> QED
      BY <2>1, <2>3
  <1>3. \A k \in 0..n : k \in S /\ k < n => k + 1 \in S
    BY <1>2
  <1> HIDE DEF S
  <1>4. \A k \in 0..n : k \in S
    BY <1>1, <1>3, AllPlaces, Zenon
  <1> QED
    BY <1>4 DEF S

UrlChar == Plain \cup {"space", "+", "%", "&"}

\* What encodeURL sends.
SentChar == Plain \cup {"+", "%"}

LEMMA EncodedChar ==
    ASSUME NEW c \in UrlChar
    PROVE  EncodeChar(c) \in Seq(SentChar) /\ Len(EncodeChar(c)) \in 1..3
  <1>1. CASE c \in Plain
    <2>1. EncodeChar(c) = <<c>>
      BY <1>1 DEF EncodeChar, Plain
    <2> QED
      BY <1>1, <2>1 DEF SentChar
  <1>2. CASE c = "space"
    <2>1. EncodeChar(c) = <<"+">>
      BY <1>2 DEF EncodeChar, Plain
    <2> QED
      BY <2>1 DEF SentChar
  <1>3. CASE c = "+"
    <2>1. EncodeChar(c) = <<"%", "2", "B">>
      BY <1>3 DEF EncodeChar, Plain
    <2> QED
      BY <2>1 DEF SentChar, Plain
  <1>4. CASE c = "%"
    <2>1. EncodeChar(c) = <<"%", "2", "5">>
      BY <1>4 DEF EncodeChar, Plain
    <2> QED
      BY <2>1 DEF SentChar, Plain
  <1>5. CASE c = "&"
    <2>1. EncodeChar(c) = <<"%", "2", "6">>
      BY <1>5 DEF EncodeChar, Plain
    <2> QED
      BY <2>1 DEF SentChar, Plain
  <1> QED
    BY <1>1, <1>2, <1>3, <1>4, <1>5 DEF UrlChar

\* The encoding of the first k characters, for each k.
Encoding(f, s) ==
    /\ f \in [0..Len(s) -> Seq(SentChar)]
    /\ f[0] = <<>>
    /\ \A k \in 1..Len(s) : f[k] = f[k - 1] \o EncodeChar(s[k])

LEMMA EncodeFacts ==
    ASSUME NEW s \in Seq(UrlChar)
    PROVE  \E f : Encoding(f, s) /\ f[Len(s)] = encodeURL(s)
  <1> DEFINE n == Len(s)
             T == Seq(SentChar)
             step == [k \in 1..n |-> [t \in T |-> t \o EncodeChar(s[k])]]
             Rule(f) == [k \in 0..n |-> IF k = 0 THEN <<>> ELSE f[k - 1] \o EncodeChar(s[k])]
             done == CHOOSE f : f = Rule(f)
  <1>0. n \in Nat /\ <<>> \in T /\ \A k \in 1..n : EncodeChar(s[k]) \in T
    BY EncodedChar
  <1>1. step \in [1..n -> [T -> T]]
    BY <1>0
  <1>2. PICK f \in [0..n -> T] : f[0] = <<>> /\ \A k \in 1..n : f[k] = step[k][f[k - 1]]
    <2> HIDE DEF step, n, T
    <2>1. \E f : Steps(f, n, T, <<>>, step)
      BY <1>0, <1>1, StepByStep, Zenon
    <2> QED
      BY <2>1 DEF Steps
  <1>3. \A k \in 1..n : f[k - 1] \in T
    <2>1. \A k \in 1..n : k - 1 \in 0..n
      BY <1>0
    <2> QED
      BY <2>1
  <1>4. f = Rule(f) /\ \A k \in 1..n : f[k] = f[k - 1] \o EncodeChar(s[k])
    <2>1. \A k \in 1..n : f[k] = f[k - 1] \o EncodeChar(s[k])
      BY <1>2, <1>3
    <2>2. f = [k \in 0..n |-> f[k]]
      BY <1>2
    <2>3. \A k \in 0..n : k = 0 \/ k \in 1..n
      BY <1>0
    <2>4. \A k \in 0..n : f[k] = Rule(f)[k]
      BY <1>2, <2>1, <2>3
    <2> QED
      BY <2>1, <2>2, <2>4
  <1>5. done = Rule(done)
    <2> HIDE DEF Rule
    <2> QED
      BY <1>4
  <1>6. encodeURL(s) = done[n]
    BY DEF encodeURL
  <1> HIDE DEF done
  <1>7. done[0] = <<>> /\ \A k \in 1..n : done[k] = done[k - 1] \o EncodeChar(s[k])
    <2>1. \A k \in 0..n : done[k] = Rule(done)[k]
      BY <1>5
    <2>2. 0 \in 0..n /\ \A k \in 1..n : k \in 0..n /\ k # 0
      BY <1>0
    <2> QED
      BY <2>1, <2>2
  <1>8. encodeURL(s) = f[n]
    <2>1. \A k \in 1..n : f[k - 1] = done[k - 1] => f[k] = done[k]
      BY <1>4, <1>7
    <2>2. f[n] = done[n]
      <3>1. n \in Nat /\ f[0] = done[0]
        BY <1>0, <1>2, <1>7
      <3> HIDE DEF n
      <3> QED
        BY <2>1, <3>1, SameSteps, Zenon
    <2> QED
      BY <1>6, <2>2
  <1>9. Encoding(f, s)
    BY <1>2, <1>4 DEF Encoding
  <1> QED
    BY <1>8, <1>9

\* encodeURL with a limit, for each number of characters.
CutTexts == [on : BOOLEAN, out : Seq(SentChar)]

LEMMA TruncateType ==
    ASSUME NEW t \in CutTexts, NEW c \in UrlChar, NEW most \in Nat
    PROVE  Truncate(t, c, most) \in CutTexts
  <1>1. EncodeChar(c) \in Seq(SentChar) /\ t.out \in Seq(SentChar)
    BY EncodedChar DEF CutTexts
  <1>2. t.out \o EncodeChar(c) \in Seq(SentChar)
    BY <1>1
  <1> QED
    BY <1>2 DEF Truncate, CutTexts

LEMMA TruncateFacts ==
    ASSUME NEW s \in Seq(UrlChar), NEW most \in Nat
    PROVE  \E f \in [0..Len(s) -> CutTexts] :
             /\ f[0] = [on |-> TRUE, out |-> <<>>] /\ f[Len(s)].out = truncatedURL(s, most)
             /\ \A k \in 1..Len(s) : f[k] = Truncate(f[k - 1], s[k], most)
  <1> DEFINE n == Len(s)
             T == CutTexts
             base == [on |-> TRUE, out |-> <<>>]
             step == [k \in 1..n |-> [t \in T |-> Truncate(t, s[k], most)]]
             Rule(f) == [k \in 0..n |-> IF k = 0 THEN base ELSE Truncate(f[k - 1], s[k], most)]
             done == CHOOSE f : f = Rule(f)
  <1>0. n \in Nat /\ base \in T /\ \A k \in 1..n : \A t \in T : Truncate(t, s[k], most) \in T
    <2>1. base \in T
      BY DEF CutTexts
    <2> QED
      BY <2>1, TruncateType
  <1>1. step \in [1..n -> [T -> T]]
    BY <1>0
  <1>2. PICK f \in [0..n -> T] : f[0] = base /\ \A k \in 1..n : f[k] = step[k][f[k - 1]]
    <2> HIDE DEF step, n, T, base
    <2>1. \E f : Steps(f, n, T, base, step)
      BY <1>0, <1>1, StepByStep, Zenon
    <2> QED
      BY <2>1 DEF Steps
  <1>3. \A k \in 1..n : f[k - 1] \in T
    <2>1. \A k \in 1..n : k - 1 \in 0..n
      BY <1>0
    <2> QED
      BY <2>1
  <1> HIDE DEF base
  <1>4. f = Rule(f) /\ \A k \in 1..n : f[k] = Truncate(f[k - 1], s[k], most)
    <2>1. \A k \in 1..n : f[k] = Truncate(f[k - 1], s[k], most)
      BY <1>2, <1>3
    <2>2. f = [k \in 0..n |-> f[k]]
      BY <1>2
    <2>3. \A k \in 0..n : k = 0 \/ k \in 1..n
      BY <1>0
    <2>4. \A k \in 0..n : f[k] = Rule(f)[k]
      BY <1>2, <2>1, <2>3
    <2> QED
      BY <2>1, <2>2, <2>4
  <1>5. done = Rule(done)
    <2> HIDE DEF Rule
    <2> QED
      BY <1>4
  <1>6. truncatedURL(s, most) = done[n].out
    BY DEF truncatedURL, base
  <1> HIDE DEF done
  <1>7. done[0] = base /\ \A k \in 1..n : done[k] = Truncate(done[k - 1], s[k], most)
    <2>1. \A k \in 0..n : done[k] = Rule(done)[k]
      BY <1>5
    <2>2. 0 \in 0..n /\ \A k \in 1..n : k \in 0..n /\ k # 0
      BY <1>0
    <2> QED
      BY <2>1, <2>2
  <1>8. f[n] = done[n]
    <2>1. \A k \in 1..n : f[k - 1] = done[k - 1] => f[k] = done[k]
      BY <1>4, <1>7
    <2>2. n \in Nat /\ f[0] = done[0]
      BY <1>0, <1>2, <1>7
    <2> HIDE DEF n
    <2> QED
      BY <2>1, <2>2, SameSteps, Zenon
  <1> QED
    BY <1>2, <1>4, <1>6, <1>8 DEF base

\* What decodeURL has after each character.
TextChar == UrlChar \cup {"x"}
Decodings == [out : Seq(TextChar), code : TextChar \cup {"none", "wrong"}]

LEMMA CodeIsChar == \A h, l : Code(h, l) \in TextChar
  BY DEF Code, TextChar, UrlChar

LEMMA DecodeType ==
    ASSUME NEW t \in Decodings, NEW c \in SentChar
    PROVE  DecodeStep(t, c) \in Decodings
  <1>1. c \in TextChar /\ t.out \in Seq(TextChar) /\ "%" \in TextChar
    BY DEF Decodings, SentChar, UrlChar, TextChar
  <1>2. Append(t.out, c) \in Seq(TextChar) /\ Append(t.out, Code(t.code, c)) \in Seq(TextChar)
    BY <1>1, CodeIsChar
  <1> QED
    BY <1>1, <1>2 DEF DecodeStep, Decodings

LEMMA DecodeFacts ==
    ASSUME NEW s \in Seq(SentChar)
    PROVE  \E f \in [0..Len(s) -> Decodings] :
             /\ f[0] = [out |-> <<>>, code |-> "none"]
             /\ \A k \in 1..Len(s) : f[k] = DecodeStep(f[k - 1], s[k])
             /\ decodeURL(s).ok = (f[Len(s)].code = "none")
             /\ decodeURL(s).out = [i \in 1..Len(f[Len(s)].out) |->
                                      IF f[Len(s)].out[i] = "+" THEN "space" ELSE f[Len(s)].out[i]]
  <1> DEFINE n == Len(s)
             T == Decodings
             base == [out |-> <<>>, code |-> "none"]
             step == [k \in 1..n |-> [t \in T |-> DecodeStep(t, s[k])]]
             Rule(f) == [k \in 0..n |-> IF k = 0 THEN base ELSE DecodeStep(f[k - 1], s[k])]
             done == CHOOSE f : f = Rule(f)
  <1>0. n \in Nat /\ base \in T /\ \A k \in 1..n : \A t \in T : DecodeStep(t, s[k]) \in T
    <2>1. base \in T
      BY DEF Decodings
    <2> QED
      BY <2>1, DecodeType
  <1>1. step \in [1..n -> [T -> T]]
    BY <1>0
  <1>2. PICK f \in [0..n -> T] : f[0] = base /\ \A k \in 1..n : f[k] = step[k][f[k - 1]]
    <2> HIDE DEF step, n, T, base
    <2>1. \E f : Steps(f, n, T, base, step)
      BY <1>0, <1>1, StepByStep, Zenon
    <2> QED
      BY <2>1 DEF Steps
  <1>3. \A k \in 1..n : f[k - 1] \in T
    <2>1. \A k \in 1..n : k - 1 \in 0..n
      BY <1>0
    <2> QED
      BY <2>1
  <1> HIDE DEF base
  <1>4. f = Rule(f) /\ \A k \in 1..n : f[k] = DecodeStep(f[k - 1], s[k])
    <2>1. \A k \in 1..n : f[k] = DecodeStep(f[k - 1], s[k])
      BY <1>2, <1>3
    <2>2. f = [k \in 0..n |-> f[k]]
      BY <1>2
    <2>3. \A k \in 0..n : k = 0 \/ k \in 1..n
      BY <1>0
    <2>4. \A k \in 0..n : f[k] = Rule(f)[k]
      BY <1>2, <2>1, <2>3
    <2> QED
      BY <2>1, <2>2, <2>4
  <1>5. done = Rule(done)
    <2> HIDE DEF Rule
    <2> QED
      BY <1>4
  <1>6. /\ decodeURL(s).ok = (done[n].code = "none")
        /\ decodeURL(s).out = [i \in 1..Len(done[n].out) |->
                                 IF done[n].out[i] = "+" THEN "space" ELSE done[n].out[i]]
    <2>1. decodeURL(s) = [ok |-> done[n].code = "none",
                          out |-> [i \in 1..Len(done[n].out) |->
                                     IF done[n].out[i] = "+" THEN "space" ELSE done[n].out[i]]]
      BY DEF decodeURL, base
    <2> HIDE DEF done, n
    <2> QED
      BY <2>1
  <1> HIDE DEF done
  <1>7. done[0] = base /\ \A k \in 1..n : done[k] = DecodeStep(done[k - 1], s[k])
    <2>1. \A k \in 0..n : done[k] = Rule(done)[k]
      BY <1>5
    <2>2. 0 \in 0..n /\ \A k \in 1..n : k \in 0..n /\ k # 0
      BY <1>0
    <2> QED
      BY <2>1, <2>2
  <1>8. f[n] = done[n]
    <2>1. \A k \in 1..n : f[k - 1] = done[k - 1] => f[k] = done[k]
      BY <1>4, <1>7
    <2>2. n \in Nat /\ f[0] = done[0]
      BY <1>0, <1>2, <1>7
    <2> HIDE DEF n
    <2> QED
      BY <2>1, <2>2, SameSteps, Zenon
  <1>9. /\ decodeURL(s).ok = (f[n].code = "none")
        /\ decodeURL(s).out = [i \in 1..Len(f[n].out) |->
                                 IF f[n].out[i] = "+" THEN "space" ELSE f[n].out[i]]
    BY <1>6, <1>8, Zenon
  <1> QED
    BY <1>2, <1>4, <1>9, Zenon DEF base

\* A space is sent as a plus.
Sent(c) == IF c = "space" THEN "+" ELSE c

LEMMA DecodedChar ==
    ASSUME NEW t \in Decodings, t.code = "none", NEW c \in UrlChar, NEW d, d = EncodeChar(c)
    PROVE  \/ Len(d) = 1 /\ DecodeStep(t, d[1]) = [out |-> Append(t.out, Sent(c)), code |-> "none"]
           \/ /\ Len(d) = 3
              /\ DecodeStep(DecodeStep(DecodeStep(t, d[1]), d[2]), d[3])
                   = [out |-> Append(t.out, Sent(c)), code |-> "none"]
  <1>0. t = [out |-> t.out, code |-> "none"]
    BY DEF Decodings
  <1>1. ASSUME NEW x, x # "%"
        PROVE  DecodeStep(t, x) = [out |-> Append(t.out, x), code |-> "none"]
    <2>1. DecodeStep(t, x) = [t EXCEPT !.out = Append(@, x)]
      BY <1>1 DEF DecodeStep, IsHex
    <2> QED
      BY <1>0, <2>1
  <1>2. CASE c \in Plain \cup {"space"}
    <2>1. EncodeChar(c) = <<Sent(c)>> /\ Sent(c) # "%"
      BY <1>2 DEF EncodeChar, Plain, Sent
    <2>2. Len(d) = 1 /\ d[1] = Sent(c)
      BY <2>1
    <2> QED
      BY <1>1, <2>1, <2>2
  <1>3. CASE c \in {"+", "%", "&"}
    <2>1. PICK l \in {"B", "5", "6"} : d = <<"%", "2", l>> /\ Code("2", l) = c
      BY <1>3 DEF EncodeChar, Plain, Code
    <2>2. d[1] = "%" /\ d[2] = "2" /\ d[3] = l /\ Len(d) = 3 /\ Sent(c) = c
      BY <1>3, <2>1 DEF Sent
    <2>3. DecodeStep(t, "%") = [out |-> t.out, code |-> "%"]
      <3>1. DecodeStep(t, "%") = [t EXCEPT !.code = "%"]
        BY DEF DecodeStep, IsHex
      <3> QED
        BY <1>0, <3>1
    <2>4. DecodeStep([out |-> t.out, code |-> "%"], "2") = [out |-> t.out, code |-> "2"]
      BY DEF DecodeStep, IsHex
    <2>5. DecodeStep([out |-> t.out, code |-> "2"], l) = [out |-> Append(t.out, Code("2", l)), code |-> "none"]
      BY <2>1 DEF DecodeStep, IsHex
    <2> QED
      BY <2>1, <2>2, <2>3, <2>4, <2>5
  <1> QED
    BY <1>2, <1>3 DEF UrlChar

\* What is encoded first stays in front.
LEMMA EncodePrefix ==
    ASSUME NEW s \in Seq(UrlChar), NEW f, Encoding(f, s), NEW j \in 0..Len(s)
    PROVE  \A k \in 0..j : /\ Len(f[k]) \in Nat /\ Len(f[k]) <= Len(f[j])
                           /\ \A i \in 1..Len(f[k]) : f[j][i] = f[k][i]
  <1> DEFINE Front(k) == /\ Len(f[k]) <= Len(f[j])
                         /\ \A i \in 1..Len(f[k]) : f[j][i] = f[k][i]
             U == {m \in 0..j : Front(j - m)}
  <1>0. /\ j \in Nat /\ Len(s) \in Nat /\ j <= Len(s)
        /\ \A k \in 0..j : f[k] \in Seq(SentChar) /\ Len(f[k]) \in Nat
    <2>1. j \in Nat /\ Len(s) \in Nat /\ j <= Len(s)
      OBVIOUS
    <2>2. \A k \in 0..j : k \in 0..Len(s)
      BY <2>1
    <2> QED
      BY <2>1, <2>2 DEF Encoding
  <1>1. 0 \in U
    BY <1>0
  <1>2. ASSUME NEW m \in 0..j, m \in U, m < j
        PROVE  m + 1 \in U
    <2> DEFINE k == j - m
               d == EncodeChar(s[k])
    <2>1. k \in 1..j /\ k \in 1..Len(s) /\ k - 1 \in 0..j /\ j - (m + 1) = k - 1 /\ m + 1 \in 0..j
      BY <1>0, <1>2
    <2>2. Front(k)
      BY <1>2
    <2>3. f[k] = f[k - 1] \o d
      BY <2>1 DEF Encoding
    <2>4. s[k] \in UrlChar /\ d \in Seq(SentChar) /\ Len(d) \in Nat
      BY <2>1, EncodedChar
    <2>5. f[k - 1] \in Seq(SentChar) /\ Len(f[k - 1]) \in Nat
      BY <1>0, <2>1
    <2> HIDE DEF d, k
    <2>6. /\ Len(f[k]) = Len(f[k - 1]) + Len(d)
          /\ \A i \in 1..Len(f[k - 1]) : f[k][i] = f[k - 1][i]
      BY <2>3, <2>4, <2>5
    <2>7. Front(k - 1)
      <3>1. Len(f[j]) \in Nat /\ Len(f[k]) \in Nat /\ Len(f[k - 1]) <= Len(f[k])
        BY <1>0, <2>4, <2>5, <2>6
      <3>2. Len(f[k - 1]) <= Len(f[j])
        BY <2>2, <2>5, <3>1
      <3>3. ASSUME NEW i \in 1..Len(f[k - 1]) PROVE f[j][i] = f[k - 1][i]
        <4>1. i \in 1..Len(f[k])
          BY <2>5, <3>1
        <4> QED
          BY <2>2, <2>6, <4>1
      <3> QED
        BY <3>2, <3>3
    <2> QED
      BY <2>1, <2>7
  <1>3. \A m \in 0..j : m \in U /\ m < j => m + 1 \in U
    BY <1>2
  <1> HIDE DEF U
  <1>4. \A m \in 0..j : m \in U
    BY <1>0, <1>1, <1>3, AllPlaces, Zenon
  <1>5. ASSUME NEW k \in 0..j PROVE Front(k)
    <2>1. j - k \in 0..j /\ j - (j - k) = k
      BY <1>0
    <2> QED
      BY <1>4, <2>1 DEF U
  <1> QED
    BY <1>0, <1>5

\* The decoder is between two codes after each character that was encoded, and
\* has it back but for the spaces.
LEMMA DecodedEncoding ==
    ASSUME NEW s \in Seq(UrlChar), NEW f, Encoding(f, s), NEW j \in 0..Len(s)
    PROVE  /\ decodeURL(f[j]).ok
           /\ decodeURL(f[j]).out = [i \in 1..j |-> IF s[i] = "+" THEN "space" ELSE s[i]]
  <1> DEFINE e == f[j]
             text(k) == [i \in 1..k |-> Sent(s[i])]
  <1>0. /\ j \in Nat /\ Len(s) \in Nat /\ j <= Len(s) /\ e \in Seq(SentChar) /\ Len(e) \in Nat
        /\ \A k \in 0..j : f[k] \in Seq(SentChar) /\ Len(f[k]) \in Nat
    <2>1. j \in Nat /\ Len(s) \in Nat /\ j <= Len(s)
      OBVIOUS
    <2>2. \A k \in 0..j : k \in 0..Len(s)
      BY <2>1
    <2> QED
      BY <2>1, <2>2 DEF Encoding
  <1>1. PICK g \in [0..Len(e) -> Decodings] :
          /\ g[0] = [out |-> <<>>, code |-> "none"]
          /\ \A k \in 1..Len(e) : g[k] = DecodeStep(g[k - 1], e[k])
          /\ decodeURL(e).ok = (g[Len(e)].code = "none")
          /\ decodeURL(e).out = [i \in 1..Len(g[Len(e)].out) |->
                                  IF g[Len(e)].out[i] = "+" THEN "space" ELSE g[Len(e)].out[i]]
    <2> HIDE DEF e
    <2> QED
      BY <1>0, DecodeFacts
  <1>2. /\ f[0] = <<>> /\ \A k \in 1..j : f[k] = f[k - 1] \o EncodeChar(s[k])
        /\ \A k \in 0..j : Len(f[k]) <= Len(e) /\ \A i \in 1..Len(f[k]) : e[i] = f[k][i]
    <2>1. \A k \in 1..j : k \in 1..Len(s)
      BY <1>0
    <2>2. f[0] = <<>> /\ \A k \in 1..j : f[k] = f[k - 1] \o EncodeChar(s[k])
      BY <2>1 DEF Encoding
    <2>3. \A k \in 0..j : Len(f[k]) <= Len(e) /\ \A i \in 1..Len(f[k]) : e[i] = f[k][i]
      BY EncodePrefix
    <2> QED
      BY <2>2, <2>3
  <1> HIDE DEF e
  <1> DEFINE U == {k \in 0..j : g[Len(f[k])] = [out |-> text(k), code |-> "none"]}
  <1>3. 0 \in U
    <2>1. Len(f[0]) = 0 /\ text(0) = <<>>
      BY <1>2
    <2> QED
      BY <1>0, <1>1, <2>1
  <1>4. ASSUME NEW k \in 0..j, k \in U, k < j
        PROVE  k + 1 \in U
    <2> DEFINE a == Len(f[k])
               d == EncodeChar(s[k + 1])
               t == g[a]
    <2>1. k + 1 \in 1..j /\ k + 1 \in 0..j /\ k + 1 \in 1..Len(s) /\ (k + 1) - 1 = k /\ k \in Nat
      BY <1>0, <1>4
    <2>2. s[k + 1] \in UrlChar /\ d \in Seq(SentChar) /\ Len(d) \in Nat
      BY <2>1, EncodedChar
    <2>3. f[k + 1] = f[k] \o d /\ f[k] \in Seq(SentChar) /\ a \in Nat
      <3>1. f[k + 1] = f[(k + 1) - 1] \o EncodeChar(s[k + 1])
        <4>1. \A i \in 1..j : f[i] = f[i - 1] \o EncodeChar(s[i])
          BY <1>2
        <4> QED
          BY <2>1, <4>1
      <3>2. f[k] \in Seq(SentChar) /\ Len(f[k]) \in Nat
        BY <1>0
      <3> QED
        BY <2>1, <3>1, <3>2
    <2>4. t \in Decodings /\ t.code = "none" /\ t = [out |-> text(k), code |-> "none"]
      <3>1. a \in 0..Len(e)
        BY <1>0, <1>2, <2>3
      <3>2. t = [out |-> text(k), code |-> "none"]
        BY <1>4
      <3> QED
        BY <1>1, <3>1, <3>2
    <2> HIDE DEF d
    <2>5. /\ Len(f[k + 1]) = a + Len(d) /\ a + Len(d) <= Len(e)
          /\ \A i \in 1..Len(d) : e[a + i] = d[i]
      <3>1. Len(f[k + 1]) = a + Len(d) /\ \A i \in 1..Len(d) : f[k + 1][a + i] = d[i]
        BY <2>2, <2>3
      <3>2. Len(f[k + 1]) <= Len(e) /\ \A i \in 1..Len(f[k + 1]) : e[i] = f[k + 1][i]
        BY <1>2, <2>1
      <3>3. \A i \in 1..Len(d) : a + i \in 1..Len(f[k + 1])
        BY <2>2, <2>3, <3>1
      <3> QED
        BY <3>1, <3>2, <3>3
    <2> HIDE DEF a, t
    <2>6. \A i \in 1..Len(d) : g[a + i] = DecodeStep(g[(a + i) - 1], d[i])
      <3>1. \A i \in 1..Len(d) : a + i \in 1..Len(e)
        BY <1>0, <2>2, <2>3, <2>5
      <3>2. \A i \in 1..Len(e) : g[i] = DecodeStep(g[i - 1], e[i])
        BY <1>1
      <3>3. \A i \in 1..Len(d) : g[a + i] = DecodeStep(g[(a + i) - 1], e[a + i])
        BY <3>1, <3>2
      <3> QED
        BY <2>5, <3>3
    <2>7. g[a + Len(d)] = [out |-> Append(t.out, Sent(s[k + 1])), code |-> "none"]
      <3>1. CASE Len(d) = 1 /\ DecodeStep(t, d[1]) = [out |-> Append(t.out, Sent(s[k + 1])), code |-> "none"]
        <4>1. g[a + 1] = DecodeStep(g[(a + 1) - 1], d[1]) /\ (a + 1) - 1 = a
          BY <2>3, <2>6, <3>1
        <4> QED
          BY <3>1, <4>1 DEF t
      <3>2. CASE /\ Len(d) = 3
                 /\ DecodeStep(DecodeStep(DecodeStep(t, d[1]), d[2]), d[3])
                      = [out |-> Append(t.out, Sent(s[k + 1])), code |-> "none"]
        <4>1. /\ g[a + 1] = DecodeStep(g[(a + 1) - 1], d[1]) /\ (a + 1) - 1 = a
              /\ g[a + 2] = DecodeStep(g[(a + 2) - 1], d[2]) /\ (a + 2) - 1 = a + 1
              /\ g[a + 3] = DecodeStep(g[(a + 3) - 1], d[3]) /\ (a + 3) - 1 = a + 2
          BY <2>3, <2>6, <3>2
        <4> QED
          BY <3>2, <4>1 DEF t
      <3>3. \/ Len(d) = 1 /\ DecodeStep(t, d[1]) = [out |-> Append(t.out, Sent(s[k + 1])), code |-> "none"]
            \/ /\ Len(d) = 3
               /\ DecodeStep(DecodeStep(DecodeStep(t, d[1]), d[2]), d[3])
                    = [out |-> Append(t.out, Sent(s[k + 1])), code |-> "none"]
        BY <2>2, <2>4, DecodedChar DEF d
      <3> QED
        BY <3>1, <3>2, <3>3
    <2>8. Append(text(k), Sent(s[k + 1])) = text(k + 1)
      <3> DEFINE V == {Sent(s[i]) : i \in 1..Len(s)}
      <3>1. Sent(s[k + 1]) \in V /\ \A i \in 1..k : Sent(s[i]) \in V
        <4>1. \A i \in 1..k : i \in 1..Len(s)
          BY <1>0, <2>1
        <4> QED
          BY <2>1, <4>1
      <3> HIDE DEF V
      <3>2. text(k) \in Seq(V) /\ Len(text(k)) = k /\ \A i \in 1..k : text(k)[i] = Sent(s[i])
        BY <2>1, <3>1
      <3>3. /\ Append(text(k), Sent(s[k + 1])) \in Seq(V)
            /\ Len(Append(text(k), Sent(s[k + 1]))) = k + 1
            /\ \A i \in 1..(k + 1) : Append(text(k), Sent(s[k + 1]))[i] = Sent(s[i])
        BY <2>1, <3>1, <3>2
      <3>4. Append(text(k), Sent(s[k + 1])) = [i \in 1..(k + 1) |-> Append(text(k), Sent(s[k + 1]))[i]]
        BY <3>3
      <3> QED
        BY <3>3, <3>4
    <2>9. g[Len(f[k + 1])] = [out |-> text(k + 1), code |-> "none"]
      BY <2>4, <2>5, <2>7, <2>8
    <2> QED
      BY <2>1, <2>9
  <1>5. \A k \in 0..j : k \in U /\ k < j => k + 1 \in U
    BY <1>4
  <1>6. g[Len(e)] = [out |-> text(j), code |-> "none"]
    <2> HIDE DEF U
    <2>1. \A k \in 0..j : k \in U
      BY <1>0, <1>3, <1>5, AllPlaces, Zenon
    <2>2. j \in U
      BY <1>0, <2>1
    <2> QED
      BY <2>2 DEF U, e
  <1>7. Len(text(j)) = j /\ \A i \in 1..j : text(j)[i] = Sent(s[i])
    BY <1>0
  <1> HIDE DEF text
  <1>8. decodeURL(e).out = [i \in 1..j |-> IF text(j)[i] = "+" THEN "space" ELSE text(j)[i]]
    BY <1>1, <1>6, <1>7
  <1>9. \A i \in 1..j : (IF text(j)[i] = "+" THEN "space" ELSE text(j)[i])
                         = (IF s[i] = "+" THEN "space" ELSE s[i])
    BY <1>7 DEF Sent
  <1>10. decodeURL(e).ok
    <2>1. g[Len(e)].code = "none"
      BY <1>6
    <2> QED
      BY <1>1, <2>1, Zenon
  <1>11. decodeURL(e).out = [i \in 1..j |-> IF s[i] = "+" THEN "space" ELSE s[i]]
    BY <1>8, <1>9
  <1> QED
    BY <1>10, <1>11 DEF e

\* A character is cut, or there is room for all of its code.
LEMMA CutStep ==
    ASSUME NEW t \in CutTexts, NEW c \in UrlChar, NEW most \in Nat
    PROVE  \/ Truncate(t, c, most).on = FALSE /\ Truncate(t, c, most).out = t.out
           \/ /\ t.on
              /\ Len(t.out \o EncodeChar(c)) <= most
              /\ Truncate(t, c, most).out = t.out \o EncodeChar(c)
  <1>1. EncodeChar(c) \in Seq(SentChar) /\ t.out \in Seq(SentChar) /\ t = [on |-> t.on, out |-> t.out]
    BY EncodedChar DEF CutTexts
  <1>2. CASE ~t.on \/ Len(t.out) + Len(EncodeChar(c)) > most
    <2>1. Truncate(t, c, most) = [t EXCEPT !.on = FALSE]
      BY <1>2, Zenon DEF Truncate
    <2> QED
      BY <2>1 DEF CutTexts
  <1>3. CASE ~(~t.on \/ Len(t.out) + Len(EncodeChar(c)) > most)
    <2>1. Truncate(t, c, most) = [t EXCEPT !.out = t.out \o EncodeChar(c)]
      BY <1>3, Zenon DEF Truncate
    <2>2. t.on
      BY <1>3, Zenon
    <2>3. ~(Len(t.out) + Len(EncodeChar(c)) > most)
      BY <1>3, Zenon
    <2>4. Len(t.out \o EncodeChar(c)) <= most
      BY <1>1, <2>3
    <2>5. Truncate(t, c, most).out = t.out \o EncodeChar(c)
      BY <2>1 DEF CutTexts
    <2> QED
      BY <2>2, <2>4, <2>5, Zenon
  <1> QED
    BY <1>2, <1>3, Zenon

\* A value that is cut is the encoding of its first characters.
LEMMA TruncationDecodes ==
    ASSUME NEW s \in Seq(UrlChar), NEW most \in Nat
    PROVE  Len(truncatedURL(s, most)) <= most /\ decodeURL(truncatedURL(s, most)).ok
  <1> DEFINE n == Len(s)
  <1>0. n \in Nat
    OBVIOUS
  <1>1. PICK f : Encoding(f, s)
    BY EncodeFacts
  <1>2. PICK r \in [0..n -> CutTexts] :
          /\ r[0] = [on |-> TRUE, out |-> <<>>] /\ r[n].out = truncatedURL(s, most)
          /\ \A k \in 1..n : r[k] = Truncate(r[k - 1], s[k], most)
    BY TruncateFacts
  <1> DEFINE Whole(k) == \E j \in 0..k : r[k].out = f[j] /\ (r[k].on => j = k)
             U == {k \in 0..n : Len(r[k].out) <= most /\ Whole(k)}
  <1>3. 0 \in U
    <2>1. r[0].out = <<>> /\ f[0] = <<>>
      BY <1>1, <1>2 DEF Encoding
    <2>2. Whole(0)
      <3>1. 0 \in 0..0 /\ r[0].out = f[0]
        BY <2>1
      <3> QED
        BY <3>1, Zenon
    <2> HIDE DEF Whole
    <2> QED
      BY <1>0, <2>1, <2>2
  <1>4. ASSUME NEW k \in 0..n, k \in U, k < n
        PROVE  k + 1 \in U
    <2> DEFINE t == r[k]
               c == s[k + 1]
    <2>1. k + 1 \in 1..n /\ k + 1 \in 0..n /\ (k + 1) - 1 = k /\ k \in Nat
      BY <1>0, <1>4
    <2>2. t \in CutTexts /\ c \in UrlChar
      BY <1>2, <2>1
    <2>3. r[k + 1] = Truncate(t, c, most)
      <3>1. \A i \in 1..n : r[i] = Truncate(r[i - 1], s[i], most)
        BY <1>2
      <3> QED
        BY <2>1, <3>1
    <2>4. PICK j \in 0..k : t.out = f[j] /\ (t.on => j = k)
      <3> HIDE DEF t, n
      <3> QED
        BY <1>4, Zenon DEF t
    <2>5. Len(t.out) <= most
      BY <1>4
    <2>6. f[k + 1] = f[k] \o EncodeChar(c)
      <3>1. \A i \in 1..n : f[i] = f[i - 1] \o EncodeChar(s[i])
        BY <1>1 DEF Encoding
      <3> QED
        BY <2>1, <3>1
    <2>7. j \in 0..(k + 1) /\ k + 1 \in 0..(k + 1)
      BY <2>1
    <2> HIDE DEF t, c
    <2>8. CASE r[k + 1].on = FALSE /\ r[k + 1].out = t.out
      <3>1. Whole(k + 1)
        BY <2>4, <2>7, <2>8, Zenon
      <3> HIDE DEF Whole
      <3> QED
        BY <2>1, <2>5, <2>8, <3>1
    <2>9. CASE /\ t.on
               /\ Len(t.out \o EncodeChar(c)) <= most
               /\ r[k + 1].out = t.out \o EncodeChar(c)
      <3>1. t.out = f[k]
        BY <2>4, <2>9, Zenon
      <3>2. r[k + 1].out = f[k + 1]
        BY <2>6, <2>9, <3>1, Zenon
      <3>3. Whole(k + 1)
        BY <2>7, <3>2, Zenon
      <3> HIDE DEF Whole
      <3>4. Len(r[k + 1].out) <= most
        BY <2>9, Zenon
      <3> QED
        BY <2>1, <3>3, <3>4, Zenon
    <2>10. \/ r[k + 1].on = FALSE /\ r[k + 1].out = t.out
           \/ /\ t.on
              /\ Len(t.out \o EncodeChar(c)) <= most
              /\ r[k + 1].out = t.out \o EncodeChar(c)
      <3> DEFINE u == Truncate(t, c, most)
      <3>1. \/ u.on = FALSE /\ u.out = t.out
            \/ t.on /\ Len(t.out \o EncodeChar(c)) <= most /\ u.out = t.out \o EncodeChar(c)
        BY <2>2, CutStep
      <3>2. r[k + 1] = u
        BY <2>3
      <3> HIDE DEF u
      <3> QED
        BY <3>1, <3>2, Zenon
    <2> HIDE DEF U
    <2> QED
      BY <2>8, <2>9, <2>10, Zenon
  <1>5. \A k \in 0..n : k \in U /\ k < n => k + 1 \in U
    BY <1>4
  <1>6. n \in U
    <2> HIDE DEF U, n
    <2>1. \A k \in 0..n : k \in U
      BY <1>0, <1>3, <1>5, AllPlaces, Zenon
    <2> QED
      BY <1>0, <2>1
  <1>7. PICK j \in 0..n : r[n].out = f[j]
    BY <1>6, Zenon
  <1>8. Len(r[n].out) <= most
    BY <1>6, Zenon
  <1>9. decodeURL(f[j]).ok
    BY <1>1, DecodedEncoding, Zenon
  <1> QED
    BY <1>2, <1>7, <1>8, <1>9, Zenon

\* A code has three characters.
LEMMA EncodedLength ==
    ASSUME NEW s \in Seq(UrlChar)
    PROVE  /\ encodeURL(s) \in Seq(SentChar)
           /\ Len(encodeURL(s)) <= 3 * Len(s)
  <1> DEFINE n == Len(s)
  <1>0. n \in Nat
    OBVIOUS
  <1>1. PICK f : Encoding(f, s) /\ f[Len(s)] = encodeURL(s)
    BY EncodeFacts
  <1>2. f \in [0..n -> Seq(SentChar)] /\ f[0] = <<>> /\ \A k \in 1..n : f[k] = f[k - 1] \o EncodeChar(s[k])
    BY <1>1 DEF Encoding
  <1> DEFINE U == {k \in 0..n : Len(f[k]) <= 3 * k}
  <1>3. 0 \in U
    BY <1>0, <1>2
  <1>4. ASSUME NEW k \in 0..n, k \in U, k < n
        PROVE  k + 1 \in U
    <2>1. k + 1 \in 1..n /\ k + 1 \in 0..n /\ (k + 1) - 1 = k /\ k \in Nat
      BY <1>0, <1>4
    <2>2. f[k + 1] = f[k] \o EncodeChar(s[k + 1])
      BY <1>2, <2>1
    <2>3. EncodeChar(s[k + 1]) \in Seq(SentChar) /\ Len(EncodeChar(s[k + 1])) \in 1..3
      BY <2>1, EncodedChar
    <2>4. f[k] \in Seq(SentChar) /\ Len(f[k]) <= 3 * k
      BY <1>2, <1>4
    <2>5. Len(f[k + 1]) = Len(f[k]) + Len(EncodeChar(s[k + 1]))
      BY <2>2, <2>3, <2>4
    <2>6. Len(f[k + 1]) <= 3 * (k + 1)
      <3> DEFINE a == Len(f[k])
                 b == Len(EncodeChar(s[k + 1]))
      <3>1. a \in Nat /\ a <= 3 * k /\ b \in Nat /\ b <= 3
        <4>1. Len(EncodeChar(s[k + 1])) \in 1..3
          BY <2>3
        <4>2. Len(f[k]) \in Nat /\ Len(f[k]) <= 3 * k
          BY <2>4
        <4>3. b \in Nat /\ b <= 3
          <5>1. b \in 1..3
            BY <4>1
          <5> HIDE DEF b
          <5> QED
            BY <5>1
        <4> QED
          BY <4>2, <4>3, Zenon
      <3>2. Len(f[k + 1]) = a + b
        BY <2>5
      <3> HIDE DEF a, b
      <3> QED
        BY <2>1, <3>1, <3>2
    <2> QED
      BY <2>1, <2>6
  <1>5. \A k \in 0..n : k \in U /\ k < n => k + 1 \in U
    BY <1>4
  <1>6. n \in U
    <2> HIDE DEF U, n
    <2>1. \A k \in 0..n : k \in U
      BY <1>0, <1>3, <1>5, AllPlaces, Zenon
    <2> QED
      BY <1>0, <2>1
  <1>7. n \in 0..Len(s) /\ encodeURL(s) = f[n]
    BY <1>0, <1>1
  <1>8. f[n] \in Seq(SentChar) /\ Len(f[n]) <= 3 * n
    BY <1>0, <1>2, <1>6
  <1> QED
    BY <1>7, <1>8, Zenon

LEMMA EncodedDecodes ==
    ASSUME NEW s \in Seq(UrlChar)
    PROVE  /\ decodeURL(encodeURL(s)).ok
           /\ decodeURL(encodeURL(s)).out = [i \in 1..Len(s) |-> IF s[i] = "+" THEN "space" ELSE s[i]]
  <1>1. PICK f : Encoding(f, s) /\ f[Len(s)] = encodeURL(s)
    BY EncodeFacts
  <1>2. Len(s) \in 0..Len(s)
    OBVIOUS
  <1>3. /\ decodeURL(f[Len(s)]).ok
        /\ decodeURL(f[Len(s)]).out = [i \in 1..Len(s) |-> IF s[i] = "+" THEN "space" ELSE s[i]]
    BY <1>1, <1>2, DecodedEncoding, Zenon
  <1> QED
    BY <1>1, <1>3, Zenon

\* A whole URL has the separators too.
UrlText == SentChar \cup {"?", "&", "="}

\* A URL with one more parameter, place by place.
Added(more, url, name, e) ==
    /\ more \in Seq(UrlText)
    /\ Len(more) = Len(url) + 3 + Len(e)
    /\ \A i \in 1..Len(url) : more[i] = url[i]
    /\ (\E i \in 1..Len(url) : url[i] = "?") => more[Len(url) + 1] = "&"
    /\ ~(\E i \in 1..Len(url) : url[i] = "?") => more[Len(url) + 1] = "?"
    /\ more[Len(url) + 2] = name /\ more[Len(url) + 3] = "="
    /\ \A i \in 1..Len(e) : more[Len(url) + 3 + i] = e[i]

LEMMA AddedFacts ==
    ASSUME NEW s \in Seq(UrlChar), NEW url \in Seq(UrlText), NEW name \in UrlText
    PROVE  Added(addURLParameter(url, name, s), url, name, encodeURL(s))
  <1> DEFINE e == encodeURL(s)
             more == addURLParameter(url, name, s)
             q == IF \E i \in 1..Len(url) : url[i] = "?" THEN "&" ELSE "?"
             l == Len(url)
  <1>1. e \in Seq(UrlText) /\ Len(e) \in Nat /\ l \in Nat
    <2>1. SentChar \subseteq UrlText
      BY DEF UrlText
    <2>2. encodeURL(s) \in Seq(SentChar)
      BY EncodedLength
    <2> QED
      BY <2>1, <2>2
  <1>2. q \in UrlText /\ "=" \in UrlText
    BY DEF UrlText
  <1>3. more = url \o <<q>> \o <<name, "=">> \o e
    BY DEF addURLParameter
  <1>4. /\ (\E i \in 1..Len(url) : url[i] = "?") => q = "&"
        /\ ~(\E i \in 1..Len(url) : url[i] = "?") => q = "?"
    OBVIOUS
  <1> HIDE DEF e, more, q
  <1> DEFINE a == url \o <<q>>
             b == a \o <<name, "=">>
  <1>5. a \in Seq(UrlText) /\ Len(a) = l + 1 /\ a[l + 1] = q /\ \A i \in 1..l : a[i] = url[i]
    BY <1>1, <1>2
  <1> HIDE DEF a
  <1>6. /\ b \in Seq(UrlText) /\ Len(b) = l + 3 /\ b[l + 2] = name /\ b[l + 3] = "="
        /\ \A i \in 1..(l + 1) : b[i] = a[i]
    <2>1. /\ <<name, "=">> \in Seq(UrlText) /\ Len(<<name, "=">>) = 2
          /\ <<name, "=">>[1] = name /\ <<name, "=">>[2] = "="
      BY <1>2
    <2>2. b \in Seq(UrlText) /\ Len(b) = l + 3
      BY <1>1, <1>5, <2>1
    <2>3. \A i \in 1..(l + 1) : b[i] = a[i]
      BY <1>1, <1>5, <2>1
    <2>4. b[(l + 1) + 1] = <<name, "=">>[1] /\ b[(l + 1) + 2] = <<name, "=">>[2]
      BY <1>1, <1>5, <2>1
    <2>5. (l + 1) + 1 = l + 2 /\ (l + 1) + 2 = l + 3
      BY <1>1
    <2> QED
      BY <2>1, <2>2, <2>3, <2>4, <2>5
  <1>7. more = b \o e
    BY <1>3 DEF a
  <1> HIDE DEF b
  <1>8. /\ more \in Seq(UrlText) /\ Len(more) = l + 3 + Len(e)
        /\ \A i \in 1..(l + 3) : more[i] = b[i]
        /\ \A i \in 1..Len(e) : more[l + 3 + i] = e[i]
    <2>1. /\ b \o e \in Seq(UrlText) /\ Len(b \o e) = Len(b) + Len(e)
          /\ \A i \in 1..Len(b) + Len(e) : (b \o e)[i] = IF i <= Len(b) THEN b[i] ELSE e[i - Len(b)]
      BY <1>1, <1>6, ConcatFacts
    <2>2. Len(more) = l + 3 + Len(e)
      BY <1>6, <1>7, <2>1
    <2>3. \A i \in 1..(l + 3) : more[i] = b[i]
      BY <1>1, <1>6, <1>7, <2>1
    <2>4. \A i \in 1..Len(e) : more[l + 3 + i] = e[i]
      <3>1. SUFFICES ASSUME NEW i \in 1..Len(e) PROVE more[l + 3 + i] = e[i]
        OBVIOUS
      <3>2. l + 3 + i \in 1..Len(b) + Len(e) /\ ~(l + 3 + i <= Len(b)) /\ (l + 3 + i) - Len(b) = i
        BY <1>1, <1>6
      <3> QED
        BY <1>7, <2>1, <3>2
    <2> QED
      BY <1>7, <2>1, <2>2, <2>3, <2>4
  <1>9. /\ \A i \in 1..l : i \in 1..(l + 1) /\ i \in 1..(l + 3)
        /\ l + 1 \in 1..(l + 1) /\ l + 1 \in 1..(l + 3) /\ l + 2 \in 1..(l + 3) /\ l + 3 \in 1..(l + 3)
    BY <1>1
  <1>10. /\ \A i \in 1..l : more[i] = url[i]
         /\ more[l + 1] = q /\ more[l + 2] = name /\ more[l + 3] = "="
    BY <1>5, <1>6, <1>8, <1>9
  <1> QED
    BY <1>4, <1>8, <1>10 DEF e, more, Added

\* The URL of ParameterComesBack, place by place.
LEMMA ThreeParameters ==
    ASSUME NEW s \in Seq(UrlChar)
    PROVE  LET e == encodeURL(s)
               m == Len(e)
               before == addURLParameter(<<"b">>, "b", s)
               url == addURLParameter(addURLParameter(before, "a", s), "2", s)
           IN /\ m \in Nat /\ Len(url) = 10 + 3 * m /\ url \in Seq(UrlText)
              /\ url[1] = "b" /\ url[2] = "?" /\ url[3] = "b" /\ url[4] = "="
              /\ url[m + 5] = "&" /\ url[m + 6] = "a" /\ url[m + 7] = "="
              /\ url[2 * m + 8] = "&" /\ url[2 * m + 9] = "2" /\ url[2 * m + 10] = "="
              /\ \A i \in 1..m : /\ url[4 + i] = e[i] /\ url[m + 7 + i] = e[i]
                                 /\ url[2 * m + 10 + i] = e[i]
  <1> DEFINE e == encodeURL(s)
             m == Len(e)
             u == addURLParameter(<<"b">>, "b", s)
             v == addURLParameter(u, "a", s)
             w == addURLParameter(v, "2", s)
  <1>1. m \in Nat
    BY EncodedLength
  <1>2. <<"b">> \in Seq(UrlText) /\ "b" \in UrlText /\ "a" \in UrlText /\ "2" \in UrlText
    BY DEF UrlText, SentChar, Plain
  <1>3. Len(<<"b">>) = 1 /\ <<"b">>[1] = "b" /\ ~ \E i \in 1..1 : <<"b">>[i] = "?"
    OBVIOUS
  <1>4. Added(u, <<"b">>, "b", e)
    BY <1>2, AddedFacts
  <1> HIDE DEF u, e
  <1>5. /\ u \in Seq(UrlText) /\ Len(u) = m + 4
        /\ u[1] = "b" /\ u[2] = "?" /\ u[3] = "b" /\ u[4] = "="
        /\ \A i \in 1..m : u[4 + i] = e[i]
    BY <1>1, <1>3, <1>4 DEF Added
  <1>6. Added(v, u, "a", e)
    BY <1>2, <1>5, AddedFacts DEF e
  <1> HIDE DEF v
  <1>7. /\ v \in Seq(UrlText) /\ Len(v) = 2 * m + 7
        /\ \A i \in 1..(m + 4) : v[i] = u[i]
        /\ v[m + 5] = "&" /\ v[m + 6] = "a" /\ v[m + 7] = "="
        /\ \A i \in 1..m : v[m + 7 + i] = e[i]
    <2>1. \E i \in 1..Len(u) : u[i] = "?"
      BY <1>1, <1>5
    <2> QED
      BY <1>1, <1>5, <1>6, <2>1 DEF Added
  <1>8. Added(w, v, "2", e)
    BY <1>2, <1>7, AddedFacts DEF e
  <1> HIDE DEF w
  <1>9. /\ w \in Seq(UrlText) /\ Len(w) = 3 * m + 10
        /\ \A i \in 1..(2 * m + 7) : w[i] = v[i]
        /\ w[2 * m + 8] = "&" /\ w[2 * m + 9] = "2" /\ w[2 * m + 10] = "="
        /\ \A i \in 1..m : w[2 * m + 10 + i] = e[i]
    <2>1. \E i \in 1..Len(v) : v[i] = "?"
      BY <1>1, <1>5, <1>7
    <2> QED
      BY <1>1, <1>7, <1>8, <2>1 DEF Added
  <1>10. /\ w[1] = "b" /\ w[2] = "?" /\ w[3] = "b" /\ w[4] = "="
         /\ w[m + 5] = "&" /\ w[m + 6] = "a" /\ w[m + 7] = "="
    <2>1. \A i \in 1..4 : i \in 1..(m + 4) /\ i \in 1..(2 * m + 7)
      BY <1>1
    <2>2. \A i \in 1..4 : w[i] = u[i]
      BY <1>7, <1>9, <2>1
    <2>3. /\ m + 5 \in 1..(2 * m + 7) /\ m + 6 \in 1..(2 * m + 7) /\ m + 7 \in 1..(2 * m + 7)
      BY <1>1
    <2> QED
      BY <1>5, <1>7, <1>9, <2>2, <2>3
  <1>11. \A i \in 1..m : w[4 + i] = e[i] /\ w[m + 7 + i] = e[i]
    <2>1. \A i \in 1..m : /\ 4 + i \in 1..(m + 4) /\ 4 + i \in 1..(2 * m + 7)
                           /\ m + 7 + i \in 1..(2 * m + 7)
      BY <1>1
    <2>2. \A i \in 1..m : w[4 + i] = v[4 + i] /\ v[4 + i] = u[4 + i]
      BY <1>7, <1>9, <2>1
    <2>3. \A i \in 1..m : w[m + 7 + i] = v[m + 7 + i]
      BY <1>9, <2>1
    <2> QED
      BY <1>5, <1>7, <2>2, <2>3
  <1> QED
    BY <1>1, <1>9, <1>10, <1>11 DEF e, u, v, w

\* An encoded value holds no separator: the only one before a name of a
\* parameter is its own.
LEMMA OnlyPlace ==
    ASSUME NEW s \in Seq(UrlChar)
    PROVE  LET m == Len(encodeURL(s))
               before == addURLParameter(<<"b">>, "b", s)
               url == addURLParameter(addURLParameter(before, "a", s), "2", s)
           IN /\ ParameterPlaces(url, "a") = {m + 6}
              /\ \A j \in (m + 8)..Len(url) : url[j] = "&" <=> j = 2 * m + 8
  <1> DEFINE e == encodeURL(s)
             m == Len(e)
             before == addURLParameter(<<"b">>, "b", s)
             w == addURLParameter(addURLParameter(before, "a", s), "2", s)
  <1>1. /\ m \in Nat /\ Len(w) = 10 + 3 * m
        /\ w[1] = "b" /\ w[2] = "?" /\ w[3] = "b" /\ w[4] = "="
        /\ w[m + 5] = "&" /\ w[m + 6] = "a" /\ w[m + 7] = "="
        /\ w[2 * m + 8] = "&" /\ w[2 * m + 9] = "2" /\ w[2 * m + 10] = "="
        /\ \A i \in 1..m : w[4 + i] = e[i] /\ w[m + 7 + i] = e[i] /\ w[2 * m + 10 + i] = e[i]
    BY ThreeParameters
  <1>2. \A i \in 1..m : e[i] \notin {"?", "&", "="}
    <2>1. \A i \in 1..m : e[i] \in SentChar
      BY EncodedLength
    <2> QED
      BY <2>1 DEF SentChar, Plain
  <1> HIDE DEF e, w
  <1>3. \A i \in 1..m : w[4 + i] \notin {"?", "&"} /\ w[m + 7 + i] \notin {"?", "&"}
                        /\ w[2 * m + 10 + i] \notin {"?", "&"}
    BY <1>1, <1>2
  <1> HIDE DEF m
  <1>4. ASSUME NEW j \in 1..Len(w), w[j] \in {"?", "&"}
        PROVE  j = 2 \/ j = m + 5 \/ j = 2 * m + 8
    <2>1. j \in Nat /\ 1 <= j /\ j <= 10 + 3 * m
      BY <1>1
    <2>2. ~(4 < j /\ j < m + 5)
      <3>1. SUFFICES ASSUME 4 < j, j < m + 5 PROVE FALSE
        OBVIOUS
      <3>2. j - 4 \in 1..m /\ 4 + (j - 4) = j
        BY <1>1, <2>1, <3>1
      <3> QED
        BY <1>3, <1>4, <3>2
    <2>3. ~(m + 7 < j /\ j < 2 * m + 8)
      <3>1. SUFFICES ASSUME m + 7 < j, j < 2 * m + 8 PROVE FALSE
        OBVIOUS
      <3>2. j - (m + 7) \in 1..m /\ m + 7 + (j - (m + 7)) = j
        BY <1>1, <2>1, <3>1
      <3> QED
        BY <1>3, <1>4, <3>2
    <2>4. ~(2 * m + 10 < j)
      <3>1. SUFFICES ASSUME 2 * m + 10 < j PROVE FALSE
        OBVIOUS
      <3>2. j - (2 * m + 10) \in 1..m /\ 2 * m + 10 + (j - (2 * m + 10)) = j
        BY <1>1, <2>1, <3>1
      <3> QED
        BY <1>3, <1>4, <3>2
    <2>5. /\ j # 1 /\ j # 3 /\ j # 4 /\ j # m + 6 /\ j # m + 7
          /\ j # 2 * m + 9 /\ j # 2 * m + 10
      BY <1>1, <1>4
    <2> QED
      BY <1>1, <2>1, <2>2, <2>3, <2>4, <2>5
  <1>5. ASSUME NEW i \in ParameterPlaces(w, "a")
        PROVE  i = m + 6
    <2>1. i \in 2..Len(w) /\ w[i] = "a" /\ w[i - 1] \in {"?", "&"}
      BY DEF ParameterPlaces
    <2>2. i - 1 \in 1..Len(w) /\ i = (i - 1) + 1
      BY <1>1, <2>1
    <2>3. i - 1 = 2 \/ i - 1 = m + 5 \/ i - 1 = 2 * m + 8
      BY <1>4, <2>1, <2>2
    <2>4. i # 3 /\ i # 2 * m + 9
      BY <1>1, <2>1
    <2> QED
      BY <1>1, <2>1, <2>3, <2>4
  <1>6. m + 6 \in ParameterPlaces(w, "a")
    <2>1. m + 6 \in 2..Len(w) /\ (m + 6) - 1 = m + 5 /\ (m + 6) + 1 = m + 7
      BY <1>1
    <2> QED
      BY <1>1, <2>1 DEF ParameterPlaces
  <1>7. ASSUME NEW j \in (m + 8)..Len(w)
        PROVE  w[j] = "&" <=> j = 2 * m + 8
    <2>1. j \in 1..Len(w) /\ j # 2 /\ j # m + 5
      BY <1>1
    <2> QED
      BY <1>1, <1>4, <2>1
  <1> QED
    BY <1>5, <1>6, <1>7 DEF e, m, w

\* A value that was encoded among others is found and decoded again.
LEMMA ParameterFound ==
    ASSUME NEW s \in Seq(UrlChar)
    PROVE  LET before == addURLParameter(<<"b">>, "b", s)
               url == addURLParameter(addURLParameter(before, "a", s), "2", s)
           IN getURLParameterValue(url, "a", 3 * Len(s) + 1) = decodeURL(encodeURL(s))
  <1> DEFINE e == encodeURL(s)
             m == Len(e)
             before == addURLParameter(<<"b">>, "b", s)
             w == addURLParameter(addURLParameter(before, "a", s), "2", s)
             after == {j \in ((m + 6) + 2)..Len(w) : w[j] = "&"}
             value == SubSeq(w, (m + 6) + 2, IF after = {} THEN Len(w) ELSE First(after) - 1)
  <1>1. /\ m \in Nat /\ Len(w) = 10 + 3 * m /\ w \in Seq(UrlText) /\ w[m + 7] = "="
        /\ \A i \in 1..m : w[m + 7 + i] = e[i]
    BY ThreeParameters
  <1>2. e \in Seq(SentChar) /\ m <= 3 * Len(s) /\ Len(s) \in Nat
    BY EncodedLength
  <1>3. /\ ParameterPlaces(w, "a") = {m + 6}
        /\ \A j \in (m + 8)..Len(w) : w[j] = "&" <=> j = 2 * m + 8
    BY OnlyPlace
  <1>4. \A x \in Nat : First({x}) = x
    BY DEF First
  <1> HIDE DEF e, w
  <1>5. First(ParameterPlaces(w, "a")) = m + 6
    BY <1>1, <1>3, <1>4
  <1>6. after = {2 * m + 8}
    <2>1. 2 * m + 8 \in (m + 8)..Len(w) /\ (m + 6) + 2 = m + 8
      BY <1>1
    <2> QED
      BY <1>3, <2>1
  <1>7. value = e
    <2>1. First(after) - 1 = 2 * m + 7 /\ after # {}
      <3>1. 2 * m + 8 \in Nat /\ (2 * m + 8) - 1 = 2 * m + 7
        BY <1>1
      <3> QED
        BY <1>4, <1>6, <3>1
    <2>2. value = SubSeq(w, m + 8, 2 * m + 7)
      <3>1. (m + 6) + 2 = m + 8
        BY <1>1
      <3> HIDE DEF after
      <3> QED
        BY <2>1, <3>1
    <2>3. /\ Len(SubSeq(w, m + 8, 2 * m + 7)) = m
          /\ \A i \in 1..m : SubSeq(w, m + 8, 2 * m + 7)[i] = w[m + 7 + i]
      BY <1>1
    <2>4. SubSeq(w, m + 8, 2 * m + 7) \in Seq(UrlText) /\ e \in Seq(UrlText)
      BY <1>1, <1>2 DEF UrlText
    <2>5. \A i \in 1..m : SubSeq(w, m + 8, 2 * m + 7)[i] = e[i]
      BY <1>1, <2>3
    <2>6. SubSeq(w, m + 8, 2 * m + 7) = [i \in 1..m |-> e[i]]
      <3> DEFINE x == SubSeq(w, m + 8, 2 * m + 7)
      <3>1. x = [i \in 1..Len(x) |-> x[i]]
        BY <2>4
      <3>2. Len(x) = m
        BY <2>3
      <3> HIDE DEF x, m
      <3>3. x = [i \in 1..m |-> x[i]]
        BY <3>1, <3>2, Zenon
      <3> QED
        BY <2>5, <3>3 DEF x
    <2>7. e = [i \in 1..m |-> e[i]]
      BY <2>4
    <2> HIDE DEF value, m
    <2> QED
      BY <2>2, <2>6, <2>7, Zenon
  <1>8. ~(m + 6 = Len(w) \/ w[(m + 6) + 1] = "&")
    <2>1. (m + 6) + 1 = m + 7 /\ m + 6 # Len(w)
      BY <1>1
    <2> QED
      BY <1>1, <2>1
  <1>9. ~(Len(value) >= 3 * Len(s) + 1)
    <2>1. Len(value) = m
      BY <1>7
    <2> HIDE DEF m, value
    <2> QED
      BY <1>1, <1>2, <2>1
  <1>10. getURLParameterValue(w, "a", 3 * Len(s) + 1) = decodeURL(value)
    <2>1. ParameterPlaces(w, "a") # {}
      BY <1>3
    <2> HIDE DEF value, m
    <2> QED
      BY <1>5, <1>8, <1>9, <2>1, Zenon DEF getURLParameterValue, value, m
  <1> QED
    BY <1>7, <1>10 DEF e, w

\* The URL of a state has characters that can be encoded, and stays.
UrlInv == hmUrl \in Seq(UrlChar)

LEMMA UrlStart == MessageInit => UrlInv
  <1> SUFFICES ASSUME MessageInit PROVE hmUrl \in Seq(UrlChar)
    BY DEF UrlInv
  <1>1. UrlChars \subseteq UrlChar
    BY UrlAssumption DEF UrlChar
  <1>2. CASE hmUrl = <<>>
    BY <1>2
  <1>3. CASE hmUrl \in UNION {[1..n -> UrlChars] : n \in 0..UrlLength}
    <2>1. PICK n \in 0..UrlLength : hmUrl \in [1..n -> UrlChars]
      BY <1>3
    <2>2. n \in Nat
      BY <2>1, HttpMessageAssumption
    <2>3. hmUrl \in [1..n -> UrlChar]
      BY <1>1, <2>1
    <2> QED
      BY <2>2, <2>3
  <1> QED
    BY <1>2, <1>3 DEF MessageInit

LEMMA UrlStays == UrlInv /\ [MessageNext]_messageVars => UrlInv'
  BY DEF UrlInv, MessageNext, messageVars, MessageArrives, EndHeader, HeaderFound, MoreHeader,
         ReadGivesUp, ReadBody, EndBody

LEMMA UrlsReturn == UrlInv => ParameterComesBack /\ TruncationKeepsCodes
  <1> SUFFICES ASSUME UrlInv PROVE ParameterComesBack /\ TruncationKeepsCodes
    OBVIOUS
  <1>1. hmUrl \in Seq(UrlChar)
    BY DEF UrlInv
  <1>2. ParameterComesBack
    <2> DEFINE before == addURLParameter(<<"b">>, "b", hmUrl)
               url == addURLParameter(addURLParameter(before, "a", hmUrl), "2", hmUrl)
               got == getURLParameterValue(url, "a", 3 * Len(hmUrl) + 1)
    <2>1. got = decodeURL(encodeURL(hmUrl))
      BY <1>1, ParameterFound
    <2>2. /\ decodeURL(encodeURL(hmUrl)).ok
          /\ decodeURL(encodeURL(hmUrl)).out
               = [i \in 1..Len(hmUrl) |-> IF hmUrl[i] = "+" THEN "space" ELSE hmUrl[i]]
      BY <1>1, EncodedDecodes, Zenon
    <2> HIDE DEF got
    <2>3. got.ok /\ got.out = [i \in 1..Len(hmUrl) |-> IF hmUrl[i] = "+" THEN "space" ELSE hmUrl[i]]
      BY <2>1, <2>2, Zenon
    <2> QED
      BY <2>3, Zenon DEF ParameterComesBack, got
  <1>3. TruncationKeepsCodes
    <2>1. \A most \in 0..(UrlLength + 2) : most \in Nat
      BY HttpMessageAssumption
    <2>2. \A most \in 0..(UrlLength + 2) :
            Len(truncatedURL(hmUrl, most)) <= most /\ decodeURL(truncatedURL(hmUrl, most)).ok
      BY <1>1, <2>1, TruncationDecodes, Zenon
    <2> QED
      BY <2>2, Zenon DEF TruncationKeepsCodes
  <1> QED
    BY <1>2, <1>3

(***************************************************************************)
(* A value that was encoded and appended to a URL is found there again and *)
(* decoded, and an encoded value that is cut can be decoded: for a URL of  *)
(* any length, over the characters of the model.                           *)
(***************************************************************************)
THEOREM UrlsComeBack == MessageSpec => [](ParameterComesBack /\ TruncationKeepsCodes)
  BY UrlStart, UrlStays, UrlsReturn, PTL DEF MessageSpec

(***************************************************************************)
(* Messages end where their length says unless, and only unless, a peek    *)
(* ended inside the blank line, URLs come back from their encoding, and    *)
(* only the chunk that completes the body of a get marks its file.         *)
(***************************************************************************)
THEOREM MessagesAreWhole == MessageSpec /\ GetSpec => MessagesWhole
  BY MessageEndsRight, UrlsComeBack, MarkedWhenWhole, PTL DEF MessagesWhole
=============================================================================
