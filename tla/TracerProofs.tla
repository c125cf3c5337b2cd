---------------------------- MODULE TracerProofs ----------------------------
(***************************************************************************)
(* Proofs about the tracer and its files, for every number of clients,     *)
(* processes, traces, sizes, rounds and files to maintain.                 *)
(***************************************************************************)
EXTENDS Tracer, TraceFiles, FiniteSetTheorems, TLAPS

-----------------------------------------------------------------------------
(***************************************************************************)
(* The tracer.  Who has the mutex of the variables has the secondary pool, *)
(* which is empty otherwise; and the numbers of the traces grow from the   *)
(* file over the cache and the two pools.                                  *)
(***************************************************************************)
TrChain ==
    <<"PosixThread", "Traces", "TracesToManage", "Directory", "FileName", "LastPathName", "InfoName", "Link",
      "LockName", "Labels", "MutexForTraces", "MutexForVariable">>

TrStages ==
    {"PosixThread", "Traces", "TracesToManage", "Directory", "FileName", "LastPathName", "InfoName", "Link",
     "LockName", "Labels", "MutexForTraces", "MutexForVariable"}

TrInside == {"populateFlush", "performFlush", "flush"}

\* What init holds, and who is inside the object.
TrControl ==
    /\ trPc \in TrStages \cup
                {"refused", "ready", "cancel", "cancelled", "crashed", "finish", "finished", "notClosed"}
    /\ trVar \in Threads \cup {"none"}
    /\ DOMAIN trAt = Threads
    /\ \A c \in TrClients : trAt[c] \in {"out", "add"} \cup TrInside
    /\ trAt["thread"] \in {"out", "begin", "sleep", "populate", "perform", "populated", "failed", "ended", "cancelled"}
                          \cup TrInside
    /\ trAt["owner"] \in {"out", "populated", "unflushed", "failed"} \cup TrInside
    /\ trPc \in {"finish", "finished", "notClosed"} \/ trAt["owner"] = "out" \/ trPc = "crashed"
    /\ trPc \in {"cancelled", "finish", "finished", "notClosed"} => trAt["thread"] \in {"out", "ended", "cancelled"}
    /\ trPc \in {"finish", "finished", "notClosed"} => (\A c \in TrClients : trAt[c] = "out")
    /\ trPc \in TrStages \cup {"refused"} =>
          trMain = <<>> /\ trManage = <<>> /\ \A a \in Threads : trAt[a] = "out"
    /\ trWants \in [TrClients -> Nat]
    /\ \A c \in TrClients : trAt[c] = "add" => trWants[c] # 0

TrHeldOK ==
    /\ trHeld \in Seq(TrStages)
    /\ \A i \in 1..12 : trPc = TrChain[i] => Len(trHeld) = i - 1
    /\ trPc = "refused" => trHeld = <<>>
    /\ trPc \in {"ready", "cancel"} => Len(trHeld) = 12

TraceRecord == [id : Nat \ {0}, size : Nat \ {0}]
\* The numbers of a sequence of traces from a place on.
IdsFrom(s, k) == {s[i].id : i \in k..Len(s)}
Below(A, B) == \A a \in A, b \in B : a < b
Sorted(s) == \A i, j \in 1..Len(s) : i < j => s[i].id < s[j].id

TrPoolsOK ==
    /\ trMain \in Seq(TraceRecord) /\ trManage \in Seq(TraceRecord)
    /\ trAlloc \in Nat /\ trManageAlloc \in Nat /\ trLost \in Nat /\ trCount \in Nat
    /\ Len(trMain) <= trAlloc /\ Len(trManage) <= trManageAlloc
    /\ trIndex \in 1..Len(trManage) + 1
    /\ trVar = "none" => trManage = <<>>

TrCacheOK ==
    /\ trCache \in Seq(TraceRecord) /\ trBusy \in 0..TrCacheSize /\ (trBusy = 0 <=> trCache = <<>>)
    /\ trWritten \in Seq(TraceRecord)

\* Where the traces are that were accepted: written (w), in the cache (c), in
\* the secondary pool (the numbers R), in the main pool (m), or gone (g).
OrderOf(w, c, R, m, g, n) ==
    /\ Sorted(w) /\ Sorted(c) /\ Sorted(m)
    /\ Below(Ids(w), Ids(c) \cup R \cup Ids(m)) /\ Below(Ids(c), R \cup Ids(m)) /\ Below(R, Ids(m))
    /\ Ids(w) \cup Ids(c) \cup R \cup Ids(m) \cup g = 1..n
    /\ (Ids(w) \cup Ids(c) \cup R \cup Ids(m)) \cap g = {}

TrOrder ==
    /\ Sorted(trManage)
    /\ OrderOf(trWritten, trCache, IdsFrom(trManage, trIndex), trMain, trGone, trCount)

\* What the flush of the owner has left.
TrFlushed ==
    trPc \in {"finish", "finished", "notClosed"} =>
        /\ trAt["owner"] \in {"performFlush", "flush", "populated"} => trMain = <<>>
        /\ trAt["owner"] \in {"flush", "populated"} => trManage = <<>>
        /\ trAt["owner"] = "populated" => trCache = <<>>

TrInv == TrControl /\ TrHeldOK /\ TrPoolsOK /\ TrCacheOK /\ TrOrder /\ TrFlushed

LEMMA TrConstants ==
    /\ TrMaxTraces \in Nat /\ TrOverflow \in Nat /\ TrOverflow >= 1 /\ TrCacheSize \in Nat
    /\ "none" \notin Threads /\ "thread" \notin TrClients /\ "owner" \notin TrClients
    /\ "thread" \in Threads /\ "owner" \in Threads /\ TrClients \subseteq Threads
    /\ \A size \in TrSizes : size \in Nat /\ size # 0
  BY TracerAssumption DEF Threads

-----------------------------------------------------------------------------
(***************************************************************************)
(* Sequences of traces and their numbers.                                  *)
(***************************************************************************)
LEMMA IdsEmpty == Ids(<<>>) = {} /\ Sorted(<<>>) /\ <<>> \in Seq(TraceRecord)
  BY DEF Ids, Sorted

LEMMA IdsAppend ==
    ASSUME NEW s \in Seq(TraceRecord), NEW t \in TraceRecord
    PROVE  /\ Append(s, t) \in Seq(TraceRecord) /\ Append(s, t) # <<>>
           /\ Ids(Append(s, t)) = Ids(s) \cup {t.id}
           /\ Sorted(s) /\ Below(Ids(s), {t.id}) => Sorted(Append(s, t))
  <1> DEFINE r == Append(s, t)
  <1>1. /\ r \in Seq(TraceRecord) /\ Len(r) = Len(s) + 1 /\ Len(s) \in Nat /\ r[Len(s) + 1] = t
        /\ \A i \in 1..Len(s) : r[i] = s[i]
    OBVIOUS
  <1> HIDE DEF r
  <1>2. \A i \in 1..Len(r) : i \in 1..Len(s) \/ i = Len(s) + 1
    BY <1>1
  <1>3. 1..Len(s) \subseteq 1..Len(r) /\ Len(s) + 1 \in 1..Len(r)
    BY <1>1
  <1>4. Ids(r) = Ids(s) \cup {t.id}
    <2>1. ASSUME NEW x \in Ids(r) PROVE x \in Ids(s) \cup {t.id}
      BY <1>1, <1>2, <2>1 DEF Ids
    <2>2. ASSUME NEW x \in Ids(s) \cup {t.id} PROVE x \in Ids(r)
      BY <1>1, <1>3, <2>2 DEF Ids
    <2> QED
      BY <2>1, <2>2
  <1>5. ASSUME Sorted(s), Below(Ids(s), {t.id}), NEW i \in 1..Len(r), NEW j \in 1..Len(r), i < j
        PROVE  r[i].id < r[j].id
    <2>1. i \in 1..Len(s)
      BY <1>1, <1>5
    <2>2. CASE j \in 1..Len(s)
      BY <1>1, <1>5, <2>1, <2>2 DEF Sorted
    <2>3. CASE j = Len(s) + 1
      <3>1. s[i].id \in Ids(s)
        BY <2>1 DEF Ids
      <3> QED
        BY <1>1, <1>5, <2>1, <2>3, <3>1 DEF Below
    <2> QED
      BY <1>2, <2>2, <2>3
  <1>6. r # <<>>
    BY <1>1
  <1> QED
    BY <1>1, <1>4, <1>5, <1>6 DEF r, Sorted

LEMMA IdsConcat ==
    ASSUME NEW s \in Seq(TraceRecord), NEW t \in Seq(TraceRecord)
    PROVE  /\ s \o t \in Seq(TraceRecord)
           /\ Ids(s \o t) = Ids(s) \cup Ids(t)
           /\ Sorted(s) /\ Sorted(t) /\ Below(Ids(s), Ids(t)) => Sorted(s \o t)
  <1> DEFINE r == s \o t
             n == Len(s)
  <1>1. /\ r \in Seq(TraceRecord) /\ Len(r) = n + Len(t) /\ n \in Nat /\ Len(t) \in Nat
        /\ \A i \in 1..n : r[i] = s[i]
        /\ \A i \in 1..Len(r) : i > n => r[i] = t[i - n]
    OBVIOUS
  <1>2. s \o t = r
    OBVIOUS
  <1> HIDE DEF r
  <1>3. \A i \in 1..Len(r) : i \in 1..n \/ (i > n /\ i - n \in 1..Len(t))
    BY <1>1
  <1>4. \A i \in 1..Len(t) : i + n \in 1..Len(r) /\ i + n > n /\ i + n - n = i
    BY <1>1
  <1>5. \A i \in 1..n : i \in 1..Len(r)
    BY <1>1
  <1>6. Ids(r) = Ids(s) \cup Ids(t)
    <2>1. ASSUME NEW x \in Ids(r) PROVE x \in Ids(s) \cup Ids(t)
      <3>1. PICK i \in 1..Len(r) : x = r[i].id
        BY DEF Ids
      <3> QED
        BY <1>1, <1>3, <3>1 DEF Ids
    <2>2. ASSUME NEW x \in Ids(s) PROVE x \in Ids(r)
      BY <1>1, <1>5, <2>2 DEF Ids
    <2>3. ASSUME NEW x \in Ids(t) PROVE x \in Ids(r)
      <3>1. PICK i \in 1..Len(t) : x = t[i].id
        BY <2>3 DEF Ids
      <3>2. r[i + n] = t[i]
        BY <1>1, <1>4, <3>1
      <3> QED
        BY <1>4, <3>1, <3>2 DEF Ids
    <2> QED
      BY <2>1, <2>2, <2>3
  <1>7. ASSUME Sorted(s), Sorted(t), Below(Ids(s), Ids(t)), NEW i \in 1..Len(r), NEW j \in 1..Len(r), i < j
        PROVE  r[i].id < r[j].id
    <2>1. CASE i \in 1..n /\ j \in 1..n
      BY <1>1, <1>7, <2>1 DEF Sorted
    <2>2. CASE i \in 1..n /\ j > n /\ j - n \in 1..Len(t)
      <3>1. s[i].id \in Ids(s) /\ t[j - n].id \in Ids(t) /\ r[i] = s[i] /\ r[j] = t[j - n]
        BY <1>1, <2>2 DEF Ids
      <3> QED
        BY <1>7, <3>1 DEF Below
    <2>3. CASE i > n /\ i - n \in 1..Len(t) /\ j > n /\ j - n \in 1..Len(t)
      <3>1. i - n < j - n /\ r[i] = t[i - n] /\ r[j] = t[j - n]
        BY <1>1, <1>7, <2>3
      <3> QED
        BY <1>7, <2>3, <3>1 DEF Sorted
    <2> QED
      BY <1>1, <1>3, <1>7, <2>1, <2>2, <2>3
  <1> QED
    BY <1>1, <1>2, <1>6, <1>7 DEF Sorted

LEMMA IdsFromFacts ==
    ASSUME NEW s \in Seq(TraceRecord)
    PROVE  /\ IdsFrom(s, 1) = Ids(s) /\ IdsFrom(s, Len(s) + 1) = {}
           /\ \A k \in 1..Len(s) : /\ IdsFrom(s, k) = {s[k].id} \cup IdsFrom(s, k + 1)
                                   /\ s[k] \in TraceRecord
                                   /\ Sorted(s) => Below({s[k].id}, IdsFrom(s, k + 1))
  <1>1. IdsFrom(s, 1) = Ids(s) /\ IdsFrom(s, Len(s) + 1) = {}
    BY DEF IdsFrom, Ids
  <1>2. ASSUME NEW k \in 1..Len(s)
        PROVE  /\ IdsFrom(s, k) = {s[k].id} \cup IdsFrom(s, k + 1)
               /\ s[k] \in TraceRecord
               /\ Sorted(s) => Below({s[k].id}, IdsFrom(s, k + 1))
    <2>1. k..Len(s) = {k} \cup (k + 1..Len(s)) /\ \A i \in k + 1..Len(s) : i \in 1..Len(s) /\ k < i
      OBVIOUS
    <2>2. IdsFrom(s, k) = {s[k].id} \cup IdsFrom(s, k + 1)
      BY <2>1 DEF IdsFrom
    <2>3. Sorted(s) => Below({s[k].id}, IdsFrom(s, k + 1))
      BY <2>1 DEF IdsFrom, Below, Sorted
    <2> QED
      BY <2>2, <2>3
  <1> QED
    BY <1>1, <1>2

\* What performTrace has still to take of the secondary pool.
LEMMA RemainingFacts ==
    ASSUME trManage \in Seq(TraceRecord), trIndex \in 1..Len(trManage) + 1
    PROVE  /\ Remaining \in Seq(TraceRecord) /\ Ids(Remaining) = IdsFrom(trManage, trIndex)
           /\ Sorted(trManage) => Sorted(Remaining)
           /\ trIndex <= Len(trManage) => Ids(Tail(Remaining)) = IdsFrom(trManage, trIndex + 1)
  <1> DEFINE n == Len(trManage)
             k == trIndex
             r == Remaining
  <1>1. n \in Nat /\ k \in 1..n + 1
    OBVIOUS
  <1>2. /\ r \in Seq(TraceRecord) /\ Len(r) = n - k + 1
        /\ \A i \in 1..n - k + 1 : r[i] = trManage[k + i - 1]
    BY DEF Remaining
  <1> HIDE DEF r
  <1>3. /\ \A i \in 1..Len(r) : k + i - 1 \in k..n
        /\ \A i \in k..n : i - k + 1 \in 1..Len(r) /\ k + (i - k + 1) - 1 = i
    BY <1>1, <1>2
  <1>4. Ids(r) = IdsFrom(trManage, k)
    <2>1. ASSUME NEW x \in Ids(r) PROVE x \in IdsFrom(trManage, k)
      <3>1. PICK i \in 1..Len(r) : x = r[i].id
        BY <2>1 DEF Ids
      <3>2. k + i - 1 \in k..n /\ r[i] = trManage[k + i - 1]
        BY <1>2, <1>3, <3>1
      <3> QED
        BY <3>1, <3>2 DEF IdsFrom
    <2>2. ASSUME NEW x \in IdsFrom(trManage, k) PROVE x \in Ids(r)
      <3>1. PICK i \in k..n : x = trManage[i].id
        BY DEF IdsFrom
      <3>2. i - k + 1 \in 1..n - k + 1 /\ r[i - k + 1] = trManage[i]
        BY <1>2, <1>3, <3>1
      <3> QED
        BY <1>2, <3>1, <3>2 DEF Ids
    <2> QED
      BY <2>1, <2>2
  <1>5. Sorted(trManage) => Sorted(r)
    <2> SUFFICES ASSUME Sorted(trManage), NEW i \in 1..Len(r), NEW j \in 1..Len(r), i < j
                 PROVE  r[i].id < r[j].id
      BY DEF Sorted
    <2>1. k + i - 1 \in 1..n /\ k + j - 1 \in 1..n /\ k + i - 1 < k + j - 1
      BY <1>1, <1>2
    <2> QED
      BY <1>2, <2>1 DEF Sorted
  <1>6. ASSUME k <= n
        PROVE  Ids(Tail(r)) = IdsFrom(trManage, k + 1)
    <2> DEFINE t == Tail(r)
    <2>1. Len(t) = n - k /\ \A i \in 1..n - k : t[i] = trManage[k + i]
      <3>1. r # <<>> /\ Len(r) >= 1
        BY <1>1, <1>2, <1>6
      <3>2. Len(t) = Len(r) - 1 /\ \A i \in 1..Len(r) - 1 : t[i] = r[i + 1]
        BY <1>2, <3>1
      <3>3. ASSUME NEW i \in 1..n - k PROVE t[i] = trManage[k + i]
        <4>1. i \in 1..Len(r) - 1 /\ i + 1 \in 1..n - k + 1 /\ k + (i + 1) - 1 = k + i
          BY <1>1, <1>2
        <4>2. r[i + 1] = trManage[k + (i + 1) - 1]
          BY <1>2, <4>1
        <4> QED
          BY <3>2, <4>1, <4>2
      <3> HIDE DEF t
      <3> QED
        BY <1>1, <1>2, <3>2, <3>3
    <2> HIDE DEF t
    <2>2. ASSUME NEW x \in Ids(t) PROVE x \in IdsFrom(trManage, k + 1)
      <3>1. PICK i \in 1..n - k : x = trManage[k + i].id
        BY <2>1, <2>2 DEF Ids
      <3>2. k + i \in k + 1..n
        BY <1>1
      <3> QED
        BY <3>1, <3>2 DEF IdsFrom
    <2>3. ASSUME NEW x \in IdsFrom(trManage, k + 1) PROVE x \in Ids(t)
      <3>1. PICK i \in k + 1..n : x = trManage[i].id
        BY DEF IdsFrom
      <3>2. i - k \in 1..n - k /\ k + (i - k) = i
        BY <1>1
      <3>3. t[i - k] = trManage[i]
        BY <2>1, <3>2
      <3> QED
        BY <2>1, <3>1, <3>2, <3>3 DEF Ids
    <2> QED
      BY <2>2, <2>3 DEF t
  <1> QED
    BY <1>2, <1>4, <1>5, <1>6 DEF r

-----------------------------------------------------------------------------
(***************************************************************************)
(* The places of the traces, when some of them move.                       *)
(***************************************************************************)
\* A trace that is added has the next number.
LEMMA OrderAdds ==
    ASSUME NEW w \in Seq(TraceRecord), NEW c \in Seq(TraceRecord), NEW R, NEW m \in Seq(TraceRecord), NEW g,
           NEW n \in Nat, OrderOf(w, c, R, m, g, n), NEW size \in Nat \ {0}
    PROVE  /\ Append(m, [id |-> n + 1, size |-> size]) \in Seq(TraceRecord)
           /\ OrderOf(w, c, R, Append(m, [id |-> n + 1, size |-> size]), g, n + 1)
  <1> DEFINE t == [id |-> n + 1, size |-> size]
             a == Append(m, t)
  <1>1. t \in TraceRecord /\ t.id = n + 1
    BY DEF TraceRecord
  <1>2. \A x \in Ids(w) \cup Ids(c) \cup R \cup Ids(m) \cup g : x \in 1..n /\ x < n + 1
    BY DEF OrderOf
  <1>3. a \in Seq(TraceRecord) /\ Ids(a) = Ids(m) \cup {n + 1} /\ (Sorted(m) /\ Below(Ids(m), {n + 1}) => Sorted(a))
    BY <1>1, IdsAppend
  <1> HIDE DEF a, t
  <1>4. Sorted(a)
    BY <1>2, <1>3 DEF OrderOf, Below
  <1>5. /\ Below(Ids(w), Ids(c) \cup R \cup Ids(a)) /\ Below(Ids(c), R \cup Ids(a)) /\ Below(R, Ids(a))
    BY <1>2, <1>3 DEF OrderOf, Below
  <1>6. /\ Ids(w) \cup Ids(c) \cup R \cup Ids(a) \cup g = 1..n + 1
        /\ (Ids(w) \cup Ids(c) \cup R \cup Ids(a)) \cap g = {}
    <2>1. 1..n + 1 = (1..n) \cup {n + 1} /\ n + 1 \notin 1..n
      OBVIOUS
    <2> QED
      BY <1>3, <2>1 DEF OrderOf
  <1> QED
    BY <1>3, <1>4, <1>5, <1>6 DEF OrderOf, a, t

\* The main pool becomes the secondary one.
LEMMA OrderExchanged ==
    ASSUME NEW w, NEW c, NEW m, NEW g, NEW n, OrderOf(w, c, {}, m, g, n)
    PROVE  OrderOf(w, c, Ids(m), <<>>, g, n)
  BY IdsEmpty DEF OrderOf, Below

\* The first trace of the secondary pool goes to the cache, or is gone.
LEMMA OrderTakes ==
    ASSUME NEW w \in Seq(TraceRecord), NEW c \in Seq(TraceRecord), NEW m \in Seq(TraceRecord), NEW g, NEW n,
           NEW t \in TraceRecord, NEW R, Below({t.id}, R), OrderOf(w, c, {t.id} \cup R, m, g, n)
    PROVE  Append(c, t) \in Seq(TraceRecord) /\ OrderOf(w, Append(c, t), R, m, g, n)
  <1> DEFINE a == Append(c, t)
  <1>1. a \in Seq(TraceRecord) /\ Ids(a) = Ids(c) \cup {t.id} /\ (Sorted(c) /\ Below(Ids(c), {t.id}) => Sorted(a))
    BY IdsAppend
  <1> HIDE DEF a
  <1>2. Sorted(a)
    BY <1>1 DEF OrderOf, Below
  <1>3. /\ Below(Ids(w), Ids(a) \cup R \cup Ids(m)) /\ Below(Ids(a), R \cup Ids(m)) /\ Below(R, Ids(m))
    BY <1>1 DEF OrderOf, Below
  <1>4. Ids(w) \cup Ids(a) \cup R \cup Ids(m) = Ids(w) \cup Ids(c) \cup ({t.id} \cup R) \cup Ids(m)
    BY <1>1
  <1> QED
    BY <1>1, <1>2, <1>3, <1>4 DEF OrderOf, a

LEMMA OrderDrops ==
    ASSUME NEW w, NEW c, NEW m, NEW g, NEW n, NEW D, NEW R, Below(D, R), D \cap R = {}, OrderOf(w, c, D \cup R, m, g, n),
           (D \cap (Ids(w) \cup Ids(c) \cup Ids(m))) = {}
    PROVE  OrderOf(w, c, R, m, g \cup D, n)
  BY DEF OrderOf, Below

\* What is below something else is something else.
LEMMA OrderApart ==
    ASSUME NEW w \in Seq(TraceRecord), NEW c \in Seq(TraceRecord), NEW m \in Seq(TraceRecord), NEW R, NEW g, NEW n \in Nat,
           OrderOf(w, c, R, m, g, n)
    PROVE  /\ R \subseteq Nat
           /\ R \cap (Ids(w) \cup Ids(c) \cup Ids(m)) = {}
           /\ Ids(c) \cap (Ids(w) \cup Ids(m)) = {} /\ Ids(w) \cap Ids(m) = {}
  <1>1. \A x \in Ids(w) \cup Ids(c) \cup R \cup Ids(m) : x \in 1..n /\ ~(x < x)
    BY DEF OrderOf
  <1>2. \A x \in R : x \notin Ids(w) /\ x \notin Ids(c) /\ x \notin Ids(m)
    BY <1>1 DEF OrderOf, Below
  <1>3. \A x \in Ids(c) : x \notin Ids(w) /\ x \notin Ids(m)
    BY <1>1 DEF OrderOf, Below
  <1>4. \A x \in Ids(w) : x \notin Ids(m)
    BY <1>1 DEF OrderOf, Below
  <1> QED
    BY <1>1, <1>2, <1>3, <1>4

\* A flush that works leaves nothing in the cache; one that fails may leave all of it.
LEMMA FlushesFacts ==
    ASSUME NEW c, NEW f \in Flushes(c)
    PROVE  /\ f.ok \in BOOLEAN
           /\ \/ f.left = <<>> /\ f.written = <<>> /\ f.ok
              \/ f.left = <<>> /\ f.written = c
              \/ f.left = c /\ f.written = <<>> /\ ~f.ok
  <1>1. \/ f = [ok |-> TRUE, left |-> <<>>, written |-> <<>>, on |-> FALSE]
        \/ f = [ok |-> TRUE, left |-> <<>>, written |-> c, on |-> TRUE]
        \/ f = [ok |-> FALSE, left |-> <<>>, written |-> c, on |-> TRUE]
        \/ f = [ok |-> FALSE, left |-> c, written |-> <<>>, on |-> TRUE]
        \/ f = [ok |-> FALSE, left |-> c, written |-> <<>>, on |-> FALSE]
    BY Zenon DEF Flushes
  <1>2. CASE f = [ok |-> TRUE, left |-> <<>>, written |-> <<>>, on |-> FALSE]
    BY <1>2
  <1>3. CASE f = [ok |-> TRUE, left |-> <<>>, written |-> c, on |-> TRUE]
    BY <1>3
  <1>4. CASE f = [ok |-> FALSE, left |-> <<>>, written |-> c, on |-> TRUE]
    BY <1>4
  <1>5. CASE f = [ok |-> FALSE, left |-> c, written |-> <<>>, on |-> TRUE]
    BY <1>5
  <1>6. CASE f = [ok |-> FALSE, left |-> c, written |-> <<>>, on |-> FALSE]
    BY <1>6
  <1> QED
    BY <1>1, <1>2, <1>3, <1>4, <1>5, <1>6

\* A flush: the cache is written, kept or dropped; when it fails the rest of
\* the secondary pool is gone.
LEMMA OrderFlushed ==
    ASSUME NEW w \in Seq(TraceRecord), NEW c \in Seq(TraceRecord), NEW m \in Seq(TraceRecord), NEW R, NEW g, NEW n \in Nat,
           OrderOf(w, c, R, m, g, n), NEW f \in Flushes(c)
    PROVE  /\ f.left \in Seq(TraceRecord) /\ w \o f.written \in Seq(TraceRecord)
           /\ OrderOf(w \o f.written, f.left, IF f.ok THEN R ELSE {}, m,
                      g \cup (Ids(c) \ (Ids(f.left) \cup Ids(f.written))) \cup (IF f.ok THEN {} ELSE R), n)
  <1>1. /\ R \cap (Ids(w) \cup Ids(c) \cup Ids(m)) = {}
        /\ Ids(c) \cap (Ids(w) \cup Ids(m)) = {} /\ Ids(w) \cap Ids(m) = {}
    BY OrderApart
  <1>2. w \o <<>> = w /\ w \o c \in Seq(TraceRecord) /\ Ids(w \o c) = Ids(w) \cup Ids(c) /\ Sorted(w \o c)
    BY IdsConcat DEF OrderOf, Below
  <1>3. /\ f.ok \in BOOLEAN
        /\ \/ f.left = <<>> /\ f.written = <<>> /\ f.ok
           \/ f.left = <<>> /\ f.written = c
           \/ f.left = c /\ f.written = <<>> /\ ~f.ok
    BY FlushesFacts
  <1> DEFINE S == IF f.ok THEN R ELSE {}
             D == IF f.ok THEN {} ELSE R
  <1>4. S \cup D = R /\ S \cap D = {}
    BY <1>3
  <1> HIDE DEF S, D
  <1>5. CASE f.left = <<>> /\ f.written = <<>> /\ f.ok
    <2>1. S = R /\ D = {}
      BY <1>5 DEF S, D
    <2>2. OrderOf(w, <<>>, S, m, g \cup Ids(c) \cup D, n)
      BY <1>1, <2>1, IdsEmpty DEF OrderOf, Below
    <2>3. Ids(c) \ (Ids(f.left) \cup Ids(f.written)) = Ids(c)
      BY <1>5, IdsEmpty
    <2> QED
      BY <1>2, <1>5, <2>2, <2>3, IdsEmpty DEF S, D
  <1>6. CASE f.left = <<>> /\ f.written = c
    <2>1. OrderOf(w \o c, <<>>, S, m, g \cup {} \cup D, n)
      BY <1>1, <1>2, <1>4, IdsEmpty DEF OrderOf, Below
    <2>2. Ids(c) \ (Ids(f.left) \cup Ids(f.written)) = {}
      BY <1>6
    <2> QED
      BY <1>2, <1>6, <2>1, <2>2, IdsEmpty DEF S, D
  <1>7. CASE f.left = c /\ f.written = <<>> /\ ~f.ok
    <2>1. OrderOf(w, c, S, m, g \cup {} \cup D, n)
      BY <1>1, <1>2, <1>4 DEF OrderOf, Below
    <2>2. Ids(c) \ (Ids(f.left) \cup Ids(f.written)) = {}
      BY <1>7
    <2> QED
      BY <1>2, <1>7, <2>1, <2>2 DEF S, D
  <1> QED
    BY <1>3, <1>5, <1>6, <1>7

-----------------------------------------------------------------------------
(***************************************************************************)
(* What populateTraceFileCache and flushTraceFileCache do to the traces.   *)
(***************************************************************************)
TrData == TrPoolsOK /\ TrCacheOK /\ TrOrder

\* The trace that performTrace takes next.
LEMMA PerformFacts ==
    ASSUME TrData, trIndex <= Len(trManage)
    PROVE  /\ trManage[trIndex] \in TraceRecord /\ trIndex \in Nat /\ trIndex + 1 \in 1..Len(trManage) + 1
           /\ Ids(Tail(Remaining)) = IdsFrom(trManage, trIndex + 1)
           /\ Ids(Remaining) = {trManage[trIndex].id} \cup IdsFrom(trManage, trIndex + 1)
           /\ Below({trManage[trIndex].id}, IdsFrom(trManage, trIndex + 1))
           /\ OrderOf(trWritten, trCache, {trManage[trIndex].id} \cup IdsFrom(trManage, trIndex + 1),
                      trMain, trGone, trCount)
           /\ Append(trCache, trManage[trIndex]) \in Seq(TraceRecord) /\ Append(trCache, trManage[trIndex]) # <<>>
           /\ OrderOf(trWritten, Append(trCache, trManage[trIndex]), IdsFrom(trManage, trIndex + 1),
                      trMain, trGone, trCount)
  <1>1. trManage \in Seq(TraceRecord) /\ trIndex \in 1..Len(trManage) /\ trIndex + 1 \in 1..Len(trManage) + 1
    BY DEF TrData, TrPoolsOK
  <1>2. trIndex \in 1..Len(trManage) + 1
    BY DEF TrData, TrPoolsOK
  <1>3. /\ trManage[trIndex] \in TraceRecord
        /\ IdsFrom(trManage, trIndex) = {trManage[trIndex].id} \cup IdsFrom(trManage, trIndex + 1)
        /\ Below({trManage[trIndex].id}, IdsFrom(trManage, trIndex + 1))
    BY <1>1, IdsFromFacts DEF TrData, TrOrder
  <1>4. /\ Ids(Remaining) = IdsFrom(trManage, trIndex)
        /\ Ids(Tail(Remaining)) = IdsFrom(trManage, trIndex + 1)
    BY <1>1, <1>2, RemainingFacts
  <1>5. OrderOf(trWritten, trCache, {trManage[trIndex].id} \cup IdsFrom(trManage, trIndex + 1), trMain, trGone, trCount)
    BY <1>3 DEF TrData, TrOrder
  <1>6. /\ Append(trCache, trManage[trIndex]) \in Seq(TraceRecord)
        /\ OrderOf(trWritten, Append(trCache, trManage[trIndex]), IdsFrom(trManage, trIndex + 1), trMain, trGone, trCount)
    BY <1>3, <1>5, OrderTakes DEF TrData, TrPoolsOK, TrCacheOK
  <1>7. Append(trCache, trManage[trIndex]) # <<>>
    BY <1>3, IdsAppend DEF TrData, TrCacheOK
  <1> QED
    BY <1>1, <1>3, <1>4, <1>5, <1>6, <1>7

LEMMA ExchangeKeepsTraces ==
    ASSUME TrData, NEW a \in Threads, PopulateExchange(a)
    PROVE  TrData'
  <1> DEFINE r == Report
             n == trCount + Len(r) - Len(trMain)
  <1>1. trVar = "none" /\ trManage = <<>> /\ trIndex = 1
    BY DEF PopulateExchange, TrData, TrPoolsOK
  <1>2. OrderOf(trWritten, trCache, {}, trMain, trGone, trCount)
    <2>1. IdsFrom(trManage, trIndex) = {}
      BY <1>1 DEF IdsFrom
    <2> QED
      BY <2>1 DEF TrData, TrOrder
  <1>3. /\ r \in Seq(TraceRecord) /\ n \in Nat /\ OrderOf(trWritten, trCache, {}, r, trGone, n)
        /\ Len(r) <= trManageAlloc' /\ trManageAlloc' \in Nat
    <2>1. CASE Reports /\ Len(trMain) < TrMaxTraces
      <3>1. r = Append(trMain, [id |-> trCount + 1, size |-> 1])
        BY <2>1 DEF Report
      <3>2. r \in Seq(TraceRecord) /\ OrderOf(trWritten, trCache, {}, r, trGone, trCount + 1)
        <4>1. 1 \in Nat \ {0}
          OBVIOUS
        <4> HIDE DEF r
        <4> QED
          BY <1>2, <3>1, <4>1, OrderAdds DEF TrData, TrPoolsOK, TrCacheOK
      <3>3. Len(r) = Len(trMain) + 1
        BY <3>1 DEF TrData, TrPoolsOK
      <3>4. trManageAlloc' = Grown(trAlloc, trMain)
        BY <2>1 DEF PopulateExchange
      <3> HIDE DEF r
      <3>5. n = trCount + 1
        BY <3>3 DEF TrData, TrPoolsOK
      <3>6. Len(r) <= trManageAlloc' /\ trManageAlloc' \in Nat
        BY <3>3, <3>4, TrConstants DEF TrData, TrPoolsOK, Grown
      <3>7. n \in Nat
        BY <3>5 DEF TrData, TrPoolsOK
      <3> QED
        BY <3>2, <3>5, <3>6, <3>7
    <2>2. CASE ~(Reports /\ Len(trMain) < TrMaxTraces)
      <3>1. r = trMain
        BY <2>2 DEF Report
      <3>2. trManageAlloc' = Grown(trAlloc, trMain) \/ trManageAlloc' = trAlloc
        BY DEF PopulateExchange
      <3> HIDE DEF r
      <3>3. n = trCount
        BY <3>1 DEF TrData, TrPoolsOK
      <3>4. Len(trMain) <= trManageAlloc' /\ trManageAlloc' \in Nat
        BY <3>2, TrConstants DEF TrData, TrPoolsOK, Grown
      <3> QED
        BY <1>2, <3>1, <3>3, <3>4 DEF TrData, TrPoolsOK
    <2> QED
      BY <2>1, <2>2
  <1>4. /\ trVar' = a /\ a # "none" /\ trMain' = <<>> /\ trManage' = r /\ trIndex' = 1 /\ trLost' = 0
        /\ trAlloc' = trManageAlloc /\ trCount' = n /\ UNCHANGED <<trCache, trBusy, trWritten, trGone>>
    BY TrConstants DEF PopulateExchange, Exchange, trCaching
  <1> HIDE DEF r, n
  <1>5. TrPoolsOK'
    BY <1>3, <1>4, IdsEmpty DEF TrData, TrPoolsOK
  <1>6. TrCacheOK'
    BY <1>4 DEF TrData, TrCacheOK
  <1>7. TrOrder'
    <2>1. IdsFrom(r, 1) = Ids(r)
      BY <1>3, IdsFromFacts
    <2>2. OrderOf(trWritten, trCache, Ids(r), <<>>, trGone, n)
      BY <1>3, OrderExchanged
    <2>3. Sorted(r)
      BY <1>3 DEF OrderOf
    <2> QED
      BY <1>4, <2>1, <2>2, <2>3 DEF TrOrder
  <1> QED
    BY <1>5, <1>6, <1>7 DEF TrData

LEMMA PerformKeepsTraces ==
    ASSUME TrData, NEW a \in Threads, performTrace(a)
    PROVE  TrData'
  <1> DEFINE t == trManage[trIndex]
             R == IdsFrom(trManage, trIndex + 1)
             c == Append(trCache, t)
  <1>1. trIndex <= Len(trManage) /\ PerformOther
    BY DEF performTrace, PerformTooLong, PerformFits, PerformPeriod, PerformFlushes, PerformFlushFails
  <1>2. /\ t \in TraceRecord /\ trIndex \in Nat /\ trIndex + 1 \in 1..Len(trManage) + 1
        /\ Ids(Tail(Remaining)) = R /\ Ids(Remaining) = {t.id} \cup R /\ Below({t.id}, R)
        /\ OrderOf(trWritten, trCache, {t.id} \cup R, trMain, trGone, trCount)
        /\ c \in Seq(TraceRecord) /\ c # <<>>
        /\ OrderOf(trWritten, c, R, trMain, trGone, trCount)
    BY <1>1, PerformFacts
  <1>3. UNCHANGED <<trMain, trAlloc, trManageAlloc, trLost, trCount>>
    BY <1>1 DEF PerformOther
  <1>4. /\ trCache \in Seq(TraceRecord) /\ trWritten \in Seq(TraceRecord) /\ trMain \in Seq(TraceRecord)
        /\ trManage \in Seq(TraceRecord) /\ trCount \in Nat /\ Sorted(trManage)
        /\ trBusy \in 0..TrCacheSize /\ (trBusy = 0 <=> trCache = <<>>) /\ TrCacheSize \in Nat
        /\ trManageAlloc \in Nat
    BY TrConstants DEF TrData, TrPoolsOK, TrCacheOK, TrOrder
  <1>5. t.size \in Nat /\ t.size # 0 /\ t.id \in Nat /\ trBusy \in 0..TrCacheSize /\ TrCacheSize \in Nat
    <2>1. t.size \in Nat /\ t.size # 0 /\ t.id \in Nat
      BY <1>2 DEF TraceRecord
    <2> QED
      BY <1>4, <2>1
  \* A trace was taken.
  <1>6. ASSUME trIndex' = trIndex + 1, UNCHANGED <<trManage, trVar>>
        PROVE  TrPoolsOK' /\ Sorted(trManage)' /\ IdsFrom(trManage, trIndex)' = R
    <2>1. TrPoolsOK'
      BY <1>2, <1>3, <1>6 DEF TrData, TrPoolsOK
    <2> QED
      BY <1>4, <1>6, <2>1
  \* An error.
  <1>7. ASSUME Leaves(a, FALSE)
        PROVE  TrPoolsOK' /\ Sorted(trManage)' /\ IdsFrom(trManage, trIndex)' = {}
    <2>1. trManage' = <<>> /\ trIndex' = 1 /\ trVar' = "none"
      BY <1>7 DEF Leaves
    <2>2. TrPoolsOK'
      BY <1>3, <1>4, <2>1, IdsEmpty DEF TrData, TrPoolsOK
    <2>3. IdsFrom(<<>>, 1) = {} /\ Sorted(<<>>)
      BY IdsEmpty DEF IdsFrom
    <2> QED
      BY <2>1, <2>2, <2>3
  <1> HIDE DEF R
  <1>8. CASE PerformTooLong(a)
    <2>1. trGone' = trGone \cup {t.id} /\ trIndex' = trIndex + 1 /\ UNCHANGED <<trManage, trVar, trCache, trBusy, trWritten>>
      BY <1>8 DEF PerformTooLong, trCaching
    <2>2. {t.id} \cap R = {} /\ {t.id} \cap (Ids(trWritten) \cup Ids(trCache) \cup Ids(trMain)) = {}
      <3>1. ({t.id} \cup R) \cap (Ids(trWritten) \cup Ids(trCache) \cup Ids(trMain)) = {}
        BY <1>2, <1>4, OrderApart
      <3>2. t.id \notin R
        BY <1>2, <1>5 DEF Below
      <3> QED
        BY <3>1, <3>2
    <2> HIDE DEF t, c
    <2>3. OrderOf(trWritten, trCache, R, trMain, trGone \cup {t.id}, trCount)
      BY <1>2, <2>2, OrderDrops
    <2>4. TrOrder'
      BY <1>3, <1>6, <2>1, <2>3 DEF TrOrder
    <2>5. TrCacheOK'
      BY <2>1 DEF TrData, TrCacheOK
    <2> QED
      BY <1>6, <2>1, <2>4, <2>5 DEF TrData
  <1>9. CASE PerformFits(a)
    <2>1. /\ trBusy + t.size < TrCacheSize /\ trCache' = c /\ trBusy' = trBusy + t.size
          /\ trIndex' = trIndex + 1 /\ UNCHANGED <<trManage, trVar, trWritten, trGone>>
      BY <1>9 DEF PerformFits
    <2> HIDE DEF t, c
    <2>2. TrCacheOK'
      <3>1. trBusy' \in 0..TrCacheSize /\ trBusy' # 0
        BY <1>5, <2>1
      <3>2. trCache' \in Seq(TraceRecord) /\ trCache' # <<>> /\ trWritten' \in Seq(TraceRecord)
        BY <1>2, <1>4, <2>1
      <3> QED
        BY <3>1, <3>2 DEF TrCacheOK
    <2>3. TrOrder'
      BY <1>2, <1>3, <1>6, <2>1 DEF TrOrder
    <2> QED
      BY <1>6, <2>1, <2>2, <2>3 DEF TrData
  <1>10. CASE PerformPeriod(a)
    <2>1. PICK f \in Flushes(c) :
            /\ Flushed(f, c, trBusy + t.size, Tail(Remaining))
            /\ IF f.ok THEN trIndex' = trIndex + 1 /\ UNCHANGED <<trManage, trVar, trAt>> ELSE Leaves(a, FALSE)
      BY <1>10 DEF PerformPeriod
    <2>2. trBusy + t.size < TrCacheSize
      BY <1>10 DEF PerformPeriod
    <2> HIDE DEF t, c
    <2>3. /\ f.left \in Seq(TraceRecord) /\ trWritten \o f.written \in Seq(TraceRecord)
          /\ OrderOf(trWritten \o f.written, f.left, IF f.ok THEN R ELSE {}, trMain,
                     trGone \cup (Ids(c) \ (Ids(f.left) \cup Ids(f.written))) \cup (IF f.ok THEN {} ELSE R), trCount)
      BY <1>2, <1>4, OrderFlushed
    <2>4. /\ trWritten' = trWritten \o f.written /\ trCache' = f.left
          /\ trGone' = trGone \cup (Ids(c) \ (Ids(f.left) \cup Ids(f.written))) \cup (IF f.ok THEN {} ELSE R)
          /\ trBusy' = IF f.left = <<>> THEN 0 ELSE trBusy + t.size
      BY <1>2, <2>1 DEF Flushed
    <2>5. TrPoolsOK' /\ Sorted(trManage)' /\ IdsFrom(trManage, trIndex)' = IF f.ok THEN R ELSE {}
      <3>1. CASE f.ok
        BY <1>6, <2>1, <3>1
      <3>2. CASE ~f.ok
        BY <1>7, <2>1, <3>2
      <3> QED
        BY <3>1, <3>2
    <2>6. TrCacheOK'
      <3>1. CASE f.left = <<>>
        BY <1>4, <2>3, <2>4, <3>1 DEF TrCacheOK
      <3>2. CASE f.left # <<>>
        <4>1. trBusy' \in 0..TrCacheSize /\ trBusy' # 0
          BY <1>5, <2>2, <2>4, <3>2
        <4>2. trCache' \in Seq(TraceRecord) /\ trCache' # <<>> /\ trWritten' \in Seq(TraceRecord)
          BY <2>3, <2>4, <3>2
        <4> QED
          BY <4>1, <4>2 DEF TrCacheOK
      <3> QED
        BY <3>1, <3>2
    <2>7. TrOrder'
      BY <1>3, <2>3, <2>4, <2>5 DEF TrOrder
    <2> QED
      BY <2>5, <2>6, <2>7 DEF TrData
  <1>11. CASE PerformFlushes(a)
    <2>1. PICK f \in Flushes(trCache) :
            /\ f.ok /\ trWritten' = trWritten \o f.written /\ trGone' = trGone \cup (Ids(trCache) \ Ids(f.written))
            /\ trCache' = <<t>> /\ trBusy' = t.size /\ trIndex' = trIndex + 1
      BY <1>11 DEF PerformFlushes
    <2>2. t.size <= TrCacheSize /\ UNCHANGED <<trManage, trVar>>
      BY <1>11 DEF PerformFlushes
    <2> HIDE DEF t, c
    <2>3. /\ f.left \in Seq(TraceRecord) /\ trWritten \o f.written \in Seq(TraceRecord)
          /\ OrderOf(trWritten \o f.written, f.left, IF f.ok THEN {t.id} \cup R ELSE {}, trMain,
                     trGone \cup (Ids(trCache) \ (Ids(f.left) \cup Ids(f.written))) \cup
                     (IF f.ok THEN {} ELSE {t.id} \cup R), trCount)
      BY <1>2, <1>4, OrderFlushed
    <2>4. f.left = <<>>
      BY <2>1, FlushesFacts
    <2>5. OrderOf(trWritten', <<>>, {t.id} \cup R, trMain, trGone', trCount)
      <3>1. Ids(trCache) \ (Ids(f.left) \cup Ids(f.written)) = Ids(trCache) \ Ids(f.written)
        BY <2>4, IdsEmpty
      <3> QED
        BY <2>1, <2>3, <2>4, <3>1
    <2>6. trCache' \in Seq(TraceRecord) /\ OrderOf(trWritten', trCache', R, trMain, trGone', trCount)
      <3>1. Append(<<>>, t) = <<t>> /\ trWritten' \in Seq(TraceRecord)
        BY <2>1, <2>3
      <3>2. Append(<<>>, t) \in Seq(TraceRecord) /\ OrderOf(trWritten', Append(<<>>, t), R, trMain, trGone', trCount)
        BY <1>2, <1>4, <2>5, <3>1, IdsEmpty, OrderTakes
      <3> QED
        BY <2>1, <3>1, <3>2
    <2>7. TrCacheOK'
      <3>1. trCache' # <<>>
        BY <2>1
      <3> QED
        BY <1>4, <1>5, <2>1, <2>2, <2>3, <2>6, <3>1 DEF TrCacheOK
    <2>8. TrOrder'
      BY <1>3, <1>6, <2>1, <2>2, <2>6 DEF TrOrder
    <2> QED
      BY <1>6, <2>1, <2>2, <2>7, <2>8 DEF TrData
  <1>12. CASE PerformFlushFails(a)
    <2>1. PICK f \in Flushes(trCache) : ~f.ok /\ Flushed(f, trCache, trBusy, Remaining)
      BY <1>12 DEF PerformFlushFails
    <2>2. Leaves(a, FALSE)
      BY <1>12 DEF PerformFlushFails
    <2> HIDE DEF t, c
    <2>3. /\ f.left \in Seq(TraceRecord) /\ trWritten \o f.written \in Seq(TraceRecord)
          /\ OrderOf(trWritten \o f.written, f.left, IF f.ok THEN {t.id} \cup R ELSE {}, trMain,
                     trGone \cup (Ids(trCache) \ (Ids(f.left) \cup Ids(f.written))) \cup
                     (IF f.ok THEN {} ELSE {t.id} \cup R), trCount)
      BY <1>2, <1>4, OrderFlushed
    <2>4. /\ trWritten' = trWritten \o f.written /\ trCache' = f.left
          /\ trGone' = trGone \cup (Ids(trCache) \ (Ids(f.left) \cup Ids(f.written))) \cup ({t.id} \cup R)
          /\ trBusy' = IF f.left = <<>> THEN 0 ELSE trBusy
      BY <1>2, <2>1 DEF Flushed
    <2>5. f.left = <<>> \/ f.left = trCache
      BY FlushesFacts
    <2>6. TrCacheOK'
      BY <1>4, <2>3, <2>4, <2>5 DEF TrCacheOK
    <2>7. TrOrder'
      BY <1>3, <1>7, <2>1, <2>2, <2>3, <2>4 DEF TrOrder
    <2> QED
      BY <1>7, <2>2, <2>6, <2>7 DEF TrData
  <1> QED
    BY <1>8, <1>9, <1>10, <1>11, <1>12 DEF performTrace

LEMMA FlushKeepsTraces ==
    ASSUME TrData, NEW a \in Threads, PopulateIdle(a) \/ flushTraceFileCache(a)
    PROVE  TrData'
  <1>1. trManage = <<>> /\ trIndex = 1
    BY DEF PopulateIdle, flushTraceFileCache, TrData, TrPoolsOK
  <1>2. trManage' = <<>> /\ trIndex' = 1 /\ PerformOther
    BY <1>1 DEF PopulateIdle, flushTraceFileCache, Leaves
  <1>3. PICK f \in Flushes(trCache) : Flushed(f, trCache, trBusy, <<>>)
    BY DEF PopulateIdle, flushTraceFileCache
  <1>4. /\ OrderOf(trWritten, trCache, {}, trMain, trGone, trCount)
        /\ trCache \in Seq(TraceRecord) /\ trWritten \in Seq(TraceRecord) /\ trMain \in Seq(TraceRecord)
        /\ trCount \in Nat /\ trManageAlloc \in Nat /\ trBusy \in 0..TrCacheSize /\ (trBusy = 0 <=> trCache = <<>>)
    <2>1. IdsFrom(trManage, trIndex) = {}
      BY <1>1 DEF IdsFrom
    <2> QED
      BY <2>1 DEF TrData, TrPoolsOK, TrCacheOK, TrOrder
  <1>5. /\ f.left \in Seq(TraceRecord) /\ trWritten \o f.written \in Seq(TraceRecord)
        /\ OrderOf(trWritten \o f.written, f.left, IF f.ok THEN {} ELSE {}, trMain,
                   trGone \cup (Ids(trCache) \ (Ids(f.left) \cup Ids(f.written))) \cup (IF f.ok THEN {} ELSE {}), trCount)
    BY <1>4, OrderFlushed
  <1>6. /\ trWritten' = trWritten \o f.written /\ trCache' = f.left
        /\ trGone' = trGone \cup (Ids(trCache) \ (Ids(f.left) \cup Ids(f.written))) \cup (IF f.ok THEN {} ELSE {})
        /\ trBusy' = IF f.left = <<>> THEN 0 ELSE trBusy
    BY <1>3, IdsEmpty DEF Flushed
  <1>7. f.left = <<>> \/ f.left = trCache
    BY FlushesFacts
  <1>8. UNCHANGED <<trMain, trAlloc, trManageAlloc, trLost, trCount>>
    BY <1>2 DEF PerformOther
  <1>9. TrPoolsOK'
    BY <1>2, <1>4, <1>8, IdsEmpty DEF TrData, TrPoolsOK
  <1>10. TrCacheOK'
    BY <1>4, <1>5, <1>6, <1>7, TrConstants DEF TrCacheOK
  <1>11. TrOrder'
    <2>1. IdsFrom(<<>>, 1) = {} /\ Sorted(<<>>)
      BY IdsEmpty DEF IdsFrom
    <2>2. OrderOf(trWritten', trCache', {}, trMain, trGone', trCount)
      BY <1>5, <1>6
    <2> QED
      BY <1>2, <1>8, <2>1, <2>2 DEF TrOrder
  <1> QED
    BY <1>9, <1>10, <1>11 DEF TrData

LEMMA EndKeepsTraces ==
    ASSUME TrData, NEW a \in Threads, PopulateEnds(a)
    PROVE  TrData'
  <1>1. /\ trManage' = <<>> /\ trIndex' = 1 /\ trIndex > Len(trManage)
        /\ UNCHANGED <<trCache, trBusy, trWritten, trGone, trMain, trAlloc, trManageAlloc, trLost, trCount>>
    BY DEF PopulateEnds, Leaves, PerformOther, trCaching
  <1>2. TrPoolsOK'
    <2>1. trManageAlloc \in Nat
      BY DEF TrData, TrPoolsOK
    <2> QED
      BY <1>1, <2>1, IdsEmpty DEF TrData, TrPoolsOK
  <1>3. TrCacheOK'
    BY <1>1 DEF TrData, TrCacheOK
  <1>4. TrOrder'
    <2>1. IdsFrom(trManage, trIndex) = {}
      BY <1>1 DEF IdsFrom, TrData, TrPoolsOK
    <2>2. IdsFrom(<<>>, 1) = {} /\ Sorted(<<>>)
      BY IdsEmpty DEF IdsFrom
    <2> QED
      BY <1>1, <2>1, <2>2 DEF TrData, TrOrder
  <1> QED
    BY <1>2, <1>3, <1>4 DEF TrData

LEMMA AddKeepsTraces ==
    ASSUME TrData, TrControl, NEW c \in TrClients, addTrace(c)
    PROVE  TrData'
  <1>1. /\ trAlloc' = Grown(trAlloc, trMain)
        /\ UNCHANGED <<trManage, trManageAlloc, trIndex, trCache, trBusy, trVar, trWritten, trGone>>
    BY DEF addTrace, trCaching
  <1>2. trWants[c] \in Nat \ {0}
    BY DEF addTrace, At, TrControl
  <1>3. Len(trMain) < trAlloc' /\ trAlloc' \in Nat
    BY <1>1, TrConstants DEF TrData, TrPoolsOK, Grown
  <1>4. TrCacheOK'
    BY <1>1 DEF TrData, TrCacheOK
  <1>5. CASE Len(trMain) < TrMaxTraces
    <2>1. /\ trMain' = Append(trMain, [id |-> trCount + 1, size |-> trWants[c]])
          /\ trCount' = trCount + 1 /\ trLost' = trLost
      BY <1>5 DEF addTrace
    <2>2. /\ trMain' \in Seq(TraceRecord)
          /\ OrderOf(trWritten, trCache, IdsFrom(trManage, trIndex), trMain', trGone, trCount + 1)
      BY <1>2, <2>1, OrderAdds DEF TrData, TrPoolsOK, TrCacheOK, TrOrder
    <2>3. Len(trMain') = Len(trMain) + 1
      BY <2>1 DEF TrData, TrPoolsOK
    <2>4. TrPoolsOK'
      BY <1>1, <1>3, <2>1, <2>2, <2>3 DEF TrData, TrPoolsOK
    <2>5. TrOrder'
      BY <1>1, <2>1, <2>2 DEF TrData, TrOrder
    <2> QED
      BY <1>4, <2>4, <2>5 DEF TrData
  <1>6. CASE ~(Len(trMain) < TrMaxTraces)
    <2>1. trMain' = trMain /\ trCount' = trCount /\ trLost' = trLost + 1
      BY <1>6 DEF addTrace
    <2>2. TrPoolsOK'
      BY <1>1, <1>3, <2>1 DEF TrData, TrPoolsOK
    <2>3. TrOrder'
      BY <1>1, <2>1 DEF TrData, TrOrder
    <2> QED
      BY <1>4, <2>2, <2>3 DEF TrData
  <1> QED
    BY <1>5, <1>6

LEMMA StepsKeepTraces ==
    ASSUME TrData, NEW a \in Threads, Steps(a)
    PROVE  TrData'
  <1>1. CASE PopulateRecurses(a)
    <2>1. trVar' = a /\ a # "none"
      BY <1>1, TrConstants DEF PopulateRecurses
    <2>2. UNCHANGED <<trPools, trLost, trCaching, trHistory>>
      BY <1>1 DEF PopulateRecurses
    <2>3. UNCHANGED <<trMain, trAlloc, trManage, trManageAlloc, trIndex, trLost, trCache, trBusy, trCount, trWritten, trGone>>
      BY <2>2 DEF trPools, trCaching, trHistory
    <2> QED
      BY <2>1, <2>3 DEF TrData, TrPoolsOK, TrCacheOK, TrOrder
  <1> QED
    BY <1>1, ExchangeKeepsTraces, PerformKeepsTraces, EndKeepsTraces, FlushKeepsTraces DEF Steps

\* A step that leaves the pools and the cache alone.
LEMMA TracesStay ==
    ASSUME TrData, UNCHANGED <<trPools, trLost, trCaching, trHistory, trVar>>
    PROVE  TrData'
  <1>1. UNCHANGED <<trMain, trAlloc, trManage, trManageAlloc, trIndex, trLost, trCache, trBusy, trCount, trWritten, trGone, trVar>>
    BY DEF trPools, trCaching, trHistory
  <1> QED
    BY <1>1 DEF TrData, TrPoolsOK, TrCacheOK, TrOrder

-----------------------------------------------------------------------------
(***************************************************************************)
(* Where the threads are.                                                  *)
(***************************************************************************)
LEMMA GoesFacts ==
    ASSUME DOMAIN trAt = Threads, NEW a \in Threads, NEW to, Goes(a, to)
    PROVE  DOMAIN trAt' = Threads /\ trAt'[a] = to /\ \A b \in Threads : b # a => trAt'[b] = trAt[b]
  BY DEF Goes

Moves(a, from, to) ==
    \/ from = "populate" /\ to = "perform"
    \/ from = "populateFlush" /\ to = "performFlush"
    \/ from = "perform" /\ to = "populated"
    \/ from = "performFlush" /\ to = "flush"
    \/ from = "flush" /\ to = IF a = "thread" THEN "populate" ELSE Done(a, "populated")
    \/ to = Done(a, "failed")

LEMMA StepsMove ==
    ASSUME NEW a \in Threads, Steps(a)
    PROVE  /\ trAt[a] \in {"populate", "perform"} \cup TrInside /\ trPc # "crashed"
           /\ trHeld' = trHeld /\ trWants' = trWants /\ trVar' \in {trVar, a, "none"}
           /\ \/ trPc' = "crashed" /\ trAt' = trAt
              \/ trPc' = trPc /\ (trAt' = trAt \/ \E to : Goes(a, to) /\ Moves(a, trAt[a], to))
  <1>1. CASE PopulateRecurses(a)
    BY <1>1 DEF PopulateRecurses, Populating, TrInside
  <1>2. CASE PopulateExchange(a)
    <2>1. trAt[a] \in {"populate", "populateFlush"} /\ trPc # "crashed" /\ trVar' = a
      BY <1>2 DEF PopulateExchange, Populating
    <2>2. Goes(a, IF trAt[a] = "populate" THEN "perform" ELSE "performFlush")
          /\ trHeld' = trHeld /\ trWants' = trWants /\ trPc' = trPc
      BY <1>2 DEF PopulateExchange, trInitVars
    <2>3. Moves(a, trAt[a], IF trAt[a] = "populate" THEN "perform" ELSE "performFlush")
      BY <2>1 DEF Moves
    <2> QED
      BY <2>1, <2>2, <2>3 DEF TrInside
  <1>3. ASSUME Performing(a), NEW ok \in BOOLEAN, Leaves(a, ok)
        PROVE  trVar' = "none" /\ \E to : Goes(a, to) /\ Moves(a, trAt[a], to)
    <2> DEFINE to == IF ~ok THEN Done(a, "failed") ELSE IF trAt[a] = "perform" THEN "populated" ELSE "flush"
    <2>1. Goes(a, to) /\ trVar' = "none" /\ trAt[a] \in {"perform", "performFlush"}
      BY <1>3 DEF Leaves, Performing
    <2>2. Moves(a, trAt[a], to)
      BY <2>1 DEF Moves
    <2> QED
      BY <2>1, <2>2
  <1>4. CASE performTrace(a) \/ PopulateEnds(a) \/ PopulateIdle(a)
    <2>1. PerformOther /\ Performing(a)
      BY <1>4 DEF performTrace, PerformTooLong, PerformFits, PerformPeriod, PerformFlushes, PerformFlushFails,
                  PopulateEnds, PopulateIdle
    <2>2. (trVar' = trVar /\ trAt' = trAt) \/ Leaves(a, TRUE) \/ Leaves(a, FALSE)
      <3>1. CASE PerformPeriod(a)
        BY <3>1 DEF PerformPeriod
      <3>2. CASE PopulateIdle(a)
        <4>1. PICK f \in Flushes(trCache) : Leaves(a, f.ok)
          BY <3>2 DEF PopulateIdle
        <4>2. f.ok \in BOOLEAN
          BY FlushesFacts
        <4> QED
          BY <4>1, <4>2
      <3>3. CASE PerformTooLong(a) \/ PerformFits(a) \/ PerformFlushes(a) \/ PerformFlushFails(a) \/ PopulateEnds(a)
        BY <3>3 DEF PerformTooLong, PerformFits, PerformFlushes, PerformFlushFails, PopulateEnds
      <3> QED
        BY <1>4, <3>1, <3>2, <3>3 DEF performTrace
    <2>3. trPc' = trPc /\ trHeld' = trHeld /\ trWants' = trWants
      BY <2>1 DEF PerformOther, trInitVars
    <2>4. trAt[a] \in {"perform", "performFlush"} /\ trPc # "crashed"
      BY <2>1 DEF Performing
    <2>5. trVar' \in {trVar, a, "none"} /\ (trAt' = trAt \/ \E to : Goes(a, to) /\ Moves(a, trAt[a], to))
      BY <1>3, <2>1, <2>2
    <2> QED
      BY <2>3, <2>4, <2>5 DEF TrInside
  <1>5. CASE flushTraceFileCache(a)
    <2>1. PICK f \in Flushes(trCache) :
             Goes(a, IF ~f.ok THEN Done(a, "failed") ELSE IF a = "thread" THEN "populate" ELSE Done(a, "populated"))
      BY <1>5 DEF flushTraceFileCache
    <2>2. trAt[a] = "flush" /\ trPc # "crashed" /\ trVar' = trVar
      BY <1>5 DEF flushTraceFileCache, At
    <2>3. trPc' = trPc /\ trHeld' = trHeld /\ trWants' = trWants
      BY <1>5 DEF flushTraceFileCache, PerformOther, trInitVars
    <2>4. \E to : Goes(a, to) /\ Moves(a, trAt[a], to)
      BY <2>1, <2>2 DEF Moves
    <2> QED
      BY <2>2, <2>3, <2>4 DEF TrInside
  <1> QED
    BY <1>1, <1>2, <1>4, <1>5 DEF Steps

LEMMA StepsControl ==
    ASSUME TrControl, NEW a \in Threads, Steps(a)
    PROVE  TrControl'
  <1>1. /\ trAt[a] \in {"populate", "perform"} \cup TrInside /\ trPc # "crashed"
        /\ trWants' = trWants /\ trVar' \in Threads \cup {"none"}
        /\ \/ trPc' = "crashed" /\ trAt' = trAt
           \/ trPc' = trPc /\ (trAt' = trAt \/ \E to : Goes(a, to) /\ Moves(a, trAt[a], to))
    BY StepsMove DEF TrControl
  <1>2. /\ trAt[a] # "out" /\ trAt[a] # "add" /\ trAt[a] # "unflushed" /\ trAt[a] # "failed" /\ trAt[a] # "populated"
        /\ trAt[a] # "ended" /\ trAt[a] # "cancelled"
    BY <1>1 DEF TrInside
  <1>3. trPc \in {"ready", "cancel", "cancelled", "finish", "finished", "notClosed"}
    BY <1>1, <1>2 DEF TrControl
  <1>4. CASE trPc' = "crashed" /\ trAt' = trAt
    BY <1>1, <1>3, <1>4 DEF TrControl, TrStages
  <1>5. CASE trPc' = trPc /\ trAt' = trAt
    BY <1>1, <1>3, <1>5 DEF TrControl, TrStages
  <1>6. ASSUME trPc' = trPc, NEW to, Goes(a, to), Moves(a, trAt[a], to)
        PROVE  TrControl'
    <2>1. DOMAIN trAt' = Threads /\ trAt'[a] = to /\ \A b \in Threads : b # a => trAt'[b] = trAt[b]
      BY <1>6, GoesFacts DEF TrControl
    <2>2. CASE a \in TrClients
      <3>1. trAt[a] \in TrInside /\ a # "thread" /\ a # "owner"
        BY <1>1, <1>2, <2>2, TrConstants DEF TrControl
      <3>2. to \in {"performFlush", "flush", "out"}
        BY <1>6, <2>2, <3>1 DEF Moves, Done, TrInside
      <3>3. trPc \notin {"finish", "finished", "notClosed"}
        BY <1>2, <2>2 DEF TrControl
      <3>4. /\ \A c \in TrClients : trAt'[c] \in {"out", "add"} \cup TrInside
            /\ \A c \in TrClients : trAt'[c] = "add" => trAt[c] = "add"
            /\ trAt'["thread"] = trAt["thread"] /\ trAt'["owner"] = trAt["owner"]
        BY <2>1, <3>1, <3>2, TrConstants DEF TrControl, TrInside
      <3> QED
        BY <1>1, <1>3, <1>6, <2>1, <3>3, <3>4 DEF TrControl, TrStages
    <2>3. CASE a = "thread"
      <3>1. to \in {"perform", "performFlush", "populated", "flush", "populate", "failed"}
        BY <1>6, <2>3, TrConstants DEF Moves, Done
      <3>2. trPc \in {"ready", "cancel"}
        BY <1>2, <1>3, <2>3 DEF TrControl
      <3>3. (\A c \in TrClients : trAt'[c] = trAt[c]) /\ trAt'["owner"] = trAt["owner"] /\ trAt'["thread"] = to
        BY <2>1, <2>3, TrConstants
      <3> QED
        BY <1>1, <1>6, <2>1, <3>1, <3>2, <3>3 DEF TrControl, TrInside, TrStages
    <2>4. CASE a = "owner"
      <3>1. trAt[a] \in TrInside
        BY <1>1, <1>2, <2>4 DEF TrControl
      <3>2. to \in {"performFlush", "populated", "flush", "failed"}
        BY <1>6, <2>4, <3>1, TrConstants DEF Moves, Done, TrInside
      <3>3. trPc \in {"finish", "finished", "notClosed"}
        BY <1>2, <1>3, <2>4 DEF TrControl
      <3>4. (\A c \in TrClients : trAt'[c] = trAt[c]) /\ trAt'["thread"] = trAt["thread"] /\ trAt'["owner"] = to
        BY <2>1, <2>4, TrConstants
      <3> QED
        BY <1>1, <1>6, <2>1, <3>2, <3>3, <3>4 DEF TrControl, TrInside, TrStages
    <2> QED
      BY <2>2, <2>3, <2>4 DEF Threads
  <1> QED
    BY <1>1, <1>4, <1>5, <1>6

\* Only the owner steps when it has begun to finish.
LEMMA StepsFlushed ==
    ASSUME TrControl, TrPoolsOK, TrFlushed, NEW a \in Threads, Steps(a)
    PROVE  TrFlushed'
  <1>1. /\ trAt[a] \in {"populate", "perform"} \cup TrInside
        /\ (trPc' = "crashed" \/ trPc' = trPc)
    BY StepsMove
  <1>2. /\ trAt[a] # "out" /\ trAt[a] # "add" /\ trAt[a] # "unflushed" /\ trAt[a] # "failed" /\ trAt[a] # "populated"
        /\ trAt[a] # "ended" /\ trAt[a] # "cancelled"
    BY <1>1 DEF TrInside
  <1> SUFFICES ASSUME trPc' = trPc, trPc \in {"finish", "finished", "notClosed"}
               PROVE  TrFlushed'
    BY <1>1 DEF TrFlushed
  <1>3. a = "owner" /\ trAt["owner"] \in TrInside
    <2>1. a = "owner"
      BY <1>2 DEF TrControl, Threads
    <2> QED
      BY <1>1, <1>2, <2>1 DEF TrControl
  <1>4. a \notin TrClients /\ a \in Threads /\ a # "thread"
    BY <1>3, TrConstants
  <1>5. CASE PopulateRecurses(a)
    BY <1>5 DEF PopulateRecurses
  <1>6. CASE PopulateExchange(a)
    <2>1. trAt[a] = "populateFlush"
      BY <1>3, <1>6 DEF PopulateExchange, Populating, TrInside
    <2>2. Goes(a, "performFlush") /\ trMain' = <<>>
      BY <1>6, <2>1 DEF PopulateExchange, Exchange
    <2>3. trAt'["owner"] = "performFlush"
      BY <1>3, <1>4, <2>2, GoesFacts DEF TrControl
    <2> QED
      BY <2>2, <2>3 DEF TrFlushed
  <1>7. ASSUME Performing(a), PerformOther, NEW ok \in BOOLEAN, Leaves(a, ok)
        PROVE  TrFlushed'
    <2>1. trAt[a] = "performFlush" /\ trMain = <<>> /\ trMain' = trMain /\ trManage' = <<>>
      BY <1>3, <1>7 DEF Performing, TrInside, TrFlushed, Leaves, PerformOther
    <2>2. Goes(a, "failed") \/ Goes(a, "flush")
      BY <1>4, <1>7, <2>1 DEF Leaves, Done
    <2>3. trAt'["owner"] \in {"failed", "flush"}
      BY <1>3, <1>4, <2>2, GoesFacts DEF TrControl
    <2> QED
      BY <2>1, <2>3 DEF TrFlushed
  <1>8. CASE performTrace(a)
    <2>1. Performing(a) /\ PerformOther
      BY <1>8 DEF performTrace, PerformTooLong, PerformFits, PerformPeriod, PerformFlushes, PerformFlushFails
    <2>2. trAt' = trAt \/ Leaves(a, FALSE)
      BY <1>8 DEF performTrace, PerformTooLong, PerformFits, PerformPeriod, PerformFlushes, PerformFlushFails
    <2>3. CASE trAt' = trAt
      <3>1. trAt["owner"] = "performFlush" /\ trMain' = trMain
        BY <1>3, <2>1 DEF Performing, TrInside, PerformOther
      <3> QED
        BY <2>3, <3>1 DEF TrFlushed
    <2> QED
      BY <1>7, <2>1, <2>2, <2>3
  <1>9. CASE PopulateEnds(a)
    BY <1>7, <1>9 DEF PopulateEnds
  <1>10. CASE PopulateIdle(a)
    <2>1. PICK f \in Flushes(trCache) : Leaves(a, f.ok)
      BY <1>10 DEF PopulateIdle
    <2>2. f.ok \in BOOLEAN
      BY FlushesFacts
    <2>3. Performing(a) /\ PerformOther
      BY <1>10 DEF PopulateIdle
    <2> QED
      BY <1>7, <2>1, <2>2, <2>3
  <1>11. CASE flushTraceFileCache(a)
    <2>1. PICK f \in Flushes(trCache) :
             /\ Flushed(f, trCache, trBusy, <<>>)
             /\ Goes(a, IF ~f.ok THEN Done(a, "failed") ELSE IF a = "thread" THEN "populate" ELSE Done(a, "populated"))
      BY <1>11 DEF flushTraceFileCache
    <2>2. trAt[a] = "flush" /\ UNCHANGED <<trMain, trManage>> /\ trMain = <<>> /\ trManage = <<>>
      BY <1>3, <1>11 DEF flushTraceFileCache, At, PerformOther, TrFlushed
    <2>3. CASE f.ok
      <3>1. Goes(a, "populated") /\ f.left = <<>>
        BY <1>4, <2>1, <2>3, FlushesFacts DEF Done
      <3>2. trCache' = <<>>
        BY <2>1, <3>1 DEF Flushed
      <3> QED
        BY <2>2, <3>2 DEF TrFlushed
    <2>4. CASE ~f.ok
      <3>1. Goes(a, "failed")
        BY <1>4, <2>1, <2>4 DEF Done
      <3>2. trAt'["owner"] = "failed"
        BY <1>3, <1>4, <3>1, GoesFacts DEF TrControl
      <3> QED
        BY <3>2 DEF TrFlushed
    <2> QED
      BY <2>3, <2>4
  <1> QED
    BY <1>5, <1>6, <1>8, <1>9, <1>10, <1>11 DEF Steps

-----------------------------------------------------------------------------
(***************************************************************************)
(* The steps of init and those around the pools.                           *)
(***************************************************************************)
LEMMA ChainFacts ==
    /\ \A i \in 1..12 : TrChain[i] \in TrStages
    /\ \A i, j \in 1..12 : TrChain[i] = TrChain[j] => i = j
    /\ \A p \in TrStages : \E i \in 1..12 : p = TrChain[i]
  <1>1. /\ TrChain[1] = "PosixThread" /\ TrChain[2] = "Traces" /\ TrChain[3] = "TracesToManage" /\ TrChain[4] = "Directory"
        /\ TrChain[5] = "FileName" /\ TrChain[6] = "LastPathName" /\ TrChain[7] = "InfoName" /\ TrChain[8] = "Link"
        /\ TrChain[9] = "LockName" /\ TrChain[10] = "Labels" /\ TrChain[11] = "MutexForTraces"
        /\ TrChain[12] = "MutexForVariable"
    BY DEF TrChain
  <1>2. \A i \in 1..12 : \/ i = 1 \/ i = 2 \/ i = 3 \/ i = 4 \/ i = 5 \/ i = 6
                         \/ i = 7 \/ i = 8 \/ i = 9 \/ i = 10 \/ i = 11 \/ i = 12
    OBVIOUS
  <1> QED
    BY <1>1, <1>2 DEF TrStages

LEMMA AcquiredKeeps ==
    ASSUME TrControl, TrHeldOK, NEW i \in 1..12, NEW next,
           next = IF i = 12 THEN "ready" ELSE TrChain[i + 1],
           Acquired(TrChain[i], next), trMain' = trMain, trManage' = trManage
    PROVE  TrControl' /\ TrHeldOK' /\ TrFlushed'
  <1>1. /\ trPc = TrChain[i] /\ trAt' = trAt /\ trVar' = trVar /\ trWants' = trWants
        /\ \/ trHeld' = Append(trHeld, TrChain[i]) /\ trPc' = next
           \/ trHeld' = <<>> /\ trPc' = "refused"
    BY DEF Acquired, Work
  <1>2. trPc = TrChain[i] /\ TrChain[i] \in TrStages /\ trHeld \in Seq(TrStages) /\ Len(trHeld) = i - 1
    BY <1>1, ChainFacts DEF TrHeldOK
  <1>3. next = "ready" \/ (i + 1 \in 1..12 /\ next = TrChain[i + 1])
    OBVIOUS
  <1>4. trPc' \in TrStages \cup {"ready", "refused"}
    BY <1>1, <1>3, ChainFacts
  <1>5. TrControl'
    BY <1>1, <1>2, <1>4 DEF TrControl, TrStages
  <1>6. TrFlushed'
    BY <1>4 DEF TrFlushed, TrStages
  <1>7. TrHeldOK'
    <2>1. CASE trHeld' = <<>> /\ trPc' = "refused"
      <3>1. \A j \in 1..12 : TrChain[j] # "refused"
        BY ChainFacts DEF TrStages
      <3>2. trHeld' \in Seq(TrStages)
        BY <2>1
      <3> QED
        BY <2>1, <3>1, <3>2 DEF TrHeldOK
    <2>2. CASE trHeld' = Append(trHeld, TrChain[i]) /\ trPc' = next
      <3>1. trHeld' \in Seq(TrStages) /\ Len(trHeld') = i
        BY <1>2, <2>2
      <3>2. CASE i = 12
        <4>1. trPc' = "ready" /\ \A j \in 1..12 : TrChain[j] # "ready"
          BY <2>2, <3>2, ChainFacts DEF TrStages
        <4> QED
          BY <3>1, <3>2, <4>1 DEF TrHeldOK
      <3>3. CASE i # 12
        <4>1. i + 1 \in 1..12 /\ trPc' = TrChain[i + 1]
          BY <2>2, <3>3
        <4>2. \A j \in 1..12 : trPc' = TrChain[j] => Len(trHeld') = j - 1
          <5>1. \A j \in 1..12 : TrChain[i + 1] = TrChain[j] => i + 1 = j
            BY <4>1, ChainFacts
          <5> QED
            BY <3>1, <4>1, <5>1
        <4>3. trPc' \in TrStages
          BY <4>1, ChainFacts
        <4> QED
          BY <3>1, <4>2, <4>3 DEF TrHeldOK, TrStages
      <3> QED
        BY <3>2, <3>3
    <2> QED
      BY <1>1, <2>1, <2>2
  <1> QED
    BY <1>5, <1>6, <1>7

LEMMA InitSteps ==
    ASSUME TrInv, TrInitNext
    PROVE  TrInv'
  <1>1. /\ TrChain[1] = "PosixThread" /\ TrChain[2] = "Traces" /\ TrChain[3] = "TracesToManage" /\ TrChain[4] = "Directory"
        /\ TrChain[5] = "FileName" /\ TrChain[6] = "LastPathName" /\ TrChain[7] = "InfoName" /\ TrChain[8] = "Link"
        /\ TrChain[9] = "LockName" /\ TrChain[10] = "Labels" /\ TrChain[11] = "MutexForTraces"
        /\ TrChain[12] = "MutexForVariable"
    BY DEF TrChain
  <1>2. \/ Acquired(TrChain[1], TrChain[2]) \/ Acquired(TrChain[2], TrChain[3]) \/ Acquired(TrChain[3], TrChain[4])
        \/ Acquired(TrChain[4], TrChain[5]) \/ Acquired(TrChain[5], TrChain[6]) \/ Acquired(TrChain[6], TrChain[7])
        \/ Acquired(TrChain[7], TrChain[8]) \/ Acquired(TrChain[8], TrChain[9]) \/ Acquired(TrChain[9], TrChain[10])
        \/ Acquired(TrChain[10], TrChain[11]) \/ Acquired(TrChain[11], TrChain[12]) \/ Acquired(TrChain[12], "ready")
    BY <1>1 DEF TrInitNext, InitPosixThread, InitTraces, InitTracesToManage, InitDirectory, InitFileName,
               InitLastPathName, InitInfoName, InitLink, InitLockName, InitLabels, InitMutexForTraces,
               InitMutexForVariable, Chain
  <1>3. PICK i \in 1..12 : Acquired(TrChain[i], IF i = 12 THEN "ready" ELSE TrChain[i + 1])
    BY <1>2
  <1>4. /\ UNCHANGED <<trMain, trManage, trIndex>>
        /\ trAlloc' \in {trAlloc, TrOverflow} /\ trManageAlloc' \in {trManageAlloc, TrOverflow}
    BY DEF TrInitNext, InitPosixThread, InitTraces, InitTracesToManage, InitDirectory, InitFileName,
           InitLastPathName, InitInfoName, InitLink, InitLockName, InitLabels, InitMutexForTraces,
           InitMutexForVariable, Chain, trPools
  <1>5. TrControl' /\ TrHeldOK' /\ TrFlushed'
    BY <1>3, <1>4, AcquiredKeeps DEF TrInv
  <1>6. UNCHANGED <<trLost, trCache, trBusy, trVar, trCount, trWritten, trGone>>
    BY <1>3 DEF Acquired, Work, trCaching, trHistory
  <1>7. trMain = <<>> /\ trManage = <<>>
    <2>1. trPc \in TrStages
      BY <1>3, ChainFacts DEF Acquired
    <2> QED
      BY <2>1 DEF TrInv, TrControl
  <1>8. TrPoolsOK'
    BY <1>4, <1>6, <1>7, TrConstants DEF TrInv, TrPoolsOK
  <1>9. TrCacheOK' /\ TrOrder'
    BY <1>4, <1>6 DEF TrInv, TrCacheOK, TrOrder
  <1> QED
    BY <1>5, <1>8, <1>9 DEF TrInv

LEMMA HeldStays ==
    ASSUME TrHeldOK, trHeld' = trHeld \/ trHeld' = <<>>,
           \/ trPc' = trPc /\ trHeld' = trHeld
           \/ trPc = "ready" /\ trPc' = "cancel" /\ trHeld' = trHeld
           \/ trPc' \in {"crashed", "cancelled", "finish", "finished", "notClosed"}
    PROVE  TrHeldOK'
  <1>1. \A j \in 1..12 : TrChain[j] \notin {"cancel", "crashed", "cancelled", "finish", "finished", "notClosed"}
    BY ChainFacts DEF TrStages
  <1>2. trHeld' \in Seq(TrStages)
    <2>1. trHeld \in Seq(TrStages) /\ <<>> \in Seq(TrStages)
      BY DEF TrHeldOK
    <2> QED
      BY <2>1
  <1> QED
    BY <1>1, <1>2 DEF TrHeldOK

LEMMA StepsInv ==
    ASSUME TrInv, NEW a \in Threads, Steps(a)
    PROVE  TrInv'
  <1>1. TrControl' /\ TrFlushed'
    BY StepsControl, StepsFlushed DEF TrInv
  <1>2. TrHeldOK'
    BY StepsMove, HeldStays DEF TrInv
  <1>3. TrData'
    BY StepsKeepTraces DEF TrInv, TrData
  <1> QED
    BY <1>1, <1>2, <1>3 DEF TrInv, TrData

\* The clients and the options.
LEMMA ClientsInv ==
    ASSUME TrInv, NEW c \in TrClients, addTrace(c) \/ \E level \in 0..TrLevel, size \in TrSizes : trace(c, level, size)
    PROVE  TrInv'
  <1>1. trPc' = trPc /\ trHeld' = trHeld /\ trVar' = trVar
    BY DEF trace, addTrace, trInitVars
  <1>2. PICK to \in {"add", "out", "populateFlush"} : Goes(c, to)
    BY DEF trace, addTrace
  <1>3. trPc \notin TrStages \cup {"refused", "finish", "finished", "notClosed"}
    <2>1. CASE \E level \in 0..TrLevel, size \in TrSizes : trace(c, level, size)
      BY <2>1 DEF trace, Usable, TrStages
    <2>2. CASE addTrace(c)
      <3>1. trAt[c] = "add" /\ c \in Threads
        BY <2>2, TrConstants DEF addTrace, At
      <3> QED
        BY <3>1 DEF TrInv, TrControl
    <2> QED
      BY <2>1, <2>2
  <1>4. /\ DOMAIN trAt' = Threads /\ trAt'[c] = to /\ \A b \in Threads : b # c => trAt'[b] = trAt[b]
        /\ trAt'["thread"] = trAt["thread"] /\ trAt'["owner"] = trAt["owner"]
    BY <1>2, GoesFacts, TrConstants DEF TrInv, TrControl
  <1>5. /\ trWants' \in [TrClients -> Nat]
        /\ \A d \in TrClients : trAt'[d] = "add" => trWants'[d] # 0
    <2>1. CASE \E level \in 0..TrLevel, size \in TrSizes : trace(c, level, size)
      BY <1>4, <2>1, TrConstants DEF trace, TrInv, TrControl
    <2>2. CASE addTrace(c)
      <3>1. trAt'[c] # "add"
        <4>1. Goes(c, "out") \/ Goes(c, "populateFlush")
          BY <2>2 DEF addTrace
        <4> QED
          BY <4>1, TrConstants, GoesFacts DEF TrInv, TrControl
      <3> QED
        BY <1>4, <2>2, <3>1, TrConstants DEF addTrace, TrInv, TrControl
    <2> QED
      BY <2>1, <2>2
  <1>6. \A d \in TrClients : trAt'[d] \in {"out", "add"} \cup TrInside
    BY <1>4, TrConstants DEF TrInv, TrControl, TrInside
  <1>7. TrControl'
    BY <1>1, <1>3, <1>4, <1>5, <1>6 DEF TrInv, TrControl
  <1>8. TrHeldOK'
    BY <1>1, HeldStays DEF TrInv
  <1>9. TrFlushed'
    BY <1>1, <1>3 DEF TrFlushed
  <1>10. TrData'
    BY AddKeepsTraces, TracesStay DEF TrInv, TrData, trace
  <1> QED
    BY <1>7, <1>8, <1>9, <1>10 DEF TrInv, TrData

\* The thread, cancel and finish: they leave the pools and the cache alone.
LEMMA OthersInv ==
    ASSUME TrInv,
           \/ StartTracer \/ RunBegins \/ NoCommand \/ FlushCommand \/ SetCommand \/ BadCommand \/ RunLoops \/ RunFails
           \/ CancelTracer \/ CancelEnds \/ FinishBegins \/ finishTracer \/ \E b \in BOOLEAN : setTraceOnFile(b)
    PROVE  TrInv'
  <1>1. TrData' /\ trVar' = trVar /\ trWants' = trWants
    <2>1. UNCHANGED <<trPools, trLost, trCaching, trHistory, trVar, trWants>>
      BY DEF StartTracer, RunBegins, NoCommand, FlushCommand, SetCommand, BadCommand, RunLoops, RunFails, ThreadOther,
             CancelTracer, CancelEnds, FinishBegins, finishTracer, setTraceOnFile, SetOther
    <2> QED
      BY <2>1, TracesStay DEF TrInv, TrData
  <1>2. TrControl /\ TrHeldOK /\ TrFlushed /\ DOMAIN trAt = Threads
    BY DEF TrInv, TrControl
  <1>3. ASSUME TrControl', TrHeldOK', TrFlushed' PROVE TrInv'
    BY <1>1, <1>3 DEF TrInv, TrData
  \* A step of the thread outside the pools.
  <1>4. ASSUME NEW to \in {"begin", "sleep", "ended", "populate", "populateFlush"}, Goes("thread", to),
               trPc' = trPc, trHeld' = trHeld, trPc = "ready" \/ trAt["thread"] \in {"begin", "sleep", "populated", "failed"},
               trPc # "crashed"
        PROVE  TrInv'
    <2>1. trPc \in {"ready", "cancel"}
      BY <1>2, <1>4, TrConstants DEF TrControl
    <2>2. /\ DOMAIN trAt' = Threads /\ trAt'["thread"] = to /\ trAt'["owner"] = trAt["owner"]
          /\ \A c \in TrClients : trAt'[c] = trAt[c]
      BY <1>2, <1>4, GoesFacts, TrConstants
    <2>3. TrControl'
      BY <1>1, <1>2, <1>4, <2>1, <2>2 DEF TrControl, TrStages, TrInside
    <2>4. TrHeldOK' /\ TrFlushed'
      BY <1>2, <1>4, <2>1, HeldStays DEF TrFlushed
    <2> QED
      BY <1>3, <2>3, <2>4
  <1>5. CASE StartTracer
    BY <1>4, <1>5 DEF StartTracer, ThreadOther, trInitVars
  <1>6. CASE RunBegins
    BY <1>4, <1>6 DEF RunBegins, At, ThreadOther, trInitVars
  <1>7. CASE NoCommand \/ FlushCommand \/ BadCommand \/ RunFails
    BY <1>4, <1>7 DEF NoCommand, FlushCommand, BadCommand, RunFails, At, ThreadOther, trInitVars
  <1>8. CASE SetCommand
    BY <1>4, <1>8 DEF SetCommand, At, trInitVars
  <1>9. CASE RunLoops
    <2>1. Goes("thread", "ended") \/ Goes("thread", "sleep")
      BY <1>9 DEF RunLoops
    <2> QED
      BY <1>4, <1>9, <2>1 DEF RunLoops, At, ThreadOther, trInitVars
  <1>10. CASE \E b \in BOOLEAN : setTraceOnFile(b)
    <2>1. trPc' = trPc /\ trHeld' = trHeld /\ trAt' = trAt /\ trPc \in {"ready", "cancel"}
      BY <1>10 DEF setTraceOnFile, Setting, Usable, SetOther, trInitVars
    <2>2. TrControl'
      BY <1>1, <1>2, <2>1 DEF TrControl, TrStages
    <2>3. TrHeldOK' /\ TrFlushed'
      BY <1>2, <2>1, HeldStays DEF TrFlushed
    <2> QED
      BY <1>3, <2>2, <2>3
  <1>11. CASE CancelTracer
    <2>1. trPc = "ready" /\ trPc' = "cancel" /\ trHeld' = trHeld /\ trAt' = trAt
      BY <1>11 DEF CancelTracer
    <2>2. TrControl'
      BY <1>1, <1>2, <2>1 DEF TrControl, TrStages
    <2>3. TrHeldOK' /\ TrFlushed'
      BY <1>2, <2>1, HeldStays DEF TrFlushed
    <2> QED
      BY <1>3, <2>2, <2>3
  <1>12. CASE CancelEnds
    <2>1. trPc = "cancel" /\ trPc' = "cancelled" /\ trHeld' = trHeld
      BY <1>12 DEF CancelEnds
    <2>2. /\ DOMAIN trAt' = Threads /\ trAt'["thread"] \in {"out", "ended", "cancelled"} /\ trAt'["owner"] = trAt["owner"]
          /\ \A c \in TrClients : trAt'[c] = trAt[c]
      <3>1. CASE ThreadAlive
        <4>1. Goes("thread", "cancelled")
          BY <1>12, <3>1 DEF CancelEnds
        <4> QED
          BY <1>2, <4>1, GoesFacts, TrConstants
      <3>2. CASE ~ThreadAlive
        <4>1. trAt' = trAt /\ trAt["thread"] \in {"out", "ended", "cancelled"}
          BY <1>12, <2>1, <3>2 DEF CancelEnds, ThreadAlive
        <4> QED
          BY <1>2, <4>1
      <3> QED
        BY <3>1, <3>2
    <2>3. TrControl'
      BY <1>1, <1>2, <2>1, <2>2 DEF TrControl, TrStages
    <2>4. TrHeldOK' /\ TrFlushed'
      BY <1>2, <2>1, HeldStays DEF TrFlushed
    <2> QED
      BY <1>3, <2>3, <2>4
  <1>13. CASE FinishBegins
    <2>1. /\ trPc' = "finish" /\ trHeld' = trHeld /\ (\A c \in TrClients : trAt[c] = "out")
          /\ trAt["thread"] \in {"out", "ended", "cancelled"}
      BY <1>2, <1>13 DEF FinishBegins, Busy, ThreadAlive, TrControl
    <2>2. PICK to \in {"populateFlush", "unflushed"} : Goes("owner", to)
      BY <1>13 DEF FinishBegins
    <2>3. /\ DOMAIN trAt' = Threads /\ trAt'["owner"] = to /\ trAt'["thread"] = trAt["thread"]
          /\ \A c \in TrClients : trAt'[c] = trAt[c]
      BY <1>2, <2>2, GoesFacts, TrConstants
    <2>4. TrControl'
      BY <1>1, <1>2, <2>1, <2>3 DEF TrControl, TrStages, TrInside
    <2>5. TrHeldOK' /\ TrFlushed'
      BY <1>2, <2>1, <2>3, HeldStays DEF TrFlushed
    <2> QED
      BY <1>3, <2>4, <2>5
  <1>14. CASE finishTracer
    <2>1. /\ trPc = "finish" /\ trPc' \in {"finished", "notClosed"} /\ trAt' = trAt /\ (trHeld' = trHeld \/ trHeld' = <<>>)
          /\ UNCHANGED <<trMain, trManage, trCache>>
      BY <1>14 DEF finishTracer, trPools, trCaching
    <2>2. TrControl'
      BY <1>1, <1>2, <2>1 DEF TrControl, TrStages
    <2>3. TrHeldOK' /\ TrFlushed'
      BY <1>2, <2>1, HeldStays DEF TrFlushed
    <2> QED
      BY <1>3, <2>2, <2>3
  <1> QED
    BY <1>5, <1>6, <1>7, <1>8, <1>9, <1>10, <1>11, <1>12, <1>13, <1>14

LEMMA TrInvStays ==
    ASSUME TrInv, UNCHANGED tracerVars
    PROVE  TrInv'
  <1>1. UNCHANGED <<trPc, trHeld, trMain, trAlloc, trManage, trManageAlloc, trIndex, trLost, trCache, trBusy, trVar, trAt,
                    trWants, trCount, trWritten, trGone>>
    BY DEF tracerVars, trInitVars, trPools, trCaching, trHistory
  <1>2. TrControl' /\ TrHeldOK' /\ TrFlushed'
    BY <1>1 DEF TrInv, TrControl, TrHeldOK, TrFlushed
  <1>3. TrData'
    BY <1>1 DEF TrInv, TrData, TrPoolsOK, TrCacheOK, TrOrder
  <1> QED
    BY <1>2, <1>3 DEF TrInv, TrData

LEMMA TrNextInv ==
    ASSUME TrInv, [TrNext]_tracerVars
    PROVE  TrInv'
  <1>1. CASE TrInitNext
    BY <1>1, InitSteps
  <1>2. ASSUME NEW c \in TrClients, NEW l \in 0..TrLevel, traceFiltered(c, l)
        PROVE  TrInv'
    BY <1>2, TrInvStays DEF traceFiltered
  <1>3. ASSUME NEW c \in TrClients, NEW l \in 0..TrLevel, NEW s \in TrSizes, trace(c, l, s)
        PROVE  TrInv'
    BY <1>3, ClientsInv
  <1>4. ASSUME NEW c \in TrClients, addTrace(c)
        PROVE  TrInv'
    BY <1>4, ClientsInv
  <1>5. ASSUME NEW a \in Threads, Steps(a)
        PROVE  TrInv'
    BY <1>5, StepsInv
  <1>6. CASE runTracer
    BY <1>5, <1>6, OthersInv, TrConstants DEF runTracer
  <1>7. CASE UNCHANGED tracerVars
    BY <1>7, TrInvStays
  <1>8. CASE \/ \E b \in BOOLEAN : setTraceOnFile(b)
             \/ StartTracer \/ CancelTracer \/ CancelEnds \/ FinishBegins \/ finishTracer
    BY <1>8, OthersInv
  <1> QED
    BY <1>1, <1>2, <1>3, <1>4, <1>5, <1>6, <1>7, <1>8, TrConstants DEF TrNext

LEMMA TrInitInv ==
    ASSUME TrInit
    PROVE  TrInv
  <1>1. trPc = "PosixThread" /\ trHeld = <<>> /\ trVar = "none" /\ trAt = [a \in Threads |-> "out"]
        /\ trWants = [c \in TrClients |-> 0]
    BY DEF TrInit
  <1>2. /\ trMain = <<>> /\ trAlloc = 0 /\ trManage = <<>> /\ trManageAlloc = 0 /\ trIndex = 1 /\ trLost = 0
        /\ trCache = <<>> /\ trBusy = 0 /\ trCount = 0 /\ trWritten = <<>> /\ trGone = {}
    BY DEF TrInit
  <1>3. TrControl
    BY <1>1, <1>2, TrConstants DEF TrControl, TrStages
  <1>4. TrHeldOK
    <2>1. TrChain[1] = "PosixThread"
      BY DEF TrChain
    <2>2. \A i \in 1..12 : trPc = TrChain[i] => i = 1
      BY <1>1, <2>1, ChainFacts
    <2>3. <<>> \in Seq(TrStages) /\ Len(<<>>) = 0
      OBVIOUS
    <2> QED
      BY <1>1, <2>2, <2>3 DEF TrHeldOK
  <1>5. TrPoolsOK
    BY <1>1, <1>2, IdsEmpty DEF TrPoolsOK
  <1>6. TrCacheOK
    BY <1>2, IdsEmpty, TrConstants DEF TrCacheOK
  <1>7. TrOrder
    <2>1. IdsFrom(<<>>, 1) = {} /\ 1..0 = {}
      BY DEF IdsFrom
    <2> QED
      BY <1>2, <2>1, IdsEmpty DEF TrOrder, OrderOf, Below
  <1>8. TrFlushed
    BY <1>1 DEF TrFlushed
  <1> QED
    BY <1>3, <1>4, <1>5, <1>6, <1>7, <1>8 DEF TrInv

\* The mutex of the variables guards the secondary pool, and the numbers of the
\* traces grow from the file over the cache and the two pools: populateTraceFileCache, addTrace,
\* flushTraceFileCache and finish keep this whoever of them exchanges the pools.
THEOREM TracerInvariant == TrInit /\ [][TrNext]_tracerVars => []TrInv
  BY TrInitInv, TrNextInv, PTL

LEMMA TracesAreKept ==
    ASSUME TrInv
    PROVE  TracesKept
  <1>1. TrTypeOK
    BY DEF TrInv, TrControl, TrPoolsOK, TrCacheOK, TrTypeOK
  <1>2. TracesInOrder
    <2> DEFINE w == trWritten
               c == trCache
               r == Remaining
               m == trMain
               all == w \o c \o r \o m
    <2>1. /\ w \in Seq(TraceRecord) /\ c \in Seq(TraceRecord) /\ m \in Seq(TraceRecord) /\ trManage \in Seq(TraceRecord)
          /\ trIndex \in 1..Len(trManage) + 1 /\ Sorted(trManage)
      BY DEF TrInv, TrPoolsOK, TrCacheOK, TrOrder
    <2>2. r \in Seq(TraceRecord) /\ Sorted(r) /\ Ids(r) = IdsFrom(trManage, trIndex)
      BY <2>1, RemainingFacts
    <2>3. OrderOf(w, c, Ids(r), m, trGone, trCount)
      BY <2>2 DEF TrInv, TrOrder
    <2> HIDE DEF w, c, r, m
    <2>4. w \o c \in Seq(TraceRecord) /\ Ids(w \o c) = Ids(w) \cup Ids(c) /\ Sorted(w \o c)
      BY <2>1, <2>3, IdsConcat DEF OrderOf, Below
    <2>5. w \o c \o r \in Seq(TraceRecord) /\ Ids(w \o c \o r) = Ids(w) \cup Ids(c) \cup Ids(r) /\ Sorted(w \o c \o r)
      <3>1. Below(Ids(w \o c), Ids(r))
        BY <2>3, <2>4 DEF OrderOf, Below
      <3> QED
        BY <2>2, <2>4, <3>1, IdsConcat
    <2>6. Ids(all) = Ids(w) \cup Ids(c) \cup Ids(r) \cup Ids(m) /\ Sorted(all)
      <3>1. Below(Ids(w \o c \o r), Ids(m)) /\ Sorted(m)
        BY <2>3, <2>5 DEF OrderOf, Below
      <3>2. Ids(all) = Ids(w \o c \o r) \cup Ids(m) /\ Sorted(all)
        <4> DEFINE s == w \o c \o r
        <4>1. s \in Seq(TraceRecord) /\ Sorted(s) /\ Below(Ids(s), Ids(m)) /\ all = s \o m
          BY <2>5, <3>1
        <4> HIDE DEF s, all
        <4>2. Ids(s \o m) = Ids(s) \cup Ids(m) /\ Sorted(s \o m)
          BY <2>1, <3>1, <4>1, IdsConcat
        <4> QED
          BY <4>1, <4>2 DEF s
      <3> QED
        BY <2>5, <3>2
    <2>7. Ids(all) \cup trGone = 1..trCount /\ Ids(all) \cap trGone = {}
      BY <2>3, <2>6 DEF OrderOf
    <2> QED
      BY <2>6, <2>7 DEF TracesInOrder, Sorted, w, c, r, m
  <1>3. FinishFlushes
    <2> SUFFICES ASSUME trPc \in {"finish", "finished"}, trAt["owner"] = "populated"
                 PROVE  trMain = <<>> /\ Remaining = <<>> /\ trCache = <<>>
      BY DEF FinishFlushes
    <2>1. trMain = <<>> /\ trManage = <<>> /\ trCache = <<>>
      BY DEF TrInv, TrFlushed
    <2>2. trIndex = 1
      BY <2>1 DEF TrInv, TrPoolsOK
    <2>3. Remaining = <<>>
      <3>1. Remaining = SubSeq(<<>>, 1, 0)
        BY <2>1, <2>2 DEF Remaining
      <3> QED
        BY <3>1
    <2> QED
      BY <2>1, <2>3
  <1>4. InitAllOrNothing
    BY DEF TrInv, TrHeldOK, InitAllOrNothing
  <1> QED
    BY <1>1, <1>2, <1>3, <1>4 DEF TracesKept

\* Whatever the clients, the thread, the switch and the errors of the files do, a trace that was accepted is
\* written once or is in exactly one place, in the order of the traces; a flush by finish leaves none behind.
THEOREM TracerKeepsTraces == TrInit /\ [][TrNext]_tracerVars => []TracesKept
  BY TracerInvariant, TracesAreKept, PTL

-----------------------------------------------------------------------------
(***************************************************************************)
(* The trace files.  With one process the numbers of the files that count  *)
(* are among the last ones, going back from the number in the info file    *)
(* over the last number when the numbers have started again.               *)
(***************************************************************************)
TfPlaces ==
    {"down", "lock", "try", "current", "next", "round", "unlock", "removePath", "initRemoves", "closed",
     "open", "opened", "gzip", "gzipping", "gzipped", "copy", "closeRemoves"}

\* A number has been taken for the file of the process.
TfNumbered(p) ==
    \/ tfPc[p] \in {"round", "open", "opened", "gzip", "gzipping", "gzipped", "copy", "closeRemoves"}
    \/ tfPc[p] \in {"unlock", "removePath"} /\ tfAsks[p] = "next"

TfTypes ==
    /\ tfNumber \in -1..TfLast /\ tfRound \in BOOLEAN /\ (tfNumber = -1 => ~tfRound)
    /\ tfPath \in {0} \cup Inodes /\ tfFd \in [TfProcs -> {0} \cup Inodes]
    /\ tfPc \in [TfProcs -> TfPlaces] /\ tfAsks \in [TfProcs -> {"current", "next"}]
    /\ tfMine \in [TfProcs -> 0..TfLast] /\ tfMyRound \in [TfProcs -> BOOLEAN]
    /\ tfOpen \in [TfProcs -> 0..TfLast]
    /\ tfStarted \subseteq TfProcs /\ \A p \in TfProcs : tfPc[p] # "down" => p \in tfStarted
    /\ Numbers \subseteq 1..TfLast /\ tfStale \subseteq 1..TfLast
    /\ \A p \in TfProcs :
          /\ tfPc[p] \notin {"down", "lock", "try", "current"} \/ tfAsks[p] = "next" => tfNumber # -1
          /\ TfNumbered(p) => tfMine[p] # 0
          /\ tfPc[p] \in {"current", "next"} => tfAsks[p] = tfPc[p]

TfWindow(number, round) ==
    {k \in 1..TfLast : \/ number - TfMaintain + 1 <= k /\ k <= number
                       \/ round /\ number + TfLast - TfMaintain + 1 <= k}
TfCounting == Numbers \ tfStale

TfProcessOK(p) ==
    LET pc == tfPc[p] IN
    /\ pc = "round" => /\ tfMine[p] = tfNumber /\ (tfRound => tfMyRound[p])
                       /\ TfCounting \subseteq TfWindow(tfNumber, tfMyRound[p]) \ {tfNumber}
    /\ pc # "round" => TfCounting \subseteq TfWindow(tfNumber, tfRound)
    /\ pc \in {"try", "current", "next", "round", "unlock", "removePath"} => tfPath # 0
    /\ pc \in {"unlock", "removePath", "initRemoves", "open", "opened", "gzip", "gzipping", "gzipped", "copy",
               "closeRemoves"} => tfMine[p] = tfNumber /\ tfMyRound[p] = tfRound
    /\ pc = "open" \/ (pc \in {"unlock", "removePath"} /\ tfAsks[p] = "next") => tfNumber \notin TfCounting
    /\ pc = "closed" \/ (pc \in {"lock", "try", "next"} /\ tfAsks[p] = "next") => Old(tfNumber, tfRound) \notin TfCounting
    /\ pc \in {"opened", "gzip", "gzipping"} => tfMine[p] \in tfFiles
    /\ pc = "gzipped" => tfMine[p] \in tfZips
    /\ pc = "initRemoves" => tfAsks[p] = "current"

TfAloneOK ==
    Alone => /\ tfStarted = {} => Numbers = {}
             /\ \A p \in tfStarted : TfProcessOK(p)

TfInv == TfTypes /\ TfAloneOK

LEMMA TfConstants ==
    /\ TfMaintain \in Nat /\ TfLast \in Nat /\ 1 <= TfMaintain /\ TfMaintain < TfLast
    /\ IsFiniteSet(TfProcs) /\ Cardinality(TfProcs) \in Nat
  BY TraceFilesAssumption, FS_CardinalityType

\* A window has no more numbers than there are files to maintain.
LEMMA TfWindowSize ==
    ASSUME NEW n \in -1..TfLast, NEW r \in BOOLEAN, n = -1 => ~r
    PROVE  IsFiniteSet(TfWindow(n, r)) /\ Cardinality(TfWindow(n, r)) <= TfMaintain
  <1> DEFINE W == TfWindow(n, r)
             S == 0..TfMaintain - 1
             f == [k \in W |-> IF k <= n THEN n - k ELSE n + TfLast - k]
  <1>1. ASSUME NEW k \in W
        PROVE  k \in 1..TfLast /\ (IF k <= n THEN n - k ELSE n + TfLast - k) \in S
    <2>1. /\ k \in 1..TfLast
          /\ (n - TfMaintain + 1 <= k /\ k <= n) \/ (r /\ n + TfLast - TfMaintain + 1 <= k)
      BY DEF TfWindow
    <2> HIDE DEF W
    <2>2. CASE k <= n
      <3>1. n - TfMaintain + 1 <= k
        BY <2>1, <2>2, TfConstants
      <3> QED
        BY <2>1, <2>2, <3>1, TfConstants
    <2>3. CASE ~(k <= n)
      <3>1. n >= 0 /\ n + TfLast - TfMaintain + 1 <= k
        BY <2>1, <2>3
      <3> QED
        BY <2>1, <2>3, <3>1, TfConstants
    <2> QED
      BY <2>2, <2>3
  <1>2. ASSUME NEW k \in W, NEW l \in W, f[k] = f[l]
        PROVE  k = l
    <2>1. /\ k \in 1..TfLast /\ l \in 1..TfLast
          /\ (IF k <= n THEN n - k ELSE n + TfLast - k) = (IF l <= n THEN n - l ELSE n + TfLast - l)
      BY <1>1, <1>2
    <2> HIDE DEF W, f
    <2>2. CASE (k <= n) = (l <= n)
      BY <2>1, <2>2, TfConstants
    <2>3. CASE k <= n /\ ~(l <= n)
      <3>1. n - k = n + TfLast - l
        BY <2>1, <2>3
      <3> QED
        BY <2>1, <2>3, <3>1, TfConstants
    <2>4. CASE ~(k <= n) /\ l <= n
      <3>1. n + TfLast - k = n - l
        BY <2>1, <2>4
      <3> QED
        BY <2>1, <2>4, <3>1, TfConstants
    <2> QED
      BY <2>1, <2>2, <2>3, <2>4
  <1>3. f \in Injection(W, S)
    BY <1>1, <1>2 DEF Injection, IsInjective
  <1>4. IsFiniteSet(S) /\ Cardinality(S) = TfMaintain
    <2>1. 0 \in Int /\ TfMaintain - 1 \in Int /\ ~(0 > TfMaintain - 1) /\ TfMaintain - 1 - 0 + 1 = TfMaintain
      BY TfConstants
    <2> QED
      BY <2>1, FS_Interval
  <1> HIDE DEF W, S, f
  <1>5. IsFiniteSet(W)
    <2>1. W \subseteq 1..TfLast
      BY <1>1
    <2>2. IsFiniteSet(1..TfLast)
      BY TfConstants, FS_Interval
    <2> QED
      BY <2>1, <2>2, FS_Subset
  <1>6. Cardinality(W) <= Cardinality(S)
    BY <1>3, <1>4, <1>5, FS_Injection
  <1> QED
    BY <1>4, <1>5, <1>6 DEF W

\* The number of the last file is in the window.
LEMMA TfWindowLast ==
    ASSUME NEW n \in 1..TfLast, NEW r \in BOOLEAN
    PROVE  n \in TfWindow(n, r)
  BY TfConstants DEF TfWindow

\* The window of the next number is what is left when the oldest file has gone,
\* and the next number.
LEMMA TfWindowNext ==
    ASSUME NEW n \in 0..TfLast, NEW r \in BOOLEAN
    PROVE  /\ NextNumber(n) \in 1..TfLast
           /\ TfWindow(n, r) \ {Old(n, r)} \subseteq TfWindow(NextNumber(n), r \/ n >= TfLast) \ {NextNumber(n)}
  <1> DEFINE m == NextNumber(n)
             s == r \/ n >= TfLast
  <1>1. m \in 1..TfLast /\ (n >= TfLast => m = 1 /\ n = TfLast) /\ (~(n >= TfLast) => m = n + 1)
    BY TfConstants DEF NextNumber
  <1>2. s \in BOOLEAN /\ (r => s) /\ (n >= TfLast => s)
    OBVIOUS
  <1> HIDE DEF m, s
  <1>3. ASSUME NEW k \in TfWindow(n, r), k # Old(n, r)
        PROVE  k \in TfWindow(m, s) \ {m}
    <2>1. /\ k \in 1..TfLast
          /\ (n - TfMaintain + 1 <= k /\ k <= n) \/ (r /\ n + TfLast - TfMaintain + 1 <= k)
      BY DEF TfWindow
    <2>2. n >= TfMaintain => k # n - TfMaintain + 1
      BY <1>3 DEF Old
    <2>3. ~(n >= TfMaintain) /\ r => k # n + TfLast - TfMaintain + 1
      BY <1>3 DEF Old
    <2>4. k \in TfWindow(m, s) /\ k # m
      <3>1. CASE n >= TfLast
        <4>1. m - TfMaintain + 1 <= 1 /\ m + TfLast - TfMaintain + 1 <= k /\ k # m /\ s
          BY <1>1, <1>2, <2>1, <2>2, <3>1, TfConstants
        <4> QED
          BY <2>1, <4>1 DEF TfWindow
      <3>2. CASE ~(n >= TfLast) /\ n - TfMaintain + 1 <= k /\ k <= n
        <4>1. m - TfMaintain + 1 <= k /\ k <= m /\ k # m
          BY <1>1, <2>1, <2>2, <3>2, TfConstants
        <4> QED
          BY <2>1, <4>1 DEF TfWindow
      <3>3. CASE ~(n >= TfLast) /\ r /\ n + TfLast - TfMaintain + 1 <= k
        <4>1. m + TfLast - TfMaintain + 1 <= k /\ k # m
          BY <1>1, <2>1, <2>3, <3>3, TfConstants
        <4> QED
          BY <1>2, <2>1, <3>3, <4>1 DEF TfWindow
      <3> QED
        BY <2>1, <3>1, <3>2, <3>3
    <2> QED
      BY <2>4
  <1> QED
    BY <1>1, <1>3 DEF m, s

\* The process that is alone.
LEMMA TfAtMostOne ==
    ASSUME NEW P \in SUBSET TfProcs, Cardinality(P) <= 1
    PROVE  /\ \A p, q \in P : p = q
           /\ \A Q \in SUBSET P : Cardinality(Q) <= 1
  <1>1. IsFiniteSet(P) /\ Cardinality(P) \in Nat
    BY TfConstants, FS_Subset, FS_CardinalityType
  <1>2. ASSUME NEW p \in P, NEW q \in P, p # q
        PROVE  FALSE
    <2>1. IsFiniteSet({q}) /\ Cardinality({q}) = 1
      BY FS_Singleton
    <2>2. IsFiniteSet({q} \cup {p}) /\ Cardinality({q} \cup {p}) = 1 + 1
      BY <1>2, <2>1, FS_AddElement
    <2>3. Cardinality({q} \cup {p}) <= Cardinality(P)
      BY <1>1, <2>2, FS_Subset
    <2> QED
      BY <1>1, <2>2, <2>3
  <1>3. ASSUME NEW Q \in SUBSET P
        PROVE  Cardinality(Q) <= 1
    <2>1. Cardinality(Q) <= Cardinality(P) /\ Cardinality(Q) \in Nat
      BY <1>1, FS_Subset, FS_CardinalityType
    <2> QED
      BY <1>1, <2>1
  <1> QED
    BY <1>2, <1>3

LEMMA TfTypesInit == TfInit => TfInv
  <1> SUFFICES ASSUME TfInit PROVE TfInv
    OBVIOUS
  <1>1. Cardinality(TfProcs) \in Nat /\ -1 \in -1..TfLast /\ 0 \in 0..TfLast
    BY TfConstants
  <1>2. TfTypes
    BY <1>1 DEF TfInit, TfTypes, Inodes, TfPlaces, Numbers, TfNumbered
  <1>3. TfAloneOK
    BY DEF TfInit, TfAloneOK, Numbers
  <1> QED
    BY <1>2, <1>3 DEF TfInv

\* The open finds an inode that nobody has open.
LEMMA TfFreeInode ==
    ASSUME TfTypes
    PROVE  \E n \in Inodes : \A q \in TfProcs : tfFd[q] # n
  <1> SUFFICES ASSUME \A n \in Inodes : \E q \in TfProcs : tfFd[q] = n
               PROVE  FALSE
    OBVIOUS
  <1> DEFINE g == [n \in Inodes |-> CHOOSE q \in TfProcs : tfFd[q] = n]
  <1>1. \A n \in Inodes : g[n] \in TfProcs /\ tfFd[g[n]] = n
    OBVIOUS
  <1>2. g \in Injection(Inodes, TfProcs)
    BY <1>1 DEF Injection, IsInjective
  <1> HIDE DEF g
  <1>3. IsFiniteSet(Inodes) /\ Cardinality(Inodes) = Cardinality(TfProcs) + 1
    <2>1. /\ 1 \in Int /\ Cardinality(TfProcs) + 1 \in Int /\ ~(1 > Cardinality(TfProcs) + 1)
          /\ Cardinality(TfProcs) + 1 - 1 + 1 = Cardinality(TfProcs) + 1
      BY TfConstants
    <2> QED
      BY <2>1, FS_Interval DEF Inodes
  <1>4. Cardinality(Inodes) <= Cardinality(TfProcs)
    BY <1>2, <1>3, TfConstants, FS_Injection
  <1> QED
    BY <1>3, <1>4, TfConstants

\* What the process p does to itself.
LEMMA TfTypesStep ==
    ASSUME TfTypes, NEW p \in TfProcs,
           \/ StartProcess(p) \/ OpenLockFile(p) \/ lockFile(p) \/ LockTimeout(p)
           \/ UnlockAndClose(p) \/ unLockFile(p)
           \/ getCurrentTraceFileNumber(p) \/ getNextTraceFileNumber(p) \/ WriteRound(p)
           \/ FlushAsksNumber(p) \/ OpenTraceFile(p) \/ InitRemoves(p)
           \/ CloseTraceFile(p) \/ ClosedFails(p) \/ GzipBegins(p) \/ GzipEnds(p)
           \/ RemoveUncompressed(p) \/ CopyClosedFile(p) \/ CloseRemoves(p) \/ finishFiles(p) \/ Crash(p)
    PROVE  TfTypes'
  <1> USE DEF TfAt, TfGoes, TfFilesUnchanged, tfInfo, tfDirectory, tfLock, ClosedOther
  <1>1. CASE StartProcess(p)
    BY <1>1 DEF StartProcess, TfTypes, TfPlaces, Numbers, TfNumbered, Inodes
  <1>2. CASE OpenLockFile(p)
    <2> DEFINE i == CHOOSE n \in Inodes : \A q \in TfProcs : tfFd[q] # n
    <2>1. i \in Inodes
      BY TfFreeInode
    <2>2. tfFd \in [TfProcs -> {0} \cup Inodes] /\ tfPath \in {0} \cup Inodes
      BY DEF TfTypes
    <2>3. tfPath' \in {0} \cup Inodes /\ tfFd' \in [TfProcs -> {0} \cup Inodes]
      <3>1. \/ tfPath' = tfPath /\ tfFd' = [tfFd EXCEPT ![p] = tfPath]
            \/ tfPath' = i /\ tfFd' = [tfFd EXCEPT ![p] = i]
        BY <1>2 DEF OpenLockFile
      <3> HIDE DEF i
      <3> QED
        BY <2>1, <2>2, <3>1
    <2> HIDE DEF i
    <2>4. /\ tfPc[p] = "lock" /\ tfPc' = [tfPc EXCEPT ![p] = "try"]
          /\ UNCHANGED <<tfInfo, tfHolder, tfAsks>> /\ TfFilesUnchanged
      BY <1>2 DEF OpenLockFile
    <2>5. Inodes' = Inodes
      BY DEF Inodes
    <2> HIDE DEF TfTypes
    <2> QED
      BY <2>3, <2>4, <2>5 DEF TfTypes, TfPlaces, Numbers, TfNumbered
  <1>3. CASE lockFile(p)
    BY <1>3 DEF lockFile, TfTypes, TfPlaces, Numbers, TfNumbered, Inodes
  <1>4. CASE LockTimeout(p)
    BY <1>4 DEF LockTimeout, TfTypes, TfPlaces, Numbers, TfNumbered, Inodes
  <1>5. CASE UnlockAndClose(p)
    BY <1>5 DEF UnlockAndClose, TfTypes, TfPlaces, Numbers, TfNumbered, Inodes
  <1>6. CASE unLockFile(p)
    BY <1>6 DEF unLockFile, TfTypes, TfPlaces, Numbers, TfNumbered, Inodes
  <1>7. CASE getCurrentTraceFileNumber(p)
    <2>1. /\ tfPc[p] = "current" /\ tfPc' = [tfPc EXCEPT ![p] = "unlock"]
          /\ tfMine' = [tfMine EXCEPT ![p] = tfNumber'] /\ tfMyRound' = [tfMyRound EXCEPT ![p] = tfRound']
          /\ UNCHANGED <<tfLock, tfAsks, tfOpen, tfDirectory, tfFailures, tfStarted, tfStale>>
      BY <1>7 DEF getCurrentTraceFileNumber, Mine
    <2>2. tfNumber' \in 0..TfLast /\ tfRound' \in BOOLEAN
      <3>1. tfNumber \in -1..TfLast /\ tfRound \in BOOLEAN
        BY DEF TfTypes
      <3>2. CASE tfNumber = -1
        <4>1. tfNumber' = 0 /\ tfRound' = FALSE
          BY <1>7, <3>2 DEF getCurrentTraceFileNumber
        <4>2. 0 \in 0..TfLast
          BY TfConstants
        <4> QED
          BY <4>1, <4>2
      <3>3. CASE tfNumber # -1
        BY <1>7, <3>1, <3>3, TfConstants DEF getCurrentTraceFileNumber
      <3> QED
        BY <3>2, <3>3
    <2>3. tfMine' \in [TfProcs -> 0..TfLast] /\ tfMyRound' \in [TfProcs -> BOOLEAN]
      BY <2>1, <2>2 DEF TfTypes
    <2>4. tfNumber' \in -1..TfLast /\ tfNumber' # -1
      BY <2>2, TfConstants
    <2>5. \A q \in TfProcs : TfNumbered(q)' => tfMine'[q] # 0
      <3>1. ~TfNumbered(p)'
        BY <2>1 DEF TfNumbered, TfTypes
      <3> QED
        BY <2>1, <3>1 DEF TfNumbered, TfTypes
    <2> QED
      BY <2>1, <2>2, <2>3, <2>4, <2>5 DEF TfTypes, TfPlaces, Numbers, Inodes
  <1>8. CASE getNextTraceFileNumber(p)
    BY <1>8, TfConstants, TfWindowNext DEF getNextTraceFileNumber, Mine, TfTypes, TfPlaces, Numbers, TfNumbered, Inodes
  <1>9. CASE WriteRound(p)
    BY <1>9 DEF WriteRound, TfTypes, TfPlaces, Numbers, TfNumbered, Inodes
  <1>10. CASE FlushAsksNumber(p)
    BY <1>10 DEF FlushAsksNumber, TfTypes, TfPlaces, Numbers, TfNumbered, Inodes
  <1>11. CASE OpenTraceFile(p)
    <2>1. tfMine[p] \in 1..TfLast /\ Numbers \subseteq 1..TfLast /\ tfStale \subseteq 1..TfLast
      BY <1>11 DEF OpenTraceFile, TfTypes, TfNumbered
    <2>2. tfFiles' \subseteq tfFiles \cup {tfMine[p]} /\ tfStale' \subseteq tfStale \cup Numbers
          /\ (tfOpen' = tfOpen \/ tfOpen' = [tfOpen EXCEPT ![p] = tfMine[p]])
          /\ tfPc' \in {[tfPc EXCEPT ![p] = "opened"], [tfPc EXCEPT ![p] = "closed"]}
          /\ tfPc[p] = "open"
          /\ UNCHANGED <<tfInfo, tfLock, tfAsks, tfMine, tfMyRound, tfParts, tfZips, tfStarted>>
      BY <1>11 DEF OpenTraceFile, Skipped
    <2>3. Numbers' \subseteq 1..TfLast /\ tfStale' \subseteq 1..TfLast
      BY <2>1, <2>2 DEF Numbers
    <2>4. tfOpen' \in [TfProcs -> 0..TfLast]
      BY <2>1, <2>2 DEF TfTypes
    <2> QED
      BY <2>1, <2>2, <2>3, <2>4 DEF TfTypes, TfPlaces, TfNumbered, Inodes
  <1>12. CASE InitRemoves(p)
    BY <1>12 DEF InitRemoves, removeOldFile, Removed, TfTypes, TfPlaces, Numbers, TfNumbered, Inodes
  <1>13. CASE CloseTraceFile(p)
    BY <1>13, TfConstants DEF CloseTraceFile, TfTypes, TfPlaces, Numbers, TfNumbered, Inodes
  <1>14. CASE ClosedFails(p)
    BY <1>14 DEF ClosedFails, Skipped, TfTypes, TfPlaces, Numbers, TfNumbered, Inodes
  <1>15. CASE GzipBegins(p)
    BY <1>15 DEF GzipBegins, TfTypes, TfPlaces, Numbers, TfNumbered, Inodes
  <1>16. CASE GzipEnds(p)
    BY <1>16 DEF GzipEnds, TfTypes, TfPlaces, Numbers, TfNumbered, Inodes
  <1>17. CASE RemoveUncompressed(p)
    BY <1>17 DEF RemoveUncompressed, TfTypes, TfPlaces, Numbers, TfNumbered, Inodes
  <1>18. CASE CopyClosedFile(p)
    BY <1>18 DEF CopyClosedFile, TfTypes, TfPlaces, Numbers, TfNumbered, Inodes
  <1>19. CASE CloseRemoves(p)
    BY <1>19 DEF CloseRemoves, removeOldFile, Removed, TfTypes, TfPlaces, Numbers, TfNumbered, Inodes
  <1>20. CASE finishFiles(p)
    BY <1>20, TfConstants DEF finishFiles, TfTypes, TfPlaces, Numbers, TfNumbered, Inodes
  <1>21. CASE Crash(p)
    <2>1. /\ tfPc' = [tfPc EXCEPT ![p] = "down"] /\ tfFd' = [tfFd EXCEPT ![p] = 0]
          /\ tfOpen' = [tfOpen EXCEPT ![p] = 0]
          /\ tfStale' = tfStale \/ tfStale' = Numbers
          /\ UNCHANGED <<tfInfo, tfPath, tfAsks, tfMine, tfMyRound, tfDirectory, tfStarted>>
      BY <1>21 DEF Crash
    <2>2. Numbers' = Numbers /\ tfStale' \subseteq 1..TfLast
      BY <2>1 DEF Numbers, TfTypes
    <2>3. tfOpen' \in [TfProcs -> 0..TfLast] /\ tfFd' \in [TfProcs -> {0} \cup Inodes]
      BY <2>1, TfConstants DEF TfTypes
    <2> QED
      BY <2>1, <2>2, <2>3 DEF TfTypes, TfPlaces, TfNumbered, Inodes
  <1> QED
    BY <1>1, <1>2, <1>3, <1>4, <1>5, <1>6, <1>7, <1>8, <1>9, <1>10, <1>11, <1>12, <1>13, <1>14, <1>15, <1>16, <1>17,
       <1>18, <1>19, <1>20, <1>21

-----------------------------------------------------------------------------
(***************************************************************************)
(* What a process that is alone does to the files that count.              *)
(***************************************************************************)
\* All but the start of a process; p is the process that is alone.
TfStep(p) ==
    \/ OpenLockFile(p) \/ lockFile(p) \/ LockTimeout(p) \/ UnlockAndClose(p) \/ unLockFile(p)
    \/ getCurrentTraceFileNumber(p) \/ getNextTraceFileNumber(p) \/ WriteRound(p)
    \/ FlushAsksNumber(p) \/ OpenTraceFile(p) \/ InitRemoves(p)
    \/ CloseTraceFile(p) \/ ClosedFails(p) \/ GzipBegins(p) \/ GzipEnds(p)
    \/ RemoveUncompressed(p) \/ CopyClosedFile(p) \/ CloseRemoves(p) \/ finishFiles(p) \/ Crash(p)

\* A removal takes the oldest file off those that count, if only by giving up on it.
LEMMA TfRemoves ==
    ASSUME NEW p \in TfProcs, removeOldFile(p)
    PROVE  TfCounting' \subseteq TfCounting \ {Old(tfMine[p], tfMyRound[p])}
  <1> DEFINE old == Old(tfMine[p], tfMyRound[p])
  <1>1. CASE old \notin Numbers /\ UNCHANGED <<tfDirectory, tfStale>>
    BY <1>1 DEF TfCounting, Numbers, tfDirectory
  <1>2. CASE Removed(old) /\ tfStale' = (tfStale \cup {old}) \cap Numbers'
    <2>1. Numbers' \subseteq Numbers
      BY <1>2 DEF Removed, Numbers
    <2> QED
      BY <1>2, <2>1 DEF TfCounting
  <1>3. CASE tfStale' = tfStale \cup {old} /\ UNCHANGED tfDirectory
    BY <1>3 DEF TfCounting, Numbers, tfDirectory
  <1> QED
    BY <1>1, <1>2, <1>3 DEF removeOldFile

\* The steps with the lock: the info file is read and written.
LEMMA TfLockStep ==
    ASSUME TfTypes, NEW p \in TfProcs, TfProcessOK(p),
           \/ OpenLockFile(p) \/ lockFile(p) \/ LockTimeout(p) \/ UnlockAndClose(p) \/ unLockFile(p)
           \/ getCurrentTraceFileNumber(p) \/ getNextTraceFileNumber(p) \/ WriteRound(p) \/ FlushAsksNumber(p)
    PROVE  TfProcessOK(p)'
  <1> USE DEF TfAt, TfGoes, TfFilesUnchanged, tfInfo, tfDirectory, tfLock
  <1>0. TfCounting' = TfCounting
    BY DEF OpenLockFile, lockFile, LockTimeout, UnlockAndClose, unLockFile, getCurrentTraceFileNumber,
           getNextTraceFileNumber, WriteRound, FlushAsksNumber, TfCounting, Numbers
  <1>1. CASE OpenLockFile(p)
    <2>1. tfPath' # 0
      BY <1>1, TfFreeInode DEF OpenLockFile, Inodes
    <2> QED
      BY <1>0, <1>1, <2>1 DEF OpenLockFile, TfTypes, TfProcessOK, TfWindow, Old
  <1>2. CASE lockFile(p)
    BY <1>0, <1>2 DEF lockFile, TfTypes, TfProcessOK, TfWindow, Old
  <1>3. CASE LockTimeout(p)
    BY <1>0, <1>3 DEF LockTimeout, TfTypes, TfProcessOK, TfWindow, Old
  <1>4. CASE UnlockAndClose(p)
    BY <1>0, <1>4 DEF UnlockAndClose, TfTypes, TfProcessOK, TfWindow, Old
  <1>5. CASE unLockFile(p)
    BY <1>0, <1>5 DEF unLockFile, TfTypes, TfProcessOK, TfWindow, Old
  <1>6. CASE getCurrentTraceFileNumber(p)
    <2>1. /\ tfPc[p] = "current" /\ tfPc'[p] = "unlock" /\ tfAsks[p] = "current"
          /\ tfMine'[p] = tfNumber' /\ tfMyRound'[p] = tfRound'
          /\ UNCHANGED <<tfPath, tfAsks>>
      BY <1>6 DEF getCurrentTraceFileNumber, Mine, TfTypes
    <2>2. TfCounting \subseteq TfWindow(tfNumber, tfRound) /\ tfPath # 0
      BY <2>1 DEF TfProcessOK
    <2>3. TfCounting' \subseteq TfWindow(tfNumber', tfRound')
      <3>1. CASE tfNumber = -1
        <4>1. TfWindow(tfNumber, tfRound) = {}
          BY <3>1, TfConstants DEF TfWindow, TfTypes
        <4> QED
          BY <1>0, <2>2, <4>1
      <3>2. CASE tfNumber # -1
        <4>1. tfNumber' = tfNumber /\ tfRound' = tfRound
          BY <1>6, <3>2 DEF getCurrentTraceFileNumber
        <4> QED
          BY <1>0, <2>2, <4>1
      <3> QED
        BY <3>1, <3>2
    <2>4. tfAsks'[p] = "current"
      BY <2>1
    <2> QED
      BY <2>1, <2>2, <2>3, <2>4 DEF TfProcessOK, TfWindow
  <1>7. CASE getNextTraceFileNumber(p)
    <2>1. /\ tfPc[p] = "next" /\ tfPc'[p] = "round" /\ tfAsks[p] = "next"
          /\ tfNumber' = NextNumber(tfNumber) /\ tfMine'[p] = tfNumber'
          /\ tfMyRound'[p] = (tfRound \/ tfNumber >= TfLast)
          /\ UNCHANGED <<tfPath, tfAsks, tfRound>>
      BY <1>7 DEF getNextTraceFileNumber, Mine, TfTypes
    <2>2. tfPath # 0 /\ TfCounting \subseteq TfWindow(tfNumber, tfRound) \ {Old(tfNumber, tfRound)}
      BY <2>1 DEF TfProcessOK
    <2>3. tfNumber \in 0..TfLast /\ tfRound \in BOOLEAN
      BY <2>1, TfConstants DEF TfTypes
    <2>4. TfCounting' \subseteq TfWindow(tfNumber', tfMyRound'[p]) \ {tfNumber'}
      BY <1>0, <2>1, <2>2, <2>3, TfWindowNext
    <2>5. tfRound' => tfMyRound'[p]
      BY <2>1
    <2> QED
      BY <2>1, <2>2, <2>4, <2>5 DEF TfProcessOK, TfWindow
  <1>8. CASE WriteRound(p)
    BY <1>0, <1>8 DEF WriteRound, TfTypes, TfProcessOK, TfWindow
  <1>9. CASE FlushAsksNumber(p)
    BY <1>0, <1>9 DEF FlushAsksNumber, TfTypes, TfProcessOK, TfWindow, Old
  <1> QED
    BY <1>1, <1>2, <1>3, <1>4, <1>5, <1>6, <1>7, <1>8, <1>9

\* The steps with the files.
LEMMA TfFileStep ==
    ASSUME TfTypes, NEW p \in TfProcs, TfProcessOK(p),
           \/ OpenTraceFile(p) \/ InitRemoves(p) \/ CloseTraceFile(p) \/ ClosedFails(p) \/ GzipBegins(p)
           \/ GzipEnds(p) \/ RemoveUncompressed(p) \/ CopyClosedFile(p) \/ CloseRemoves(p) \/ finishFiles(p)
           \/ Crash(p)
    PROVE  TfProcessOK(p)'
  <1> USE DEF TfAt, TfGoes, tfInfo, tfDirectory, tfLock, ClosedOther
  <1> DEFINE n == tfNumber
             r == tfRound
             W == TfWindow(n, r)
  <1>1. \A pc \in {"unlock", "removePath", "initRemoves", "open", "opened", "gzip", "gzipping", "gzipped", "copy",
                   "closeRemoves"} : tfPc[p] = pc => tfMine[p] = n /\ tfMyRound[p] = r /\ TfCounting \subseteq W
    BY DEF TfProcessOK
  <1>2. TfNumbered(p) => tfMine[p] \in 1..TfLast
    BY DEF TfTypes
  <1>3. TfNumbered(p) /\ tfMine[p] = n => n \in W
    BY <1>2, TfWindowLast DEF TfTypes
  <1>4. UNCHANGED <<tfNumber, tfRound, tfPath, tfAsks, tfMine, tfMyRound>> /\ W' = W
    BY DEF OpenTraceFile, InitRemoves, CloseTraceFile, ClosedFails, GzipBegins, GzipEnds, RemoveUncompressed,
           CopyClosedFile, CloseRemoves, finishFiles, Crash, TfWindow
  \* A process that is at one of these places knows no more of the files.
  <1>5. ASSUME tfPc'[p] \in {"copy", "closeRemoves"}, tfMine[p] = n, tfMyRound[p] = r, TfCounting' \subseteq W
        PROVE  TfProcessOK(p)'
    BY <1>4, <1>5 DEF TfProcessOK
  <1>6. ASSUME tfPc'[p] = "closed", TfCounting' \subseteq W \ {Old(n, r)}
        PROVE  TfProcessOK(p)'
    BY <1>4, <1>6 DEF TfProcessOK, Old
  <1>7. ASSUME tfPc'[p] = "down", TfCounting' \subseteq W
        PROVE  TfProcessOK(p)'
    BY <1>4, <1>7 DEF TfProcessOK
  <1>8. ASSUME tfPc'[p] \in {"opened", "gzip", "gzipping"}, tfMine[p] = n, tfMyRound[p] = r, TfCounting' \subseteq W,
               tfMine[p] \in tfFiles'
        PROVE  TfProcessOK(p)'
    BY <1>4, <1>8 DEF TfProcessOK
  <1>9. CASE OpenTraceFile(p)
    <2>1. tfPc[p] = "open" /\ n \notin TfCounting /\ tfMine[p] = n /\ tfMyRound[p] = r /\ TfCounting \subseteq W /\ n \in W
      BY <1>1, <1>3, <1>9 DEF OpenTraceFile, TfNumbered, TfProcessOK
    <2>2. CASE /\ tfPc' = [tfPc EXCEPT ![p] = "opened"]
               /\ tfFiles' = tfFiles \cup {tfMine[p]} /\ tfStale' = tfStale \ {tfMine[p]} /\ UNCHANGED <<tfParts, tfZips>>
      <3>1. TfCounting' \subseteq TfCounting \cup {n}
        BY <2>1, <2>2 DEF TfCounting, Numbers
      <3>2. tfPc'[p] = "opened"
        BY <2>2 DEF TfTypes
      <3> HIDE DEF W
      <3> QED
        BY <1>8, <2>1, <2>2, <3>1, <3>2
    <2>3. CASE tfPc' = [tfPc EXCEPT ![p] = "closed"] /\ Skipped(p) /\ UNCHANGED <<tfFiles, tfParts, tfZips>>
      <3>1. TfCounting' \subseteq TfCounting \ {Old(n, r)}
        BY <2>1, <2>3 DEF TfCounting, Numbers, Skipped
      <3>2. tfPc'[p] = "closed"
        BY <2>3 DEF TfTypes
      <3> HIDE DEF W
      <3> QED
        BY <1>6, <2>1, <3>1, <3>2
    <2> QED
      BY <1>9, <2>2, <2>3 DEF OpenTraceFile
  <1>10. CASE InitRemoves(p) \/ CloseRemoves(p)
    <2>1. tfPc[p] \in {"initRemoves", "closeRemoves"} /\ removeOldFile(p) /\ tfPc'[p] = "closed"
      BY <1>10 DEF InitRemoves, CloseRemoves, TfTypes
    <2>2. TfCounting' \subseteq TfCounting \ {Old(n, r)} /\ TfCounting \subseteq W
      BY <1>1, <2>1, TfRemoves
    <2> HIDE DEF W
    <2> QED
      BY <1>6, <2>1, <2>2
  <1>11. CASE CloseTraceFile(p)
    <2>1. tfPc[p] = "opened" /\ tfPc'[p] \in {"gzip", "copy"} /\ UNCHANGED tfFiles /\ TfCounting' = TfCounting
      BY <1>11 DEF CloseTraceFile, TfTypes, TfCounting, Numbers
    <2>2. tfMine[p] \in tfFiles
      BY <2>1 DEF TfProcessOK
    <2> HIDE DEF W
    <2> QED
      BY <1>1, <1>5, <1>8, <2>1, <2>2
  <1>12. CASE ClosedFails(p)
    <2>1. tfPc[p] \in {"gzip", "gzipping", "copy"} /\ tfPc'[p] = "closed" /\ Skipped(p)
          /\ UNCHANGED <<tfFiles, tfParts, tfZips>>
      BY <1>12 DEF ClosedFails, TfTypes
    <2>2. tfMine[p] = n /\ tfMyRound[p] = r /\ TfCounting \subseteq W
      BY <1>1, <2>1
    <2>3. TfCounting' \subseteq TfCounting \ {Old(n, r)}
      BY <2>1, <2>2 DEF TfCounting, Numbers, Skipped
    <2> HIDE DEF W
    <2> QED
      BY <1>6, <2>1, <2>2, <2>3
  <1>13. CASE GzipBegins(p) \/ GzipEnds(p)
    <2>1. tfPc[p] \in {"gzip", "gzipping"} /\ UNCHANGED <<tfFiles, tfStale>>
          /\ (tfPc'[p] = "gzipping" \/ (tfPc'[p] = "gzipped" /\ tfMine[p] \in tfZips'))
      BY <1>13 DEF GzipBegins, GzipEnds, TfTypes
    <2>2. tfMine[p] = n /\ tfMyRound[p] = r /\ TfCounting \subseteq W /\ n \in W /\ tfMine[p] \in tfFiles
      BY <1>1, <1>3, <2>1 DEF TfNumbered, TfProcessOK
    <2>3. TfCounting' \subseteq TfCounting \cup {n}
      BY <1>13, <2>2 DEF GzipBegins, GzipEnds, TfCounting, Numbers
    <2>4. TfCounting' \subseteq W
      BY <2>2, <2>3
    <2>5. CASE tfPc'[p] = "gzipped" /\ tfMine[p] \in tfZips'
      BY <1>4, <2>2, <2>4, <2>5 DEF TfProcessOK
    <2> HIDE DEF W
    <2> QED
      BY <1>8, <2>1, <2>2, <2>4, <2>5
  <1>14. CASE RemoveUncompressed(p) \/ CopyClosedFile(p)
    <2>1. tfPc[p] \in {"gzipped", "copy"} /\ tfPc'[p] \in {"copy", "closeRemoves"} /\ TfCounting' \subseteq TfCounting
      BY <1>14 DEF RemoveUncompressed, CopyClosedFile, TfTypes, TfCounting, Numbers
    <2>2. tfMine[p] = n /\ tfMyRound[p] = r /\ TfCounting \subseteq W
      BY <1>1, <2>1
    <2> HIDE DEF W
    <2> QED
      BY <1>5, <2>1, <2>2
  <1>15. CASE finishFiles(p)
    <2>1. tfPc[p] \in {"opened", "closed"} /\ tfPc'[p] = "down" /\ TfCounting' = TfCounting
      BY <1>15 DEF finishFiles, TfTypes, TfCounting, Numbers
    <2>2. TfCounting \subseteq W
      BY <2>1 DEF TfProcessOK
    <2> HIDE DEF W
    <2> QED
      BY <1>7, <2>1, <2>2
  \* When the crash loses that the numbers have started again, no file counts.
  <1>16. CASE Crash(p)
    <2>1. /\ tfPc'[p] = "down" /\ Numbers' = Numbers
          /\ tfStale' = IF tfPc[p] = "round" /\ tfMyRound[p] /\ ~tfRound THEN Numbers ELSE tfStale
      BY <1>16 DEF Crash, TfTypes, Numbers
    <2>2. TfCounting' \subseteq W
      <3>1. CASE tfPc[p] = "round" /\ tfMyRound[p] /\ ~tfRound
        BY <2>1, <3>1 DEF TfCounting
      <3>2. CASE tfPc[p] = "round" /\ ~(tfMyRound[p] /\ ~tfRound)
        <4>1. TfCounting' = TfCounting
          BY <2>1, <3>2 DEF TfCounting
        <4>2. tfMyRound[p] = tfRound
          BY <3>2 DEF TfProcessOK, TfTypes
        <4> QED
          BY <3>2, <4>1, <4>2 DEF TfProcessOK
      <3>3. CASE tfPc[p] # "round"
        BY <2>1, <3>3 DEF TfCounting, TfProcessOK
      <3> QED
        BY <3>1, <3>2, <3>3
    <2> HIDE DEF W
    <2> QED
      BY <1>7, <2>1, <2>2
  <1> QED
    BY <1>9, <1>10, <1>11, <1>12, <1>13, <1>14, <1>15, <1>16

LEMMA TfInvStep == TfInv /\ [TfNext]_traceFilesVars => TfInv'
  <1> SUFFICES ASSUME TfInv, [TfNext]_traceFilesVars
               PROVE  TfInv'
    OBVIOUS
  <1>0. TfTypes /\ TfAloneOK
    BY DEF TfInv
  <1>1. CASE UNCHANGED traceFilesVars
    BY <1>1 DEF traceFilesVars, tfInfo, tfLock, tfDirectory, TfInv, TfTypes, TfAloneOK, TfProcessOK, TfNumbered,
                TfCounting, TfWindow, Numbers, Alone, Old, Inodes
  <1>2. ASSUME NEW p \in TfProcs, StartProcess(p)
        PROVE  TfInv'
    <2>1. TfTypes'
      BY <1>0, <1>2, TfTypesStep
    <2>2. /\ tfPc[p] = "down" /\ tfPc' = [tfPc EXCEPT ![p] = "lock"]
          /\ tfAsks' = [tfAsks EXCEPT ![p] = "current"] /\ tfStarted' = tfStarted \cup {p}
          /\ UNCHANGED <<tfNumber, tfRound, tfFiles, tfParts, tfZips, tfStale>>
      BY <1>2 DEF StartProcess, TfAt, TfGoes, tfInfo, tfDirectory
    <2>3. ASSUME Alone', NEW q \in tfStarted'
          PROVE  TfProcessOK(q)'
      <3>1. tfStarted' \in SUBSET TfProcs /\ Cardinality(tfStarted') <= 1 /\ p \in tfStarted'
        BY <1>0, <2>2, <2>3 DEF TfTypes, Alone
      <3>2. q = p /\ Alone /\ tfStarted \subseteq {p}
        BY <2>2, <2>3, <3>1, TfAtMostOne DEF Alone
      <3>3. TfCounting' \subseteq TfWindow(tfNumber, tfRound)
        <4>1. CASE tfStarted = {}
          BY <1>0, <2>2, <3>2, <4>1 DEF TfAloneOK, TfCounting, Numbers
        <4>2. CASE p \in tfStarted
          BY <1>0, <2>2, <3>2, <4>2 DEF TfAloneOK, TfProcessOK, TfCounting, Numbers
        <4> QED
          BY <3>2, <4>1, <4>2
      <3>4. tfPc'[p] = "lock" /\ tfAsks'[p] = "current"
        BY <1>0, <2>2 DEF TfTypes
      <3> QED
        BY <2>2, <3>2, <3>3, <3>4 DEF TfProcessOK, TfWindow
    <2>4. TfAloneOK'
      BY <2>2, <2>3 DEF TfAloneOK
    <2> QED
      BY <2>1, <2>4 DEF TfInv
  <1>3. ASSUME NEW p \in TfProcs, TfStep(p)
        PROVE  TfInv'
    <2>1. TfTypes'
      BY <1>0, <1>3, TfTypesStep DEF TfStep
    <2>2. tfStarted' = tfStarted /\ tfPc[p] # "down"
      BY <1>3 DEF TfStep, OpenLockFile, lockFile, LockTimeout, UnlockAndClose, unLockFile, getCurrentTraceFileNumber,
                  getNextTraceFileNumber, WriteRound, FlushAsksNumber, OpenTraceFile, InitRemoves, CloseTraceFile,
                  ClosedFails, GzipBegins, GzipEnds, RemoveUncompressed, CopyClosedFile, CloseRemoves, finishFiles,
                  Crash, TfAt, TfFilesUnchanged, ClosedOther
    <2>3. p \in tfStarted
      BY <1>0, <2>2 DEF TfTypes
    <2>4. ASSUME Alone PROVE TfProcessOK(p)'
      <3>1. TfProcessOK(p)
        BY <1>0, <2>3, <2>4 DEF TfAloneOK
      <3> QED
        BY <1>0, <1>3, <3>1, TfLockStep, TfFileStep DEF TfStep
    <2>5. Alone => \A q \in tfStarted : q = p
      BY <1>0, <2>3, TfAtMostOne DEF TfTypes, Alone
    <2>6. Alone' <=> Alone
      BY <2>2 DEF Alone
    <2>7. TfAloneOK'
      BY <2>2, <2>3, <2>4, <2>5, <2>6 DEF TfAloneOK
    <2> QED
      BY <2>1, <2>7 DEF TfInv
  <1> QED
    BY <1>1, <1>2, <1>3 DEF TfNext, TfStep

\* The types of the trace files, and for a process that is alone which numbers
\* the files that count may have at each of its places.
THEOREM TraceFilesInvariant == TfInit /\ [][TfNext]_traceFilesVars => []TfInv
  BY TfTypesInit, TfInvStep, PTL

\* A process that is alone keeps no more files than it has to maintain, opens
\* none that counts, and takes the traces of a closed file away only when it is
\* the oldest one.
THEOREM TraceFilesAreKept == TfInit /\ [][TfNext]_traceFilesVars => TraceFilesKept
  <1>1. TfInv => FilesBounded
    <2> SUFFICES ASSUME TfInv, Alone PROVE Cardinality(TfCounting) <= TfMaintain
      BY DEF FilesBounded, TfCounting
    <2>1. PICK r \in BOOLEAN : TfCounting \subseteq TfWindow(tfNumber, r) /\ (tfNumber = -1 => ~r)
      <3>1. CASE tfStarted = {}
        BY <3>1 DEF TfInv, TfAloneOK, TfCounting
      <3>2. ASSUME NEW p \in tfStarted
            PROVE  \E r \in BOOLEAN : TfCounting \subseteq TfWindow(tfNumber, r) /\ (tfNumber = -1 => ~r)
        <4>1. TfTypes /\ TfProcessOK(p) /\ p \in TfProcs
          BY DEF TfInv, TfAloneOK, TfTypes
        <4>2. CASE tfPc[p] = "round"
          <5>1. tfMyRound[p] \in BOOLEAN /\ tfNumber # -1 /\ TfCounting \subseteq TfWindow(tfNumber, tfMyRound[p])
            BY <4>1, <4>2 DEF TfProcessOK, TfTypes
          <5> QED
            BY <5>1
        <4>3. CASE tfPc[p] # "round"
          BY <4>1, <4>3 DEF TfProcessOK, TfTypes
        <4> QED
          BY <4>2, <4>3
      <3> QED
        BY <3>1, <3>2
    <2>2. tfNumber \in -1..TfLast
      BY DEF TfInv, TfTypes
    <2>3. IsFiniteSet(TfWindow(tfNumber, r)) /\ Cardinality(TfWindow(tfNumber, r)) <= TfMaintain
      BY <2>1, <2>2, TfWindowSize
    <2>4. Cardinality(TfCounting) <= Cardinality(TfWindow(tfNumber, r))
      BY <2>1, <2>3, FS_Subset
    <2>5. Cardinality(TfCounting) \in Nat /\ Cardinality(TfWindow(tfNumber, r)) \in Nat
      BY <2>1, <2>3, FS_Subset, FS_CardinalityType
    <2> QED
      BY <2>3, <2>4, <2>5, TfConstants
  <1>2. TfInv /\ TfNext => \A p \in TfProcs : Alone /\ tfOpen'[p] # 0 /\ tfOpen[p] = 0 => tfOpen'[p] \notin Numbers \ tfStale
    <2> SUFFICES ASSUME TfInv, Alone, TfNext, NEW p \in TfProcs, tfOpen'[p] # 0, tfOpen[p] = 0
                 PROVE  tfOpen'[p] \notin TfCounting
      BY DEF TfCounting
    <2>1. tfOpen \in [TfProcs -> 0..TfLast]
      BY DEF TfInv, TfTypes
    <2>2. OpenTraceFile(p) /\ tfOpen'[p] = tfMine[p]
      BY <2>1 DEF TfNext, StartProcess, OpenLockFile, lockFile, LockTimeout, UnlockAndClose, unLockFile,
                  getCurrentTraceFileNumber, getNextTraceFileNumber, WriteRound, FlushAsksNumber, OpenTraceFile,
                  InitRemoves, CloseTraceFile, ClosedFails, GzipBegins, GzipEnds, RemoveUncompressed, CopyClosedFile,
                  CloseRemoves, finishFiles, Crash, TfFilesUnchanged, ClosedOther
    <2>3. tfPc[p] = "open" /\ TfProcessOK(p)
      BY <2>2 DEF OpenTraceFile, TfAt, TfInv, TfTypes, TfAloneOK
    <2> QED
      BY <2>2, <2>3 DEF TfProcessOK
  <1>3. TfInv /\ TfNext
            => \A n \in tfFiles \cup tfZips :
                 Alone => \/ n \in tfFiles' \cup tfZips'
                          \/ \E p \in TfProcs :
                                tfPc[p] \in {"initRemoves", "closeRemoves"} /\ n = Old(tfMine[p], tfMyRound[p])
    <2> SUFFICES ASSUME TfInv, Alone, TfNext, NEW n \in tfFiles \cup tfZips, n \notin tfFiles' \cup tfZips'
                 PROVE  \E p \in TfProcs :
                            tfPc[p] \in {"initRemoves", "closeRemoves"} /\ n = Old(tfMine[p], tfMyRound[p])
      OBVIOUS
    <2>1. PICK p \in TfProcs :
              \/ StartProcess(p) \/ TfStep(p)
      BY DEF TfNext, TfStep
    <2>2. ASSUME tfPc[p] # "down" PROVE TfProcessOK(p)
      BY <2>2 DEF TfInv, TfTypes, TfAloneOK
    <2>3. \/ InitRemoves(p) \/ CloseRemoves(p) \/ GzipBegins(p) \/ RemoveUncompressed(p)
      BY <2>1 DEF StartProcess, TfStep, OpenLockFile, lockFile, LockTimeout, UnlockAndClose, unLockFile,
                  getCurrentTraceFileNumber, getNextTraceFileNumber, WriteRound, FlushAsksNumber, OpenTraceFile,
                  CloseTraceFile, ClosedFails, GzipEnds, CopyClosedFile, finishFiles, Crash,
                  TfFilesUnchanged, ClosedOther, tfDirectory
    <2>4. CASE InitRemoves(p) \/ CloseRemoves(p)
      <3>1. removeOldFile(p) /\ tfPc[p] \in {"initRemoves", "closeRemoves"}
        BY <2>4 DEF InitRemoves, CloseRemoves, TfAt
      <3>2. n = Old(tfMine[p], tfMyRound[p])
        BY <3>1 DEF removeOldFile, Removed, tfDirectory
      <3> QED
        BY <3>1, <3>2
    <2>5. CASE GzipBegins(p)
      <3>1. tfMine[p] \in tfFiles
        BY <2>2, <2>5 DEF GzipBegins, TfAt, TfProcessOK
      <3> QED
        BY <2>5, <3>1 DEF GzipBegins
    <2>6. CASE RemoveUncompressed(p)
      <3>1. tfMine[p] \in tfZips
        BY <2>2, <2>6 DEF RemoveUncompressed, TfAt, TfProcessOK
      <3> QED
        BY <2>6, <3>1 DEF RemoveUncompressed
    <2> QED
      BY <2>3, <2>4, <2>5, <2>6
  <1>4. TfInv => TfTypeOK
    <2> SUFFICES ASSUME TfInv PROVE TfTypeOK
      OBVIOUS
    <2>1. Numbers \cup tfStale \subseteq 1..TfLast
      BY DEF TfInv, TfTypes
    <2> QED
      BY <2>1 DEF TfInv, TfTypes, TfTypeOK
  <1>5. TfInv /\ [TfNext]_traceFilesVars
          => /\ [\A p \in TfProcs :
                    Alone /\ tfOpen'[p] # 0 /\ tfOpen[p] = 0 => tfOpen'[p] \notin Numbers \ tfStale]_traceFilesVars
             /\ [\A n \in tfFiles \cup tfZips :
                    Alone => \/ n \in tfFiles' \cup tfZips'
                             \/ \E p \in TfProcs :
                                   tfPc[p] \in {"initRemoves", "closeRemoves"}
                                   /\ n = Old(tfMine[p], tfMyRound[p])]_traceFilesVars
    BY <1>2, <1>3
  <1> QED
    BY <1>1, <1>4, <1>5, TraceFilesInvariant, PTL DEF TraceFilesKept, NoFileOverwritten, ClosedFilesKept
=============================================================================
